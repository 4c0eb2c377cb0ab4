------------------------------- MODULE Bridge -------------------------------
(***************************************************************************)
(* What the exporter sees of the ESP32 BLE bridge: the answer of one       *)
(* esp32bridge.Client.Status call (esp32bridge/client.go), as the bridge's *)
(* GET /api/status handler (esp32/webserver.py) can produce it.            *)
(*                                                                         *)
(* A reply is a record.  ok = FALSE stands for every error `do` returns:   *)
(* no route, the 10 s client timeout, a non-2xx answer, undecodable JSON.  *)
(* `telemetry` says that the battery answered over BLE, so the JSON holds  *)
(* the runtime fields (soc_percent, wifi_connected, ...).  A key that is   *)
(* missing decodes to false or nil, which is why a reply without telemetry *)
(* reads wifi = FALSE and mqtt = FALSE.                                    *)
(***************************************************************************)

\* Client.Status returned a non-nil error (and the zero Status).
StatusError ==
    [ok |-> FALSE, connected |-> FALSE, wifi |-> FALSE, mqtt |-> FALSE,
     telemetry |-> FALSE]

\* The bridge answered, and has no BLE link to the battery.
StatusNoBLE == [StatusError EXCEPT !.ok = TRUE]

\* The BLE link is up, but the battery did not answer opcode 0x03 in time (or
\* sent a frame _parse_runtime_info rejects): only "connected" is present.
StatusSilent == [StatusNoBLE EXCEPT !.connected = TRUE]

\* The battery answered: its WiFi and MQTT bits are those of the runtime frame.
StatusAnswered ==
    {[StatusSilent EXCEPT !.wifi = w, !.mqtt = m, !.telemetry = TRUE] :
        w \in BOOLEAN, m \in BOOLEAN}

Replies == {StatusError, StatusNoBLE, StatusSilent} \cup StatusAnswered

\* Status.Healthy
Healthy(s) == s.connected /\ s.wifi /\ s.mqtt
=============================================================================
