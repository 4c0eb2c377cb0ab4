---------------------------- MODULE MqttSession ----------------------------
(***************************************************************************)
(* mqtt/client.go: the exporter's session with the broker.                 *)
(*                                                                         *)
(* The Paho client keeps the connection up by itself (SetAutoReconnect,    *)
(* SetConnectRetry).  The session is a clean one, so the broker forgets    *)
(* the subscription with the connection; ResumeSubs is not set and the     *)
(* OnConnect handler only logs.  Subscribe is called once, by main.        *)
(***************************************************************************)
VARIABLES
    main,           \* what main and its poll loop are doing with the client
    conn,           \* the connection, as Paho sees it
    subscribed,     \* the broker will deliver the status topic
    command         \* a cd=1 is on its way to the battery

vars == <<main, conn, subscribed, command>>

TypeOK ==
    /\ main \in {"connect", "subscribe", "poll", "end"}
    /\ conn \in {"connecting", "up", "broken", "closed"}
    /\ subscribed \in BOOLEAN /\ command \in BOOLEAN

Init ==
    /\ main = "connect" /\ conn = "connecting"
    /\ subscribed = FALSE /\ command = FALSE
-----------------------------------------------------------------------------
(* Paho and the broker. *)

\* Faulty on purpose: the session is not a clean one.
ConnectedAgain ==
    /\ conn = "connecting"
    /\ conn' = "up" /\ subscribed' = (main = "poll")
    /\ UNCHANGED <<main, command>>

Connected ==
    /\ conn = "connecting"
    /\ conn' = "up" /\ subscribed' = FALSE
    /\ UNCHANGED <<main, command>>

\* Paho hands over what it has received, and reconnects.  What was sent may or
\* may not have reached the broker.
ConnectionLost ==
    /\ conn \in {"up", "broken"}
    /\ conn' = "connecting" /\ subscribed' = FALSE
    /\ command' \in {command, FALSE}
    /\ UNCHANGED main
-----------------------------------------------------------------------------
(* The client's methods, as main calls them. *)

Connect ==
    /\ main = "connect" /\ conn = "up"
    /\ main' = "subscribe"
    /\ UNCHANGED <<conn, subscribed, command>>

\* ctx is cancelled first: main exits before its deferred Close.
ConnectCancelled ==
    /\ main = "connect"
    /\ main' = "end"
    /\ UNCHANGED <<conn, subscribed, command>>

Subscribe ==
    /\ main = "subscribe" /\ conn = "up"
    /\ main' = "poll" /\ subscribed' = TRUE
    /\ UNCHANGED <<conn, command>>

\* The broker refuses, or the connection is gone: main exits.
SubscribeFails ==
    /\ main = "subscribe"
    /\ main' = "end" /\ conn' = "closed"
    /\ UNCHANGED <<subscribed, command>>

\* Faulty on purpose: the command goes to another topic.
PollMisaddressed == main = "poll" /\ UNCHANGED vars

\* QoS 0: while Paho reconnects the message is dropped, and no error returned.
Poll ==
    /\ main = "poll"
    /\ command' = (command \/ conn = "up")
    /\ UNCHANGED <<main, conn, subscribed>>

\* The write fails; Paho will give up the connection.
PollFails ==
    /\ main = "poll" /\ conn \in {"up", "broken"}
    /\ conn' = "broken"
    /\ UNCHANGED <<main, subscribed, command>>

Close ==
    /\ main = "poll"
    /\ main' = "end" /\ conn' = "closed" /\ subscribed' = FALSE
    /\ UNCHANGED command
-----------------------------------------------------------------------------
\* The battery publishes its status, in answer to a poll or unasked.
Publish ==
    /\ command' = FALSE
    /\ UNCHANGED <<main, conn, subscribed>>
=============================================================================
