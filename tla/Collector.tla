----------------------------- MODULE Collector -----------------------------
(***************************************************************************)
(* collector/collector.go and parser.go: the cache between the battery and *)
(* Prometheus.  Two goroutines fill it, the MQTT callback from a payload   *)
(* and the poll loop from the bridge's status (main.go), and any number of *)
(* scrapes read it.                                                        *)
(*                                                                         *)
(* The lock is a variable, and the code under it takes a step for each     *)
(* thing another goroutine must not see half done.  A sample carries the   *)
(* key it was read from, so that two samples of one series stay apart.     *)
(* Time is a clock that starts at 1; 0 is the zero time.Time.              *)
(***************************************************************************)
EXTENDS Integers, Sequences

CONSTANTS
    Scrapers,   \* goroutines that serve /metrics
    Payloads,   \* what the battery may publish
    Statuses,   \* what the bridge may answer
    TTL,        \* cfg.MetricTTL
    Second,     \* ticks of the clock to a second
    MaxDelay,   \* longest a writer takes from reading the clock to unlocking
    MaxClock    \* the model ends here

Writers == {"callback", "loop"}
\* A token of a payload; the values the parser tells apart are below.
Token == [key : STRING, value : [kind : {"int", "float", "junk"}, n : Int]]

ASSUME CollectorAssumption ==
    /\ TTL \in Int /\ Second \in Nat \ {0}
    /\ MaxDelay \in Nat /\ MaxClock \in Nat
    /\ Scrapers \cap Writers = {}
    /\ \A p \in Payloads : p \in Seq(Token)
-----------------------------------------------------------------------------
(* Payloads.  A token is a key and a value; one without '=' or without a key
   has the key NoKey.  A value reads as an integer, as another number, or not
   at all. *)

NoKey == "keyless"
NoLabel == "unlabelled"

\* Faulty on purpose: the first token of a key stays.
PutFirst(m, t) ==
    IF t.key = NoKey THEN m
    ELSE [k \in DOMAIN m \cup {t.key} |->
            IF k \in DOMAIN m THEN m[k] ELSE t.value]

\* One turn of Parse's loop.
Put(m, t) ==
    IF t.key = NoKey THEN m
    ELSE [k \in DOMAIN m \cup {t.key} |-> IF k = t.key THEN t.value ELSE m[k]]

Parse(p) ==
    LET m[i \in 0 .. Len(p)] == IF i = 0 THEN <<>> ELSE Put(m[i - 1], p[i])
    IN  m[Len(p)]

IntVal(m, k) == k \in DOMAIN m /\ m[k].kind = "int"
FloatVal(m, k) == k \in DOMAIN m /\ m[k].kind \in {"int", "float"}

\* The gauges New knows: those without a label, and those with one.
ScalarGauges ==
    {"battery_soc_percent", "battery_remaining_wh", "battery_dod_percent",
     "output_threshold_watts", "daily_battery_charge_wh",
     "daily_battery_discharge_wh", "daily_load_charge_wh",
     "daily_load_discharge_wh", "rated_output_watts", "rated_input_watts",
     "surplus_feed_in_enabled"}
LabelledGauges ==
    {"solar_input_watts", "output_watts", "output_enabled",
     "temperature_celsius", "extra_pack_connected", "battery_pack_soc_percent",
     "mqtt_m_channel"}

\* Update: which key of a payload becomes which series.
ScalarRows ==
    {<<"pe", "battery_soc_percent", NoLabel>>,
     <<"kn", "battery_remaining_wh", NoLabel>>,
     <<"do", "battery_dod_percent", NoLabel>>,
     <<"lv", "output_threshold_watts", NoLabel>>,
     <<"bc", "daily_battery_charge_wh", NoLabel>>,
     <<"bs", "daily_battery_discharge_wh", NoLabel>>,
     <<"pt", "daily_load_charge_wh", NoLabel>>,
     <<"it", "daily_load_discharge_wh", NoLabel>>,
     <<"lmo", "rated_output_watts", NoLabel>>,
     <<"lmi", "rated_input_watts", NoLabel>>}
PortRows ==
    {<<"w1", "solar_input_watts", "1">>, <<"w2", "solar_input_watts", "2">>,
     <<"g1", "output_watts", "1">>, <<"g2", "output_watts", "2">>,
     <<"o1", "output_enabled", "1">>, <<"o2", "output_enabled", "2">>,
     <<"tl", "temperature_celsius", "min">>,
     <<"th", "temperature_celsius", "max">>,
     <<"m0", "mqtt_m_channel", "0">>, <<"m1", "mqtt_m_channel", "1">>,
     <<"m2", "mqtt_m_channel", "2">>, <<"m3", "mqtt_m_channel", "3">>}

\* Faulty on purpose: the field a0, which repeats pe, is exported too.
PackRowsWithA0 ==
    {<<"b1", "extra_pack_connected", "1">>,
     <<"b2", "extra_pack_connected", "2">>,
     <<"pe", "battery_pack_soc_percent", "0">>,
     <<"a0", "battery_pack_soc_percent", "0">>,
     <<"a1", "battery_pack_soc_percent", "1">>,
     <<"a2", "battery_pack_soc_percent", "2">>}

PackRows ==
    {<<"b1", "extra_pack_connected", "1">>,
     <<"b2", "extra_pack_connected", "2">>,
     <<"pe", "battery_pack_soc_percent", "0">>,
     <<"a1", "battery_pack_soc_percent", "1">>,
     <<"a2", "battery_pack_soc_percent", "2">>}

Sample(row, v) ==
    [key |-> row[1], name |-> row[2], label |-> row[3], value |-> v]

FeedInRow == <<"tc_dis", "surplus_feed_in_enabled", NoLabel>>

\* Feed-in is on when tc_dis is 0; it has to be an integer.
PayloadSamples(m) ==
    {Sample(r, m[r[1]].n) :
        r \in {x \in ScalarRows \cup PortRows \cup PackRows :
                 FloatVal(m, x[1])}}
    \cup {Sample(r, IF m[r[1]].n = 0 THEN 1 ELSE 0) :
        r \in {x \in {FeedInRow} :
                  IntVal(m, x[1])}}

-----------------------------------------------------------------------------
(* main.go, metricValuesFromESP32Status: the fields a status holds, and which
   series each becomes.  A switch is 0 or 1. *)

StatusRows ==
    {<<"SOCPercent", "battery_soc_percent", NoLabel>>,
     <<"SOCPercent", "battery_pack_soc_percent", "0">>,
     <<"RemainingCapacityWh", "battery_remaining_wh", NoLabel>>,
     <<"DoDPercent", "battery_dod_percent", NoLabel>>,
     <<"In1PowerWatts", "solar_input_watts", "1">>,
     <<"In2PowerWatts", "solar_input_watts", "2">>,
     <<"Out1PowerWatts", "output_watts", "1">>,
     <<"Out2PowerWatts", "output_watts", "2">>,
     <<"Out1Enabled", "output_enabled", "1">>,
     <<"Out2Enabled", "output_enabled", "2">>,
     <<"TemperatureLowC", "temperature_celsius", "min">>,
     <<"TemperatureHighC", "temperature_celsius", "max">>,
     <<"DailyChargeWh", "daily_battery_charge_wh", NoLabel>>,
     <<"DailyDischargeWh", "daily_battery_discharge_wh", NoLabel>>,
     <<"DailyLoadWh", "daily_load_charge_wh", NoLabel>>}

StatusSamples(status) ==
    {Sample(r, status[r[1]]) :
        r \in {x \in StatusRows : x[1] \in DOMAIN status}}

\* UpdateMetrics: a sample whose name New does not know is dropped.
Known(samples) ==
    {x \in samples : x.name \in ScalarGauges \cup LabelledGauges}

\* What Update makes of a payload, and the fallback of a status.
PayloadUpdates ==
    {[from |-> p, samples |-> Known(PayloadSamples(Parse(p)))] : p \in Payloads}
StatusUpdates == {Known(StatusSamples(s)) : s \in Statuses}
-----------------------------------------------------------------------------
VARIABLES
    clock,
    at,                 \* where each goroutine is
    payload,            \* what Update has parsed, until it is on its way
    held,               \* the update each writer is making
    lock,               \* c.mu: "free", or the writer that holds it
    readers,            \* c.mu: the scrapes that hold it
    cached, lastUpdateAt, lastPayloadUnix, up,  \* fields of the collector
    page,               \* what each scrape has sent
    \* history variables
    last,               \* the update that was completed last
    newest              \* the latest clock reading of a completed update

fields == <<cached, lastUpdateAt, lastPayloadUnix, up>>
ghosts == <<last, newest>>
vars == <<clock, at, payload, held, lock, readers, fields, page, ghosts>>

NoUpdate == [samples |-> {}, stamp |-> 0]
NoPage == [up |-> 0, unix |-> 0, fresh |-> FALSE, gauges |-> {}]

Init ==
    /\ clock = 1
    /\ at = [g \in Writers \cup Scrapers |-> "idle"]
    /\ payload = <<>>
    /\ held = [w \in Writers |-> NoUpdate]
    /\ lock = "free" /\ readers = {}
    /\ cached = {} /\ lastUpdateAt = 0 /\ lastPayloadUnix = 0 /\ up = 0
    /\ page = [s \in Scrapers |-> NoPage]
    /\ last = NoUpdate /\ newest = 0

Goto(g, from, to) == at[g] = from /\ at' = [at EXCEPT ![g] = to]
-----------------------------------------------------------------------------
(* The writers *)

\* Update, up to the call of nowFn.  A payload without a gauge changes nothing.
Receive ==
    \E u \in PayloadUpdates :
        /\ u.samples # {}
        /\ Goto("callback", "idle", "clock")
        /\ payload' = u.from
        /\ held' = [held EXCEPT !["callback"].samples = u.samples]
        /\ UNCHANGED <<clock, lock, readers, fields, page, ghosts>>

\* A poll of the loop times out and the bridge answers ...
Answer ==
    \E u \in StatusUpdates :
        /\ u # {}
        /\ Goto("loop", "idle", "clock")
        /\ held' = [held EXCEPT !["loop"].samples = u]
        /\ UNCHANGED <<clock, payload, lock, readers, fields, page, ghosts>>

\* ... or has nothing to offer, or is not asked.
NoAnswer ==
    /\ Goto("loop", "idle", "mark")
    /\ UNCHANGED <<clock, payload, held, lock, readers, fields, page, ghosts>>

ReadClock(w) ==
    /\ Goto(w, "clock", "lock")
    /\ held' = [held EXCEPT ![w].stamp = clock]
    /\ payload' = IF w = "callback" THEN <<>> ELSE payload
    /\ UNCHANGED <<clock, lock, readers, fields, page, ghosts>>

Lock(w) ==
    /\ lock = "free" /\ readers = {}
    /\ Goto(w, "lock", "cache")
    /\ lock' = w
    /\ UNCHANGED <<clock, payload, held, readers, fields, page, ghosts>>

SetCache(w) ==
    /\ Goto(w, "cache", "stamp")
    /\ cached' = held[w].samples
    /\ UNCHANGED <<clock, payload, held, lock, readers, lastUpdateAt,
                   lastPayloadUnix, up, page, ghosts>>

SetStamp(w) ==
    /\ Goto(w, "stamp", "mark")
    /\ lastUpdateAt' = held[w].stamp
    /\ lastPayloadUnix' = held[w].stamp \div Second
    /\ lock' = "free"
    /\ last' = held[w]
    /\ newest' = IF held[w].stamp > newest THEN held[w].stamp ELSE newest
    /\ UNCHANGED <<clock, payload, held, readers, cached, up, page>>

\* handleDevicePayload marks up.
MarkUp ==
    /\ lock = "free" /\ readers = {}
    /\ Goto("callback", "mark", "idle")
    /\ up' = 1
    /\ held' = [held EXCEPT !["callback"] = NoUpdate]
    /\ UNCHANGED <<clock, payload, lock, readers, cached, lastUpdateAt,
                   lastPayloadUnix, page, ghosts>>

\* Faulty on purpose: a device that is down has no payload.
MarkDownForgets ==
    /\ lock = "free" /\ readers = {}
    /\ Goto("loop", "mark", "idle")
    /\ up' = 0
    /\ lastUpdateAt' = 0
    /\ held' = [held EXCEPT !["loop"] = NoUpdate]
    /\ UNCHANGED <<clock, payload, lock, readers, cached, lastPayloadUnix, page,
                   ghosts>>

\* runPoll marks down, whatever the bridge had.
MarkDown ==
    /\ lock = "free" /\ readers = {}
    /\ Goto("loop", "mark", "idle")
    /\ up' = 0
    /\ held' = [held EXCEPT !["loop"] = NoUpdate]
    /\ UNCHANGED <<clock, payload, lock, readers, cached, lastUpdateAt,
                   lastPayloadUnix, page, ghosts>>
-----------------------------------------------------------------------------
(* Collect *)

\* Faulty on purpose: Collect does not wait for a writer.
RLockAnyway(s) ==
    /\ Goto(s, "idle", "meta")
    /\ readers' = readers \cup {s}
    /\ UNCHANGED <<clock, payload, held, lock, fields, page, ghosts>>

RLock(s) ==
    /\ lock = "free"
    /\ Goto(s, "idle", "meta")
    /\ readers' = readers \cup {s}
    /\ UNCHANGED <<clock, payload, held, lock, fields, page, ghosts>>

SendMeta(s) ==
    /\ Goto(s, "meta", "gauges")
    /\ page' = [page EXCEPT ![s] =
                  [up |-> up, unix |-> lastPayloadUnix, gauges |-> {},
                   fresh |-> lastUpdateAt # 0 /\ clock - lastUpdateAt <= TTL]]
    /\ UNCHANGED <<clock, payload, held, lock, readers, fields, ghosts>>

SendGauges(s) ==
    /\ Goto(s, "gauges", "sent")
    /\ page' = [page EXCEPT ![s].gauges = IF page[s].fresh THEN cached ELSE {}]
    /\ UNCHANGED <<clock, payload, held, lock, readers, fields, ghosts>>

RUnlock(s) ==
    /\ Goto(s, "sent", "idle")
    /\ readers' = readers \ {s}
    /\ page' = [page EXCEPT ![s] = NoPage]
    /\ UNCHANGED <<clock, payload, held, lock, fields, ghosts>>
-----------------------------------------------------------------------------
Tick ==
    /\ clock < MaxClock
    /\ \A w \in Writers : at[w] \in {"lock", "cache", "stamp"} =>
                              clock - held[w].stamp < MaxDelay
    /\ clock' = clock + 1
    /\ UNCHANGED <<at, payload, held, lock, readers, fields, page, ghosts>>

WriterStep ==
    \/ Receive \/ Answer \/ NoAnswer \/ MarkUp \/ MarkDown
    \/ \E w \in Writers : ReadClock(w) \/ Lock(w) \/ SetCache(w) \/ SetStamp(w)

ScrapeStep ==
    \E s \in Scrapers : RLock(s) \/ SendMeta(s) \/ SendGauges(s) \/ RUnlock(s)

Next == WriterStep \/ ScrapeStep \/ Tick

Spec == Init /\ [][Next]_vars
-----------------------------------------------------------------------------
\* Collect: what one scrape sends belongs to one update: its gauges, all of
\* them and no series of an earlier update ("stale label values are not
\* exported"), with its timestamp, or no gauges once they are older than TTL.
ScrapeIsOneUpdate ==
    \A s \in Scrapers :
        at[s] = "sent" =>
            /\ page[s].unix = last.stamp \div Second
            /\ page[s].gauges = IF page[s].fresh THEN last.samples ELSE {}
            /\ page[s].fresh => last # NoUpdate

\* Collect, MustNewConstMetric and the registry: no sample makes a scrape fail.
\* Each has as many labels as its descriptor (or Collect panics), and no series
\* is sent twice (or the whole scrape is an error), whatever a payload repeats.
ScrapeSucceeds ==
    /\ \A x \in cached : x.name \in (IF x.label = NoLabel THEN ScalarGauges
                                                     ELSE LabelledGauges)
    /\ \A x, y \in cached : x.name = y.name /\ x.label = y.label => x = y

\* UpdateMetrics reads the clock before it has the lock, so the timestamp can go
\* back when the two writers cross; by no more than a writer's delay, so no
\* later freshness check is wrong by more than that.
StampLagBounded == newest - lastUpdateAt <= MaxDelay

\* Where a key is in a payload, and the value of its last token.
Places(p, k) == {i \in 1 .. Len(p) : p[i].key = k}
LastValue(p, k) ==
    p[CHOOSE i \in Places(p, k) : \A j \in Places(p, k) : j <= i].value
Tells(p, k, kinds) == Places(p, k) # {} /\ LastValue(p, k).kind \in kinds

LastSamples(p) ==
    {Sample(r, LastValue(p, r[1]).n) :
        r \in {x \in ScalarRows \cup PortRows \cup PackRows :
                 Tells(p, x[1], {"int", "float"})}}
    \cup {Sample(r, 1 - (IF LastValue(p, r[1]).n = 0 THEN 0 ELSE 1)) :
        r \in {x \in {FeedInRow} : Tells(p, x[1], {"int"})}}

\* Parse and Update: a series is exported exactly when the last token of its
\* key, wherever it is in the payload, reads as a number, and with that number;
\* tokens without a key change nothing.
LastTokenCounts ==
    at["callback"] = "clock" =>
        held["callback"].samples = LastSamples(payload)
=============================================================================
