------------------------------ MODULE Emulator ------------------------------
(***************************************************************************)
(* emulator/: the local stand-in for the device vendor's cloud.            *)
(*                                                                         *)
(* net/http runs every request in a goroutine of its own (Handlers), and   *)
(* each handler publishes what the request tells as Prometheus series.     *)
(* e.mu guards three fields of the Emulator and nothing else: a gauge or a *)
(* counter is atomic by itself, but the series of one request are set one  *)
(* after the other, with other handlers in between.  A step of this module *)
(* is one such update, or one critical section.  The lookup that makes a   *)
(* series makes it at 0, so a counter or a signal strength of 0 stands for *)
(* a series that is not there, too.                                        *)
(*                                                                         *)
(* One pack stands for the three packs of a report, which are alike, and   *)
(* its cell voltages for the other fields, which are set one by one in the *)
(* same way.  The named header gauges repeat elements of the header.       *)
(***************************************************************************)
EXTENDS Integers, Sequences, FiniteSets, FiniteSetsExt, Functions

CONSTANTS
    Handlers,       \* requests in progress at a time
    Infos,          \* label sets a getDateInfo request can name
    NoInfo,         \* deviceInfoLabels{}: a request that names none
    Reports,        \* setB2500Report requests
    Uploads,        \* puterrinfo requests
    Paths,          \* paths without a handler
    Cooldown,       \* logCooldown
    MaxRequests     \* bound of the model: requests in a behaviour

Free == "free"
Missing == -1       \* a field that is absent, or a gauge never set
Unset   == 0        \* a signal strength that was never set

\* An upload is its integer header and the entries of its events blob.  What
\* the device means by an event is its cause (see Value): the scan gave up, or
\* a connection was left for a reason, at a signal strength.
Causes  == [kind : {"timeout"}, reason : {0}, rssi : {0}]
               \cup [kind : {"left"}, reason : 0 .. 255, rssi : -128 .. -1]
Entries == [parts : {1, 3, 5}, code : Int, cause : Causes]

ASSUME EmulatorAssumption ==
    /\ NoInfo \notin Infos /\ Free \notin Handlers
    /\ Cooldown \in Nat \ {0} /\ MaxRequests \in Nat
    /\ \A r \in Reports :
          /\ r.v \in {"absent", "bad", "fields"}
          /\ r.max \in Nat \cup {Missing} /\ r.min \in Nat \cup {Missing}
    /\ \A u \in Uploads : u.header \in Seq(Int) /\ u.entries \in Seq(Entries)

VARIABLES
    pc,             \* control state of each handler
    req,            \* its request
    at,             \* its loop index over header or events
    prevLen,        \* updateSolarErrInfoHeader's prevLen
    mu,             \* e.mu: who holds it
    lastDeviceInfo, \* guarded by mu
    infoSeries,     \* the series of marstek_device_info
    headerLen,      \* lastErrInfoHeaderLen, guarded by mu
    headerSeries,   \* the header gauge: the series that exist, by index
    events,         \* solarErrInfoEventTotal, by code
    timeouts,       \* solarErrInfoWiFiTimeout
    reasons,        \* solarErrInfoWiFiReason, by reason
    rssi,           \* solarErrInfoWiFiRSSI, by reason
    cell,           \* cellVoltageMillivolts of the pack
    spread,         \* cellVoltageSpread of the pack
    decodeErrors,   \* reportDecodeErrors
    reports,        \* reportsTotal, by endpoint
    sinceNoted,     \* ticks since unknownRateMap took the path, up to Cooldown
    \* history variables: read by no action but to bound the requests
    received,       \* requests that arrived, by endpoint
    lastUpload,     \* the last upload that arrived
    lastReport,     \* the last report that arrived
    overlapped,     \* endpoints whose requests overlapped
    number,         \* of each handler's request, among those of its endpoint
    meant,          \* the uploads' code-75 events: which one, and its cause
    sinceLogged     \* ticks since a path was warned of, up to Cooldown

call    == <<req, number>>
handler == <<pc, call, at, prevLen>>
info    == <<lastDeviceInfo, infoSeries>>
header  == <<headerLen, headerSeries>>
wifi    == <<events, timeouts, reasons, rssi>>
pack    == <<cell, spread, decodeErrors>>
history == <<received, lastUpload, lastReport, overlapped, meant>>
vars == <<handler, mu, info, header, wifi, pack, reports, sinceNoted,
          history, sinceLogged>>

Places == {"idle", "delete", "add", "max", "min", "spread", "swap", "trim",
           "fill", "count", "decode", "signal", "rate", "warn", "reply"}
Extremes  == {"max", "min"}
Endpoints == {"date_info", "report", "solar_errinfo", "unknown"}
Requests ==
    [endpoint : {"date_info"}, info : Infos \cup {NoInfo}]
        \cup [endpoint : {"report"}, report : Reports]
        \cup [endpoint : {"solar_errinfo"}, upload : Uploads]
        \cup [endpoint : {"unknown"}, path : Paths]

-----------------------------------------------------------------------------
(* Parsing. *)

\* The report type is the first element of the header, -1 without one.
ReportType(u) == IF u.header = <<>> THEN -1 ELSE Head(u.header)
Battery(u)    == ReportType(u) \in {1, 2}

\* parseQuintuples for a report of types 1 and 2, parseTriples otherwise: an
\* entry with another number of parts is dropped and the rest is kept.
Kept(u) ==
    {i \in DOMAIN u.entries :
        u.entries[i].parts = IF Battery(u) THEN 5 ELSE 3}

\* The firmware's value of a code-75 event: 0 when the scan gave up, otherwise
\* reason | rssi << 16, as a signed number.
Value(cause) ==
    IF cause.kind = "timeout" THEN 0 ELSE cause.reason + 65536 * cause.rssi

Int16s == {n \in Int : -32768 <= n /\ n <= 32767}

\* Faulty on purpose: the half-word is not read as a signed number.
Unsigned(n) == n

\* int16 of a number of 16 bits.
Int16(n) == IF n >= 32768 THEN n - 65536 ELSE n

\* decodeErrInfoCode75: of the number as 32 bits, whether it is 0, its low
\* byte, and its high half.
HighHalf(value)    == (value \div 65536) % 65536
ScanTimeout(value) == value % 65536 = 0 /\ HighHalf(value) = 0
Reason(value)      == value % 256
RSSIDBm(value)     == Int16(HighHalf(value))

\* The codes and reasons that can occur.
Told(u)   == {u.entries[i] : i \in 1 .. Len(u.entries)}
Codes     == UNION {{e.code : e \in Told(u)} : u \in Uploads}
Reasons   == UNION {{e.cause.reason : e \in Told(u)} : u \in Uploads}

\* The code-75 events of an upload that are kept and decoded: quintuples are
\* counted only.
IsWiFi(u, i) == ~Battery(u) /\ u.entries[i].code = 75
WiFiEvents(u, n) ==
    {[upload |-> n, index |-> i, cause |-> u.entries[i].cause] :
        i \in {j \in Kept(u) : IsWiFi(u, j)}}

-----------------------------------------------------------------------------
HandlerTypes ==
    /\ pc \in [Handlers -> Places]
    /\ \A h \in Handlers : pc[h] # "idle" => req[h] \in Requests
    /\ at \in [Handlers -> Nat] /\ prevLen \in [Handlers -> Nat]
    /\ mu \in Handlers \cup {Free}
InfoTypes ==
    /\ lastDeviceInfo \in Infos \cup {NoInfo}
    /\ infoSeries \subseteq Infos \cup {NoInfo}
HeaderTypes ==
    /\ headerLen \in Nat
    /\ DOMAIN headerSeries \subseteq Nat
    /\ headerSeries \in [DOMAIN headerSeries -> Int]
EventTypes ==
    /\ events \in [Codes -> Nat]
    /\ timeouts \in Nat /\ reasons \in [Reasons -> Nat]
    /\ rssi \in [Reasons -> Int16s]
PackTypes ==
    /\ cell \in [Extremes -> Nat \cup {Missing}]
    /\ spread \in Int
CounterTypes ==
    /\ decodeErrors \in Nat /\ reports \in [Endpoints -> Nat]
    /\ sinceNoted \in [Paths -> 0 .. Cooldown]
    /\ sinceLogged \in [Paths -> 0 .. Cooldown]
TypeOK ==
    /\ HandlerTypes /\ InfoTypes /\ HeaderTypes /\ EventTypes /\ PackTypes
    /\ CounterTypes

Init ==
    /\ pc = [h \in Handlers |-> "idle"]
    /\ req = [h \in Handlers |-> NoInfo]
    /\ at = [h \in Handlers |-> 0] /\ prevLen = [h \in Handlers |-> 0]
    /\ mu = Free
    /\ lastDeviceInfo = NoInfo /\ infoSeries = {}
    /\ headerLen = 0 /\ headerSeries = [i \in {} |-> 0]
    /\ events = [c \in Codes |-> 0] /\ timeouts = 0
    /\ reasons = [r \in Reasons |-> 0] /\ rssi = [r \in Reasons |-> Unset]
    /\ cell = [k \in Extremes |-> Missing] /\ spread = 0
    /\ decodeErrors = 0
    /\ reports = [e \in Endpoints |-> 0]
    /\ sinceNoted = [p \in Paths |-> Cooldown]
    /\ received = [e \in Endpoints |-> 0]
    /\ lastUpload = NoInfo /\ lastReport = NoInfo /\ overlapped = {}
    /\ number = [h \in Handlers |-> 0] /\ meant = {}
    /\ sinceLogged = [p \in Paths |-> Cooldown]

Goto(h, l) == pc' = [pc EXCEPT ![h] = l]
Count(e)   == reports' = [reports EXCEPT ![e] = @ + 1]

\* The handler has answered: its locals are gone.
Forget(h) ==
    /\ req' = [req EXCEPT ![h] = NoInfo] /\ number' = [number EXCEPT ![h] = 0]
    /\ at' = [at EXCEPT ![h] = 0] /\ prevLen' = [prevLen EXCEPT ![h] = 0]

-----------------------------------------------------------------------------
(* A request arrives.  The handlers of puterrinfo and of unknown paths count *)
(* it at once, the others before they answer.                                *)

FirstStep(r) ==
    CASE r.endpoint = "date_info"     -> "delete"
      [] r.endpoint = "solar_errinfo" -> "swap"
      [] r.endpoint = "unknown"       -> "rate"
      [] r.endpoint = "report"        ->
            IF r.report.v = "fields" THEN "max" ELSE "reply"

Busy(h, e) == pc[h] # "idle" /\ req[h].endpoint = e

Remember(h, r) ==
    /\ received' = [received EXCEPT ![r.endpoint] = @ + 1]
    /\ number' = [number EXCEPT ![h] = received[r.endpoint] + 1]
    /\ overlapped' =
            IF \E g \in Handlers : Busy(g, r.endpoint)
            THEN overlapped \cup {r.endpoint} ELSE overlapped
    /\ lastReport' = IF r.endpoint = "report" THEN r.report ELSE lastReport
    /\ IF r.endpoint = "solar_errinfo"
         THEN /\ lastUpload' = r.upload
              /\ meant' = meant \cup WiFiEvents(r.upload, number'[h])
         ELSE UNCHANGED <<lastUpload, meant>>

Arrive(h, r) ==
    /\ pc[h] = "idle" /\ SumFunction(received) < MaxRequests
    /\ Goto(h, FirstStep(r))
    /\ req' = [req EXCEPT ![h] = r]
    /\ IF r.endpoint \in {"solar_errinfo", "unknown"}
         THEN Count(r.endpoint) ELSE UNCHANGED reports
    /\ decodeErrors' = IF r.endpoint = "report" /\ r.report.v = "bad"
                       THEN decodeErrors + 1 ELSE decodeErrors
    /\ Remember(h, r)
    /\ UNCHANGED <<at, prevLen, mu, info, header, wifi, cell, spread,
                   sinceNoted, sinceLogged>>

Reply(h) ==
    /\ pc[h] = "reply" /\ Goto(h, "idle")
    /\ IF req[h].endpoint \in {"date_info", "report"}
         THEN Count(req[h].endpoint) ELSE UNCHANGED reports
    /\ Forget(h)
    /\ UNCHANGED <<mu, info, header, wifi, pack, sinceNoted, history,
                   sinceLogged>>

-----------------------------------------------------------------------------
(* handleDateInfo: updateDeviceInfo, with mu throughout.  A scrape does not  *)
(* take mu, so the two updates of the series are two steps.                  *)

\* Faulty on purpose: without mu.
DeleteInfoUnlocked(h) ==
    /\ pc[h] = "delete" /\ Goto(h, "add")
    /\ infoSeries' = infoSeries \ ({lastDeviceInfo} \ {NoInfo})
    /\ UNCHANGED <<call, at, prevLen, mu, lastDeviceInfo, header, wifi, pack,
                   reports, sinceNoted, history, sinceLogged>>

DeleteInfo(h) ==
    /\ pc[h] = "delete" /\ mu = Free /\ Goto(h, "add")
    /\ mu' = h
    /\ infoSeries' = infoSeries \ ({lastDeviceInfo} \ {NoInfo})
    /\ UNCHANGED <<call, at, prevLen, lastDeviceInfo, header, wifi, pack,
                   reports, sinceNoted, history, sinceLogged>>

AddInfo(h) ==
    /\ pc[h] = "add" /\ Goto(h, "reply")
    /\ infoSeries' = infoSeries \cup {req[h].info}
    /\ lastDeviceInfo' = req[h].info
    /\ mu' = Free
    /\ UNCHANGED <<call, at, prevLen, header, wifi, pack, reports, sinceNoted,
                   history, sinceLogged>>

-----------------------------------------------------------------------------
(* handleReport: updateReportMetrics.                                        *)

SetCell(h, k, next) ==
    /\ pc[h] = k /\ Goto(h, next)
    /\ cell' = IF req[h].report[k] = Missing THEN cell
               ELSE [cell EXCEPT ![k] = req[h].report[k]]
    /\ UNCHANGED <<call, at, prevLen, mu, info, header, wifi, spread,
                   decodeErrors, reports, sinceNoted, history, sinceLogged>>

SetMax(h) == SetCell(h, "max", "min")
SetMin(h) == SetCell(h, "min", "spread")

\* From the request's own fields; kept when a field is missing or both are 0.
SetSpread(h) ==
    LET r == req[h].report IN
    /\ pc[h] = "spread" /\ Goto(h, "reply")
    /\ spread' = IF /\ r.max # Missing /\ r.min # Missing
                    /\ r.max > 0 \/ r.min > 0
                 THEN r.max - r.min ELSE spread
    /\ UNCHANGED <<call, at, prevLen, mu, info, header, wifi, cell,
                   decodeErrors, reports, sinceNoted, history, sinceLogged>>

-----------------------------------------------------------------------------
(* handleSolarErrInfo: updateSolarErrInfoHeader, which lets go of mu before  *)
(* it touches a series, then updateErrInfoNamedMetrics.                      *)

Header(h) == req[h].upload.header

\* Faulty on purpose: the length is not remembered.
SwapForgetful(h) ==
    /\ pc[h] = "swap" /\ mu = Free /\ Goto(h, "trim")
    /\ prevLen' = [prevLen EXCEPT ![h] = headerLen]
    /\ at' = [at EXCEPT ![h] = Len(Header(h))]
    /\ UNCHANGED <<call, mu, info, header, wifi, pack, reports, sinceNoted,
                   history, sinceLogged>>

SwapLength(h) ==
    /\ pc[h] = "swap" /\ mu = Free /\ Goto(h, "trim")
    /\ prevLen' = [prevLen EXCEPT ![h] = headerLen]
    /\ headerLen' = Len(Header(h))
    /\ at' = [at EXCEPT ![h] = Len(Header(h))]
    /\ UNCHANGED <<call, mu, info, headerSeries, wifi, pack, reports,
                   sinceNoted, history, sinceLogged>>

\* for i := len(header); i < prevLen; i++
TrimHeader(h) ==
    /\ pc[h] = "trim"
    /\ IF at[h] < prevLen[h]
         THEN /\ headerSeries' = [i \in DOMAIN headerSeries \ {at[h]} |->
                                      headerSeries[i]]
              /\ at' = [at EXCEPT ![h] = @ + 1]
              /\ UNCHANGED pc
         ELSE /\ at' = [at EXCEPT ![h] = 0] /\ Goto(h, "fill")
              /\ UNCHANGED headerSeries
    /\ UNCHANGED <<call, prevLen, mu, info, headerLen, wifi, pack, reports,
                   sinceNoted, history, sinceLogged>>

\* for i, v := range header
FillHeader(h) ==
    /\ pc[h] = "fill"
    /\ IF at[h] < Len(Header(h))
         THEN /\ headerSeries' =
                     [i \in DOMAIN headerSeries \cup {at[h]} |->
                         IF i = at[h] THEN Header(h)[i + 1]
                         ELSE headerSeries[i]]
              /\ at' = [at EXCEPT ![h] = @ + 1]
              /\ UNCHANGED pc
         ELSE /\ at' = [at EXCEPT ![h] = 1] /\ Goto(h, "count")
              /\ UNCHANGED headerSeries
    /\ UNCHANGED <<call, prevLen, mu, info, headerLen, wifi, pack, reports,
                   sinceNoted, history, sinceLogged>>

\* The next event that was kept is counted; a code-75 triple is decoded next.
CountEvent(h) ==
    LET u    == req[h].upload
        todo == {i \in Kept(u) : i >= at[h]}
    IN
    /\ pc[h] = "count"
    /\ IF todo = {}
         THEN Goto(h, "reply") /\ UNCHANGED <<at, events>>
         ELSE \E i \in todo :
              /\ \A j \in todo : i <= j
              /\ events' = [events EXCEPT ![u.entries[i].code] = @ + 1]
              /\ IF IsWiFi(u, i)
                   THEN Goto(h, "decode") /\ at' = [at EXCEPT ![h] = i]
                   ELSE UNCHANGED pc /\ at' = [at EXCEPT ![h] = i + 1]
    /\ UNCHANGED <<call, prevLen, mu, info, header, timeouts, reasons, rssi,
                   pack, reports, sinceNoted, history, sinceLogged>>

EventValue(h) == Value(req[h].upload.entries[at[h]].cause)

\* A scan that gave up, or a reason, is counted; the reason's signal strength
\* comes next.
DecodeEvent(h) ==
    LET value == EventValue(h) IN
    /\ pc[h] = "decode"
    /\ IF ScanTimeout(value)
         THEN /\ timeouts' = timeouts + 1
              /\ at' = [at EXCEPT ![h] = @ + 1] /\ Goto(h, "count")
              /\ UNCHANGED reasons
         ELSE /\ reasons' = [reasons EXCEPT ![Reason(value)] = @ + 1]
              /\ Goto(h, "signal")
              /\ UNCHANGED <<timeouts, at>>
    /\ UNCHANGED <<call, prevLen, mu, info, header, events, rssi, pack, reports,
                   sinceNoted, history, sinceLogged>>

\* The signal strength is the last one decoded for the reason.
SetSignal(h) ==
    /\ pc[h] = "signal" /\ Goto(h, "count")
    /\ at' = [at EXCEPT ![h] = @ + 1]
    /\ rssi' = [rssi EXCEPT ![Reason(EventValue(h))] = RSSIDBm(EventValue(h))]
    /\ UNCHANGED <<call, prevLen, mu, info, header, events, timeouts, reasons,
                   pack, reports, sinceNoted, history, sinceLogged>>

-----------------------------------------------------------------------------
(* handleUnknown.  The map of the last warnings is read and written in one   *)
(* critical section; the warning is logged after it.                         *)

\* Faulty on purpose: the warning is not noted.
CheckRateForgetful(h) ==
    /\ pc[h] = "rate" /\ mu = Free
    /\ Goto(h, IF sinceNoted[req[h].path] >= Cooldown THEN "warn" ELSE "reply")
    /\ UNCHANGED <<call, at, prevLen, mu, info, header, wifi, pack, reports,
                   sinceNoted, history, sinceLogged>>

CheckRate(h) ==
    /\ pc[h] = "rate" /\ mu = Free
    /\ IF sinceNoted[req[h].path] >= Cooldown
         THEN /\ sinceNoted' = [sinceNoted EXCEPT ![req[h].path] = 0]
              /\ Goto(h, "warn")
         ELSE Goto(h, "reply") /\ UNCHANGED sinceNoted
    /\ UNCHANGED <<call, at, prevLen, mu, info, header, wifi, pack, reports,
                   history, sinceLogged>>

Warn(h) ==
    /\ pc[h] = "warn" /\ Goto(h, "reply")
    /\ sinceLogged' = [sinceLogged EXCEPT ![req[h].path] = 0]
    /\ UNCHANGED <<call, at, prevLen, mu, info, header, wifi, pack, reports,
                   sinceNoted, history>>

Older(age) ==
    [p \in Paths |-> IF age[p] < Cooldown THEN age[p] + 1 ELSE Cooldown]

\* Time passes.  The log line follows the critical section at once, compared
\* with the cooldown of a minute.
Tick ==
    /\ \A h \in Handlers : pc[h] # "warn"
    /\ sinceNoted' = Older(sinceNoted) /\ sinceLogged' = Older(sinceLogged)
    /\ UNCHANGED <<handler, mu, info, header, wifi, pack, reports, history>>

-----------------------------------------------------------------------------
Handle(h) ==
    \/ DeleteInfo(h) \/ AddInfo(h)
    \/ SetMax(h) \/ SetMin(h) \/ SetSpread(h)
    \/ SwapLength(h) \/ TrimHeader(h) \/ FillHeader(h)
    \/ CountEvent(h) \/ DecodeEvent(h) \/ SetSignal(h)
    \/ CheckRate(h) \/ Warn(h) \/ Reply(h)

Next ==
    \/ \E h \in Handlers : Handle(h) \/ \E r \in Requests : Arrive(h, r)
    \/ Tick

Spec == Init /\ [][Next]_vars

-----------------------------------------------------------------------------
(* Properties. *)

Quiet == \A h \in Handlers : pc[h] = "idle"

\* updateDeviceInfo's promise that an upgrade leaves no stale combination of
\* labels, whatever requests cross: at most one series names a device, and
\* between two replacements it is the last one that was set.  The series of a
\* request without labels is the exception, it is never deleted.
DeviceInfoSingle ==
    /\ Cardinality(infoSeries \ {NoInfo}) <= 1
    /\ mu = Free => infoSeries \ {NoInfo} = {lastDeviceInfo} \ {NoInfo}

\* After any sequence of requests that did not overlap, the header series are
\* those of the last upload and no others, and the cell gauges of the last
\* report that had the pack agree with its spread.
HeaderShown ==
    headerSeries = [i \in 0 .. Len(lastUpload.header) - 1 |->
                       lastUpload.header[i + 1]]
PackShown ==
    /\ cell["max"] = lastReport.max /\ cell["min"] = lastReport.min
    /\ spread = cell["max"] - cell["min"]
HasPack(r) == r.v = "fields" /\ r.max > 0 /\ r.min > 0
Alone(e)   == received[e] > 0 /\ e \notin overlapped
LastRequestShows ==
    Quiet =>
        /\ Alone("solar_errinfo") => HeaderShown
        /\ Alone("report") => (HasPack(lastReport) => PackShown)

\* However uploads cross, every event of the firmware's code 75 that was kept
\* is counted once, as what it meant; a signal strength that is shown for a
\* reason is one that such an event reported, at any time, and when no upload is
\* in progress every counted reason shows one; every request is counted once.
TimedOut(ms)    == {m \in ms : m.cause.kind = "timeout"}
LeftFor(ms, r)  == {m \in ms : m.cause.kind = "left" /\ m.cause.reason = r}
EventsAccounted ==
    /\ timeouts <= Cardinality(TimedOut(meant))
    /\ \A r \in Reasons :
          /\ reasons[r] <= Cardinality(LeftFor(meant, r))
          /\ rssi[r] # Unset =>
                \E m \in LeftFor(meant, r) : rssi[r] = m.cause.rssi
    /\ Quiet =>
          /\ timeouts = Cardinality(TimedOut(meant))
          /\ \A r \in Reasons :
                /\ reasons[r] = Cardinality(LeftFor(meant, r))
                /\ reasons[r] > 0 => rssi[r] # Unset
          /\ reports = received

\* Two warnings of one path are a cooldown apart, though the line is logged
\* after the lock is released and several requests may be waiting for it.
WarnsSpaced ==
    [][\A h \in Handlers :
          pc[h] = "warn" /\ pc'[h] = "reply" =>
              sinceLogged[req[h].path] >= Cooldown]_vars

=============================================================================
