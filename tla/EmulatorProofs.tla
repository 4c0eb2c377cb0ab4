--------------------------- MODULE EmulatorProofs ---------------------------
(***************************************************************************)
(* The safety properties of the emulator, for any number of requests in    *)
(* progress, any uploads and reports, any paths and labels and any         *)
(* cooldown.  The proofs go in layers, each resting on the ones before:    *)
(*                                                                         *)
(*   IInv       what e.mu makes whole: who holds it and what the device    *)
(*              series are meanwhile, how far the map of unknown paths is  *)
(*              ahead of the log;                                          *)
(*   TypeInv    the types, and which requests are at which places;         *)
(*   HeaderInv, PackInv                                                    *)
(*              how far the one handler of an endpoint is with its series, *)
(*              as long as requests of the endpoint do not overlap;        *)
(*   UploadInv, CountInv, SignalInv                                        *)
(*              which events have been counted, however uploads cross, and *)
(*              whose signal strength is shown or about to be;             *)
(*   ReportsInv how many requests have still to be counted.                *)
(***************************************************************************)
EXTENDS Emulator, FiniteSetTheorems, TLAPS

Warning(h, p) == pc[h] = "warn" /\ req[h].path = p

ShapeInv ==
    /\ pc \in [Handlers -> Places]
    /\ req \in [Handlers -> Requests \cup {NoInfo}]
    /\ mu \in Handlers \cup {Free}
    /\ \A h \in Handlers :
          /\ pc[h] = "add" => req[h].info \in Infos \cup {NoInfo}
          /\ pc[h] = "delete" => req[h].info \in Infos \cup {NoInfo}
          /\ pc[h] \in {"rate", "warn"} => req[h].path \in Paths

InfoInv ==
    /\ \A h \in Handlers : pc[h] = "add" <=> mu = h
    /\ mu # Free => infoSeries \ {NoInfo} = {}
    /\ mu = Free => infoSeries \ {NoInfo} = {lastDeviceInfo} \ {NoInfo}

WarnInv ==
    /\ sinceNoted \in [Paths -> 0 .. Cooldown]
    /\ sinceLogged \in [Paths -> 0 .. Cooldown]
    /\ \A h \in Handlers, p \in Paths :
          Warning(h, p) => sinceNoted[p] = 0 /\ sinceLogged[p] = Cooldown
    /\ \A g, h \in Handlers, p \in Paths :
          Warning(g, p) /\ Warning(h, p) => g = h
    /\ \A p \in Paths :
          (\A h \in Handlers : ~Warning(h, p)) =>
              sinceNoted[p] <= sinceLogged[p]

IInv == ShapeInv /\ InfoInv /\ WarnInv


\* A step of a handler outside the two critical regions: it touches nothing of
\* what the invariant is about and goes to no place inside them.
Inside == {"delete", "add", "rate", "warn"}
Elsewhere(h) ==
    /\ pc[h] \notin Inside /\ pc'[h] \notin Inside
    /\ pc' \in [Handlers -> Places]
    /\ req' \in [Handlers -> Requests \cup {NoInfo}]
    /\ \A g \in Handlers \ {h} : pc'[g] = pc[g] /\ req'[g] = req[g]
    /\ UNCHANGED <<mu, info, sinceNoted, sinceLogged>>

\* The steps that report cells, the header and the events, and the answer, are
\* such steps.
LEMMA OtherSteps ==
    ASSUME ShapeInv, NEW h \in Handlers,
           \/ SetMax(h) \/ SetMin(h) \/ SetSpread(h)
           \/ SwapLength(h) \/ TrimHeader(h) \/ FillHeader(h)
           \/ CountEvent(h) \/ DecodeEvent(h) \/ SetSignal(h) \/ Reply(h)
    PROVE  Elsewhere(h)
<1>1. CASE SetMax(h)
  BY <1>1
     DEF SetMax, SetCell, Goto, Elsewhere, Inside, info, call, ShapeInv, Places
<1>2. CASE SetMin(h)
  BY <1>2
     DEF SetMin, SetCell, Goto, Elsewhere, Inside, info, call, ShapeInv, Places
<1>3. CASE SetSpread(h)
  BY <1>3 DEF SetSpread, Goto, Elsewhere, Inside, info, call, ShapeInv, Places
<1>4. CASE SwapLength(h)
  BY <1>4 DEF SwapLength, Goto, Elsewhere, Inside, info, call, ShapeInv, Places
<1>5. CASE TrimHeader(h)
  BY <1>5 DEF TrimHeader, Goto, Elsewhere, Inside, info, call, ShapeInv, Places
<1>6. CASE FillHeader(h)
  BY <1>6 DEF FillHeader, Goto, Elsewhere, Inside, info, call, ShapeInv, Places
<1>7. CASE CountEvent(h)
  BY <1>7 DEF CountEvent, Goto, Elsewhere, Inside, info, call, ShapeInv, Places
<1>8. CASE DecodeEvent(h)
  BY <1>8 DEF DecodeEvent, Goto, Elsewhere, Inside, info, call, ShapeInv, Places
<1>9. CASE Reply(h)
  BY <1>9
     DEF Reply, Forget, Goto, Elsewhere, Inside, info, call, ShapeInv, Places
<1>10. CASE SetSignal(h)
  BY <1>10 DEF SetSignal, Goto, Elsewhere, Inside, info, call, ShapeInv, Places
<1> QED
  BY <1>1, <1>2, <1>3, <1>4, <1>5, <1>6, <1>7, <1>8, <1>9, <1>10

\* Such a step keeps the invariant.
LEMMA ElsewhereKeeps ==
    ASSUME IInv, NEW h \in Handlers, Elsewhere(h)
    PROVE  IInv'
<1>1. ShapeInv'
  BY DEF IInv, ShapeInv, Elsewhere, Inside
<1>2. InfoInv'
  BY DEF IInv, InfoInv, Elsewhere, Inside, info
<1>3. \A g \in Handlers, p \in Paths : Warning(g, p)' <=> Warning(g, p)
  BY DEF Warning, Elsewhere, Inside
<1>4. WarnInv'
  BY <1>3 DEF IInv, WarnInv, Elsewhere
<1> QED
  BY <1>1, <1>2, <1>4 DEF IInv

\* A request arrives at a place of its endpoint, with what the place needs.
LEMMA FirstSteps ==
    ASSUME NEW r \in Requests
    PROVE  /\ FirstStep(r) \in Places \ {"add", "warn"}
           /\ FirstStep(r) = "delete" => r.info \in Infos \cup {NoInfo}
           /\ FirstStep(r) = "rate" => r.path \in Paths
<1>1. CASE r \in [endpoint : {"date_info"}, info : Infos \cup {NoInfo}]
  BY <1>1 DEF FirstStep, Places
<1>2. CASE r \in [endpoint : {"report"}, report : Reports]
  BY <1>2 DEF FirstStep, Places
<1>3. CASE r \in [endpoint : {"solar_errinfo"}, upload : Uploads]
  BY <1>3 DEF FirstStep, Places
<1>4. CASE r \in [endpoint : {"unknown"}, path : Paths]
  BY <1>4 DEF FirstStep, Places
<1> QED
  BY <1>1, <1>2, <1>3, <1>4 DEF Requests

\* The arrival of a request keeps the invariant.
LEMMA ArriveKeeps ==
    ASSUME IInv, NEW h \in Handlers, NEW r \in Requests, Arrive(h, r)
    PROVE  IInv'
<1>1. /\ pc' = [pc EXCEPT ![h] = FirstStep(r)] /\ pc[h] = "idle"
      /\ req' = [req EXCEPT ![h] = r]
      /\ UNCHANGED <<mu, lastDeviceInfo, infoSeries, sinceNoted, sinceLogged>>
  BY DEF Arrive, Remember, Goto, info
<1>2. ShapeInv'
  BY <1>1, FirstSteps DEF IInv, ShapeInv
<1>3. InfoInv'
  BY <1>1, FirstSteps DEF IInv, ShapeInv, InfoInv
<1>4. \A g \in Handlers, p \in Paths : Warning(g, p)' <=> Warning(g, p)
  BY <1>1, FirstSteps DEF IInv, ShapeInv, Warning
<1>5. WarnInv'
  BY <1>1, <1>4 DEF IInv, WarnInv
<1> QED
  BY <1>2, <1>3, <1>5 DEF IInv

\* The two halves of updateDeviceInfo keep the invariant: the first takes mu
\* and takes the last device's series away, the second adds one and leaves mu.
LEMMA InfoKeeps ==
    ASSUME EmulatorAssumption, IInv, NEW h \in Handlers,
           DeleteInfo(h) \/ AddInfo(h)
    PROVE  IInv'
<1>1. CASE DeleteInfo(h)
  <2>1. /\ pc' = [pc EXCEPT ![h] = "add"] /\ pc[h] = "delete"
        /\ mu = Free /\ mu' = h
        /\ infoSeries' = infoSeries \ ({lastDeviceInfo} \ {NoInfo})
        /\ UNCHANGED <<req, lastDeviceInfo, sinceNoted, sinceLogged>>
    BY <1>1 DEF DeleteInfo, Goto, call
  <2>2. ShapeInv'
    BY <2>1 DEF IInv, ShapeInv, Places
  <2>3. InfoInv'
    BY <2>1 DEF IInv, ShapeInv, InfoInv, EmulatorAssumption
  <2>4. \A g \in Handlers, p \in Paths : Warning(g, p)' <=> Warning(g, p)
    BY <2>1 DEF IInv, ShapeInv, Warning
  <2>5. WarnInv'
    BY <2>1, <2>4 DEF IInv, WarnInv
  <2> QED
    BY <2>2, <2>3, <2>5 DEF IInv
<1>2. CASE AddInfo(h)
  <2>1. /\ pc' = [pc EXCEPT ![h] = "reply"] /\ pc[h] = "add"
        /\ mu' = Free /\ lastDeviceInfo' = req[h].info
        /\ infoSeries' = infoSeries \cup {req[h].info}
        /\ UNCHANGED <<req, sinceNoted, sinceLogged>>
    BY <1>2 DEF AddInfo, Goto, call
  <2>2. ShapeInv'
    BY <2>1 DEF IInv, ShapeInv, Places
  <2>3. InfoInv'
    BY <2>1 DEF IInv, ShapeInv, InfoInv, EmulatorAssumption
  <2>4. \A g \in Handlers, p \in Paths : Warning(g, p)' <=> Warning(g, p)
    BY <2>1 DEF IInv, ShapeInv, Warning
  <2>5. WarnInv'
    BY <2>1, <2>4 DEF IInv, WarnInv
  <2> QED
    BY <2>2, <2>3, <2>5 DEF IInv
<1> QED
  BY <1>1, <1>2

\* The look at the map of unknown paths keeps the invariant: a path whose
\* cooldown is over has nobody on the way to log it.
LEMMA RateKeeps ==
    ASSUME EmulatorAssumption, IInv, NEW h \in Handlers, CheckRate(h)
    PROVE  IInv'
<1> DEFINE p == req[h].path
<1>1. /\ pc[h] = "rate" /\ p \in Paths
      /\ UNCHANGED <<req, mu, lastDeviceInfo, infoSeries, sinceLogged>>
  BY DEF CheckRate, IInv, ShapeInv, info, call
<1>2. CASE sinceNoted[p] >= Cooldown
  <2>1. /\ sinceNoted' = [sinceNoted EXCEPT ![p] = 0]
        /\ pc' = [pc EXCEPT ![h] = "warn"]
    BY <1>2 DEF CheckRate, Goto
  <2>2. \A g \in Handlers : ~Warning(g, p)
    BY <1>1, <1>2 DEF IInv, WarnInv, EmulatorAssumption
  <2>3. sinceLogged[p] = Cooldown
    BY <1>1, <1>2, <2>2 DEF IInv, WarnInv, EmulatorAssumption
  <2>4. ShapeInv'
    BY <1>1, <2>1 DEF IInv, ShapeInv, Places
  <2>5. InfoInv'
    BY <1>1, <2>1 DEF IInv, ShapeInv, InfoInv
  <2>6. \A g \in Handlers, q \in Paths :
           Warning(g, q)' <=> Warning(g, q) \/ (g = h /\ q = p)
    BY <1>1, <2>1 DEF IInv, ShapeInv, Warning
  <2>7. WarnInv'
    <3>1. /\ (sinceNoted \in [Paths -> 0 .. Cooldown])'
          /\ (sinceLogged \in [Paths -> 0 .. Cooldown])'
      BY <1>1, <2>1 DEF IInv, WarnInv, EmulatorAssumption
    <3>2. \A g \in Handlers, q \in Paths :
             Warning(g, q)' => sinceNoted'[q] = 0 /\ sinceLogged'[q] = Cooldown
      BY <1>1, <2>1, <2>2, <2>3, <2>6 DEF IInv, WarnInv
    <3>3. \A g, k \in Handlers, q \in Paths :
             Warning(g, q)' /\ Warning(k, q)' => g = k
      BY <2>2, <2>6 DEF IInv, WarnInv
    <3>4. \A q \in Paths :
             (\A g \in Handlers : ~Warning(g, q)') =>
                 sinceNoted'[q] <= sinceLogged'[q]
      BY <1>1, <2>1, <2>6 DEF IInv, WarnInv
    <3> QED
      BY <3>1, <3>2, <3>3, <3>4 DEF WarnInv
  <2> QED
    BY <2>4, <2>5, <2>7 DEF IInv
<1>3. CASE ~(sinceNoted[p] >= Cooldown)
  <2>1. sinceNoted' = sinceNoted /\ pc' = [pc EXCEPT ![h] = "reply"]
    BY <1>3 DEF CheckRate, Goto
  <2>2. ShapeInv'
    BY <1>1, <2>1 DEF IInv, ShapeInv, Places
  <2>3. InfoInv'
    BY <1>1, <2>1 DEF IInv, ShapeInv, InfoInv
  <2>4. \A g \in Handlers, q \in Paths : Warning(g, q)' <=> Warning(g, q)
    BY <1>1, <2>1 DEF IInv, ShapeInv, Warning
  <2>5. WarnInv'
    BY <1>1, <2>1, <2>4 DEF IInv, WarnInv
  <2> QED
    BY <2>2, <2>3, <2>5 DEF IInv
<1> QED
  BY <1>2, <1>3

\* The log line keeps the invariant: no other handler is about to log the path.
LEMMA WarnKeeps ==
    ASSUME EmulatorAssumption, IInv, NEW h \in Handlers, Warn(h)
    PROVE  IInv'
<1> DEFINE p == req[h].path
<1>1. /\ pc[h] = "warn" /\ p \in Paths
      /\ pc' = [pc EXCEPT ![h] = "reply"]
      /\ sinceLogged' = [sinceLogged EXCEPT ![p] = 0]
      /\ UNCHANGED <<req, mu, lastDeviceInfo, infoSeries, sinceNoted>>
  BY DEF Warn, Goto, IInv, ShapeInv, info, call
<1>2. ShapeInv'
  BY <1>1 DEF IInv, ShapeInv, Places
<1>3. InfoInv'
  BY <1>1 DEF IInv, ShapeInv, InfoInv
<1>4. \A g \in Handlers, q \in Paths :
         Warning(g, q)' <=> Warning(g, q) /\ g # h
  BY <1>1 DEF IInv, ShapeInv, Warning
<1>5. Warning(h, p)
  BY <1>1 DEF Warning
<1>6. \A g \in Handlers : ~Warning(g, p)'
  BY <1>1, <1>4, <1>5 DEF IInv, WarnInv
<1>7. WarnInv'
  <2>1. /\ (sinceNoted \in [Paths -> 0 .. Cooldown])'
        /\ (sinceLogged \in [Paths -> 0 .. Cooldown])'
    BY <1>1 DEF IInv, WarnInv, EmulatorAssumption
  <2>2. \A g \in Handlers, q \in Paths :
           Warning(g, q)' => sinceNoted'[q] = 0 /\ sinceLogged'[q] = Cooldown
    BY <1>1, <1>4, <1>6 DEF IInv, WarnInv
  <2>3. \A g, k \in Handlers, q \in Paths :
           Warning(g, q)' /\ Warning(k, q)' => g = k
    BY <1>4 DEF IInv, WarnInv
  <2>4. ASSUME NEW q \in Paths, \A g \in Handlers : ~Warning(g, q)'
        PROVE  sinceNoted'[q] <= sinceLogged'[q]
    <3>1. CASE q = p
      BY <1>1, <1>5, <3>1 DEF IInv, WarnInv
    <3>2. CASE q # p
      <4>1. ~Warning(h, q)
        BY <1>1, <3>2 DEF Warning
      <4> QED
        BY <1>1, <1>4, <2>4, <3>2, <4>1 DEF IInv, WarnInv
    <3> QED
      BY <3>1, <3>2
  <2> QED
    BY <2>1, <2>2, <2>3, <2>4 DEF WarnInv
<1> QED
  BY <1>2, <1>3, <1>7 DEF IInv

\* The passing of time keeps the invariant: nobody is about to log.
LEMMA TickKeeps ==
    ASSUME EmulatorAssumption, IInv, Tick
    PROVE  IInv'
<1>1. /\ UNCHANGED <<pc, req, mu, lastDeviceInfo, infoSeries>>
      /\ sinceNoted' = Older(sinceNoted) /\ sinceLogged' = Older(sinceLogged)
      /\ \A h \in Handlers : pc[h] # "warn"
  BY DEF Tick, handler, call, info
<1>2. ShapeInv' /\ InfoInv'
  BY <1>1 DEF IInv, ShapeInv, InfoInv
<1>3. \A h \in Handlers, p \in Paths : ~Warning(h, p) /\ ~Warning(h, p)'
  BY <1>1 DEF Warning
<1>4. \A p \in Paths : sinceNoted[p] <= sinceLogged[p]
  BY <1>3 DEF IInv, WarnInv
<1>5. WarnInv'
  <2>1. /\ (sinceNoted \in [Paths -> 0 .. Cooldown])'
        /\ (sinceLogged \in [Paths -> 0 .. Cooldown])'
    BY <1>1 DEF IInv, WarnInv, EmulatorAssumption, Older
  <2>2. \A p \in Paths : sinceNoted'[p] <= sinceLogged'[p]
    BY <1>1, <1>4 DEF IInv, WarnInv, EmulatorAssumption, Older
  <2> QED
    BY <1>3, <2>1, <2>2 DEF WarnInv
<1> QED
  BY <1>2, <1>5 DEF IInv

\* The invariant holds in every state of the emulator.
THEOREM Invariance == Spec => []IInv
<1> USE EmulatorAssumption
<1>1. Init => IInv
  BY DEF Init, IInv, ShapeInv, Places, InfoInv, WarnInv, Warning,
         EmulatorAssumption
<1>2. IInv /\ [Next]_vars => IInv'
  <2> SUFFICES ASSUME IInv, [Next]_vars PROVE IInv'
    OBVIOUS
  <2>1. ASSUME NEW h \in Handlers, Handle(h) PROVE IInv'
    <3>1. CASE DeleteInfo(h) \/ AddInfo(h)
      BY <3>1, InfoKeeps
    <3>2. CASE CheckRate(h)
      BY <3>2, RateKeeps
    <3>3. CASE Warn(h)
      BY <3>3, WarnKeeps
    <3>4. CASE \/ SetMax(h) \/ SetMin(h) \/ SetSpread(h)
               \/ SwapLength(h) \/ TrimHeader(h) \/ FillHeader(h)
               \/ CountEvent(h) \/ DecodeEvent(h) \/ SetSignal(h) \/ Reply(h)
      BY <3>4, OtherSteps, ElsewhereKeeps DEF IInv
    <3> QED
      BY <2>1, <3>1, <3>2, <3>3, <3>4 DEF Handle
  <2>2. ASSUME NEW h \in Handlers, NEW r \in Requests, Arrive(h, r)
        PROVE  IInv'
    BY <2>2, ArriveKeeps
  <2>3. CASE Tick
    BY <2>3, TickKeeps
  <2>4. CASE UNCHANGED vars
    BY <2>4
       DEF IInv, ShapeInv, InfoInv, WarnInv, Warning, vars, handler, call, info
  <2> QED
    BY <2>1, <2>2, <2>3, <2>4 DEF Next
<1> QED
  BY <1>1, <1>2, PTL DEF Spec

\* At most one series of marstek_device_info names a device, whatever requests
\* cross, and it is the last one set whenever mu is free.
THEOREM OneDevice == Spec => []DeviceInfoSingle
<1>1. IInv => DeviceInfoSingle
  <2> SUFFICES ASSUME IInv PROVE DeviceInfoSingle
    OBVIOUS
  <2>1. \/ infoSeries \ {NoInfo} = {}
        \/ infoSeries \ {NoInfo} = {lastDeviceInfo}
    BY DEF IInv, InfoInv
  <2>2. Cardinality(infoSeries \ {NoInfo}) \in {0, 1}
    BY <2>1, FS_EmptySet, FS_Singleton
  <2> QED
    BY <2>2 DEF DeviceInfoSingle, IInv, InfoInv
<1> QED
  BY <1>1, Invariance, PTL

\* Two warnings of one unknown path are logged at least a cooldown apart.
THEOREM WarningsApart == Spec => WarnsSpaced
<1>1. IInv => \A h \in Handlers :
                 pc[h] = "warn" => sinceLogged[req[h].path] >= Cooldown
  BY EmulatorAssumption
     DEF IInv, ShapeInv, WarnInv, Warning, EmulatorAssumption
<1>2. IInv /\ [Next]_vars =>
        [\A h \in Handlers :
            pc[h] = "warn" /\ pc'[h] = "reply" =>
                sinceLogged[req[h].path] >= Cooldown]_vars
  BY <1>1
<1> QED
  BY <1>2, Invariance, PTL DEF Spec, WarnsSpaced

\* The two halves of a code-75 value do not disturb each other.
LEMMA HalfWords ==
    ASSUME NEW x \in 0 .. 255, NEW y \in -128 .. -1
    PROVE  /\ (x + 65536 * y) % 256 = x
           /\ (x + 65536 * y) \div 65536 = y
           /\ y % 65536 = 65536 + y
           /\ Int16(65536 + y) = y /\ 65536 + y # 0
<1>1. (x + 65536 * y) % 256 = x
  OBVIOUS
<1>2. (x + 65536 * y) \div 65536 = y
  OBVIOUS
<1>3. y % 65536 = 65536 + y
  OBVIOUS
<1>4. Int16(65536 + y) = y /\ 65536 + y # 0
  BY DEF Int16
<1> QED
  BY <1>1, <1>2, <1>3, <1>4

\* The signal strength of a cause fits the type it is decoded to, and is never
\* the value of a series that was not set.
LEMMA CauseFields ==
    ASSUME NEW c \in Causes
    PROVE  /\ c.kind \in {"timeout", "left"} /\ c.rssi \in Int16s
           /\ c.kind = "left" => c.rssi # Unset
<1>1. CASE c \in [kind : {"timeout"}, reason : {0}, rssi : {0}]
  BY <1>1 DEF Int16s
<1>2. CASE c \in [kind : {"left"}, reason : 0 .. 255, rssi : -128 .. -1]
  <2>1. c.rssi \in -128 .. -1 /\ c.kind = "left"
    BY <1>2
  <2>2. /\ c.rssi >= -32768 /\ c.rssi <= 32767 /\ c.rssi \in Int
        /\ c.rssi # Unset
    BY <2>1 DEF Unset
  <2> QED
    BY <2>1, <2>2 DEF Int16s
<1> QED
  BY <1>1, <1>2 DEF Causes

\* What decodeErrInfoCode75 reads is what the device meant, for each of its
\* values: the signal strength comes back with its sign, and 0 is the value of
\* a scan timeout only.
LEMMA DecodedIsMeant ==
    ASSUME NEW c \in Causes
    PROVE  /\ ScanTimeout(Value(c)) <=> c.kind = "timeout"
           /\ Reason(Value(c)) = c.reason
           /\ RSSIDBm(Value(c)) = c.rssi
<1>1. CASE c \in [kind : {"timeout"}, reason : {0}, rssi : {0}]
  <2>1. Value(c) = 0 /\ c.kind = "timeout" /\ c.reason = 0 /\ c.rssi = 0
    BY <1>1 DEF Value
  <2>2. /\ 0 % 65536 = 0 /\ 0 \div 65536 = 0 /\ 0 % 256 = 0
        /\ Int16(0) = 0
    BY DEF Int16
  <2> QED
    BY <2>1, <2>2 DEF ScanTimeout, Reason, RSSIDBm, HighHalf
<1>2. CASE c \in [kind : {"left"}, reason : 0 .. 255, rssi : -128 .. -1]
  <2>1. /\ c.kind = "left" /\ c.reason \in 0 .. 255 /\ c.rssi \in -128 .. -1
        /\ Value(c) = c.reason + 65536 * c.rssi
    BY <1>2 DEF Value
  <2>2. /\ Value(c) % 256 = c.reason
        /\ (Value(c) \div 65536) % 65536 = 65536 + c.rssi
        /\ Int16((Value(c) \div 65536) % 65536) = c.rssi
        /\ (Value(c) \div 65536) % 65536 # 0
    BY <2>1, HalfWords
  <2> QED
    BY <2>1, <2>2 DEF ScanTimeout, Reason, RSSIDBm, HighHalf
<1> QED
  BY <1>1, <1>2 DEF Causes

\* What a request carries, by its endpoint.
LEMMA RequestFields ==
    ASSUME NEW r \in Requests
    PROVE  /\ r.endpoint \in Endpoints
           /\ r.endpoint = "date_info" => r.info \in Infos \cup {NoInfo}
           /\ r.endpoint = "report" => r.report \in Reports
           /\ r.endpoint = "solar_errinfo" => r.upload \in Uploads
           /\ r.endpoint = "unknown" => r.path \in Paths
BY DEF Requests, Endpoints

\* What an upload carries.
LEMMA UploadFields ==
    ASSUME EmulatorAssumption, NEW u \in Uploads
    PROVE  /\ Len(u.header) \in Nat
           /\ \A i \in 1 .. Len(u.header) : u.header[i] \in Int
           /\ Kept(u) \subseteq Nat
           /\ Kept(u) \subseteq 1 .. Len(u.entries) /\ Len(u.entries) \in Nat
           /\ \A i \in Kept(u) :
                 /\ u.entries[i].code \in Codes
                 /\ u.entries[i].cause \in Causes
                 /\ u.entries[i].cause.reason \in Reasons
<1>1. u.header \in Seq(Int) /\ u.entries \in Seq(Entries)
  BY DEF EmulatorAssumption
<1>2. /\ Len(u.entries) \in Nat /\ Kept(u) \subseteq 1 .. Len(u.entries)
      /\ \A i \in 1 .. Len(u.entries) : u.entries[i] \in Entries
  BY <1>1 DEF Kept
<1>3. \A i \in Kept(u) : u.entries[i] \in Told(u)
  BY <1>2 DEF Told
<1>4. \A i \in Kept(u) : /\ u.entries[i].code \in Codes
                         /\ u.entries[i].cause.reason \in Reasons
  BY <1>3 DEF Codes, Reasons
<1>5. \A i \in Kept(u) : u.entries[i].cause \in Causes
  BY <1>2 DEF Entries
<1> QED
  BY <1>1, <1>2, <1>4, <1>5

\* What a report carries.
LEMMA ReportFields ==
    ASSUME EmulatorAssumption, NEW r \in Reports
    PROVE  /\ r.v \in {"absent", "bad", "fields"}
           /\ r.max \in Nat \cup {Missing} /\ r.min \in Nat \cup {Missing}
BY DEF EmulatorAssumption

-----------------------------------------------------------------------------
(* Type correctness, and which requests are at which places. *)

\* The places of a request, by its endpoint.
PlacesOf(r) ==
    CASE r.endpoint = "date_info"     -> {"delete", "add", "reply"}
      [] r.endpoint = "solar_errinfo" ->
            {"swap", "trim", "fill", "count", "decode", "signal", "reply"}
      [] r.endpoint = "unknown"       -> {"rate", "warn", "reply"}
      [] r.endpoint = "report"        ->
            IF r.report.v = "fields" THEN {"max", "min", "spread", "reply"}
            ELSE {"reply"}

CallInv ==
    /\ number \in [Handlers -> Nat]
    /\ received \in [Endpoints -> Nat]
    /\ \A h \in Handlers :
          pc[h] # "idle" => /\ req[h] \in Requests
                            /\ pc[h] \in PlacesOf(req[h])

\* What the event of a handler means.
CauseOf(h) == req[h].upload.entries[at[h]].cause

DecodeAt ==
    \A h \in Handlers :
       /\ pc[h] \in {"decode", "signal"} =>
             at[h] \in Kept(req[h].upload) /\ IsWiFi(req[h].upload, at[h])
       /\ pc[h] = "signal" => CauseOf(h).kind = "left"

TypeInv == TypeOK /\ CallInv /\ DecodeAt

\* The places tell the endpoint.
LEMMA PlaceFields ==
    ASSUME TypeInv, NEW h \in Handlers
    PROVE  /\ pc[h] \in {"delete", "add"} => req[h].endpoint = "date_info"
           /\ pc[h] \in {"max", "min", "spread"} =>
                 /\ req[h].endpoint = "report" /\ req[h].report \in Reports
                 /\ req[h].report.v = "fields"
           /\ pc[h] \in {"swap", "trim", "fill", "count", "decode",
                         "signal"} =>
                 /\ req[h].endpoint = "solar_errinfo"
                 /\ req[h].upload \in Uploads
           /\ pc[h] \in {"rate", "warn"} =>
                 req[h].endpoint = "unknown" /\ req[h].path \in Paths
           /\ pc[h] # "idle" => req[h].endpoint \in Endpoints
<1>1. CASE pc[h] = "idle"
  BY <1>1
<1>2. CASE pc[h] # "idle"
  <2>1. req[h] \in Requests /\ pc[h] \in PlacesOf(req[h])
    BY <1>2 DEF TypeInv, CallInv
  <2>2. /\ req[h].endpoint \in Endpoints
        /\ req[h].endpoint = "report" => req[h].report \in Reports
        /\ req[h].endpoint = "solar_errinfo" => req[h].upload \in Uploads
        /\ req[h].endpoint = "unknown" => req[h].path \in Paths
    BY <2>1, RequestFields
  <2> QED
    BY <2>1, <2>2 DEF PlacesOf, Endpoints
<1> QED
  BY <1>1, <1>2

\* A step of one handler leaves the others where they are, and keeps its own
\* request, at a place of it, or ends it.
OwnStep(h) ==
    /\ pc[h] # "idle"
    /\ pc' \in [Handlers -> Places]
    /\ at' \in [Handlers -> Nat] /\ prevLen' \in [Handlers -> Nat]
    /\ number' \in [Handlers -> Nat]
    /\ \A g \in Handlers \ {h} :
          /\ pc'[g] = pc[g] /\ req'[g] = req[g] /\ number'[g] = number[g]
          /\ at'[g] = at[g] /\ prevLen'[g] = prevLen[g]
    /\ UNCHANGED <<received, lastUpload, lastReport, overlapped, meant>>
    /\ IF pc'[h] = "idle" THEN pc[h] = "reply"
       ELSE /\ req'[h] = req[h] /\ number'[h] = number[h]
            /\ pc[h] # "reply" /\ pc'[h] \in PlacesOf(req[h])

\* The places of a request of each endpoint, one by one.
LEMMA PlacesOfEach ==
    ASSUME NEW r \in Requests
    PROVE  /\ r.endpoint = "date_info" =>
                 PlacesOf(r) = {"delete", "add", "reply"}
           /\ r.endpoint = "solar_errinfo" =>
                 PlacesOf(r) = {"swap", "trim", "fill", "count", "decode",
                                "signal", "reply"}
           /\ r.endpoint = "unknown" => PlacesOf(r) = {"rate", "warn", "reply"}
           /\ r.endpoint = "report" /\ r.report.v = "fields" =>
                 PlacesOf(r) = {"max", "min", "spread", "reply"}
BY DEF PlacesOf

\* Every step of a handler is such a step.
LEMMA OwnSteps ==
    ASSUME EmulatorAssumption, TypeInv, IInv, NEW h \in Handlers, Handle(h)
    PROVE  OwnStep(h)
<1>1. /\ pc \in [Handlers -> Places] /\ number \in [Handlers -> Nat]
      /\ at \in [Handlers -> Nat] /\ prevLen \in [Handlers -> Nat]
      /\ req \in [Handlers -> Requests \cup {NoInfo}] /\ headerLen \in Nat
  <2>1. /\ pc \in [Handlers -> Places] /\ number \in [Handlers -> Nat]
        /\ req \in [Handlers -> Requests \cup {NoInfo}]
    BY DEF TypeInv, CallInv, IInv, ShapeInv
  <2>2. /\ at \in [Handlers -> Nat] /\ prevLen \in [Handlers -> Nat]
        /\ headerLen \in Nat
    BY DEF TypeInv, TypeOK, HandlerTypes, HeaderTypes
  <2> QED
    BY <2>1, <2>2
<1>2. pc[h] # "idle"
  BY DEF Handle, DeleteInfo, AddInfo, SetMax, SetMin, SetCell, SetSpread,
         SwapLength, TrimHeader, FillHeader, CountEvent, DecodeEvent,
         SetSignal, CheckRate, Warn, Reply
<1>3. req[h] \in Requests /\ pc[h] \in PlacesOf(req[h])
  BY <1>2 DEF TypeInv, CallInv
<1> USE DEF OwnStep, Goto, call, history, Places
<1>4. CASE DeleteInfo(h)
  BY <1>1, <1>2, <1>3, <1>4, PlaceFields, PlacesOfEach DEF DeleteInfo
<1>5. CASE AddInfo(h)
  BY <1>1, <1>2, <1>3, <1>5, PlaceFields, PlacesOfEach DEF AddInfo
<1>6. CASE SetMax(h)
  BY <1>1, <1>2, <1>3, <1>6, PlaceFields, PlacesOfEach DEF SetMax, SetCell
<1>7. CASE SetMin(h)
  BY <1>1, <1>2, <1>3, <1>7, PlaceFields, PlacesOfEach DEF SetMin, SetCell
<1>8. CASE SetSpread(h)
  BY <1>1, <1>2, <1>3, <1>8, PlaceFields, PlacesOfEach DEF SetSpread
<1>9. CASE SwapLength(h)
  BY <1>1, <1>2, <1>3, <1>9, PlaceFields, PlacesOfEach, UploadFields
     DEF SwapLength, Header, header
<1>10. CASE TrimHeader(h)
  <2>1. /\ pc[h] = "trim"
        /\ pc' = pc \/ pc' = [pc EXCEPT ![h] = "fill"]
        /\ at' = [at EXCEPT ![h] = @ + 1] \/ at' = [at EXCEPT ![h] = 0]
        /\ UNCHANGED <<req, number, prevLen, history>>
    BY <1>10 DEF TrimHeader
  <2>2. "trim" \in PlacesOf(req[h]) /\ "fill" \in PlacesOf(req[h])
    BY <1>3, <2>1, PlaceFields, PlacesOfEach
  <2>3. at' \in [Handlers -> Nat]
    <3>1. CASE at' = [at EXCEPT ![h] = @ + 1]
      BY <1>1, <3>1
    <3>2. CASE at' = [at EXCEPT ![h] = 0]
      BY <1>1, <3>2
    <3> QED
      BY <2>1, <3>1, <3>2
  <2> QED
    BY <1>1, <1>2, <1>3, <2>1, <2>2, <2>3
<1>11. CASE FillHeader(h)
  <2>1. /\ pc[h] = "fill"
        /\ pc' = pc \/ pc' = [pc EXCEPT ![h] = "count"]
        /\ at' = [at EXCEPT ![h] = @ + 1] \/ at' = [at EXCEPT ![h] = 1]
        /\ UNCHANGED <<req, number, prevLen, history>>
    BY <1>11 DEF FillHeader
  <2>2. {"fill", "count"} \subseteq PlacesOf(req[h])
    BY <1>3, <2>1, PlaceFields, PlacesOfEach
  <2>3. at' \in [Handlers -> Nat]
    <3>1. CASE at' = [at EXCEPT ![h] = @ + 1]
      BY <1>1, <3>1
    <3>2. CASE at' = [at EXCEPT ![h] = 1]
      BY <1>1, <3>2
    <3> QED
      BY <2>1, <3>1, <3>2
  <2> QED
    BY <1>1, <1>2, <1>3, <2>1, <2>2, <2>3
<1>12. CASE CountEvent(h)
  <2>1. /\ pc[h] = "count"
        /\ \/ pc' = [pc EXCEPT ![h] = "reply"] /\ at' = at
           \/ \E i \in Kept(req[h].upload) :
                 \/ pc' = pc /\ at' = [at EXCEPT ![h] = i + 1]
                 \/ /\ pc' = [pc EXCEPT ![h] = "decode"]
                    /\ at' = [at EXCEPT ![h] = i]
        /\ UNCHANGED <<req, number, prevLen, history>>
    BY <1>12 DEF CountEvent
  <2>2. /\ {"count", "decode", "reply"} \subseteq PlacesOf(req[h])
        /\ req[h].upload \in Uploads
    BY <1>3, <2>1, PlaceFields, PlacesOfEach
  <2>3. Kept(req[h].upload) \subseteq Nat
    BY <2>2, UploadFields
  <2>4. at' \in [Handlers -> Nat]
    BY <1>1, <2>1, <2>3
  <2> QED
    BY <1>1, <1>2, <1>3, <2>1, <2>2, <2>4
<1>13. CASE DecodeEvent(h)
  <2>1. /\ pc[h] = "decode"
        /\ \/ pc' = [pc EXCEPT ![h] = "count"] /\ at' = [at EXCEPT ![h] = @ + 1]
           \/ pc' = [pc EXCEPT ![h] = "signal"] /\ at' = at
        /\ UNCHANGED <<req, number, prevLen, history>>
    BY <1>13 DEF DecodeEvent
  <2>2. {"count", "signal"} \subseteq PlacesOf(req[h])
    BY <1>3, <2>1, PlaceFields, PlacesOfEach
  <2>3. at' \in [Handlers -> Nat]
    BY <1>1, <2>1
  <2> QED
    BY <1>1, <1>2, <1>3, <2>1, <2>2, <2>3
<1>14. CASE CheckRate(h)
  <2>1. /\ pc[h] = "rate"
        /\ \/ pc' = [pc EXCEPT ![h] = "warn"]
           \/ pc' = [pc EXCEPT ![h] = "reply"]
        /\ UNCHANGED <<req, number, at, prevLen, history>>
    BY <1>14 DEF CheckRate
  <2>2. {"warn", "reply"} \subseteq PlacesOf(req[h])
    BY <1>3, <2>1, PlaceFields, PlacesOfEach
  <2> QED
    BY <1>1, <1>2, <1>3, <2>1, <2>2
<1>15. CASE Warn(h)
  BY <1>1, <1>2, <1>3, <1>15, PlaceFields, PlacesOfEach DEF Warn
<1>16. CASE Reply(h)
  BY <1>1, <1>2, <1>3, <1>16 DEF Reply, Forget
<1>17. CASE SetSignal(h)
  BY <1>1, <1>2, <1>3, <1>17, PlaceFields, PlacesOfEach DEF SetSignal
<1> QED
  BY <1>4, <1>5, <1>6, <1>7, <1>8, <1>9, <1>10, <1>11, <1>12, <1>13, <1>14,
     <1>15, <1>16, <1>17
     DEF Handle

\* The place tells which step a handler takes.
LEMMA WhichStep ==
    ASSUME NEW h \in Handlers, Handle(h)
    PROVE  /\ pc[h] = "delete" => DeleteInfo(h)
           /\ pc[h] = "add"    => AddInfo(h)
           /\ pc[h] = "max"    => SetMax(h)
           /\ pc[h] = "min"    => SetMin(h)
           /\ pc[h] = "spread" => SetSpread(h)
           /\ pc[h] = "swap"   => SwapLength(h)
           /\ pc[h] = "trim"   => TrimHeader(h)
           /\ pc[h] = "fill"   => FillHeader(h)
           /\ pc[h] = "count"  => CountEvent(h)
           /\ pc[h] = "decode" => DecodeEvent(h)
           /\ pc[h] = "signal" => SetSignal(h)
           /\ pc[h] = "rate"   => CheckRate(h)
           /\ pc[h] = "warn"   => Warn(h)
           /\ pc[h] = "reply"  => Reply(h)
BY DEF Handle, DeleteInfo, AddInfo, SetMax, SetMin, SetCell, SetSpread,
       SwapLength, TrimHeader, FillHeader, CountEvent, DecodeEvent,
       SetSignal, CheckRate, Warn, Reply

\* The series each step leaves alone.
LEMMA Frames ==
    ASSUME NEW h \in Handlers, Handle(h)
    PROVE  /\ pc[h] \notin {"delete", "add"} => UNCHANGED info
           /\ pc[h] \notin {"swap", "trim", "fill"} => UNCHANGED header
           /\ pc[h] \notin {"count", "decode", "signal"} => UNCHANGED wifi
           /\ pc[h] \notin {"max", "min", "spread"} =>
                 UNCHANGED <<cell, spread>>
           /\ pc[h] # "reply" => UNCHANGED reports
           /\ UNCHANGED decodeErrors
<1> USE DEF info, header, wifi, pack
<1>1. CASE DeleteInfo(h)
  BY <1>1 DEF DeleteInfo
<1>2. CASE AddInfo(h)
  BY <1>2 DEF AddInfo
<1>3. CASE SetMax(h) \/ SetMin(h)
  BY <1>3 DEF SetMax, SetMin, SetCell
<1>4. CASE SetSpread(h)
  BY <1>4 DEF SetSpread
<1>5. CASE SwapLength(h)
  BY <1>5 DEF SwapLength
<1>6. CASE TrimHeader(h)
  BY <1>6 DEF TrimHeader
<1>7. CASE FillHeader(h)
  BY <1>7 DEF FillHeader
<1>8. CASE CountEvent(h)
  BY <1>8 DEF CountEvent
<1>9. CASE DecodeEvent(h)
  BY <1>9 DEF DecodeEvent
<1>10. CASE CheckRate(h)
  BY <1>10 DEF CheckRate
<1>11. CASE Warn(h)
  BY <1>11 DEF Warn
<1>12. CASE Reply(h)
  BY <1>12 DEF Reply
<1>13. CASE SetSignal(h)
  BY <1>13 DEF SetSignal
<1> QED
  BY <1>1, <1>2, <1>3, <1>4, <1>5, <1>6, <1>7, <1>8, <1>9, <1>10, <1>11,
     <1>12, <1>13 DEF Handle

\* What the arrival of a request does to its handler.
LEMMA ArriveFacts ==
    ASSUME TypeInv, IInv, NEW h \in Handlers, NEW r \in Requests, Arrive(h, r)
    PROVE  /\ pc[h] = "idle" /\ pc' = [pc EXCEPT ![h] = FirstStep(r)]
           /\ FirstStep(r) \in PlacesOf(r)
           /\ FirstStep(r) \notin {"decode", "signal"}
           /\ req' = [req EXCEPT ![h] = r]
           /\ number' = [number EXCEPT ![h] = received[r.endpoint] + 1]
           /\ received' = [received EXCEPT ![r.endpoint] = @ + 1]
           /\ pc' \in [Handlers -> Places] /\ r.endpoint \in Endpoints
           /\ received \in [Endpoints -> Nat]
           /\ received' \in [Endpoints -> Nat]
           /\ number' \in [Handlers -> Nat]
           /\ UNCHANGED <<at, prevLen, mu, info, header, wifi, cell, spread>>
<1>1. /\ pc[h] = "idle" /\ pc' = [pc EXCEPT ![h] = FirstStep(r)]
      /\ req' = [req EXCEPT ![h] = r]
      /\ number' = [number EXCEPT ![h] = received[r.endpoint] + 1]
      /\ received' = [received EXCEPT ![r.endpoint] = @ + 1]
      /\ UNCHANGED <<at, prevLen, mu, info, header, wifi, cell, spread>>
  BY DEF Arrive, Remember, Goto
<1>2. r.endpoint \in Endpoints /\ FirstStep(r) \in Places
  BY RequestFields, FirstSteps
<1>3. FirstStep(r) \in PlacesOf(r) /\ FirstStep(r) \notin {"decode", "signal"}
  <2>1. CASE r.endpoint = "report"
    BY <2>1 DEF FirstStep, PlacesOf
  <2>2. CASE r.endpoint # "report"
    BY <1>2, <2>2 DEF FirstStep, PlacesOf, Endpoints
  <2> QED
    BY <2>1, <2>2
<1>4. /\ pc \in [Handlers -> Places] /\ number \in [Handlers -> Nat]
      /\ received \in [Endpoints -> Nat]
  BY DEF IInv, ShapeInv, TypeInv, CallInv
<1>5. received[r.endpoint] + 1 \in Nat
  BY <1>2, <1>4
<1> QED
  BY <1>1, <1>2, <1>3, <1>4, <1>5

\* Only a counted event is decoded, and it is one that was kept; only one that
\* carries a signal strength is at "signal".
LEMMA ToDecode ==
    ASSUME EmulatorAssumption, TypeInv, IInv, NEW h \in Handlers, Handle(h),
           pc'[h] \in {"decode", "signal"}
    PROVE  /\ req'[h] = req[h]
           /\ at'[h] \in Kept(req[h].upload) /\ IsWiFi(req[h].upload, at'[h])
           /\ pc'[h] = "signal" =>
                 req[h].upload.entries[at'[h]].cause.kind = "left"
<1>1. pc \in [Handlers -> Places] /\ at \in [Handlers -> Nat]
  BY DEF TypeInv, TypeOK, HandlerTypes
<1>2. CASE CountEvent(h)
  BY <1>1, <1>2 DEF CountEvent, Goto, call
<1>3. CASE DecodeEvent(h)
  <2>1. /\ pc[h] = "decode" /\ req[h].upload \in Uploads
        /\ at[h] \in Kept(req[h].upload) /\ IsWiFi(req[h].upload, at[h])
    BY <1>3, PlaceFields DEF DecodeEvent, TypeInv, DecodeAt
  <2>2. CauseOf(h) \in Causes
    BY <2>1, UploadFields DEF CauseOf
  <2>3. ~ScanTimeout(EventValue(h)) /\ pc'[h] = "signal" /\ at' = at
    BY <1>1, <1>3 DEF DecodeEvent, Goto
  <2>4. CauseOf(h).kind = "left"
    BY <2>2, <2>3, DecodedIsMeant, CauseFields DEF EventValue, CauseOf
  <2> QED
    BY <1>3, <2>1, <2>3, <2>4 DEF DecodeEvent, call, CauseOf
<1>4. CASE ~(CountEvent(h) \/ DecodeEvent(h))
  <2> USE <1>1 DEF Goto
  <2>1. ~(DeleteInfo(h) \/ AddInfo(h) \/ CheckRate(h) \/ Warn(h) \/ Reply(h))
    BY DEF DeleteInfo, AddInfo, CheckRate, Warn, Reply
  <2>2. ~(SetMax(h) \/ SetMin(h) \/ SetSpread(h))
    BY DEF SetMax, SetMin, SetCell, SetSpread
  <2>3. ~(SwapLength(h) \/ TrimHeader(h) \/ FillHeader(h))
    BY DEF SwapLength, TrimHeader, FillHeader
  <2>4. ~SetSignal(h)
    BY DEF SetSignal
  <2> QED
    BY <1>4, <2>1, <2>2, <2>3, <2>4 DEF Handle
<1> QED
  BY <1>2, <1>3, <1>4

\* A step of a handler keeps the types.
LEMMA HandleKeepsTypes ==
    ASSUME EmulatorAssumption, TypeInv, IInv, IInv', NEW h \in Handlers,
           Handle(h)
    PROVE  TypeInv'
<1> DEFINE u == req[h].upload
<1>1. OwnStep(h)
  BY OwnSteps
<1>2. CallInv'
  BY <1>1 DEF OwnStep, TypeInv, CallInv
<1>3. DecodeAt'
  <2> SUFFICES ASSUME NEW g \in Handlers, pc'[g] \in {"decode", "signal"}
               PROVE  /\ at'[g] \in Kept(req'[g].upload)
                      /\ IsWiFi(req'[g].upload, at'[g])
                      /\ pc'[g] = "signal" =>
                            req'[g].upload.entries[at'[g]].cause.kind = "left"
    BY DEF DecodeAt, CauseOf, IsWiFi, Kept, Battery, ReportType
  <2>1. CASE g = h
    BY <2>1, ToDecode
  <2>2. CASE g # h
    BY <1>1, <2>2 DEF OwnStep, TypeInv, DecodeAt, CauseOf
  <2> QED
    BY <2>1, <2>2
<1>4. HandlerTypes'
  BY <1>1, <1>2 DEF OwnStep, CallInv, HandlerTypes, IInv, ShapeInv
<1>5. InfoTypes'
  <2>0. InfoTypes
    BY DEF TypeInv, TypeOK
  <2>1. CASE pc[h] \notin {"delete", "add"}
    BY <2>0, <2>1, Frames DEF InfoTypes, info
  <2>2. CASE pc[h] = "delete"
    BY <2>0, <2>2, WhichStep DEF DeleteInfo, InfoTypes
  <2>3. CASE pc[h] = "add"
    BY <2>0, <2>3, WhichStep DEF AddInfo, InfoTypes, IInv, ShapeInv
  <2> QED
    BY <2>1, <2>2, <2>3
<1>6. HeaderTypes'
  <2>0. HeaderTypes /\ at \in [Handlers -> Nat]
    BY DEF TypeInv, TypeOK, HandlerTypes
  <2>1. CASE pc[h] \notin {"swap", "trim", "fill"}
    BY <2>0, <2>1, Frames DEF HeaderTypes, header
  <2>2. ASSUME pc[h] \in {"swap", "trim", "fill"}
        PROVE  /\ Len(Header(h)) \in Nat
               /\ \A i \in 1 .. Len(Header(h)) : Header(h)[i] \in Int
    BY <2>2, PlaceFields, UploadFields DEF Header
  <2>3. CASE pc[h] = "swap"
    BY <2>0, <2>2, <2>3, WhichStep DEF SwapLength, HeaderTypes
  <2>4. CASE pc[h] = "trim"
    <3>1. /\ headerLen' = headerLen
          /\ \/ headerSeries' = headerSeries
             \/ headerSeries' = [i \in DOMAIN headerSeries \ {at[h]} |->
                                    headerSeries[i]]
      BY <2>4, WhichStep DEF TrimHeader
    <3> QED
      BY <2>0, <3>1 DEF HeaderTypes
  <2>5. CASE pc[h] = "fill"
    <3>1. /\ headerLen' = headerLen
          /\ \/ headerSeries' = headerSeries
             \/ /\ at[h] < Len(Header(h))
                /\ headerSeries' = [i \in DOMAIN headerSeries \cup {at[h]} |->
                                       IF i = at[h] THEN Header(h)[i + 1]
                                       ELSE headerSeries[i]]
      BY <2>5, WhichStep DEF FillHeader
    <3>2. at[h] < Len(Header(h)) => Header(h)[at[h] + 1] \in Int
      BY <2>0, <2>2, <2>5
    <3> QED
      BY <2>0, <3>1, <3>2 DEF HeaderTypes
  <2> QED
    BY <2>1, <2>3, <2>4, <2>5
<1>7. EventTypes'
  <2>0. EventTypes
    BY DEF TypeInv, TypeOK
  <2>1. CASE pc[h] \notin {"count", "decode", "signal"}
    BY <2>0, <2>1, Frames DEF EventTypes, wifi
  <2>2. CASE pc[h] = "count"
    <3>1. u \in Uploads
      BY <2>2, PlaceFields
    <3>2. \A i \in Kept(u) : u.entries[i].code \in Codes
      BY <3>1, UploadFields
    <3>3. CountEvent(h)
      BY <2>2, WhichStep
    <3>4. \/ events' = events
          \/ \E c \in Codes : events' = [events EXCEPT ![c] = @ + 1]
      BY <3>2, <3>3 DEF CountEvent
    <3>5. UNCHANGED <<timeouts, reasons, rssi>>
      BY <3>3 DEF CountEvent
    <3> QED
      BY <2>0, <3>4, <3>5 DEF EventTypes
  <2>3. ASSUME pc[h] \in {"decode", "signal"}
        PROVE  /\ CauseOf(h).reason \in Reasons
               /\ Reason(EventValue(h)) = CauseOf(h).reason
               /\ RSSIDBm(EventValue(h)) \in Int16s
    <3>1. u \in Uploads /\ at[h] \in Kept(u)
      BY <2>3, PlaceFields DEF TypeInv, DecodeAt
    <3>2. CauseOf(h) \in Causes /\ CauseOf(h).reason \in Reasons
      BY <3>1, UploadFields DEF CauseOf
    <3> QED
      BY <3>2, DecodedIsMeant, CauseFields DEF EventValue, CauseOf
  <2>4. CASE pc[h] = "decode"
    <3>1. /\ UNCHANGED <<events, rssi>>
          /\ \/ timeouts' = timeouts + 1 /\ UNCHANGED reasons
             \/ /\ reasons' = [reasons EXCEPT ![Reason(EventValue(h))] = @ + 1]
                /\ UNCHANGED timeouts
      BY <2>4, WhichStep DEF DecodeEvent
    <3> QED
      BY <2>0, <2>3, <2>4, <3>1 DEF EventTypes
  <2>5. CASE pc[h] = "signal"
    <3>1. /\ UNCHANGED <<events, timeouts, reasons>>
          /\ rssi' = [rssi EXCEPT ![Reason(EventValue(h))] =
                                       RSSIDBm(EventValue(h))]
      BY <2>5, WhichStep DEF SetSignal
    <3> QED
      BY <2>0, <2>3, <2>5, <3>1 DEF EventTypes
  <2> QED
    BY <2>1, <2>2, <2>4, <2>5
<1>8. PackTypes'
  <2>0. PackTypes
    BY DEF TypeInv, TypeOK
  <2>1. CASE pc[h] \notin {"max", "min", "spread"}
    BY <2>0, <2>1, Frames DEF PackTypes
  <2>2. ASSUME pc[h] \in {"max", "min", "spread"}
        PROVE  /\ req[h].report.max \in Nat \cup {Missing}
               /\ req[h].report.min \in Nat \cup {Missing}
    BY <2>2, PlaceFields, ReportFields
  <2>3. CASE pc[h] = "max"
    BY <2>0, <2>2, <2>3, WhichStep DEF SetMax, SetCell, PackTypes, Extremes
  <2>4. CASE pc[h] = "min"
    BY <2>0, <2>2, <2>4, WhichStep DEF SetMin, SetCell, PackTypes, Extremes
  <2>5. CASE pc[h] = "spread"
    BY <2>0, <2>2, <2>5, WhichStep DEF SetSpread, PackTypes, Missing
  <2> QED
    BY <2>1, <2>3, <2>4, <2>5
<1>9. CounterTypes'
  <2>0. CounterTypes
    BY DEF TypeInv, TypeOK
  <2>1. decodeErrors' = decodeErrors
    BY Frames
  <2>2. reports' \in [Endpoints -> Nat]
    <3>1. CASE pc[h] # "reply"
      BY <2>0, <3>1, Frames DEF CounterTypes
    <3>2. CASE pc[h] = "reply"
      BY <2>0, <3>2, WhichStep DEF CounterTypes, Reply, Count, Endpoints
    <3> QED
      BY <3>1, <3>2
  <2> QED
    BY <2>0, <2>1, <2>2 DEF CounterTypes, IInv, WarnInv
<1> QED
  BY <1>2, <1>3, <1>4, <1>5, <1>6, <1>7, <1>8, <1>9 DEF TypeInv, TypeOK

\* So does the arrival of a request.
LEMMA ArriveKeepsTypes ==
    ASSUME EmulatorAssumption, TypeInv, IInv, IInv', NEW h \in Handlers,
           NEW r \in Requests, Arrive(h, r)
    PROVE  TypeInv'
<1>1. CallInv'
  <2>1. number' \in [Handlers -> Nat] /\ received' \in [Endpoints -> Nat]
    BY ArriveFacts
  <2>2. ASSUME NEW g \in Handlers, pc'[g] # "idle"
        PROVE  req'[g] \in Requests /\ pc'[g] \in PlacesOf(req'[g])
    <3>1. CASE g = h
      <4>1. req'[h] = r /\ pc'[h] = FirstStep(r)
        BY ArriveFacts DEF IInv, ShapeInv
      <4> QED
        BY <3>1, <4>1, ArriveFacts
    <3>2. CASE g # h
      <4>1. req'[g] = req[g] /\ pc'[g] = pc[g]
        BY <3>2, ArriveFacts DEF IInv, ShapeInv
      <4> QED
        BY <2>2, <4>1 DEF TypeInv, CallInv
    <3> QED
      BY <3>1, <3>2
  <2> QED
    BY <2>1, <2>2 DEF CallInv
<1>2. DecodeAt'
  <2> SUFFICES ASSUME NEW g \in Handlers, pc'[g] \in {"decode", "signal"}
               PROVE  /\ at'[g] \in Kept(req'[g].upload)
                      /\ IsWiFi(req'[g].upload, at'[g])
                      /\ pc'[g] = "signal" =>
                            req'[g].upload.entries[at'[g]].cause.kind = "left"
    BY DEF DecodeAt, CauseOf, IsWiFi, Kept, Battery, ReportType
  <2>1. g # h /\ req'[g] = req[g] /\ at'[g] = at[g] /\ pc'[g] = pc[g]
    BY ArriveFacts DEF IInv, ShapeInv
  <2> QED
    BY <2>1 DEF TypeInv, DecodeAt, CauseOf
<1>3. HandlerTypes'
  BY <1>1, ArriveFacts DEF HandlerTypes, TypeInv, TypeOK, CallInv
<1>4. InfoTypes'
  BY ArriveFacts DEF InfoTypes, TypeInv, TypeOK, info
<1>5. HeaderTypes'
  BY ArriveFacts DEF HeaderTypes, TypeInv, TypeOK, header
<1>6. EventTypes'
  BY ArriveFacts DEF EventTypes, TypeInv, TypeOK, wifi
<1>7. PackTypes'
  BY ArriveFacts DEF PackTypes, TypeInv, TypeOK
<1>8. CounterTypes'
  <2>1. \/ UNCHANGED reports
        \/ /\ r.endpoint \in Endpoints
           /\ reports' = [reports EXCEPT ![r.endpoint] = @ + 1]
    BY ArriveFacts DEF Arrive, Count
  <2>2. decodeErrors' \in {decodeErrors, decodeErrors + 1}
    BY DEF Arrive
  <2> QED
    BY <2>1, <2>2 DEF CounterTypes, TypeInv, TypeOK, IInv, WarnInv
<1> QED
  BY <1>1, <1>2, <1>3, <1>4, <1>5, <1>6, <1>7, <1>8 DEF TypeInv, TypeOK

\* Every variable keeps its type, and every handler is at a place of its
\* request's endpoint.
THEOREM Types == Spec => []TypeInv
<1> USE EmulatorAssumption
<1>1. Init => TypeInv
  <2> SUFFICES ASSUME Init PROVE TypeInv
    OBVIOUS
  <2>1. HandlerTypes /\ InfoTypes /\ HeaderTypes /\ CounterTypes
    BY DEF Init, HandlerTypes, InfoTypes, HeaderTypes, CounterTypes, Places,
           EmulatorAssumption
  <2>2. EventTypes
    BY DEF Init, EventTypes, Int16s, Unset
  <2>3. PackTypes
    BY DEF Init, PackTypes
  <2>4. CallInv /\ DecodeAt
    BY DEF Init, CallInv, DecodeAt
  <2> QED
    BY <2>1, <2>2, <2>3, <2>4 DEF TypeInv, TypeOK
<1>2. TypeInv /\ IInv /\ IInv' /\ [Next]_vars => TypeInv'
  <2> SUFFICES ASSUME TypeInv, IInv, IInv', [Next]_vars PROVE TypeInv'
    OBVIOUS
  <2>1. ASSUME NEW h \in Handlers, Handle(h) PROVE TypeInv'
    BY <2>1, HandleKeepsTypes
  <2>2. ASSUME NEW h \in Handlers, NEW r \in Requests, Arrive(h, r)
        PROVE  TypeInv'
    BY <2>2, ArriveKeepsTypes
  <2>3. CASE Tick \/ UNCHANGED vars
    <3>1. UNCHANGED <<handler, mu, info, header, wifi, pack, reports, received>>
      BY <2>3 DEF Tick, vars, history
    <3>2. CallInv' /\ DecodeAt' /\ HandlerTypes'
      BY <3>1
         DEF TypeInv, TypeOK, CallInv, DecodeAt, CauseOf, HandlerTypes,
             handler, call, IsWiFi, Kept, Battery, ReportType
    <3>3. InfoTypes' /\ HeaderTypes' /\ EventTypes' /\ PackTypes'
      BY <3>1 DEF TypeInv, TypeOK, InfoTypes, HeaderTypes, EventTypes,
                  PackTypes, info, header, wifi, pack
    <3>4. CounterTypes'
      BY <3>1 DEF TypeInv, TypeOK, CounterTypes, pack, IInv, WarnInv
    <3> QED
      BY <3>2, <3>3, <3>4 DEF TypeInv, TypeOK
  <2> QED
    BY <2>1, <2>2, <2>3 DEF Next
<1> QED
  BY <1>1, <1>2, Invariance, PTL DEF Spec

\* The type invariant holds in every state.
THEOREM TypesHold == Spec => []TypeOK
<1>1. TypeInv => TypeOK
  BY DEF TypeInv
<1> QED
  BY <1>1, Types, PTL

-----------------------------------------------------------------------------
(* Who is busy with which endpoint. *)

\* A step changes only its own handler's, which ends when it has answered.
LEMMA BusySteps ==
    ASSUME EmulatorAssumption, TypeInv, IInv, NEW h \in Handlers, Handle(h)
    PROVE  \A g \in Handlers, e \in Endpoints :
              Busy(g, e)' <=> Busy(g, e) /\ (g = h => pc[h] # "reply")
<1>1. OwnStep(h)
  BY OwnSteps
<1>2. pc[h] = "reply" => pc'[h] = "idle"
  BY WhichStep DEF Reply, Goto, TypeInv, TypeOK, HandlerTypes
<1> QED
  BY <1>1, <1>2 DEF OwnStep, Busy

\* An arrival makes a handler busy that was not; the endpoint counts as
\* overlapped from then on unless no other handler is busy with it.
LEMMA BusyArrives ==
    ASSUME TypeInv, IInv, NEW h \in Handlers, NEW r \in Requests, Arrive(h, r)
    PROVE  /\ \A g \in Handlers, e \in Endpoints :
                 Busy(g, e)' <=> Busy(g, e) \/ (g = h /\ e = r.endpoint)
           /\ \A e \in Endpoints : ~Busy(h, e)
           /\ \A g \in Handlers \ {h} :
                 /\ pc'[g] = pc[g] /\ req'[g] = req[g]
                 /\ number'[g] = number[g]
           /\ pc'[h] = FirstStep(r) /\ req'[h] = r
           /\ number'[h] = received[r.endpoint] + 1
           /\ overlapped \subseteq overlapped'
           /\ r.endpoint \notin overlapped' =>
                 \A g \in Handlers : ~Busy(g, r.endpoint)
<1>1. /\ pc \in [Handlers -> Places] /\ number \in [Handlers -> Nat]
      /\ req \in [Handlers -> Requests \cup {NoInfo}]
  BY DEF TypeInv, CallInv, IInv, ShapeInv
<1>2. FirstStep(r) # "idle"
  <2>1. r.endpoint \in Endpoints /\ FirstStep(r) \in PlacesOf(r)
    BY ArriveFacts
  <2> QED
    BY <2>1 DEF PlacesOf, Endpoints
<1>3. /\ overlapped \subseteq overlapped'
      /\ r.endpoint \notin overlapped' =>
            \A g \in Handlers : ~Busy(g, r.endpoint)
  BY DEF Arrive, Remember
<1>4. /\ pc'[h] = FirstStep(r) /\ req'[h] = r
      /\ number'[h] = received[r.endpoint] + 1
      /\ \A g \in Handlers \ {h} :
            /\ pc'[g] = pc[g] /\ req'[g] = req[g] /\ number'[g] = number[g]
  BY <1>1, ArriveFacts
<1> QED
  BY <1>2, <1>3, <1>4, ArriveFacts DEF Busy

-----------------------------------------------------------------------------
(* The header. *)

\* While the uploads do not overlap, the series are those below the length that
\* is remembered, and the handler of the last upload, which is the only one, has
\* trimmed and filled them up to its loop index.
OneAtATime(e) ==
    \A g, h \in Handlers : Busy(g, e) /\ Busy(h, e) => g = h

HeaderAt(h) ==
    LET n == Len(lastUpload.header) IN
    /\ IF pc[h] = "swap" THEN DOMAIN headerSeries = 0 .. headerLen - 1
       ELSE headerLen = n
    /\ pc[h] = "trim" =>
          /\ at[h] >= n
          /\ \A i \in DOMAIN headerSeries :
                i < n \/ (at[h] <= i /\ i < prevLen[h])
    /\ pc[h] = "fill" =>
          /\ at[h] <= n
          /\ DOMAIN headerSeries \subseteq 0 .. n - 1
          /\ \A i \in 0 .. at[h] - 1 :
                /\ i \in DOMAIN headerSeries
                /\ headerSeries[i] = lastUpload.header[i + 1]
    /\ pc[h] \in {"count", "decode", "signal", "reply"} => HeaderShown

HeaderInv ==
    "solar_errinfo" \notin overlapped =>
        /\ OneAtATime("solar_errinfo")
        /\ \A h \in Handlers :
              Busy(h, "solar_errinfo") =>
                 req[h].upload = lastUpload /\ HeaderAt(h)
        /\ (\A h \in Handlers : ~Busy(h, "solar_errinfo")) =>
              /\ DOMAIN headerSeries = 0 .. headerLen - 1
              /\ received["solar_errinfo"] > 0 => HeaderShown

\* A step of a handler keeps this.
LEMMA HandleKeepsHeader ==
    ASSUME EmulatorAssumption, TypeInv, IInv, HeaderInv, NEW h \in Handlers,
           Handle(h)
    PROVE  HeaderInv'
<1> DEFINE e == "solar_errinfo"
           n == Len(lastUpload.header)
<1>1. OwnStep(h) /\ e \in Endpoints
  BY OwnSteps DEF Endpoints
<1>2. /\ overlapped' = overlapped /\ lastUpload' = lastUpload
      /\ received' = received
  BY <1>1 DEF OwnStep
<1>3. \A g \in Handlers :
         Busy(g, e)' <=> Busy(g, e) /\ (g = h => pc[h] # "reply")
  BY <1>1, BusySteps
<1> SUFFICES ASSUME e \notin overlapped PROVE HeaderInv'
  BY <1>2 DEF HeaderInv
<1>4. OneAtATime(e)'
  BY <1>3 DEF OneAtATime, HeaderInv
<1>5. CASE ~Busy(h, e)
  <2>1. pc[h] \notin {"swap", "trim", "fill"}
    BY <1>5, PlaceFields DEF Busy
  <2>2. UNCHANGED <<headerLen, headerSeries>>
    BY <2>1, Frames DEF header
  <2>3. \A g \in Handlers : Busy(g, e)' <=> Busy(g, e)
    BY <1>3, <1>5
  <2>4. ASSUME NEW g \in Handlers, Busy(g, e)'
        PROVE  req'[g].upload = lastUpload' /\ HeaderAt(g)'
    <3>1. Busy(g, e) /\ g # h
      BY <1>5, <2>3, <2>4
    <3>2. /\ pc'[g] = pc[g] /\ req'[g] = req[g] /\ at'[g] = at[g]
          /\ prevLen'[g] = prevLen[g]
      BY <1>1, <3>1 DEF OwnStep
    <3> QED
      BY <1>2, <2>2, <3>1, <3>2 DEF HeaderInv, HeaderAt, HeaderShown
  <2> QED
    BY <1>2, <1>4, <2>2, <2>3, <2>4 DEF HeaderInv, HeaderShown
<1>6. CASE Busy(h, e)
  <2>1. /\ req[h].upload = lastUpload /\ HeaderAt(h)
        /\ \A g \in Handlers \ {h} : ~Busy(g, e)
    BY <1>6 DEF HeaderInv, OneAtATime
  <2>2. \A g \in Handlers \ {h} : ~Busy(g, e)'
    BY <1>3, <2>1
  <2>3. lastUpload \in Uploads /\ n \in Nat
    <3>1. req[h] \in Requests
      BY <1>6 DEF Busy, TypeInv, CallInv
    <3>2. lastUpload \in Uploads
      BY <1>6, <2>1, <3>1, RequestFields DEF Busy
    <3> QED
      BY <3>2, UploadFields
  <2>4. /\ pc \in [Handlers -> Places] /\ at \in [Handlers -> Nat]
        /\ prevLen \in [Handlers -> Nat] /\ headerLen \in Nat
        /\ DOMAIN headerSeries \subseteq Nat
        /\ headerSeries \in [DOMAIN headerSeries -> Int]
    BY DEF TypeInv, TypeOK, HandlerTypes, HeaderTypes
  <2>5. ASSUME pc[h] # "reply", HeaderAt(h)' PROVE HeaderInv'
    <3>1. pc'[h] # "idle" /\ req'[h] = req[h] /\ Busy(h, e)'
      BY <1>1, <1>3, <1>6, <2>5 DEF OwnStep
    <3> QED
      BY <1>2, <1>4, <2>1, <2>2, <2>5, <3>1 DEF HeaderInv
  <2>6. CASE pc[h] = "swap"
    <3>1. /\ pc' = [pc EXCEPT ![h] = "trim"] /\ headerSeries' = headerSeries
          /\ at' = [at EXCEPT ![h] = n] /\ headerLen' = n
          /\ prevLen' = [prevLen EXCEPT ![h] = headerLen]
      BY <2>1, <2>6, WhichStep DEF SwapLength, Goto, Header
    <3>2. DOMAIN headerSeries = 0 .. headerLen - 1
      BY <2>1, <2>6 DEF HeaderAt
    <3> HIDE DEF n
    <3>3. /\ pc'[h] = "trim" /\ at'[h] = n /\ prevLen'[h] = headerLen
      BY <2>4, <3>1
    <3>4. \A i \in DOMAIN headerSeries : i < n \/ (n <= i /\ i < headerLen)
      BY <2>3, <2>4, <3>2
    <3>5. HeaderAt(h)'
      BY <1>2, <2>3, <3>1, <3>3, <3>4 DEF HeaderAt, n
    <3> QED
      BY <2>5, <2>6, <3>5
  <2>7. CASE pc[h] = "trim"
    <3>1. TrimHeader(h) /\ headerLen = n
      BY <2>1, <2>7, WhichStep DEF HeaderAt
    <3>2. /\ at[h] >= n
          /\ \A i \in DOMAIN headerSeries :
                i < n \/ (at[h] <= i /\ i < prevLen[h])
      BY <2>1, <2>7 DEF HeaderAt
    <3>3. headerLen' = headerLen /\ prevLen' = prevLen
      BY <3>1 DEF TrimHeader
    <3> HIDE DEF n
    <3>4. CASE at[h] < prevLen[h]
      <4>1. /\ headerSeries' = [i \in DOMAIN headerSeries \ {at[h]} |->
                                   headerSeries[i]]
            /\ at'[h] = at[h] + 1 /\ pc'[h] = "trim"
        BY <2>4, <2>7, <3>1, <3>4 DEF TrimHeader
      <4>2. DOMAIN headerSeries' = DOMAIN headerSeries \ {at[h]}
        BY <4>1
      <4>3. \A i \in DOMAIN headerSeries' :
               i < n \/ (at'[h] <= i /\ i < prevLen[h])
        BY <2>3, <2>4, <3>2, <4>1, <4>2
      <4>4. at'[h] >= n
        BY <2>3, <2>4, <3>2, <4>1
      <4>5. HeaderAt(h)'
        BY <1>2, <3>1, <3>3, <4>1, <4>3, <4>4 DEF HeaderAt, n
      <4> QED
        BY <2>5, <2>7, <4>5
    <3>5. CASE ~(at[h] < prevLen[h])
      <4>1. /\ headerSeries' = headerSeries /\ at'[h] = 0 /\ pc'[h] = "fill"
        BY <2>4, <2>7, <3>1, <3>5 DEF TrimHeader, Goto
      <4>2. ASSUME NEW i \in DOMAIN headerSeries PROVE i \in 0 .. n - 1
        <5>1. at[h] \in Nat /\ prevLen[h] \in Nat /\ i \in Nat /\ n \in Nat
          BY <2>3, <2>4
        <5>2. i < n
          BY <3>2, <3>5, <5>1
        <5> QED
          BY <5>1, <5>2
      <4>3. 0 .. at'[h] - 1 = {} /\ at'[h] <= n
        BY <2>3, <4>1
      <4>4. HeaderAt(h)'
        BY <1>2, <3>1, <3>3, <4>1, <4>2, <4>3 DEF HeaderAt, n
      <4> QED
        BY <2>5, <2>7, <4>4
    <3> QED
      BY <3>4, <3>5
  <2>8. CASE pc[h] = "fill"
    <3>1. FillHeader(h) /\ headerLen = n
      BY <2>1, <2>8, WhichStep DEF HeaderAt
    <3>2. /\ at[h] <= n
          /\ DOMAIN headerSeries \subseteq 0 .. n - 1
          /\ \A i \in 0 .. at[h] - 1 :
                /\ i \in DOMAIN headerSeries
                /\ headerSeries[i] = lastUpload.header[i + 1]
      BY <2>1, <2>8 DEF HeaderAt
    <3>3. headerLen' = headerLen /\ prevLen' = prevLen
      BY <3>1 DEF FillHeader
    <3>4. Header(h) = lastUpload.header
      BY <2>1 DEF Header
    <3>5. CASE at[h] < n
      <4>1. /\ headerSeries' = [i \in DOMAIN headerSeries \cup {at[h]} |->
                                   IF i = at[h] THEN lastUpload.header[i + 1]
                                   ELSE headerSeries[i]]
            /\ at'[h] = at[h] + 1 /\ pc'[h] = "fill"
        BY <2>4, <2>8, <3>1, <3>4, <3>5 DEF FillHeader
      <4> HIDE DEF n
      <4>2. DOMAIN headerSeries' = DOMAIN headerSeries \cup {at[h]}
        BY <4>1
      <4>3. at'[h] <= n /\ DOMAIN headerSeries' \subseteq 0 .. n - 1
        BY <2>3, <2>4, <3>2, <3>5, <4>1, <4>2
      <4>4. \A i \in 0 .. at'[h] - 1 :
               /\ i \in DOMAIN headerSeries'
               /\ headerSeries'[i] = lastUpload.header[i + 1]
        BY <2>4, <3>2, <4>1, <4>2
      <4>5. HeaderAt(h)'
        BY <1>2, <3>1, <3>3, <4>1, <4>3, <4>4 DEF HeaderAt, n
      <4> QED
        BY <2>5, <2>8, <4>5
    <3>6. CASE ~(at[h] < n)
      <4>1. headerSeries' = headerSeries /\ pc'[h] = "count"
        BY <2>4, <2>8, <3>1, <3>4, <3>6 DEF FillHeader, Goto
      <4> HIDE DEF n
      <4>2. at[h] = n
        BY <2>3, <2>4, <3>2, <3>6
      <4>3. /\ DOMAIN headerSeries = 0 .. n - 1
            /\ \A i \in 0 .. n - 1 :
                  headerSeries[i] = lastUpload.header[i + 1]
        BY <3>2, <4>2
      <4>4. headerSeries = [i \in 0 .. n - 1 |-> lastUpload.header[i + 1]]
        BY <2>4, <4>3
      <4>5. HeaderShown'
        BY <1>2, <4>1, <4>4 DEF HeaderShown, n
      <4>6. HeaderAt(h)'
        BY <1>2, <3>1, <3>3, <4>1, <4>5 DEF HeaderAt, n
      <4> QED
        BY <2>5, <2>8, <4>6
    <3> QED
      BY <3>5, <3>6
  <2>9. CASE pc[h] \in {"count", "decode", "signal", "reply"}
    <3>1. HeaderShown /\ headerLen = n
      BY <2>1, <2>9 DEF HeaderAt
    <3>2. UNCHANGED <<headerLen, headerSeries>>
      BY <2>9, Frames DEF header
    <3>3. HeaderShown'
      BY <1>2, <3>1, <3>2 DEF HeaderShown
    <3>4. CASE pc[h] = "reply"
      <4>1. \A g \in Handlers : ~Busy(g, e)'
        BY <1>3, <2>2, <3>4
      <4>2. DOMAIN headerSeries' = 0 .. headerLen' - 1
        BY <3>1, <3>2 DEF HeaderShown
      <4> QED
        BY <1>4, <3>3, <4>1, <4>2 DEF HeaderInv
    <3>5. CASE pc[h] # "reply"
      <4>1. pc'[h] \in {"count", "decode", "signal", "reply"}
        BY <2>4, <2>9, <3>5, WhichStep
           DEF CountEvent, DecodeEvent, SetSignal, Goto
      <4>2. HeaderAt(h)'
        BY <1>2, <3>1, <3>2, <3>3, <4>1 DEF HeaderAt
      <4> QED
        BY <2>5, <3>5, <4>2
    <3> QED
      BY <3>4, <3>5
  <2>10. pc[h] \in {"swap", "trim", "fill", "count", "decode", "signal",
                    "reply"}
    <3>1. /\ req[h] \in Requests /\ req[h].endpoint = e
          /\ pc[h] \in PlacesOf(req[h])
      BY <1>6 DEF Busy, TypeInv, CallInv
    <3> QED
      BY <3>1, PlacesOfEach
  <2> QED
    BY <2>6, <2>7, <2>8, <2>9, <2>10
<1> QED
  BY <1>5, <1>6

\* The arrival of a request keeps this: without another upload in progress,
\* the series are settled.
LEMMA ArriveKeepsHeader ==
    ASSUME EmulatorAssumption, TypeInv, IInv, HeaderInv, NEW h \in Handlers,
           NEW r \in Requests, Arrive(h, r)
    PROVE  HeaderInv'
<1> DEFINE e == "solar_errinfo"
<1>0. e \in Endpoints
  BY DEF Endpoints
<1>1. UNCHANGED <<headerLen, headerSeries, at, prevLen>>
  BY ArriveFacts DEF header
<1>2. \A g \in Handlers :
         Busy(g, e)' <=> Busy(g, e) \/ (g = h /\ e = r.endpoint)
  BY <1>0, BusyArrives
<1> SUFFICES ASSUME e \notin overlapped' PROVE HeaderInv'
  BY DEF HeaderInv
<1>3. e \notin overlapped
  BY BusyArrives
<1>4. CASE r.endpoint = e
  <2>1. \A g \in Handlers : ~Busy(g, e)
    BY <1>4, BusyArrives
  <2>2. \A g \in Handlers : Busy(g, e)' <=> g = h
    BY <1>2, <1>4, <2>1
  <2>3. req'[h].upload = r.upload /\ lastUpload' = r.upload /\ pc'[h] = "swap"
    BY <1>4, BusyArrives DEF Arrive, Remember, FirstStep
  <2>4. DOMAIN headerSeries = 0 .. headerLen - 1
    BY <1>3, <2>1 DEF HeaderInv
  <2>5. HeaderAt(h)'
    BY <1>1, <2>3, <2>4 DEF HeaderAt
  <2> QED
    BY <2>2, <2>3, <2>5 DEF HeaderInv, OneAtATime
<1>5. CASE r.endpoint # e
  <2>1. \A g \in Handlers : Busy(g, e)' <=> Busy(g, e)
    BY <1>2, <1>5
  <2>2. lastUpload' = lastUpload /\ received'[e] = received[e]
    BY <1>0, <1>5, ArriveFacts DEF Arrive, Remember
  <2>3. ~Busy(h, e)
    BY <1>0, BusyArrives
  <2>4. ASSUME NEW g \in Handlers, Busy(g, e)'
        PROVE  req'[g].upload = lastUpload' /\ HeaderAt(g)'
    <3>1. Busy(g, e) /\ g # h
      BY <2>1, <2>3, <2>4
    <3>2. pc'[g] = pc[g] /\ req'[g] = req[g]
      BY <3>1, BusyArrives
    <3> QED
      BY <1>1, <1>3, <2>2, <3>1, <3>2 DEF HeaderInv, HeaderAt, HeaderShown
  <2> QED
    BY <1>1, <1>3, <2>1, <2>2, <2>4 DEF HeaderInv, OneAtATime, HeaderShown
<1> QED
  BY <1>4, <1>5

-----------------------------------------------------------------------------
(* The pack. *)

\* While the reports do not overlap, a cell is that of the last report once its
\* handler is past it, if the report has the pack.
PackAt(h) ==
    /\ pc[h] \in {"min", "spread", "reply"} => cell["max"] = lastReport.max
    /\ pc[h] \in {"spread", "reply"} => cell["min"] = lastReport.min
    /\ pc[h] = "reply" => spread = lastReport.max - lastReport.min

PackInv ==
    "report" \notin overlapped =>
        /\ OneAtATime("report")
        /\ \A h \in Handlers :
              Busy(h, "report") =>
                 /\ req[h].report = lastReport
                 /\ HasPack(lastReport) => PackAt(h)
        /\ (\A h \in Handlers : ~Busy(h, "report")) =>
              (received["report"] > 0 /\ HasPack(lastReport) => PackShown)

\* A step of a handler keeps this.
LEMMA HandleKeepsPack ==
    ASSUME EmulatorAssumption, TypeInv, IInv, PackInv, NEW h \in Handlers,
           Handle(h)
    PROVE  PackInv'
<1> DEFINE e == "report"
<1>1. OwnStep(h) /\ e \in Endpoints
  BY OwnSteps DEF Endpoints
<1>2. /\ overlapped' = overlapped /\ lastReport' = lastReport
      /\ received' = received
  BY <1>1 DEF OwnStep
<1>3. \A g \in Handlers :
         Busy(g, e)' <=> Busy(g, e) /\ (g = h => pc[h] # "reply")
  BY <1>1, BusySteps
<1> SUFFICES ASSUME e \notin overlapped PROVE PackInv'
  BY <1>2 DEF PackInv
<1>4. OneAtATime(e)'
  BY <1>3 DEF OneAtATime, PackInv
<1>5. CASE ~Busy(h, e)
  <2>1. pc[h] \notin {"max", "min", "spread"}
    BY <1>5, PlaceFields DEF Busy
  <2>2. UNCHANGED <<cell, spread>>
    BY <2>1, Frames
  <2>3. \A g \in Handlers : Busy(g, e)' <=> Busy(g, e)
    BY <1>3, <1>5
  <2>4. ASSUME NEW g \in Handlers, Busy(g, e)'
        PROVE  /\ req'[g].report = lastReport'
               /\ HasPack(lastReport') => PackAt(g)'
    <3>1. Busy(g, e) /\ g # h
      BY <1>5, <2>3, <2>4
    <3>2. pc'[g] = pc[g] /\ req'[g] = req[g]
      BY <1>1, <3>1 DEF OwnStep
    <3> QED
      BY <1>2, <2>2, <3>1, <3>2 DEF PackInv, PackAt
  <2> QED
    BY <1>2, <1>4, <2>2, <2>3, <2>4 DEF PackInv, PackShown
<1>6. CASE Busy(h, e)
  <2>1. /\ req[h].report = lastReport
        /\ HasPack(lastReport) => PackAt(h)
        /\ \A g \in Handlers \ {h} : ~Busy(g, e)
    BY <1>6 DEF PackInv, OneAtATime
  <2>2. \A g \in Handlers \ {h} : ~Busy(g, e)'
    BY <1>3, <2>1
  <2>3. /\ pc \in [Handlers -> Places]
        /\ cell \in [Extremes -> Nat \cup {Missing}]
    BY DEF TypeInv, TypeOK, HandlerTypes, PackTypes
  <2>4. ASSUME pc[h] # "reply", HasPack(lastReport) => PackAt(h)'
        PROVE  PackInv'
    <3>1. pc'[h] # "idle" /\ req'[h] = req[h] /\ Busy(h, e)'
      BY <1>1, <1>3, <1>6, <2>4 DEF OwnStep
    <3> QED
      BY <1>2, <1>4, <2>1, <2>2, <2>4, <3>1 DEF PackInv
  <2>5. HasPack(lastReport) =>
           /\ lastReport.max # Missing /\ lastReport.min # Missing
           /\ lastReport.max > 0
    BY DEF HasPack, Missing
  <2>6. CASE pc[h] = "max"
    <3>1. /\ pc' = [pc EXCEPT ![h] = "min"]
          /\ cell' = IF req[h].report.max = Missing THEN cell
                     ELSE [cell EXCEPT !["max"] = req[h].report.max]
      BY <2>6, WhichStep DEF SetMax, SetCell, Goto
    <3>2. pc'[h] = "min"
      BY <2>3, <3>1
    <3>3. HasPack(lastReport) => cell'["max"] = lastReport.max
      BY <2>1, <2>3, <2>5, <3>1 DEF Extremes
    <3>4. HasPack(lastReport) => PackAt(h)'
      BY <1>2, <3>2, <3>3 DEF PackAt
    <3> QED
      BY <2>4, <2>6, <3>4
  <2>7. CASE pc[h] = "min"
    <3>1. /\ pc' = [pc EXCEPT ![h] = "spread"]
          /\ cell' = IF req[h].report.min = Missing THEN cell
                     ELSE [cell EXCEPT !["min"] = req[h].report.min]
      BY <2>7, WhichStep DEF SetMin, SetCell, Goto
    <3>2. pc'[h] = "spread"
      BY <2>3, <3>1
    <3>3. HasPack(lastReport) => cell["max"] = lastReport.max
      BY <2>1, <2>7 DEF PackAt
    <3>4. HasPack(lastReport) => /\ cell'["max"] = lastReport.max
                                 /\ cell'["min"] = lastReport.min
      BY <2>1, <2>3, <2>5, <3>1, <3>3 DEF Extremes
    <3>5. HasPack(lastReport) => PackAt(h)'
      BY <1>2, <3>2, <3>4 DEF PackAt
    <3> QED
      BY <2>4, <2>7, <3>5
  <2>8. CASE pc[h] = "spread"
    <3>1. pc' = [pc EXCEPT ![h] = "reply"] /\ cell' = cell
      BY <2>8, WhichStep DEF SetSpread, Goto
    <3>2. pc'[h] = "reply"
      BY <2>3, <3>1
    <3>3. HasPack(lastReport) => /\ cell["max"] = lastReport.max
                                 /\ cell["min"] = lastReport.min
      BY <2>1, <2>8 DEF PackAt
    <3>4. HasPack(lastReport) => spread' = lastReport.max - lastReport.min
      BY <2>1, <2>5, <2>8, WhichStep DEF SetSpread
    <3>5. HasPack(lastReport) => PackAt(h)'
      BY <1>2, <3>1, <3>2, <3>3, <3>4 DEF PackAt
    <3> QED
      BY <2>4, <2>8, <3>5
  <2>9. CASE pc[h] = "reply"
    <3>1. UNCHANGED <<cell, spread>>
      BY <2>9, Frames
    <3>2. HasPack(lastReport) => PackShown
      BY <2>1, <2>9 DEF PackAt, PackShown
    <3>3. \A g \in Handlers : ~Busy(g, e)'
      BY <1>3, <2>2, <2>9
    <3>4. HasPack(lastReport)' => PackShown'
      BY <1>2, <3>1, <3>2 DEF PackShown
    <3> QED
      BY <1>4, <3>3, <3>4 DEF PackInv
  <2>10. pc[h] \in {"max", "min", "spread", "reply"}
    <3>1. /\ req[h] \in Requests /\ req[h].endpoint = e
          /\ pc[h] \in PlacesOf(req[h])
      BY <1>6 DEF Busy, TypeInv, CallInv
    <3> QED
      BY <3>1 DEF PlacesOf
  <2> QED
    BY <2>6, <2>7, <2>8, <2>9, <2>10
<1> QED
  BY <1>5, <1>6

\* So does the arrival of a request.
LEMMA ArriveKeepsPack ==
    ASSUME EmulatorAssumption, TypeInv, IInv, PackInv, NEW h \in Handlers,
           NEW r \in Requests, Arrive(h, r)
    PROVE  PackInv'
<1> DEFINE e == "report"
<1>0. e \in Endpoints
  BY DEF Endpoints
<1>1. UNCHANGED <<cell, spread>>
  BY ArriveFacts
<1>2. \A g \in Handlers :
         Busy(g, e)' <=> Busy(g, e) \/ (g = h /\ e = r.endpoint)
  BY <1>0, BusyArrives
<1> SUFFICES ASSUME e \notin overlapped' PROVE PackInv'
  BY DEF PackInv
<1>3. e \notin overlapped
  BY BusyArrives
<1>4. CASE r.endpoint = e
  <2>1. \A g \in Handlers : Busy(g, e)' <=> g = h
    BY <1>2, <1>4, BusyArrives
  <2>2. req'[h].report = r.report /\ lastReport' = r.report
    BY <1>4, BusyArrives DEF Arrive, Remember
  <2>3. HasPack(r.report) => pc'[h] = "max"
    BY <1>4, BusyArrives DEF FirstStep, HasPack
  <2>4. HasPack(lastReport') => PackAt(h)'
    BY <2>2, <2>3 DEF PackAt
  <2> QED
    BY <2>1, <2>2, <2>4 DEF PackInv, OneAtATime
<1>5. CASE r.endpoint # e
  <2>1. \A g \in Handlers : Busy(g, e)' <=> Busy(g, e)
    BY <1>2, <1>5
  <2>2. lastReport' = lastReport /\ received'[e] = received[e]
    BY <1>0, <1>5, ArriveFacts DEF Arrive, Remember
  <2>3. ~Busy(h, e)
    BY <1>0, BusyArrives
  <2>4. ASSUME NEW g \in Handlers, Busy(g, e)'
        PROVE  /\ req'[g].report = lastReport'
               /\ HasPack(lastReport') => PackAt(g)'
    <3>1. Busy(g, e) /\ g # h
      BY <2>1, <2>3, <2>4
    <3>2. pc'[g] = pc[g] /\ req'[g] = req[g]
      BY <3>1, BusyArrives
    <3> QED
      BY <1>1, <1>3, <2>2, <3>1, <3>2 DEF PackInv, PackAt
  <2> QED
    BY <1>1, <1>3, <2>1, <2>2, <2>4 DEF PackInv, OneAtATime, PackShown
<1> QED
  BY <1>4, <1>5

\* Once the requests of an endpoint that never overlapped are answered, what is
\* shown is what the last of them said.
THEOREM LastShown == Spec => []LastRequestShows
<1> USE EmulatorAssumption
<1>1. Init => HeaderInv /\ PackInv
  BY DEF Init, HeaderInv, PackInv, OneAtATime, Busy, Endpoints
<1>2. /\ TypeInv /\ IInv /\ HeaderInv /\ PackInv /\ [Next]_vars
      => HeaderInv' /\ PackInv'
  <2> SUFFICES ASSUME TypeInv, IInv, HeaderInv, PackInv, [Next]_vars
               PROVE  HeaderInv' /\ PackInv'
    OBVIOUS
  <2>1. ASSUME NEW h \in Handlers, Handle(h) PROVE HeaderInv' /\ PackInv'
    BY <2>1, HandleKeepsHeader, HandleKeepsPack
  <2>2. ASSUME NEW h \in Handlers, NEW r \in Requests, Arrive(h, r)
        PROVE  HeaderInv' /\ PackInv'
    BY <2>2, ArriveKeepsHeader, ArriveKeepsPack
  <2>3. CASE Tick \/ UNCHANGED vars
    <3>1. /\ UNCHANGED <<pc, req, at, prevLen, headerLen, headerSeries>>
          /\ UNCHANGED <<cell, spread, received, lastUpload, lastReport,
                         overlapped>>
      BY <2>3 DEF Tick, vars, handler, call, header, pack, history
    <3> QED
      BY <3>1 DEF HeaderInv, PackInv, OneAtATime, Busy, HeaderAt, PackAt,
                  HeaderShown, PackShown
  <2> QED
    BY <2>1, <2>2, <2>3 DEF Next
<1>3. HeaderInv /\ PackInv => LastRequestShows
  BY DEF HeaderInv, PackInv, LastRequestShows, Quiet, Alone, Busy
<1> QED
  BY <1>1, <1>2, <1>3, Types, Invariance, PTL DEF Spec

-----------------------------------------------------------------------------
(* The events. *)

\* The events of an upload that are decoded are finitely many.
LEMMA WiFiEventsFinite ==
    ASSUME EmulatorAssumption, NEW u \in Uploads, NEW n
    PROVE  IsFiniteSet(WiFiEvents(u, n))
<1> DEFINE K == {j \in Kept(u) : IsWiFi(u, j)}
           f == [i \in K |-> [upload |-> n, index |-> i,
                              cause |-> u.entries[i].cause]]
<1>1. K \subseteq 1 .. Len(u.entries) /\ Len(u.entries) \in Nat
  BY UploadFields
<1>2. IsFiniteSet(K)
  <2>1. IsFiniteSet(1 .. Len(u.entries))
    BY <1>1, FS_Interval
  <2> QED
    BY <1>1, <2>1, FS_Subset
<1>3. f \in Surjection(K, WiFiEvents(u, n))
  BY DEF Surjection, WiFiEvents
<1> QED
  BY <1>2, <1>3, FS_Surjection

\* What an event of an upload in progress says.
LEMMA WiFiEventFields ==
    ASSUME EmulatorAssumption, NEW u \in Uploads, NEW n,
           NEW m \in WiFiEvents(u, n)
    PROVE  /\ m.upload = n /\ m.index \in Kept(u) /\ IsWiFi(u, m.index)
           /\ m.cause = u.entries[m.index].cause
           /\ m = [upload |-> n, index |-> m.index, cause |-> m.cause]
           /\ m.index \in Nat \ {0}
<1>1. /\ m.upload = n /\ m.index \in Kept(u) /\ IsWiFi(u, m.index)
      /\ m.cause = u.entries[m.index].cause
      /\ m = [upload |-> n, index |-> m.index, cause |-> m.cause]
  BY DEF WiFiEvents
<1> QED
  BY <1>1, UploadFields

\* How far a handler is with the events of its upload.
Passed(h, i) ==
    \/ pc[h] = "reply"
    \/ pc[h] \in {"count", "decode"} /\ i < at[h]
    \/ pc[h] = "signal" /\ i <= at[h]

\* The events that were decoded: all but those of the uploads in progress that
\* their handlers have still to come to.
Accounted ==
    {m \in meant :
        \A h \in Handlers :
           Busy(h, "solar_errinfo") /\ number[h] = m.upload =>
              Passed(h, m.index)}

\* The uploads in progress have numbers of their own, and the events that were
\* meant under such a number are those of that upload.
UploadInv ==
    /\ IsFiniteSet(meant)
    /\ \A m \in meant : /\ m.upload \in Nat
                        /\ m.upload <= received["solar_errinfo"]
    /\ \A h \in Handlers :
          Busy(h, "solar_errinfo") =>
             /\ number[h] <= received["solar_errinfo"]
             /\ {m \in meant : m.upload = number[h]} =
                   WiFiEvents(req[h].upload, number[h])
    /\ \A g, h \in Handlers :
          Busy(g, "solar_errinfo") /\ Busy(h, "solar_errinfo") =>
             (number[g] = number[h] => g = h)

\* The counters count the events accounted for.
CountInv ==
    /\ timeouts = Cardinality(TimedOut(Accounted))
    /\ \A r \in Reasons : reasons[r] = Cardinality(LeftFor(Accounted, r))

\* A handler that has counted a reason and is about to set its signal strength.
Signals(h, r) == pc[h] = "signal" /\ CauseOf(h).reason = r

\* A signal strength that is shown is an event's own; a reason that was counted
\* shows one, or is about to.
SignalInv ==
    \A r \in Reasons :
       /\ rssi[r] # Unset =>
             \E m \in LeftFor(meant, r) : rssi[r] = m.cause.rssi
       /\ reasons[r] > 0 /\ rssi[r] = Unset => \E h \in Handlers : Signals(h, r)

\* A step that is no decoding accounts for nothing: it leaves its handler as far
\* as it was with every event that is decoded.
LEMMA AccountedStays ==
    ASSUME EmulatorAssumption, TypeInv, IInv, UploadInv, NEW h \in Handlers,
           Handle(h), pc[h] # "decode"
    PROVE  Accounted' = Accounted
<1> DEFINE e == "solar_errinfo"
<1>1. OwnStep(h) /\ e \in Endpoints
  BY OwnSteps DEF Endpoints
<1>2. \A g \in Handlers :
         Busy(g, e)' <=> Busy(g, e) /\ (g = h => pc[h] # "reply")
  BY <1>1, BusySteps
<1>3. \A g \in Handlers \ {h} : \A i : Passed(g, i)' <=> Passed(g, i)
  BY <1>1 DEF OwnStep, Passed
<1>4. ASSUME Busy(h, e), pc[h] # "reply",
             NEW m \in meant, m.upload = number[h]
      PROVE  Passed(h, m.index)' <=> Passed(h, m.index)
  <2> DEFINE u == req[h].upload
  <2>1. /\ req[h] \in Requests /\ req[h].endpoint = e
        /\ pc[h] \in PlacesOf(req[h]) /\ u \in Uploads
    BY <1>4, RequestFields DEF Busy, TypeInv, CallInv
  <2>2. m \in WiFiEvents(u, number[h])
    BY <1>4 DEF UploadInv
  <2>3. m.index \in Kept(u) /\ IsWiFi(u, m.index) /\ m.index \in Nat \ {0}
    BY <2>1, <2>2, WiFiEventFields
  <2>4. pc[h] \in {"swap", "trim", "fill", "count", "signal"}
    BY <1>4, <2>1, PlacesOfEach
  <2>5. /\ pc \in [Handlers -> Places] /\ at \in [Handlers -> Nat]
        /\ Kept(u) \subseteq Nat
    BY <2>1, UploadFields DEF TypeInv, TypeOK, HandlerTypes
  <2>6. CASE pc[h] \in {"swap", "trim"}
    <3>1. pc'[h] \in {"trim", "fill"}
      BY <2>5, <2>6, WhichStep DEF SwapLength, TrimHeader, Goto
    <3> QED
      BY <2>6, <3>1 DEF Passed
  <2>7. CASE pc[h] = "fill"
    <3>1. pc'[h] = "fill" \/ (pc'[h] = "count" /\ at'[h] = 1)
      BY <2>5, <2>7, WhichStep DEF FillHeader, Goto
    <3> QED
      BY <2>3, <2>7, <3>1 DEF Passed
  <2>8. CASE pc[h] = "count"
    <3> DEFINE todo == {i \in Kept(u) : i >= at[h]}
    <3>1. CountEvent(h)
      BY <2>8, WhichStep
    <3>2. CASE todo = {}
      <4>1. pc'[h] = "reply"
        BY <2>5, <3>1, <3>2 DEF CountEvent, Goto
      <4>2. m.index < at[h]
        BY <2>3, <2>5, <3>2
      <4> QED
        BY <2>8, <4>1, <4>2 DEF Passed
    <3>3. CASE todo # {}
      <4>1. PICK i \in todo :
               /\ \A j \in todo : i <= j
               /\ IF IsWiFi(u, i)
                    THEN Goto(h, "decode") /\ at' = [at EXCEPT ![h] = i]
                    ELSE UNCHANGED pc /\ at' = [at EXCEPT ![h] = i + 1]
        BY <3>1, <3>3 DEF CountEvent
      <4>2. /\ i \in Nat /\ at[h] \in Nat /\ i >= at[h]
            /\ m.index >= at[h] => i <= m.index
        BY <2>3, <2>5, <4>1
      <4>3. CASE IsWiFi(u, i)
        <5>1. pc'[h] = "decode" /\ at'[h] = i
          BY <2>5, <4>1, <4>3 DEF Goto
        <5>2. m.index < i <=> m.index < at[h]
          BY <2>3, <4>2
        <5> QED
          BY <2>8, <5>1, <5>2 DEF Passed
      <4>4. CASE ~IsWiFi(u, i)
        <5>1. pc'[h] = "count" /\ at'[h] = i + 1
          BY <2>5, <2>8, <4>1, <4>4
        <5>2. m.index # i
          BY <2>3, <4>4
        <5>3. m.index < i + 1 <=> m.index < at[h]
          BY <2>3, <4>2, <5>2
        <5> QED
          BY <2>8, <5>1, <5>3 DEF Passed
      <4> QED
        BY <4>3, <4>4
    <3> QED
      BY <3>2, <3>3
  <2>9. CASE pc[h] = "signal"
    <3>1. pc'[h] = "count" /\ at'[h] = at[h] + 1 /\ at[h] \in Nat
      BY <2>5, <2>9, WhichStep DEF SetSignal, Goto
    <3>2. m.index < at[h] + 1 <=> m.index <= at[h]
      BY <2>3, <3>1
    <3> QED
      BY <2>9, <3>1, <3>2 DEF Passed
  <2> QED
    BY <2>4, <2>6, <2>7, <2>8, <2>9
<1>5. /\ \A g \in Handlers \ {h} : number'[g] = number[g]
      /\ meant' = meant
      /\ pc[h] # "reply" => number'[h] = number[h]
      /\ pc[h] = "reply" => \A i : Passed(h, i)
  BY <1>1 DEF OwnStep, Passed
<1> QED
  BY <1>2, <1>3, <1>4, <1>5 DEF Accounted

\* The event that a handler decodes or shows.
EventOf(h) ==
    [upload |-> number[h], index |-> at[h], cause |-> CauseOf(h)]

\* It is one that was meant, and it is read as what it means.
LEMMA EventMeant ==
    ASSUME EmulatorAssumption, TypeInv, UploadInv, NEW h \in Handlers,
           pc[h] \in {"decode", "signal"}
    PROVE  /\ Busy(h, "solar_errinfo") /\ req[h].upload \in Uploads
           /\ EventOf(h) \in meant
           /\ CauseOf(h) \in Causes /\ CauseOf(h).reason \in Reasons
           /\ ScanTimeout(EventValue(h)) <=> CauseOf(h).kind = "timeout"
           /\ Reason(EventValue(h)) = CauseOf(h).reason
           /\ RSSIDBm(EventValue(h)) = CauseOf(h).rssi
<1> DEFINE u == req[h].upload
<1>1. /\ u \in Uploads /\ Busy(h, "solar_errinfo")
      /\ at[h] \in Kept(u) /\ IsWiFi(u, at[h])
  BY PlaceFields DEF Busy, TypeInv, DecodeAt
<1>2. EventOf(h) \in WiFiEvents(u, number[h])
  BY <1>1 DEF WiFiEvents, EventOf, CauseOf
<1>3. EventOf(h) \in meant
  BY <1>1, <1>2 DEF UploadInv
<1>4. CauseOf(h) \in Causes /\ CauseOf(h).reason \in Reasons
  BY <1>1, UploadFields DEF CauseOf
<1> QED
  BY <1>1, <1>3, <1>4, DecodedIsMeant DEF EventValue, CauseOf

\* The decoding of an event accounts for that event, which was not.
LEMMA DecodingAccounts ==
    ASSUME EmulatorAssumption, TypeInv, IInv, UploadInv, NEW h \in Handlers,
           DecodeEvent(h)
    PROVE  /\ EventOf(h) \notin Accounted
           /\ Accounted' = Accounted \cup {EventOf(h)}
<1> DEFINE e == "solar_errinfo"
           u == req[h].upload
           m == EventOf(h)
<1>1. Handle(h) /\ pc[h] = "decode" /\ e \in Endpoints
  BY DEF Handle, DecodeEvent, Endpoints
<1>2. OwnStep(h)
  BY <1>1, OwnSteps
<1>3. u \in Uploads /\ Busy(h, e)
  BY <1>1, EventMeant
<1>4. m \in meant
  BY <1>1, EventMeant
<1>5. /\ pc \in [Handlers -> Places] /\ at \in [Handlers -> Nat]
      /\ at[h] \in Nat /\ \/ pc'[h] = "count" /\ at'[h] = at[h] + 1
                          \/ pc'[h] = "signal" /\ at'[h] = at[h]
      /\ req'[h] = req[h] /\ number'[h] = number[h] /\ meant' = meant
  BY <1>2 DEF DecodeEvent, Goto, TypeInv, TypeOK, HandlerTypes, call, OwnStep
<1>6. ~Passed(h, at[h])
  BY <1>1, <1>5 DEF Passed
<1>7. m \notin Accounted
  BY <1>3, <1>6 DEF Accounted, EventOf
<1>8. \A g \in Handlers : Busy(g, e)' <=> Busy(g, e)
  BY <1>1, BusySteps
<1>9. \A g \in Handlers \ {h} :
          /\ number'[g] = number[g]
          /\ \A i : Passed(g, i)' <=> Passed(g, i)
  BY <1>2 DEF OwnStep, Passed
<1>10. \A g \in Handlers \ {h} : Busy(g, e) => number[g] # number[h]
  BY <1>3 DEF UploadInv
<1>11. ASSUME NEW k \in meant, k.upload = number[h]
       PROVE  Passed(h, k.index)' <=> Passed(h, k.index) \/ k = m
  <2>1. k \in WiFiEvents(u, number[h])
    BY <1>3, <1>11 DEF UploadInv
  <2>2. /\ k = [upload |-> number[h], index |-> k.index, cause |-> k.cause]
        /\ k.cause = u.entries[k.index].cause /\ k.index \in Nat
    BY <1>3, <2>1, WiFiEventFields
  <2>3. k = m <=> k.index = at[h]
    BY <2>2 DEF EventOf, CauseOf
  <2>4. /\ k.index < at[h] + 1 <=> k.index < at[h] \/ k.index = at[h]
        /\ k.index <= at[h] <=> k.index < at[h] \/ k.index = at[h]
    BY <1>5, <2>2
  <2> HIDE DEF m
  <2> QED
    BY <1>1, <1>5, <2>3, <2>4 DEF Passed
<1>12. m.upload = number[h]
  BY DEF EventOf
<1> HIDE DEF m
<1>13. Accounted' = Accounted \cup {m}
  <2>1. ASSUME NEW k \in meant
        PROVE  k \in Accounted' <=> k \in Accounted \/ k = m
    <3>1. CASE k.upload = number[h]
      <4>1. k \in Accounted <=> Passed(h, k.index)
        BY <1>3, <1>10, <3>1 DEF Accounted
      <4>2. k \in Accounted' <=> Passed(h, k.index)'
        BY <1>3, <1>5, <1>8, <1>9, <1>10, <3>1 DEF Accounted
      <4> QED
        BY <1>11, <3>1, <4>1, <4>2
    <3>2. CASE k.upload # number[h]
      BY <1>5, <1>8, <1>9, <1>12, <3>2 DEF Accounted
    <3> QED
      BY <3>1, <3>2
  <2>2. Accounted \subseteq meant /\ Accounted' \subseteq meant
    BY <1>5 DEF Accounted
  <2> QED
    BY <1>4, <2>1, <2>2
<1> QED
  BY <1>7, <1>13 DEF m

\* A step of a handler keeps what is known of the uploads in progress.
LEMMA HandleKeepsUploads ==
    ASSUME EmulatorAssumption, TypeInv, IInv, UploadInv, NEW h \in Handlers,
           Handle(h)
    PROVE  UploadInv'
<1> DEFINE e == "solar_errinfo"
<1>1. OwnStep(h) /\ e \in Endpoints
  BY OwnSteps DEF Endpoints
<1>2. \A g \in Handlers :
         Busy(g, e)' => Busy(g, e) /\ (g = h => pc[h] # "reply")
  BY <1>1, BusySteps
<1>3. \A g \in Handlers :
         Busy(g, e)' => /\ number'[g] = number[g] /\ req'[g] = req[g]
                        /\ Busy(g, e)
  BY <1>1, <1>2 DEF OwnStep, Busy
<1>4. meant' = meant /\ received' = received
  BY <1>1 DEF OwnStep
<1>5. ASSUME NEW g \in Handlers, Busy(g, e)'
      PROVE  /\ number'[g] <= received'[e]
             /\ {m \in meant' : m.upload = number'[g]} =
                   WiFiEvents(req'[g].upload, number'[g])
  BY <1>3, <1>4, <1>5 DEF UploadInv
<1> QED
  BY <1>3, <1>4, <1>5
     DEF UploadInv, WiFiEvents, Kept, IsWiFi, Battery, ReportType

\* And the counters count the events accounted for.
LEMMA HandleKeepsCounts ==
    ASSUME EmulatorAssumption, TypeInv, IInv, UploadInv, CountInv,
           NEW h \in Handlers, Handle(h)
    PROVE  CountInv'
<1>1. CASE pc[h] # "decode"
  <2>1. Accounted' = Accounted
    BY <1>1, AccountedStays
  <2>2. meant' = meant
    BY OwnSteps DEF OwnStep
  <2>3. UNCHANGED <<timeouts, reasons>>
    <3>1. CASE pc[h] \in {"count", "signal"}
      BY <3>1, WhichStep DEF CountEvent, SetSignal
    <3>2. CASE pc[h] \notin {"count", "signal"}
      BY <1>1, <3>2, Frames DEF wifi
    <3> QED
      BY <3>1, <3>2
  <2> QED
    BY <2>1, <2>2, <2>3 DEF CountInv, TimedOut, LeftFor
<1>2. CASE pc[h] = "decode"
  <2> DEFINE m == EventOf(h)
             c == CauseOf(h)
             done == Accounted
  <2>1. DecodeEvent(h)
    BY <1>2, WhichStep
  <2>2. /\ m \notin done /\ Accounted' = done \cup {m} /\ m.cause = c
        /\ c \in Causes /\ c.reason \in Reasons
    BY <1>2, <2>1, DecodingAccounts, EventMeant DEF EventOf
  <2>3. /\ ScanTimeout(EventValue(h)) <=> c.kind = "timeout"
        /\ Reason(EventValue(h)) = c.reason
        /\ c.kind \in {"timeout", "left"}
    BY <1>2, <2>2, EventMeant, CauseFields
  <2>4. IF c.kind = "timeout"
          THEN timeouts' = timeouts + 1 /\ reasons' = reasons
          ELSE /\ reasons' = [reasons EXCEPT ![c.reason] = @ + 1]
               /\ timeouts' = timeouts
    BY <2>1, <2>3 DEF DecodeEvent
  <2>5. timeouts \in Nat /\ reasons \in [Reasons -> Nat]
    BY DEF TypeInv, TypeOK, EventTypes
  <2>6. IsFiniteSet(done)
    BY FS_Subset DEF Accounted, UploadInv
  <2>7. /\ IsFiniteSet(TimedOut(done))
        /\ \A r \in Reasons : IsFiniteSet(LeftFor(done, r))
    BY <2>6, FS_Subset DEF TimedOut, LeftFor
  <2>8. m \notin TimedOut(done) /\ \A r \in Reasons : m \notin LeftFor(done, r)
    BY <2>2 DEF TimedOut, LeftFor
  <2> HIDE DEF m, c
  <2>9. CASE c.kind = "timeout"
    <3>1. /\ TimedOut(Accounted') = TimedOut(done) \cup {m}
          /\ \A r \in Reasons : LeftFor(Accounted', r) = LeftFor(done, r)
      BY <2>2, <2>9 DEF TimedOut, LeftFor
    <3>2. Cardinality(TimedOut(Accounted')) = timeouts + 1
      BY <2>7, <2>8, <3>1, FS_AddElement DEF CountInv
    <3>3. /\ timeouts' = Cardinality(TimedOut(Accounted'))
          /\ \A r \in Reasons :
                reasons'[r] = Cardinality(LeftFor(Accounted', r))
      BY <2>4, <2>9, <3>1, <3>2 DEF CountInv
    <3> QED
      BY <3>3 DEF CountInv, TimedOut, LeftFor
  <2>10. CASE c.kind = "left"
    <3>1. /\ TimedOut(Accounted') = TimedOut(done)
          /\ LeftFor(Accounted', c.reason) = LeftFor(done, c.reason) \cup {m}
          /\ \A r \in Reasons \ {c.reason} :
                LeftFor(Accounted', r) = LeftFor(done, r)
      BY <2>2, <2>10 DEF TimedOut, LeftFor
    <3>2. Cardinality(LeftFor(Accounted', c.reason)) = reasons[c.reason] + 1
      <4>1. /\ IsFiniteSet(LeftFor(done, c.reason))
            /\ m \notin LeftFor(done, c.reason)
            /\ Cardinality(LeftFor(done, c.reason)) = reasons[c.reason]
        BY <2>2, <2>7, <2>8 DEF CountInv
      <4> HIDE DEF done
      <4> QED
        BY <3>1, <4>1, FS_AddElement
    <3>3. timeouts' = Cardinality(TimedOut(Accounted'))
      BY <2>4, <2>10, <3>1 DEF CountInv
    <3>4. ASSUME NEW r \in Reasons
          PROVE  reasons'[r] = Cardinality(LeftFor(Accounted', r))
      <4>1. CASE r = c.reason
        BY <2>4, <2>5, <2>10, <3>2, <4>1
      <4>2. CASE r # c.reason
        BY <2>4, <2>5, <2>10, <3>1, <4>2 DEF CountInv
      <4> QED
        BY <4>1, <4>2
    <3> QED
      BY <3>3, <3>4 DEF CountInv, TimedOut, LeftFor
  <2> QED
    BY <2>3, <2>9, <2>10
<1> QED
  BY <1>1, <1>2

\* So do the signal strengths: a reason waits for its own from the one step of
\* its handler to the next.
LEMMA HandleKeepsSignals ==
    ASSUME EmulatorAssumption, TypeInv, IInv, UploadInv, SignalInv,
           NEW h \in Handlers, Handle(h)
    PROVE  SignalInv'
<1> DEFINE c == CauseOf(h)
<1>1. /\ meant' = meant /\ pc[h] # "idle"
      /\ \A g \in Handlers \ {h} :
            pc'[g] = pc[g] /\ req'[g] = req[g] /\ at'[g] = at[g]
  BY OwnSteps DEF OwnStep
<1>2. \A g \in Handlers \ {h}, r \in Reasons : Signals(g, r)' <=> Signals(g, r)
  BY <1>1 DEF Signals, CauseOf
<1>3. \A r \in Reasons : LeftFor(meant', r) = LeftFor(meant, r)
  BY <1>1
<1>4. reasons \in [Reasons -> Nat] /\ rssi \in [Reasons -> Int16s]
  BY DEF TypeInv, TypeOK, EventTypes
<1>5. CASE pc[h] \notin {"decode", "signal"}
  <2>1. UNCHANGED <<reasons, rssi>>
    <3>1. CASE pc[h] = "count"
      BY <3>1, WhichStep DEF CountEvent
    <3>2. CASE pc[h] # "count"
      BY <1>5, <3>2, Frames DEF wifi
    <3> QED
      BY <3>1, <3>2
  <2>2. \A r \in Reasons : ~Signals(h, r)
    BY <1>5 DEF Signals
  <2>3. ASSUME NEW r \in Reasons
        PROVE  /\ rssi'[r] # Unset =>
                     \E m \in LeftFor(meant', r) : rssi'[r] = m.cause.rssi
               /\ reasons'[r] > 0 /\ rssi'[r] = Unset =>
                     \E g \in Handlers : Signals(g, r)'
    BY <1>2, <1>3, <2>1, <2>2 DEF SignalInv
  <2> QED
    BY <2>3 DEF SignalInv, LeftFor
<1>6. CASE pc[h] = "decode"
  <2>1. /\ DecodeEvent(h) /\ c.kind \in {"timeout", "left"}
        /\ ScanTimeout(EventValue(h)) <=> c.kind = "timeout"
        /\ Reason(EventValue(h)) = c.reason /\ c.reason \in Reasons
    BY <1>6, WhichStep, EventMeant, CauseFields
  <2>2. rssi' = rssi /\ pc \in [Handlers -> Places] /\ req' = req
    BY <2>1 DEF DecodeEvent, TypeInv, TypeOK, HandlerTypes, call
  <2>3. \/ reasons' = reasons
        \/ /\ reasons' = [reasons EXCEPT ![c.reason] = @ + 1]
           /\ pc'[h] = "signal" /\ at' = at
    BY <2>1, <2>2 DEF DecodeEvent, Goto
  <2>4. \A r \in Reasons : ~Signals(h, r)
    BY <1>6 DEF Signals
  <2>5. \/ reasons' = reasons
        \/ /\ reasons' = [reasons EXCEPT ![c.reason] = @ + 1]
           /\ \A r \in Reasons : r = c.reason => Signals(h, r)'
    BY <2>2, <2>3 DEF Signals, CauseOf
  <2> HIDE DEF c
  <2>6. ASSUME NEW r \in Reasons
        PROVE  /\ rssi'[r] # Unset =>
                     \E m \in LeftFor(meant', r) : rssi'[r] = m.cause.rssi
               /\ reasons'[r] > 0 /\ rssi'[r] = Unset =>
                     \E g \in Handlers : Signals(g, r)'
    <3>1. reasons'[r] = reasons[r] \/ Signals(h, r)'
      <4>1. CASE reasons' = reasons
        BY <4>1
      <4>2. CASE reasons' # reasons
        <5>1. /\ reasons' = [reasons EXCEPT ![c.reason] = @ + 1]
              /\ r = c.reason => Signals(h, r)'
          BY <2>5, <4>2
        <5>2. r # c.reason => reasons'[r] = reasons[r]
          BY <1>4, <5>1
        <5> QED
          BY <5>1, <5>2
      <4> QED
        BY <4>1, <4>2
    <3> QED
      BY <1>2, <1>3, <2>2, <2>4, <3>1 DEF SignalInv
  <2> QED
    BY <2>6 DEF SignalInv, LeftFor
<1>7. CASE pc[h] = "signal"
  <2>1. /\ SetSignal(h) /\ EventOf(h) \in meant
        /\ Reason(EventValue(h)) = c.reason /\ c.reason \in Reasons
        /\ RSSIDBm(EventValue(h)) = c.rssi /\ c \in Causes /\ c.kind = "left"
    BY <1>7, WhichStep, EventMeant DEF TypeInv, DecodeAt
  <2>2. reasons' = reasons /\ rssi' = [rssi EXCEPT ![c.reason] = c.rssi]
    BY <2>1 DEF SetSignal
  <2>3. EventOf(h) \in LeftFor(meant, c.reason) /\ EventOf(h).cause = c
    BY <2>1 DEF LeftFor, EventOf
  <2>4. c.rssi # Unset
    BY <2>1, CauseFields
  <2>5. \A r \in Reasons : Signals(h, r) => r = c.reason
    BY DEF Signals
  <2> HIDE DEF c
  <2>6. ASSUME NEW r \in Reasons
        PROVE  /\ rssi'[r] # Unset =>
                     \E m \in LeftFor(meant', r) : rssi'[r] = m.cause.rssi
               /\ reasons'[r] > 0 /\ rssi'[r] = Unset =>
                     \E g \in Handlers : Signals(g, r)'
    <3>1. CASE r = c.reason
      <4>1. rssi'[r] = c.rssi
        BY <1>4, <2>2, <3>1
      <4> QED
        BY <1>3, <2>3, <2>4, <3>1, <4>1
    <3>2. CASE r # c.reason
      <4>1. rssi'[r] = rssi[r] /\ reasons'[r] = reasons[r]
        BY <1>4, <2>2, <3>2
      <4> QED
        BY <1>2, <1>3, <2>5, <3>2, <4>1 DEF SignalInv
    <3> QED
      BY <3>1, <3>2
  <2> QED
    BY <2>6 DEF SignalInv, LeftFor
<1> QED
  BY <1>5, <1>6, <1>7

\* The arrival of an upload adds events that are not accounted for yet, under a
\* number that no other has.
LEMMA ArriveKeepsCounts ==
    ASSUME EmulatorAssumption, TypeInv, IInv, UploadInv, CountInv, SignalInv,
           NEW h \in Handlers, NEW r \in Requests, Arrive(h, r)
    PROVE  UploadInv' /\ CountInv' /\ SignalInv'
<1> DEFINE e == "solar_errinfo"
<1>0. e \in Endpoints
  BY DEF Endpoints
<1>1. \A g \in Handlers :
         Busy(g, e)' <=> Busy(g, e) \/ (g = h /\ e = r.endpoint)
  BY <1>0, BusyArrives
<1>2. ~Busy(h, e)
  BY <1>0, BusyArrives
<1>3. \A g \in Handlers \ {h} :
         /\ number'[g] = number[g] /\ req'[g] = req[g]
         /\ \A i : Passed(g, i)' <=> Passed(g, i)
  BY BusyArrives, ArriveFacts DEF Passed
<1>4. UNCHANGED <<timeouts, reasons, rssi>>
  BY ArriveFacts DEF wifi
<1>5. received[e] \in Nat /\ number \in [Handlers -> Nat]
  BY <1>0 DEF TypeInv, CallInv
<1>6. SignalInv'
  <2>1. /\ \A g \in Handlers \ {h} : pc'[g] = pc[g] /\ at'[g] = at[g]
        /\ pc[h] = "idle"
    BY ArriveFacts DEF TypeInv, TypeOK, HandlerTypes
  <2>2. \A g \in Handlers, x \in Reasons : Signals(g, x) => Signals(g, x)'
    BY <1>3, <2>1 DEF Signals, CauseOf
  <2>3. meant \subseteq meant'
    BY DEF Arrive, Remember
  <2>4. \A x \in Reasons : LeftFor(meant, x) \subseteq LeftFor(meant', x)
    BY <2>3 DEF LeftFor
  <2>5. \A x \in Reasons :
           /\ rssi'[x] # Unset =>
                 \E m \in LeftFor(meant', x) : rssi'[x] = m.cause.rssi
           /\ reasons'[x] > 0 /\ rssi'[x] = Unset =>
                 \E g \in Handlers : Signals(g, x)'
    BY <1>4, <2>2, <2>4 DEF SignalInv
  <2> QED
    BY <2>5 DEF SignalInv, LeftFor
<1>7. CASE r.endpoint # e
  <2>1. meant' = meant /\ received'[e] = received[e]
    BY <1>0, <1>7, ArriveFacts DEF Arrive, Remember
  <2>2. \A g \in Handlers : Busy(g, e)' <=> Busy(g, e)
    BY <1>1, <1>7
  <2>3. Accounted' = Accounted
    BY <1>2, <1>3, <2>1, <2>2 DEF Accounted
  <2>4. CountInv'
    BY <1>4, <2>1, <2>3 DEF CountInv, TimedOut, LeftFor
  <2>5. UploadInv'
    BY <1>2, <1>3, <2>1, <2>2
       DEF UploadInv, WiFiEvents, Kept, IsWiFi, Battery, ReportType
  <2> QED
    BY <1>6, <2>4, <2>5
<1>8. CASE r.endpoint = e
  <2> DEFINE n == received[e] + 1
             new == WiFiEvents(r.upload, n)
  <2>1. /\ r.upload \in Uploads /\ received'[e] = n /\ n \in Nat
        /\ number'[h] = n /\ req'[h] = r /\ pc'[h] = "swap"
        /\ meant' = meant \cup new
    <3>1. r.upload \in Uploads
      BY <1>8, RequestFields
    <3>2. /\ req'[h] = r /\ pc'[h] = FirstStep(r) /\ number'[h] = n
          /\ received'[e] = n
      BY <1>0, <1>5, <1>8, ArriveFacts, BusyArrives
    <3>3. FirstStep(r) = "swap"
      BY <1>8 DEF FirstStep
    <3>4. meant' = meant \cup WiFiEvents(r.upload, number'[h])
      BY <1>8 DEF Arrive, Remember
    <3> QED
      BY <1>5, <3>1, <3>2, <3>3, <3>4
  <2>2. \A m \in new : m.upload = n /\ m \notin meant
    <3>1. \A m \in new : m.upload = n
      BY DEF WiFiEvents
    <3>2. \A m \in meant : m.upload # n
      BY <1>5 DEF UploadInv
    <3> QED
      BY <3>1, <3>2
  <2>3. \A m \in meant : m.upload # n
    BY <1>5 DEF UploadInv
  <2>4. \A g \in Handlers : Busy(g, e)' <=> Busy(g, e) \/ g = h
    BY <1>1, <1>8
  <2>5. \A g \in Handlers : Busy(g, e) => number[g] # n
    BY <1>5 DEF UploadInv
  <2>6. \A i : ~Passed(h, i)'
    BY <2>1 DEF Passed
  <2> HIDE DEF n, new
  <2>7. Accounted' = Accounted
    <3>1. ASSUME NEW m \in new PROVE m \notin Accounted'
      BY <2>1, <2>2, <2>4, <2>6 DEF Accounted
    <3>2. ASSUME NEW m \in meant PROVE m \in Accounted' <=> m \in Accounted
      BY <1>2, <1>3, <2>1, <2>3, <2>4 DEF Accounted
    <3>3. Accounted \subseteq meant /\ Accounted' \subseteq meant \cup new
      BY <2>1 DEF Accounted
    <3> QED
      BY <3>1, <3>2, <3>3
  <2>8. CountInv'
    <3>1. /\ TimedOut(Accounted)' = TimedOut(Accounted)
          /\ \A x \in Reasons : LeftFor(Accounted, x)' = LeftFor(Accounted, x)
      BY <2>7 DEF TimedOut, LeftFor
    <3> QED
      BY <1>4, <3>1 DEF CountInv
  <2>9. UploadInv'
    <3>1. IsFiniteSet(meant')
      BY <2>1, WiFiEventsFinite, FS_Union DEF UploadInv, new
    <3>2. \A m \in meant' : m.upload \in Nat /\ m.upload <= received'[e]
      BY <1>5, <2>1, <2>2 DEF UploadInv, n
    <3>3. ASSUME NEW g \in Handlers, Busy(g, e)'
          PROVE  /\ number'[g] <= received'[e]
                 /\ {m \in meant' : m.upload = number'[g]} =
                       WiFiEvents(req'[g].upload, number'[g])
      <4>1. CASE g = h
        <5>1. {m \in meant' : m.upload = n} = new
          BY <2>1, <2>2, <2>3
        <5> QED
          BY <2>1, <4>1, <5>1 DEF new, n
      <4>2. CASE g # h
        <5>1. Busy(g, e) /\ number[g] # n
          BY <2>4, <2>5, <3>3, <4>2
        <5>2. {m \in meant' : m.upload = number[g]} =
                 {m \in meant : m.upload = number[g]}
          BY <2>1, <2>2, <5>1
        <5>3. /\ {m \in meant : m.upload = number[g]} =
                    WiFiEvents(req[g].upload, number[g])
              /\ number[g] <= received[e]
          BY <5>1 DEF UploadInv
        <5>4. number[g] <= received'[e]
          BY <1>5, <2>1, <5>3 DEF n
        <5>5. number'[g] = number[g] /\ req'[g] = req[g]
          BY <1>3, <4>2
        <5> QED
          BY <5>2, <5>3, <5>4, <5>5
      <4> QED
        BY <4>1, <4>2
    <3>4. ASSUME NEW g \in Handlers, NEW k \in Handlers,
                 Busy(g, e)', Busy(k, e)', number'[g] = number'[k]
          PROVE  g = k
      BY <1>2, <1>3, <2>1, <2>4, <2>5, <3>4 DEF UploadInv
    <3> QED
      BY <3>1, <3>2, <3>3, <3>4
         DEF UploadInv, WiFiEvents, Kept, IsWiFi, Battery, ReportType
  <2> QED
    BY <1>6, <2>8, <2>9
<1> QED
  BY <1>7, <1>8

-----------------------------------------------------------------------------
(* The requests. *)

\* The handlers with a request of an endpoint.
BusyWith(e) == {h \in Handlers : Busy(h, e)}

\* handleSolarErrInfo and handleUnknown count a request when it comes, the two
\* others when it is answered.
ReportsInv ==
    /\ \A e \in {"solar_errinfo", "unknown"} : reports[e] = received[e]
    /\ \A e \in {"date_info", "report"} :
          /\ IsFiniteSet(BusyWith(e))
          /\ received[e] = reports[e] + Cardinality(BusyWith(e))

\* The answer counts the request its handler ends.
LEMMA HandleKeepsReports ==
    ASSUME EmulatorAssumption, TypeInv, IInv, ReportsInv, NEW h \in Handlers,
           Handle(h)
    PROVE  ReportsInv'
<1>1. OwnStep(h) /\ received' = received
  BY OwnSteps DEF OwnStep
<1>2. \A e \in Endpoints :
         BusyWith(e)' = IF pc[h] = "reply" THEN BusyWith(e) \ {h}
                        ELSE BusyWith(e)
  BY BusySteps DEF BusyWith
<1>3. {"solar_errinfo", "unknown"} \subseteq Endpoints
      /\ {"date_info", "report"} \subseteq Endpoints
  BY DEF Endpoints
<1>4. reports \in [Endpoints -> Nat] /\ received \in [Endpoints -> Nat]
  BY DEF TypeInv, TypeOK, CounterTypes, CallInv
<1>5. CASE pc[h] # "reply"
  <2>1. reports' = reports
    BY <1>5, Frames
  <2> QED
    BY <1>1, <1>2, <1>3, <1>5, <2>1 DEF ReportsInv
<1>6. CASE pc[h] = "reply"
  <2> DEFINE own == req[h].endpoint
  <2>1. own \in Endpoints /\ \A e \in Endpoints : h \in BusyWith(e) <=> e = own
    BY <1>6, PlaceFields DEF BusyWith, Busy
  <2>2. reports' = IF own \in {"date_info", "report"}
                   THEN [reports EXCEPT ![own] = @ + 1] ELSE reports
    BY <1>6, WhichStep DEF Reply, Count
  <2> HIDE DEF own
  <2>3. ASSUME NEW e \in {"date_info", "report"}
        PROVE  /\ IsFiniteSet(BusyWith(e)')
               /\ received[e] = reports'[e] + Cardinality(BusyWith(e)')
    <3>1. /\ IsFiniteSet(BusyWith(e)) /\ BusyWith(e)' = BusyWith(e) \ {h}
          /\ received[e] = reports[e] + Cardinality(BusyWith(e))
          /\ reports[e] \in Nat /\ e \in Endpoints
      BY <1>2, <1>3, <1>4, <1>6 DEF ReportsInv
    <3>2. /\ IsFiniteSet(BusyWith(e) \ {h})
          /\ Cardinality(BusyWith(e) \ {h}) =
                IF h \in BusyWith(e) THEN Cardinality(BusyWith(e)) - 1
                ELSE Cardinality(BusyWith(e))
          /\ Cardinality(BusyWith(e)) \in Nat
      BY <3>1, FS_RemoveElement, FS_CardinalityType
    <3>3. reports'[e] = IF h \in BusyWith(e) THEN reports[e] + 1 ELSE reports[e]
      BY <1>4, <2>1, <2>2, <3>1
    <3> QED
      BY <3>1, <3>2, <3>3
  <2>4. \A e \in {"solar_errinfo", "unknown"} : reports'[e] = received[e]
    BY <1>3, <1>4, <2>1, <2>2 DEF ReportsInv
  <2> QED
    BY <1>1, <2>3, <2>4 DEF ReportsInv
<1> QED
  BY <1>5, <1>6

\* An arrival is counted, or adds a handler that has still to count it.
LEMMA ArriveKeepsReports ==
    ASSUME EmulatorAssumption, TypeInv, IInv, ReportsInv, NEW h \in Handlers,
           NEW r \in Requests, Arrive(h, r)
    PROVE  ReportsInv'
<1> DEFINE own == r.endpoint
<1>1. /\ own \in Endpoints /\ received' = [received EXCEPT ![own] = @ + 1]
      /\ reports' = IF own \in {"solar_errinfo", "unknown"}
                    THEN [reports EXCEPT ![own] = @ + 1] ELSE reports
  BY ArriveFacts DEF Arrive, Count
<1>2. \A e \in Endpoints :
         /\ BusyWith(e)' = IF e = own THEN BusyWith(e) \cup {h} ELSE BusyWith(e)
         /\ h \notin BusyWith(e)
  BY BusyArrives DEF BusyWith
<1>3. {"solar_errinfo", "unknown"} \subseteq Endpoints
      /\ {"date_info", "report"} \subseteq Endpoints
  BY DEF Endpoints
<1>4. reports \in [Endpoints -> Nat] /\ received \in [Endpoints -> Nat]
  BY DEF TypeInv, TypeOK, CounterTypes, CallInv
<1> HIDE DEF own
<1>5. \A e \in {"solar_errinfo", "unknown"} : reports'[e] = received'[e]
  BY <1>1, <1>3, <1>4 DEF ReportsInv
<1>6. ASSUME NEW e \in {"date_info", "report"}
      PROVE  /\ IsFiniteSet(BusyWith(e)')
             /\ received'[e] = reports'[e] + Cardinality(BusyWith(e)')
  <2>1. /\ e \in Endpoints /\ IsFiniteSet(BusyWith(e))
        /\ received[e] = reports[e] + Cardinality(BusyWith(e))
        /\ reports[e] \in Nat /\ h \notin BusyWith(e)
    BY <1>2, <1>3, <1>4 DEF ReportsInv
  <2>2. /\ IsFiniteSet(BusyWith(e) \cup {h})
        /\ Cardinality(BusyWith(e) \cup {h}) = Cardinality(BusyWith(e)) + 1
        /\ Cardinality(BusyWith(e)) \in Nat
    BY <2>1, FS_AddElement, FS_CardinalityType
  <2>3. reports'[e] = reports[e]
    BY <1>1, <1>4, <2>1
  <2>4. received'[e] = IF e = own THEN received[e] + 1 ELSE received[e]
    BY <1>1, <1>4, <2>1
  <2>5. CASE e = own
    <3>1. BusyWith(e)' = BusyWith(e) \cup {h} /\ received'[e] = received[e] + 1
      BY <1>2, <2>1, <2>4, <2>5
    <3> QED
      BY <2>1, <2>2, <2>3, <3>1
  <2>6. CASE e # own
    <3>1. BusyWith(e)' = BusyWith(e) /\ received'[e] = received[e]
      BY <1>2, <2>1, <2>4, <2>6
    <3> QED
      BY <2>1, <2>3, <3>1
  <2> QED
    BY <2>5, <2>6
<1> QED
  BY <1>5, <1>6 DEF ReportsInv

\* Every kept event of code 75 is counted once, as what it meant, however the
\* uploads cross, and every request once; the signal strengths shown are those
\* of such events, and those of all counted reasons once no upload is under way.
THEOREM AllAccounted == Spec => []EventsAccounted
<1> USE EmulatorAssumption
<1> DEFINE J == UploadInv /\ CountInv /\ SignalInv /\ ReportsInv
<1>1. Init => J
  <2> SUFFICES ASSUME Init PROVE J
    OBVIOUS
  <2>1. UploadInv
    BY FS_EmptySet DEF Init, UploadInv, Busy
  <2>2. CountInv
    <3>1. Accounted = {}
      BY DEF Init, Accounted
    <3>2. /\ TimedOut(Accounted) = {}
          /\ \A r \in Reasons : LeftFor(Accounted, r) = {}
      BY <3>1 DEF TimedOut, LeftFor
    <3>3. /\ Cardinality(TimedOut(Accounted)) = 0
          /\ \A r \in Reasons : Cardinality(LeftFor(Accounted, r)) = 0
      BY <3>2, FS_EmptySet
    <3>4. timeouts = 0 /\ \A r \in Reasons : reasons[r] = 0
      BY DEF Init
    <3> QED
      BY <3>3, <3>4 DEF CountInv
  <2>3. ReportsInv
    <3>1. \A e : BusyWith(e) = {}
      BY DEF Init, BusyWith, Busy
    <3>2. \A e : IsFiniteSet(BusyWith(e)) /\ Cardinality(BusyWith(e)) = 0
      BY <3>1, FS_EmptySet
    <3>3. \A e \in Endpoints : reports[e] = 0 /\ received[e] = 0
      BY DEF Init
    <3> QED
      BY <3>2, <3>3 DEF ReportsInv, Endpoints
  <2>4. SignalInv
    BY DEF Init, SignalInv
  <2> QED
    BY <2>1, <2>2, <2>3, <2>4
<1>2. TypeInv /\ IInv /\ J /\ [Next]_vars => J'
  <2> SUFFICES ASSUME TypeInv, IInv, J, [Next]_vars PROVE J'
    OBVIOUS
  <2>1. ASSUME NEW h \in Handlers, Handle(h) PROVE J'
    BY <2>1, HandleKeepsUploads, HandleKeepsCounts,
       HandleKeepsSignals, HandleKeepsReports
  <2>2. ASSUME NEW h \in Handlers, NEW r \in Requests, Arrive(h, r)
        PROVE  J'
    BY <2>2, ArriveKeepsCounts, ArriveKeepsReports
  <2>3. CASE Tick \/ UNCHANGED vars
    <3>1. UNCHANGED <<pc, req, number, at, meant, received, reports, timeouts,
                      reasons, rssi>>
      BY <2>3 DEF Tick, vars, handler, call, wifi, history
    <3>2. UploadInv'
      BY <3>1 DEF UploadInv, Busy, WiFiEvents, Kept, IsWiFi, Battery, ReportType
    <3>3. Accounted' = Accounted
      BY <3>1 DEF Accounted, Busy, Passed
    <3>4. CountInv'
      BY <3>1, <3>3 DEF CountInv, TimedOut, LeftFor
    <3>5. ReportsInv'
      BY <3>1 DEF ReportsInv, BusyWith, Busy
    <3>6. SignalInv'
      BY <3>1 DEF SignalInv, LeftFor, Signals, CauseOf
    <3> QED
      BY <3>2, <3>4, <3>5, <3>6
  <2> QED
    BY <2>1, <2>2, <2>3 DEF Next
<1>3. TypeInv /\ J => EventsAccounted
  <2> SUFFICES ASSUME TypeInv, J PROVE EventsAccounted
    OBVIOUS
  <2>1. IsFiniteSet(meant) /\ Accounted \subseteq meant
    BY DEF UploadInv, Accounted
  <2>2. /\ IsFiniteSet(TimedOut(meant))
        /\ \A r \in Reasons : IsFiniteSet(LeftFor(meant, r))
    BY <2>1, FS_Subset DEF TimedOut, LeftFor
  <2>3. timeouts <= Cardinality(TimedOut(meant))
    <3>1. TimedOut(Accounted) \in SUBSET TimedOut(meant)
      BY <2>1 DEF TimedOut
    <3> QED
      BY <2>2, <3>1, FS_Subset DEF CountInv
  <2>4. ASSUME NEW r \in Reasons
        PROVE  reasons[r] <= Cardinality(LeftFor(meant, r))
    <3>1. LeftFor(Accounted, r) \in SUBSET LeftFor(meant, r)
      BY <2>1 DEF LeftFor
    <3>2. Cardinality(LeftFor(Accounted, r)) <= Cardinality(LeftFor(meant, r))
      BY <2>2, <3>1, FS_Subset
    <3> QED
      BY <3>2 DEF CountInv
  <2>5. ASSUME Quiet
        PROVE  /\ timeouts = Cardinality(TimedOut(meant))
               /\ \A r \in Reasons :
                     /\ reasons[r] = Cardinality(LeftFor(meant, r))
                     /\ reasons[r] > 0 => rssi[r] # Unset
               /\ reports = received
    <3>1. Accounted = meant
      BY <2>5 DEF Quiet, Accounted, Busy
    <3>2. \A e : BusyWith(e) = {}
      BY <2>5 DEF Quiet, BusyWith, Busy
    <3>3. reports \in [Endpoints -> Nat] /\ received \in [Endpoints -> Nat]
      BY DEF TypeInv, TypeOK, CounterTypes, CallInv
    <3>4. \A e \in Endpoints : reports[e] = received[e]
      BY <3>2, <3>3, FS_EmptySet DEF ReportsInv, Endpoints
    <3>5. \A h \in Handlers, r \in Reasons : ~Signals(h, r)
      BY <2>5 DEF Quiet, Signals
    <3> QED
      BY <3>1, <3>3, <3>4, <3>5 DEF CountInv, SignalInv
  <2> QED
    BY <2>3, <2>4, <2>5 DEF EventsAccounted, SignalInv
<1> QED
  BY <1>1, <1>2, <1>3, Types, Invariance, PTL DEF Spec

=============================================================================
