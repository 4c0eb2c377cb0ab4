-------------------------- MODULE CollectorProofs --------------------------
(***************************************************************************)
(* Theorems about Collector, for any number of scrapes, any payloads and   *)
(* statuses.  The lock gives the two readings of a scrape one update; the  *)
(* tables give every update samples that can be exported; and a writer     *)
(* that reads the clock first is late by its own delay at most.  What the  *)
(* parser makes of a payload of any length is proved by induction over its *)
(* tokens, with sets of numbers in place of predicates.                    *)
(***************************************************************************)
EXTENDS Collector, WellFoundedInduction, TLAPS

-----------------------------------------------------------------------------
(* The tables *)

FloatRows == ScalarRows \cup PortRows \cup PackRows

\* Two rows of a payload's tables never feed one series.
LEMMA RowsDistinct ==
    \A r, q \in FloatRows \cup {FeedInRow} :
        r[2] = q[2] /\ r[3] = q[3] => r = q
BY DEF NoLabel, FloatRows, ScalarRows, PortRows, PackRows, FeedInRow

\* The row of the feed-in flag is none of the others.
LEMMA FeedInApart == FeedInRow \notin FloatRows
BY DEF NoLabel, FloatRows, ScalarRows, PortRows, PackRows, FeedInRow

\* Two rows of a status never feed one series.
LEMMA StatusRowsDistinct ==
    \A r, q \in StatusRows : r[2] = q[2] /\ r[3] = q[3] => r = q
BY DEF NoLabel, StatusRows

\* A row names a label exactly when its gauge has one.
LEMMA RowsLabelled ==
    \A r \in FloatRows \cup {FeedInRow} \cup StatusRows :
        r[2] \in (IF r[3] = NoLabel THEN ScalarGauges ELSE LabelledGauges)
BY DEF NoLabel, FloatRows, ScalarRows, PortRows, PackRows, FeedInRow,
       StatusRows, ScalarGauges, LabelledGauges

\* A set of samples the registry takes.
Exportable(samples) ==
    /\ \A x \in samples : x.name \in (IF x.label = NoLabel THEN ScalarGauges
                                                         ELSE LabelledGauges)
    /\ \A x, y \in samples : x.name = y.name /\ x.label = y.label => x = y

\* Whatever the parsed payload is, Update makes an exportable set of it.
LEMMA PayloadExportable ==
    ASSUME NEW m PROVE Exportable(Known(PayloadSamples(m)))
<1> DEFINE v(r) == IF r = FeedInRow THEN (IF m[r[1]].n = 0 THEN 1 ELSE 0)
                   ELSE m[r[1]].n
<1>1. ASSUME NEW x \in Known(PayloadSamples(m))
      PROVE  \E r \in FloatRows \cup {FeedInRow} : x = Sample(r, v(r))
  BY FeedInApart DEF Known, PayloadSamples, FloatRows
<1> HIDE DEF v
<1>2. ASSUME NEW x \in Known(PayloadSamples(m))
      PROVE  x.name \in (IF x.label = NoLabel THEN ScalarGauges
                                              ELSE LabelledGauges)
  <2>1. PICK r \in FloatRows \cup {FeedInRow} : x = Sample(r, v(r))
    BY <1>1
  <2> QED
    BY <2>1, RowsLabelled DEF Sample
<1>3. ASSUME NEW x \in Known(PayloadSamples(m)),
             NEW y \in Known(PayloadSamples(m)),
             x.name = y.name, x.label = y.label
      PROVE  x = y
  <2>1. PICK r \in FloatRows \cup {FeedInRow} : x = Sample(r, v(r))
    BY <1>1
  <2>2. PICK q \in FloatRows \cup {FeedInRow} : y = Sample(q, v(q))
    BY <1>1
  <2>3. r = q
    BY <1>3, <2>1, <2>2, RowsDistinct DEF Sample
  <2> QED
    BY <2>1, <2>2, <2>3
<1> QED
  BY <1>2, <1>3 DEF Exportable

\* And so does the fallback of a status.
LEMMA StatusExportable ==
    ASSUME NEW status PROVE Exportable(Known(StatusSamples(status)))
<1>1. ASSUME NEW x \in Known(StatusSamples(status))
      PROVE  \E r \in StatusRows : x = Sample(r, status[r[1]])
  BY DEF Known, StatusSamples
<1>2. ASSUME NEW x \in Known(StatusSamples(status))
      PROVE  x.name \in (IF x.label = NoLabel THEN ScalarGauges
                                              ELSE LabelledGauges)
  <2>1. PICK r \in StatusRows : x = Sample(r, status[r[1]])
    BY <1>1
  <2> QED
    BY <2>1, RowsLabelled DEF Sample
<1>3. ASSUME NEW x \in Known(StatusSamples(status)),
             NEW y \in Known(StatusSamples(status)),
             x.name = y.name, x.label = y.label
      PROVE  x = y
  <2>1. PICK r \in StatusRows : x = Sample(r, status[r[1]])
    BY <1>1
  <2>2. PICK q \in StatusRows : y = Sample(q, status[q[1]])
    BY <1>1
  <2>3. r = q
    BY <1>3, <2>1, <2>2, StatusRowsDistinct DEF Sample
  <2> QED
    BY <2>1, <2>2, <2>3
<1> QED
  BY <1>2, <1>3 DEF Exportable

-----------------------------------------------------------------------------
(* The inductive invariant *)

\* What the cache can hold.
Stored == {u.samples : u \in PayloadUpdates} \cup StatusUpdates \cup {{}}

Locations == {"idle", "clock", "lock", "cache", "stamp", "mark", "meta",
              "gauges", "sent"}
Update == [samples : Stored, stamp : Nat]

StateOK ==
    /\ clock \in Nat
    /\ at \in [Writers \cup Scrapers -> Locations]
    /\ held \in [Writers -> Update]
    /\ lock \in Writers \cup {"free"} /\ readers \subseteq Scrapers
    /\ cached \in Stored /\ lastUpdateAt \in Nat
    /\ page \in [Scrapers -> [up : {0, 1}, unix : Int, fresh : BOOLEAN,
                              gauges : Stored]]
    /\ up \in {0, 1} /\ lastPayloadUnix \in Int
    /\ last \in Update /\ newest \in Nat

\* The lock is a readers-writer lock: who holds it is who is in the code under
\* it, one writer or any number of scrapes.
LockOK ==
    /\ \A w \in Writers : lock = w <=> at[w] \in {"cache", "stamp"}
    /\ \A s \in Scrapers :
          s \in readers <=> at[s] \in {"meta", "gauges", "sent"}
    /\ readers # {} => lock = "free"

\* Outside the lock the fields are those of the last update.
CacheOK ==
    /\ lock = "free" => cached = last.samples
    /\ \A w \in Writers : at[w] = "stamp" => cached = held[w].samples
    /\ lastUpdateAt = last.stamp
    /\ lastPayloadUnix = last.stamp \div Second

PageOK ==
    \A s \in Scrapers :
        /\ at[s] \in {"gauges", "sent"} =>
             /\ page[s].unix = last.stamp \div Second
             /\ page[s].fresh => last.stamp # 0
        /\ at[s] = "sent" =>
             page[s].gauges = IF page[s].fresh THEN last.samples ELSE {}

\* No reading of the clock is older than a writer's delay when it is stored.
ClockOK ==
    /\ \A w \in Writers : at[w] \in {"lock", "cache", "stamp"} =>
           held[w].stamp <= clock /\ clock - held[w].stamp <= MaxDelay
    /\ newest <= clock
    /\ newest - lastUpdateAt <= MaxDelay

IInv == StateOK /\ LockOK /\ CacheOK /\ PageOK /\ ClockOK

\* The initial state satisfies the invariant.
LEMMA InitOK == Init => IInv
<1> SUFFICES ASSUME Init PROVE IInv
  OBVIOUS
<1>1. {} \in Stored /\ NoUpdate \in Update
  BY DEF Stored, Update, NoUpdate
<1>2. NoPage \in [up : {0, 1}, unix : Int, fresh : BOOLEAN, gauges : Stored]
  BY <1>1 DEF NoPage
<1>3. StateOK
  BY <1>1, <1>2 DEF Init, StateOK, Locations
<1>4. 0 \div Second = 0
  BY CollectorAssumption
<1>5. LockOK /\ CacheOK /\ PageOK
  BY <1>4 DEF Init, LockOK, CacheOK, PageOK, NoUpdate, NoPage, Writers
<1>6. ClockOK
  BY CollectorAssumption DEF Init, ClockOK
<1> QED
  BY <1>3, <1>5, <1>6 DEF IInv

-----------------------------------------------------------------------------
(* The steps *)

\* A goroutine that goes somewhere leaves the others where they are.
LEMMA Moves ==
    ASSUME StateOK, NEW g \in Writers \cup Scrapers, NEW from,
           NEW to \in Locations, Goto(g, from, to)
    PROVE  /\ at' \in [Writers \cup Scrapers -> Locations]
           /\ at[g] = from /\ at'[g] = to
           /\ \A h \in Writers \cup Scrapers : h # g => at'[h] = at[h]
BY DEF StateOK, Goto

\* Before the lock: the update is made, and its clock reading is now.
LEMMA Prepares ==
    ASSUME IInv, NEW w \in Writers, NEW from,
           NEW to \in {"clock", "lock", "mark"}, Goto(w, from, to),
           from \in {"idle", "clock"},
           held' \in [Writers -> Update],
           \A x \in Writers : x # w => held'[x] = held[x],
           to = "lock" => held'[w].stamp = clock,
           UNCHANGED <<clock, lock, readers, fields, page, ghosts>>
    PROVE  IInv'
<1>1. /\ at' \in [Writers \cup Scrapers -> Locations]
      /\ at[w] = from /\ at'[w] = to
      /\ \A h \in Writers \cup Scrapers : h # w => at'[h] = at[h]
  BY Moves DEF IInv, Locations
<1>2. \A s \in Scrapers : at'[s] = at[s]
  BY <1>1, CollectorAssumption
<1>3. StateOK'
  BY <1>1 DEF IInv, StateOK, fields, ghosts
<1>4. LockOK'
  BY <1>1, <1>2 DEF IInv, LockOK
<1>5. CacheOK' /\ PageOK'
  BY <1>1, <1>2 DEF IInv, CacheOK, PageOK, fields, ghosts
<1>6. ClockOK'
  BY <1>1, CollectorAssumption DEF IInv, ClockOK, StateOK, fields, ghosts
<1> QED
  BY <1>3, <1>4, <1>5, <1>6 DEF IInv

\* Past the lock: the writer is back with its update made, and up is set.
LEMMA Marks ==
    ASSUME IInv, NEW w \in Writers, Goto(w, "mark", "idle"),
           held' = [held EXCEPT ![w] = NoUpdate], up' \in {0, 1},
           UNCHANGED <<clock, lock, readers, cached, lastUpdateAt,
                       lastPayloadUnix, page, ghosts>>
    PROVE  IInv'
<1>1. /\ at' \in [Writers \cup Scrapers -> Locations]
      /\ at[w] = "mark" /\ at'[w] = "idle"
      /\ \A h \in Writers \cup Scrapers : h # w => at'[h] = at[h]
  BY Moves DEF IInv, Locations
<1>2. \A s \in Scrapers : at'[s] = at[s]
  BY <1>1, CollectorAssumption
<1>3. held' \in [Writers -> Update]
      /\ \A x \in Writers : x # w => held'[x] = held[x]
  BY DEF IInv, StateOK, NoUpdate, Update, Stored
<1>4. StateOK'
  BY <1>1, <1>3 DEF IInv, StateOK, ghosts
<1>5. LockOK'
  BY <1>1, <1>2 DEF IInv, LockOK
<1>6. CacheOK' /\ PageOK'
  BY <1>1, <1>2, <1>3 DEF IInv, CacheOK, PageOK, ghosts
<1>7. ClockOK'
  BY <1>1, <1>3 DEF IInv, ClockOK, ghosts
<1> QED
  BY <1>4, <1>5, <1>6, <1>7 DEF IInv

\* What a writer does before and after it holds the lock keeps the invariant.
LEMMA WriterOutside ==
    ASSUME IInv, Receive \/ Answer \/ NoAnswer \/ MarkUp \/ MarkDown
                   \/ \E w \in Writers : ReadClock(w)
    PROVE  IInv'
<1>1. {"callback", "loop"} = Writers
  BY DEF Writers
<1>2. CASE Receive
  <2>1. PICK u \in PayloadUpdates :
            /\ Goto("callback", "idle", "clock")
            /\ held' = [held EXCEPT !["callback"].samples = u.samples]
            /\ UNCHANGED <<clock, lock, readers, fields, page, ghosts>>
    BY <1>2 DEF Receive
  <2>2. held' \in [Writers -> Update]
    BY <1>1, <2>1 DEF IInv, StateOK, Update, Stored
  <2>3. \A x \in Writers : x # "callback" => held'[x] = held[x]
    BY <2>1 DEF IInv, StateOK
  <2> QED
    BY <1>1, <2>1, <2>2, <2>3, Prepares
<1>3. CASE Answer
  <2>1. PICK u \in StatusUpdates :
            /\ Goto("loop", "idle", "clock")
            /\ held' = [held EXCEPT !["loop"].samples = u]
            /\ UNCHANGED <<clock, lock, readers, fields, page, ghosts>>
    BY <1>3 DEF Answer
  <2>2. held' \in [Writers -> Update]
    BY <1>1, <2>1 DEF IInv, StateOK, Update, Stored
  <2>3. \A x \in Writers : x # "loop" => held'[x] = held[x]
    BY <2>1 DEF IInv, StateOK
  <2> QED
    BY <1>1, <2>1, <2>2, <2>3, Prepares
<1>4. CASE NoAnswer
  BY <1>1, <1>4, Prepares DEF NoAnswer, IInv, StateOK
<1>5. ASSUME NEW w \in Writers, ReadClock(w) PROVE IInv'
  <2>1. /\ held' \in [Writers -> Update] /\ held'[w].stamp = clock
        /\ \A x \in Writers : x # w => held'[x] = held[x]
    BY <1>5 DEF ReadClock, IInv, StateOK, Update
  <2> QED
    BY <1>5, <2>1, Prepares DEF ReadClock
<1>6. CASE MarkUp
  BY <1>1, <1>6, Marks DEF MarkUp
<1>7. CASE MarkDown
  BY <1>1, <1>7, Marks DEF MarkDown
<1> QED
  BY <1>2, <1>3, <1>4, <1>5, <1>6, <1>7

\* What a writer does under the lock, and its taking of it, keep the
\* invariant.
LEMMA WriterInside ==
    ASSUME IInv, NEW w \in Writers, Lock(w) \/ SetCache(w) \/ SetStamp(w)
    PROVE  IInv'
<1>1. \A s \in Scrapers : s # w
  BY CollectorAssumption
<1>2. lock = w => readers = {}
  BY DEF IInv, LockOK, Writers
<1>3. CASE Lock(w)
  <2>1. /\ at' \in [Writers \cup Scrapers -> Locations]
        /\ at[w] = "lock" /\ at'[w] = "cache"
        /\ \A h \in Writers \cup Scrapers : h # w => at'[h] = at[h]
    BY <1>3, Moves DEF Lock, IInv, Locations
  <2>2. StateOK'
    BY <1>3, <2>1 DEF Lock, IInv, StateOK, fields, ghosts
  <2>3. LockOK'
    BY <1>1, <1>3, <2>1 DEF Lock, IInv, LockOK, Writers
  <2>4. CacheOK' /\ PageOK'
    BY <1>1, <1>3, <2>1 DEF Lock, IInv, CacheOK, PageOK, Writers, fields, ghosts
  <2>5. ClockOK'
    BY <1>3, <2>1 DEF Lock, IInv, ClockOK, fields, ghosts
  <2> QED
    BY <2>2, <2>3, <2>4, <2>5 DEF IInv
<1>4. CASE SetCache(w)
  <2>1. /\ at' \in [Writers \cup Scrapers -> Locations]
        /\ at[w] = "cache" /\ at'[w] = "stamp"
        /\ \A h \in Writers \cup Scrapers : h # w => at'[h] = at[h]
    BY <1>4, Moves DEF SetCache, IInv, Locations
  <2>2. lock = w /\ lock # "free"
    BY <2>1 DEF IInv, LockOK, Writers
  <2>3. StateOK'
    BY <1>4, <2>1 DEF SetCache, IInv, StateOK, Update, ghosts
  <2>4. LockOK'
    BY <1>1, <1>4, <2>1 DEF SetCache, IInv, LockOK
  <2>5. CacheOK'
    <3>1. \A x \in Writers : x # w => at[x] # "stamp"
      BY <2>2 DEF IInv, LockOK
    <3> QED
      BY <1>4, <2>1, <2>2, <3>1 DEF SetCache, IInv, CacheOK, ghosts
  <2>6. PageOK'
    BY <1>1, <1>4, <2>1 DEF SetCache, IInv, PageOK, ghosts
  <2>7. ClockOK'
    BY <1>4, <2>1 DEF SetCache, IInv, ClockOK, ghosts
  <2> QED
    BY <2>3, <2>4, <2>5, <2>6, <2>7 DEF IInv
<1>5. CASE SetStamp(w)
  <2>1. /\ at' \in [Writers \cup Scrapers -> Locations]
        /\ at[w] = "stamp" /\ at'[w] = "mark"
        /\ \A h \in Writers \cup Scrapers : h # w => at'[h] = at[h]
    BY <1>5, Moves DEF SetStamp, IInv, Locations
  <2>2. lock = w /\ cached = held[w].samples /\ held[w] \in Update
    BY <2>1 DEF IInv, LockOK, CacheOK, StateOK
  <2>3. held[w].stamp \in Nat /\ held[w].stamp \div Second \in Int
    BY <2>2, CollectorAssumption DEF Update
  <2>4. StateOK'
    BY <1>5, <2>1, <2>2, <2>3 DEF SetStamp, IInv, StateOK
  <2>5. LockOK'
    BY <1>1, <1>2, <1>5, <2>1, <2>2 DEF SetStamp, IInv, LockOK, Writers
  <2>6. CacheOK'
    <3>1. \A x \in Writers : x # w => at[x] # "stamp"
      BY <2>2 DEF IInv, LockOK
    <3> QED
      BY <1>5, <2>1, <2>2, <3>1 DEF SetStamp, IInv, CacheOK
  <2>7. PageOK'
    <3>1. \A s \in Scrapers : at'[s] \notin {"gauges", "sent"}
      BY <1>1, <1>2, <2>1, <2>2 DEF IInv, LockOK
    <3> QED
      BY <3>1 DEF PageOK
  <2>8. ClockOK'
    <3>1. held[w].stamp <= clock /\ clock - held[w].stamp <= MaxDelay
      BY <2>1 DEF IInv, ClockOK
    <3>2. clock \in Int /\ newest \in Int /\ held[w].stamp \in Int
          /\ MaxDelay \in Nat
      BY <2>3, CollectorAssumption DEF IInv, StateOK
    <3>3. newest' <= clock' /\ newest' - lastUpdateAt' <= MaxDelay
      BY <1>5, <3>1, <3>2 DEF SetStamp, IInv, ClockOK
    <3> QED
      BY <1>5, <2>1, <3>3 DEF SetStamp, IInv, ClockOK
  <2> QED
    BY <2>4, <2>5, <2>6, <2>7, <2>8 DEF IInv
<1> QED
  BY <1>3, <1>4, <1>5

\* What a scrape does keeps the invariant.
LEMMA Scrapes ==
    ASSUME IInv, NEW s \in Scrapers,
           RLock(s) \/ SendMeta(s) \/ SendGauges(s) \/ RUnlock(s)
    PROVE  IInv'
<1>1. \A w \in Writers : s # w
  BY CollectorAssumption
<1>2. at[s] \in {"gauges", "meta", "sent"} => lock = "free"
  BY DEF IInv, LockOK
<1>3. CASE RLock(s)
  <2>1. /\ at' \in [Writers \cup Scrapers -> Locations]
        /\ at[s] = "idle" /\ at'[s] = "meta"
        /\ \A h \in Writers \cup Scrapers : h # s => at'[h] = at[h]
    BY <1>3, Moves DEF RLock, IInv, Locations
  <2>2. StateOK'
    BY <1>3, <2>1 DEF RLock, IInv, StateOK, fields, ghosts
  <2>3. LockOK'
    BY <1>1, <1>3, <2>1 DEF RLock, IInv, LockOK
  <2>4. CacheOK' /\ PageOK'
    BY <1>1, <1>3, <2>1 DEF RLock, IInv, CacheOK, PageOK, fields, ghosts
  <2>5. ClockOK'
    BY <1>1, <1>3, <2>1 DEF RLock, IInv, ClockOK, fields, ghosts
  <2> QED
    BY <2>2, <2>3, <2>4, <2>5 DEF IInv
<1>4. CASE SendMeta(s)
  <2>1. /\ at' \in [Writers \cup Scrapers -> Locations]
        /\ at[s] = "meta" /\ at'[s] = "gauges"
        /\ \A h \in Writers \cup Scrapers : h # s => at'[h] = at[h]
    BY <1>4, Moves DEF SendMeta, IInv, Locations
  <2>2. StateOK'
    BY <1>4, <2>1 DEF SendMeta, IInv, StateOK, Stored, fields, ghosts
  <2>3. LockOK'
    BY <1>1, <1>4, <2>1 DEF SendMeta, IInv, LockOK
  <2>4. CacheOK'
    BY <1>1, <1>4, <2>1 DEF SendMeta, IInv, CacheOK, fields, ghosts
  <2>5. PageOK'
    BY <1>4, <2>1 DEF SendMeta, IInv, StateOK, CacheOK, PageOK, fields, ghosts
  <2>6. ClockOK'
    BY <1>1, <1>4, <2>1 DEF SendMeta, IInv, ClockOK, fields, ghosts
  <2> QED
    BY <2>2, <2>3, <2>4, <2>5, <2>6 DEF IInv
<1>5. CASE SendGauges(s)
  <2>1. /\ at' \in [Writers \cup Scrapers -> Locations]
        /\ at[s] = "gauges" /\ at'[s] = "sent"
        /\ \A h \in Writers \cup Scrapers : h # s => at'[h] = at[h]
    BY <1>5, Moves DEF SendGauges, IInv, Locations
  <2>2. StateOK'
    BY <1>5, <2>1 DEF SendGauges, IInv, StateOK, Stored, fields, ghosts
  <2>3. LockOK'
    BY <1>1, <1>5, <2>1 DEF SendGauges, IInv, LockOK
  <2>4. CacheOK'
    BY <1>1, <1>5, <2>1 DEF SendGauges, IInv, CacheOK, fields, ghosts
  <2>5. PageOK'
    <3>1. cached = last.samples
      BY <1>2, <2>1 DEF IInv, CacheOK
    <3> QED
      BY <1>5, <2>1, <3>1 DEF SendGauges, IInv, StateOK, PageOK, fields, ghosts
  <2>6. ClockOK'
    BY <1>1, <1>5, <2>1 DEF SendGauges, IInv, ClockOK, fields, ghosts
  <2> QED
    BY <2>2, <2>3, <2>4, <2>5, <2>6 DEF IInv
<1>6. CASE RUnlock(s)
  <2>1. /\ at' \in [Writers \cup Scrapers -> Locations]
        /\ at[s] = "sent" /\ at'[s] = "idle"
        /\ \A h \in Writers \cup Scrapers : h # s => at'[h] = at[h]
    BY <1>6, Moves DEF RUnlock, IInv, Locations
  <2>2. StateOK'
    <3>1. NoPage \in [up : {0, 1}, unix : Int, fresh : BOOLEAN, gauges : Stored]
      BY DEF NoPage, Stored
    <3> QED
      BY <1>6, <2>1, <3>1 DEF RUnlock, IInv, StateOK, fields, ghosts
  <2>3. LockOK'
    BY <1>1, <1>6, <2>1 DEF RUnlock, IInv, LockOK
  <2>4. CacheOK'
    BY <1>1, <1>6, <2>1 DEF RUnlock, IInv, CacheOK, fields, ghosts
  <2>5. PageOK'
    BY <1>6, <2>1 DEF RUnlock, IInv, StateOK, PageOK, fields, ghosts
  <2>6. ClockOK'
    BY <1>1, <1>6, <2>1 DEF RUnlock, IInv, ClockOK, fields, ghosts
  <2> QED
    BY <2>2, <2>3, <2>4, <2>5, <2>6 DEF IInv
<1> QED
  BY <1>3, <1>4, <1>5, <1>6

\* Every step keeps the invariant.
LEMMA Inductive == IInv /\ [Next]_vars => IInv'
<1> SUFFICES ASSUME IInv, [Next]_vars PROVE IInv'
  OBVIOUS
<1>1. CASE WriterStep
  BY <1>1, WriterOutside, WriterInside DEF WriterStep
<1>2. CASE ScrapeStep
  BY <1>2, Scrapes DEF ScrapeStep
<1>3. CASE Tick
  <2>1. ClockOK'
    BY <1>3, CollectorAssumption
    DEF Tick, IInv, ClockOK, StateOK, Update, fields, ghosts
  <2> QED
    BY <1>3, <2>1
    DEF Tick, IInv, StateOK, LockOK, CacheOK, PageOK, fields, ghosts
<1>4. CASE UNCHANGED vars
  BY <1>4 DEF vars, IInv, StateOK, LockOK, CacheOK, PageOK, ClockOK, fields,
              ghosts
<1> QED
  BY <1>1, <1>2, <1>3, <1>4 DEF Next

\* The invariant holds in every reachable state.
LEMMA Invariant == Spec => []IInv
BY InitOK, Inductive, PTL DEF Spec

-----------------------------------------------------------------------------
(* The theorems *)

\* Collect: one scrape, one update; no series of an earlier one.
THEOREM ScrapesWhole == Spec => []ScrapeIsOneUpdate
<1>1. IInv => ScrapeIsOneUpdate
  BY DEF IInv, PageOK, ScrapeIsOneUpdate, NoUpdate
<1> QED
  BY <1>1, Invariant, PTL

\* UpdateMetrics, Collect: whatever is cached, a scrape of it succeeds.
THEOREM ScrapesSucceed == Spec => []ScrapeSucceeds
<1>1. ASSUME NEW u \in Stored PROVE Exportable(u)
  BY PayloadExportable, StatusExportable
  DEF Stored, PayloadUpdates, StatusUpdates, Exportable
<1>2. IInv => ScrapeSucceeds
  BY <1>1 DEF IInv, StateOK, ScrapeSucceeds, Exportable
<1> QED
  BY <1>2, Invariant, PTL

\* UpdateMetrics: crossing writers set the timestamp back by one delay at most.
THEOREM StampLags == Spec => []StampLagBounded
<1>1. IInv => StampLagBounded
  BY DEF IInv, ClockOK, StampLagBounded
<1> QED
  BY <1>1, Invariant, PTL

-----------------------------------------------------------------------------
(* Parse, for a payload of any length *)

\* Every set of numbers that is not empty has a least one.
LEMMA LeastNumber ==
    ASSUME NEW T, T \subseteq Nat, T # {}
    PROVE  \E x \in T : \A y \in T : x <= y
<1> DEFINE R == OpToRel(<, Nat)
<1>1. IsWellFoundedOn(R, Nat)
  BY NatLessThanWellFounded
<1>2. \A x, y \in Nat : y < x => <<y, x>> \in R
  BY DEF OpToRel
<1> HIDE DEF R
<1>3. PICK x \in T : \A y \in T : ~ (<<y, x>> \in R)
  BY <1>1, WFMin
<1>4. ASSUME NEW y \in T PROVE x <= y
  <2>1. x \in Nat /\ y \in Nat /\ ~(y < x)
    BY <1>2, <1>3
  <2> QED
    BY <2>1
<1> QED
  BY <1>4

\* Induction, about a set instead of a predicate.
LEMMA Induction ==
    ASSUME NEW T, 0 \in T, \A n \in Nat : n \in T => n + 1 \in T
    PROVE  Nat \subseteq T
<1> DEFINE U == {n \in Nat : n \notin T}
<1>1. SUFFICES ASSUME U # {} PROVE FALSE
  OBVIOUS
<1>2. PICK x \in U : \A y \in U : x <= y
  BY <1>1, LeastNumber
<1>3. x \in Nat /\ x \notin T /\ x # 0
  BY <1>2
<1>4. x - 1 \in Nat /\ ~(x <= x - 1) /\ x - 1 + 1 = x
  BY <1>3
<1>5. x - 1 \in T
  BY <1>2, <1>4
<1> QED
  BY <1>3, <1>4, <1>5

\* m is what Parse has after each of the first n tokens of p.
Reads(m, p, n) ==
    m = [i \in 0 .. n |-> IF i = 0 THEN <<>> ELSE Put(m[i - 1], p[i])]

\* The recursion of Parse defines a function.
LEMMA ReadsExists ==
    ASSUME NEW p PROVE \A n \in Nat : \E m : Reads(m, p, n)
<1> DEFINE T == {n \in Nat : \E m : Reads(m, p, n)}
<1>1. 0 \in T
  <2> DEFINE m == [i \in 0 .. 0 |-> <<>>]
  <2>1. Reads(m, p, 0)
    BY DEF Reads
  <2> QED
    BY <2>1
<1>2. ASSUME NEW n \in Nat, n \in T PROVE n + 1 \in T
  <2>1. PICK m : Reads(m, p, n)
    BY <1>2
  <2> DEFINE l == [i \in 0 .. n + 1 |->
                     IF i <= n THEN m[i] ELSE Put(m[n], p[n + 1])]
  <2>2. ASSUME NEW i \in 0 .. n + 1
        PROVE  l[i] = IF i = 0 THEN <<>> ELSE Put(l[i - 1], p[i])
    <3>1. CASE i = 0
      <4>1. 0 \in 0 .. n /\ m[0] = <<>>
        BY <2>1 DEF Reads
      <4> QED
        BY <3>1, <4>1
    <3>2. CASE i \in 1 .. n
      <4>1. i \in 0 .. n /\ i # 0 /\ i - 1 \in 0 .. n + 1 /\ i - 1 <= n
            /\ i <= n
        BY <3>2
      <4>2. m[i] = Put(m[i - 1], p[i])
        BY <2>1, <4>1 DEF Reads
      <4> QED
        BY <4>1, <4>2
    <3>3. CASE i = n + 1
      <4>1. i # 0 /\ i - 1 = n /\ n \in 0 .. n + 1 /\ n <= n /\ ~(n + 1 <= n)
        BY <3>3
      <4> QED
        BY <3>3, <4>1
    <3> QED
      BY <3>1, <3>2, <3>3
  <2>3. Reads(l, p, n + 1)
    <3> HIDE DEF l
    <3>1. l = [i \in 0 .. n + 1 |-> l[i]]
      BY DEF l
    <3> QED
      BY <2>2, <3>1 DEF Reads
  <2> QED
    BY <2>3
<1>3. Nat \subseteq T
  <2> HIDE DEF T
  <2> QED
    BY <1>1, <1>2, Induction
<1> QED
  BY <1>3

\* Parse: a key without a token has no field, and a field is the value of the
\* last token of its key; tokens without a key leave nothing.
LEMMA ParseLast ==
    ASSUME NEW p \in Seq(Token)
    PROVE  \A k : k # NoKey =>
             /\ k \in DOMAIN Parse(p) <=> \E i \in 1 .. Len(p) : p[i].key = k
             /\ \A i \in 1 .. Len(p) :
                  /\ p[i].key = k
                  /\ \A j \in 1 .. Len(p) : p[j].key = k => j <= i
                  => Parse(p)[k] = p[i].value
<1> DEFINE N == Len(p)
           M == CHOOSE m : Reads(m, p, N)
<1>1. N \in Nat /\ \A i \in 1 .. N : p[i] \in Token
  OBVIOUS
<1>2. Reads(M, p, N)
  BY <1>1, ReadsExists
<1>3. Parse(p) = M[N]
  BY DEF Parse, Reads
<1> HIDE DEF M, N
<1>4. M[0] = <<>> /\ \A i \in 1 .. N : M[i] = Put(M[i - 1], p[i])
  BY <1>1, <1>2 DEF Reads
\* The claim, after n tokens.
<1> DEFINE Good(n) ==
      \A k : k # NoKey =>
         /\ k \in DOMAIN M[n] <=> \E i \in 1 .. n : p[i].key = k
         /\ \A i \in 1 .. n :
              p[i].key = k /\ (\A j \in 1 .. n : p[j].key = k => j <= i)
              => M[n][k] = p[i].value
      T == {n \in Nat : n <= N => Good(n)}
<1>5. 0 \in T
  <2>1. DOMAIN M[0] = {}
    BY <1>4
  <2> QED
    BY <2>1
<1>6. ASSUME NEW n \in Nat, n \in T PROVE n + 1 \in T
  <2> SUFFICES ASSUME n + 1 <= N PROVE Good(n + 1)
    OBVIOUS
  <2>1. Good(n)
    BY <1>1, <1>6
  <2> DEFINE t == p[n + 1]
  <2>2. /\ n + 1 \in 1 .. N /\ (n + 1) - 1 = n
        /\ 1 .. n + 1 = (1 .. n) \cup {n + 1}
    BY <1>1
  <2>3. M[n + 1] = Put(M[n], t)
    BY <1>4, <2>2
  <2> HIDE DEF t
  <2>4. /\ t.key = NoKey => M[n + 1] = M[n]
        /\ t.key # NoKey =>
             /\ DOMAIN M[n + 1] = DOMAIN M[n] \cup {t.key}
             /\ M[n + 1][t.key] = t.value
             /\ \A k \in DOMAIN M[n] : k # t.key => M[n + 1][k] = M[n][k]
    BY <2>3 DEF Put
  <2> SUFFICES ASSUME NEW k, k # NoKey
               PROVE  /\ k \in DOMAIN M[n + 1] <=>
                            \E i \in 1 .. n + 1 : p[i].key = k
                      /\ \A i \in 1 .. n + 1 :
                           /\ p[i].key = k
                           /\ \A j \in 1 .. n + 1 : p[j].key = k => j <= i
                           => M[n + 1][k] = p[i].value
    OBVIOUS
  <2>5. /\ k \in DOMAIN M[n] <=> \E i \in 1 .. n : p[i].key = k
        /\ \A i \in 1 .. n :
             p[i].key = k /\ (\A j \in 1 .. n : p[j].key = k => j <= i)
             => M[n][k] = p[i].value
    BY <2>1
  <2>6. CASE t.key = k
    <3>1. \A i \in 1 .. n + 1 :
            (\A j \in 1 .. n + 1 : p[j].key = k => j <= i) => i = n + 1
      BY <2>2, <2>6 DEF t
    <3> QED
      BY <2>2, <2>4, <2>6, <3>1 DEF t
  <2>7. CASE t.key # k
    <3>1. k \in DOMAIN M[n + 1] <=> k \in DOMAIN M[n]
      BY <2>4, <2>7
    <3>2. k \in DOMAIN M[n] => M[n + 1][k] = M[n][k]
      BY <2>4, <2>7
    <3>3. \A i \in 1 .. n + 1 : p[i].key = k => i \in 1 .. n
      BY <2>2, <2>7 DEF t
    <3>4. \A i \in 1 .. n : i \in 1 .. n + 1
      BY <2>2
    <3> QED
      BY <2>5, <3>1, <3>2, <3>3, <3>4
  <2> QED
    BY <2>6, <2>7
<1>7. Nat \subseteq T
  <2> HIDE DEF T
  <2> QED
    BY <1>5, <1>6, Induction
<1>8. Good(N)
  BY <1>1, <1>7
<1> QED
  BY <1>3, <1>8 DEF N

-----------------------------------------------------------------------------
(* What Update makes of the last tokens *)

\* No table asks for the key of a token without one.
LEMMA KeysOfRows == \A r \in FloatRows \cup {FeedInRow} : r[1] # NoKey
BY DEF NoKey, FloatRows, ScalarRows, PortRows, PackRows, FeedInRow

\* A key that is in the payload has a last place there.
LEMMA LastPlace ==
    ASSUME NEW p \in Seq(Token), NEW k, Places(p, k) # {}
    PROVE  \E i \in Places(p, k) : \A j \in Places(p, k) : j <= i
<1> DEFINE T == {n \in Nat : Len(p) - n \in Places(p, k)}
<1>1. \A i \in Places(p, k) : i \in 1 .. Len(p) /\ Len(p) \in Nat
  BY DEF Places
<1>2. \A i \in Places(p, k) : Len(p) - i \in T
  <2> SUFFICES ASSUME NEW i \in Places(p, k) PROVE Len(p) - i \in T
    OBVIOUS
  <2>1. Len(p) - i \in Nat /\ Len(p) - (Len(p) - i) = i
    BY <1>1
  <2> QED
    BY <2>1
<1>3. PICK n \in T : \A l \in T : n <= l
  <2>1. T \subseteq Nat /\ T # {}
    BY <1>2
  <2> HIDE DEF T
  <2> QED
    BY <2>1, LeastNumber
<1>4. ASSUME NEW j \in Places(p, k) PROVE j <= Len(p) - n
  <2>1. n <= Len(p) - j /\ n \in Nat
    BY <1>2, <1>3
  <2> QED
    BY <1>1, <2>1
<1> QED
  BY <1>3, <1>4

\* Parse leaves each key the value of its last token.
LEMMA ParsedValue ==
    ASSUME NEW p \in Seq(Token), NEW k, k # NoKey
    PROVE  /\ k \in DOMAIN Parse(p) <=> Places(p, k) # {}
           /\ Places(p, k) # {} => /\ Parse(p)[k] = LastValue(p, k)
                                  /\ LastValue(p, k).kind \in
                                        {"int", "float", "junk"}
<1>1. k \in DOMAIN Parse(p) <=> Places(p, k) # {}
  BY ParseLast DEF Places
<1>2. ASSUME Places(p, k) # {}
      PROVE  /\ Parse(p)[k] = LastValue(p, k)
             /\ LastValue(p, k).kind \in {"int", "float", "junk"}
  <2> DEFINE c == CHOOSE i \in Places(p, k) : \A j \in Places(p, k) : j <= i
  <2>1. c \in Places(p, k) /\ \A j \in Places(p, k) : j <= c
    BY <1>2, LastPlace
  <2>2. LastValue(p, k) = p[c].value
    BY DEF LastValue
  <2> HIDE DEF c
  <2>3. c \in 1 .. Len(p) /\ p[c].key = k
        /\ \A j \in 1 .. Len(p) : p[j].key = k => j <= c
    BY <2>1 DEF Places
  <2>4. Parse(p)[k] = p[c].value
    BY <2>3, ParseLast
  <2>5. p[c] \in Token
    BY <2>3
  <2> QED
    BY <2>2, <2>4, <2>5 DEF Token
<1> QED
  BY <1>1, <1>2

\* Update: no sample of a payload has a name New does not know.
LEMMA AllKnown ==
    ASSUME NEW m PROVE Known(PayloadSamples(m)) = PayloadSamples(m)
<1>1. ASSUME NEW x \in PayloadSamples(m)
      PROVE  \E r \in FloatRows \cup {FeedInRow} : x.name = r[2]
  BY DEF PayloadSamples, FloatRows, Sample
<1>2. \A r \in FloatRows \cup {FeedInRow} :
        r[2] \in ScalarGauges \cup LabelledGauges
  BY RowsLabelled
<1> QED
  BY <1>1, <1>2 DEF Known

\* Update: the samples of a payload are those its last tokens tell.
LEMMA UpdateOfLast ==
    ASSUME NEW p \in Seq(Token)
    PROVE  Known(PayloadSamples(Parse(p))) = LastSamples(p)
<1> DEFINE m == Parse(p)
           A == {x \in FloatRows : FloatVal(m, x[1])}
           B == {x \in {FeedInRow} : IntVal(m, x[1])}
<1>1. \A r \in FloatRows \cup {FeedInRow} :
        /\ r[1] \in DOMAIN m <=> Places(p, r[1]) # {}
        /\ Places(p, r[1]) # {} =>
             /\ m[r[1]] = LastValue(p, r[1])
             /\ LastValue(p, r[1]).kind \in {"int", "float", "junk"}
  BY KeysOfRows, ParsedValue
<1> HIDE DEF m
<1>2. A = {x \in FloatRows : Tells(p, x[1], {"int", "float"})}
  BY <1>1 DEF FloatVal, Tells
<1>3. B = {x \in {FeedInRow} : Tells(p, x[1], {"int"})}
  BY <1>1 DEF IntVal, Tells
<1>4. \A r \in A \cup B : m[r[1]] = LastValue(p, r[1])
  BY <1>1, <1>2, <1>3 DEF Tells
<1>5. PayloadSamples(m) =
        {Sample(r, m[r[1]].n) : r \in A}
        \cup {Sample(r, IF m[r[1]].n = 0 THEN 1 ELSE 0) : r \in B}
  BY DEF PayloadSamples, FloatRows
<1>6. LastSamples(p) =
        {Sample(r, LastValue(p, r[1]).n) : r \in A}
        \cup {Sample(r, 1 - (IF LastValue(p, r[1]).n = 0 THEN 0 ELSE 1)) :
                r \in B}
  BY <1>2, <1>3 DEF LastSamples, FloatRows
<1> HIDE DEF A, B
<1>7. \A r \in B : (IF m[r[1]].n = 0 THEN 1 ELSE 0)
                     = 1 - (IF LastValue(p, r[1]).n = 0 THEN 0 ELSE 1)
  <2> SUFFICES ASSUME NEW r \in B
      PROVE (IF m[r[1]].n = 0 THEN 1 ELSE 0)
              = 1 - (IF LastValue(p, r[1]).n = 0 THEN 0 ELSE 1)
    OBVIOUS
  <2>1. m[r[1]] = LastValue(p, r[1])
    BY <1>4
  <2> QED
    BY <2>1
<1>8. {Sample(r, m[r[1]].n) : r \in A}
      = {Sample(r, LastValue(p, r[1]).n) : r \in A}
  BY <1>4
<1>9. {Sample(r, IF m[r[1]].n = 0 THEN 1 ELSE 0) : r \in B}
      = {Sample(r, 1 - (IF LastValue(p, r[1]).n = 0 THEN 0 ELSE 1)) : r \in B}
  BY <1>7
<1>10. PayloadSamples(m) = LastSamples(p)
  BY <1>5, <1>6, <1>8, <1>9
<1> QED
  BY <1>10, AllKnown DEF m

\* Between Parse and the clock the update is that of the remembered payload.
ParsedOK ==
    at["callback"] = "clock" =>
        \E u \in PayloadUpdates :
            payload = u.from /\ held["callback"].samples = u.samples

\* From Receive to ReadClock nobody touches the callback's update.
LEMMA ParsedKept == IInv /\ ParsedOK /\ [Next]_vars => ParsedOK'
<1> SUFFICES ASSUME IInv, ParsedOK, [Next]_vars, at'["callback"] = "clock"
             PROVE  ParsedOK'
  BY DEF ParsedOK
<1> DEFINE Kept == /\ at["callback"] = "clock" /\ payload' = payload
                   /\ held'["callback"] = held["callback"]
<1>1. ASSUME Kept PROVE ParsedOK'
  BY <1>1 DEF ParsedOK
<1>2. /\ at \in [Writers \cup Scrapers -> Locations]
      /\ held \in [Writers -> Update]
      /\ "callback" \in Writers /\ "loop" \in Writers
      /\ \A s \in Scrapers : s # "callback"
  BY CollectorAssumption DEF IInv, StateOK, Writers
<1>3. CASE Receive
  <2>1. PICK u \in PayloadUpdates :
            /\ payload' = u.from
            /\ held' = [held EXCEPT !["callback"].samples = u.samples]
    BY <1>3 DEF Receive
  <2>2. held'["callback"].samples = u.samples
    BY <1>2, <2>1 DEF Update
  <2> QED
    BY <2>1, <2>2 DEF ParsedOK
<1>4. CASE Answer \/ NoAnswer \/ MarkDown
  <2>1. Kept
    BY <1>2, <1>4 DEF Answer, NoAnswer, MarkDown, Goto
  <2> QED
    BY <1>1, <2>1
<1>5. CASE MarkUp
  BY <1>2, <1>5 DEF MarkUp, Goto
<1>6. ASSUME NEW w \in Writers,
             ReadClock(w) \/ Lock(w) \/ SetCache(w) \/ SetStamp(w)
      PROVE  ParsedOK'
  <2>1. w # "callback"
    BY <1>2, <1>6 DEF ReadClock, Lock, SetCache, SetStamp, Goto
  <2>2. Kept
    BY <1>2, <1>6, <2>1 DEF ReadClock, Lock, SetCache, SetStamp, Goto
  <2> QED
    BY <1>1, <2>2
<1>7. CASE ScrapeStep
  <2>1. Kept
    BY <1>2, <1>7 DEF ScrapeStep, RLock, SendMeta, SendGauges, RUnlock, Goto
  <2> QED
    BY <1>1, <2>1
<1>8. CASE Tick \/ UNCHANGED vars
  <2>1. Kept
    BY <1>8 DEF Tick, vars
  <2> QED
    BY <1>1, <2>1
<1> QED
  BY <1>3, <1>4, <1>5, <1>6, <1>7, <1>8 DEF Next, WriterStep

\* Parse, Update: whatever a payload repeats or spoils, the last token of a key
\* decides, for payloads of any length.
THEOREM LastTokens == Spec => []LastTokenCounts
<1>1. Init => ParsedOK
  BY DEF Init, ParsedOK, Writers
<1>2. ParsedOK => LastTokenCounts
  <2> SUFFICES ASSUME ParsedOK, at["callback"] = "clock"
               PROVE  held["callback"].samples = LastSamples(payload)
    BY DEF LastTokenCounts
  <2>1. PICK u \in PayloadUpdates :
            payload = u.from /\ held["callback"].samples = u.samples
    BY DEF ParsedOK
  <2>2. PICK p \in Payloads :
            u = [from |-> p, samples |-> Known(PayloadSamples(Parse(p)))]
    BY DEF PayloadUpdates
  <2>3. /\ payload = p
        /\ held["callback"].samples = Known(PayloadSamples(Parse(p)))
    BY <2>1, <2>2
  <2>4. p \in Seq(Token)
    BY CollectorAssumption
  <2> QED
    BY <2>3, <2>4, UpdateOfLast
<1> QED
  BY <1>1, <1>2, ParsedKept, Invariant, PTL DEF Spec
=============================================================================
