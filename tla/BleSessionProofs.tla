-------------------------- MODULE BleSessionProofs --------------------------
(***************************************************************************)
(* Theorems about BleSession, for any number of requests, opcodes, setup   *)
(* attempts and frames per queue.                                          *)
(*                                                                         *)
(* Most of what the session promises rests on where ble_loop is: PlaceInv  *)
(* says what the state, the link, the handles and the notification task    *)
(* are at each of its places, and RequestInv that a request is under way   *)
(* only while a session is held or has just been lost.  LockInv says who   *)
(* is in the lock's queue.  The same invariants show that the session and  *)
(* the requests implement CommandChannel.                                  *)
(***************************************************************************)
EXTENDS BleSession, TLAPS

In(t, s) == \E i \in 1 .. Len(s) : s[i] = t
Distinct(s) == \A i, j \in 1 .. Len(s) : s[i] = s[j] => i = j

\* A task that joins the lock's queue is in it, and so are those before it.
LEMMA Joined ==
    ASSUME NEW S, NEW s \in Seq(S), NEW t \in S, Distinct(s), ~In(t, s)
    PROVE  /\ Append(s, t) \in Seq(S) /\ Append(s, t) # <<>>
           /\ Distinct(Append(s, t))
           /\ \A u : In(u, Append(s, t)) <=> In(u, s) \/ u = t
           /\ s # <<>> => Head(Append(s, t)) = Head(s)
<1> DEFINE a == Append(s, t)
<1>1. /\ a \in Seq(S) /\ Len(a) = Len(s) + 1 /\ Len(s) \in Nat
      /\ \A i \in 1 .. Len(s) : a[i] = s[i]
      /\ a[Len(s) + 1] = t
  OBVIOUS
<1>2. a # <<>>
  BY <1>1
<1>3. Distinct(a)
  BY <1>1 DEF Distinct, In
<1>4. ASSUME NEW u PROVE In(u, a) <=> In(u, s) \/ u = t
  <2>1. ASSUME In(u, a) PROVE In(u, s) \/ u = t
    BY <2>1, <1>1 DEF In
  <2>2. ASSUME In(u, s) \/ u = t PROVE In(u, a)
    <3>1. CASE In(u, s)
      BY <3>1, <1>1 DEF In
    <3>2. CASE u = t
      <4>1. Len(s) + 1 \in 1 .. Len(a)
        BY <1>1
      <4> QED BY <4>1, <1>1, <3>2 DEF In
    <3> QED BY <2>2, <3>1, <3>2
  <2> QED BY <2>1, <2>2
<1>5. s # <<>> => Head(a) = Head(s)
  BY <1>1
<1> QED BY <1>1, <1>2, <1>3, <1>4, <1>5

\* A release removes the holder and nobody else.
LEMMA Released ==
    ASSUME NEW S, NEW s \in Seq(S), Distinct(s), s # <<>>
    PROVE  /\ Tail(s) \in Seq(S) /\ Distinct(Tail(s))
           /\ In(Head(s), s)
           /\ \A u : In(u, Tail(s)) <=> In(u, s) /\ u # Head(s)
<1> DEFINE r == Tail(s)
<1>1. /\ r \in Seq(S) /\ Len(r) = Len(s) - 1 /\ Len(s) \in Nat \ {0}
      /\ \A i \in 1 .. Len(r) : r[i] = s[i + 1]
      /\ Head(s) = s[1]
  OBVIOUS
<1>2. Distinct(r)
  BY <1>1 DEF Distinct
<1>3. In(Head(s), s)
  BY <1>1 DEF In
<1>4. ASSUME NEW u PROVE In(u, r) <=> In(u, s) /\ u # Head(s)
  <2>1. ASSUME In(u, r) PROVE In(u, s) /\ u # Head(s)
    <3>1. PICK i \in 1 .. Len(r) : r[i] = u
      BY <2>1 DEF In
    <3>2. i + 1 \in 1 .. Len(s) /\ 1 \in 1 .. Len(s) /\ s[i + 1] = u /\ i + 1 # 1
      BY <3>1, <1>1
    <3> QED BY <3>2, <1>1 DEF In, Distinct
  <2>2. ASSUME In(u, s), u # Head(s) PROVE In(u, r)
    <3>1. PICK i \in 1 .. Len(s) : s[i] = u
      BY <2>2 DEF In
    <3>2. i - 1 \in 1 .. Len(r) /\ r[i - 1] = u
      BY <3>1, <2>2, <1>1
    <3> QED BY <3>2 DEF In
  <2> QED BY <2>1, <2>2
<1> QED BY <1>1, <1>2, <1>3, <1>4

\* The head of a queue is in it; only an empty queue has nobody in it.
LEMMA HeadIn ==
    ASSUME NEW S, NEW s \in Seq(S)
    PROVE  /\ s # <<>> => In(Head(s), s) /\ Head(s) \in S
           /\ (\A t \in S : ~In(t, s)) => s = <<>>
<1>1. s # <<>> => Len(s) \in Nat \ {0} /\ Head(s) = s[1] /\ s[1] \in S
  OBVIOUS
<1> QED BY <1>1 DEF In

-----------------------------------------------------------------------------
(* The inductive invariant. *)

\* Where ble_loop holds no connection: one it could not close may still be up.
Without == {"scan", "connect", "retry", "backoff"}
\* Where it has subscribed, and not yet torn the session down.
Within  == {"warm", "primeLock", "prime", "hold"}

StateInv ==
    /\ loop = "scan" => state = "scanning"
    /\ loop \in {"connect", "settle"} => state = "connecting"
    /\ loop = "negotiate" => state = "negotiating"
    /\ loop = "subscribe" => state = "subscribing"
    /\ loop \in {"warm", "primeLock", "prime"} => state \in {"priming", "degraded"}
    /\ loop = "hold" => state \in {"ready", "degraded"}
    /\ loop \in {"undo", "retry"} => state = "degraded"
    /\ loop \in {"drop", "backoff"} => state \in {"disconnected", "degraded"}

PlaceInv ==
    /\ loop = "drop" => ~link
    /\ loop \in Without => ~conn /\ ~chars /\ ~ff06 /\ queue = NoFrames
    /\ loop \in (Setup \ {"connect"}) \cup {"hold"} => conn
    /\ loop \in {"scan", "connect", "settle", "negotiate", "subscribe"} =>
          notifier = "none"
    /\ loop \in Within => chars /\ notifier # "cancelled"
    /\ loop \in Within /\ link => notifier = "listening"
    /\ loop \in {"undo", "retry", "drop", "backoff"} => notifier # "listening"
    /\ loop = "hold" /\ link => primed

LockInv ==
    /\ Distinct(lockQueue)
    /\ \A c \in Clients : In(c, lockQueue) <=> pc[c] # "idle"
    /\ In(Loop, lockQueue) <=> loop \in {"primeLock", "prime"}
    /\ \A c \in Clients : pc[c] \in {"wait", "press"} => Holder = c
    /\ loop = "prime" => Holder = Loop

RequestInv ==
    \A c \in Clients :
        /\ pc[c] # "idle" => loop \in {"hold", "drop", "backoff"}
        /\ pc[c] # "idle" /\ link => loop = "hold"
        /\ pc[c] = "lock" => got[c] = 0
        /\ pc[c] = "wait" =>
              /\ req[c].kind # "reset" /\ got[c] < Wanted(req[c])
              /\ queue[req[c].op] <= fresh
        /\ pc[c] = "press" => req[c].kind = "reset"
        /\ pc[c] = "press" /\ link => pressed = c

IInv == TypeOK /\ StateInv /\ PlaceInv /\ LockInv /\ RequestInv

-----------------------------------------------------------------------------
(* The initial state and every step keep the invariant. *)

USE DEF Loop, Nobody

\* The fields of a request.
LEMMA Fields ==
    /\ Reset \in Requests
    /\ \A r \in Requests : r.op \in Ops /\ r.kind \in {"single", "multi", "reset"}
    /\ \A r \in Requests : Wanted(r) \in 1 .. 2
BY SessionAssumption DEF Requests, Reset, Wanted

\* The queues without a frame.
LEMMA NoFrame ==
    /\ NoFrames \in [Ops -> 0 .. MaxQueue]
    /\ \A o \in Ops : NoFrames[o] = 0
BY SessionAssumption DEF NoFrames

\* The initial state satisfies the invariant.
LEMMA Initially == Init => IInv
<1> SUFFICES ASSUME Init PROVE IInv
  OBVIOUS
<1>1. TypeOK
  <2>1. /\ link \in BOOLEAN /\ conn \in BOOLEAN /\ chars \in BOOLEAN
        /\ ff06 \in BOOLEAN /\ primed \in BOOLEAN
    BY DEF Init
  <2>2. lockQueue \in Seq(Clients \cup {Loop})
    BY DEF Init
  <2>3. /\ loop \in LoopAt /\ attempt \in 1 .. Retries /\ state \in States
        /\ notifier \in {"none", "listening", "cancelled"}
        /\ queue \in [Ops -> 0 .. MaxQueue] /\ fresh \in 0 .. MaxQueue
        /\ pressed \in Clients \cup {Nobody}
    BY SessionAssumption, NoFrame DEF Init, LoopAt, Setup, States
  <2>4. /\ pc \in [Clients -> {"idle", "lock", "wait", "press"}]
        /\ req \in [Clients -> Requests] /\ got \in [Clients -> 0 .. 2]
    BY Fields DEF Init
  <2> QED BY <2>1, <2>2, <2>3, <2>4 DEF TypeOK
<1>2. LockInv
  BY SMT DEF Init, LockInv, Distinct, In
<1>3. StateInv /\ PlaceInv /\ RequestInv
  BY DEF Init, StateInv, PlaceInv, RequestInv, Without, Within, Setup
<1> QED BY <1>1, <1>2, <1>3 DEF IInv


\* ble_loop, where it does not touch the lock.
LEMMA LoopKeeps ==
    ASSUME IInv,
           \/ ScanFails \/ Found \/ Connects \/ Settled \/ Negotiated
           \/ Subscribed \/ PrimeWrites \/ Undone \/ Retry \/ HoldEnds
           \/ Dropped \/ ScanAgain
    PROVE  IInv'
<1> USE SessionAssumption DEF IInv, LoopAt, Setup, States, Without, Within
<1>1. CASE ScanFails
  <2>1. TypeOK'
    BY <1>1, NoFrame DEF TypeOK, client, ScanFails
  <2>2. StateInv' /\ PlaceInv'
    BY <1>1 DEF StateInv, PlaceInv, TypeOK, client, ScanFails
  <2>3. LockInv'
    BY <1>1 DEF LockInv, Holder, client, ScanFails
  <2>4. RequestInv'
    BY <1>1, Fields, NoFrame DEF RequestInv, PlaceInv, TypeOK, client, ScanFails
  <2> QED BY <2>1, <2>2, <2>3, <2>4
<1>2. CASE Found
  <2>1. TypeOK'
    BY <1>2, NoFrame DEF TypeOK, client, Found
  <2>2. StateInv' /\ PlaceInv'
    BY <1>2 DEF StateInv, PlaceInv, TypeOK, client, Found
  <2>3. LockInv'
    BY <1>2 DEF LockInv, Holder, client, Found
  <2>4. RequestInv'
    BY <1>2, Fields, NoFrame DEF RequestInv, PlaceInv, TypeOK, client, Found
  <2> QED BY <2>1, <2>2, <2>3, <2>4
<1>3. CASE Connects
  <2>1. TypeOK'
    BY <1>3, NoFrame DEF TypeOK, client, Connects
  <2>2. StateInv' /\ PlaceInv'
    BY <1>3 DEF StateInv, PlaceInv, TypeOK, client, Connects
  <2>3. LockInv'
    BY <1>3 DEF LockInv, Holder, client, Connects
  <2>4. RequestInv'
    BY <1>3, Fields, NoFrame DEF RequestInv, PlaceInv, TypeOK, client, Connects
  <2> QED BY <2>1, <2>2, <2>3, <2>4
<1>4. CASE Settled
  <2>1. TypeOK'
    BY <1>4, NoFrame DEF TypeOK, client, Settled
  <2>2. StateInv' /\ PlaceInv'
    BY <1>4 DEF StateInv, PlaceInv, TypeOK, client, Settled
  <2>3. LockInv'
    BY <1>4 DEF LockInv, Holder, client, Settled
  <2>4. RequestInv'
    BY <1>4, Fields, NoFrame DEF RequestInv, PlaceInv, TypeOK, client, Settled
  <2> QED BY <2>1, <2>2, <2>3, <2>4
<1>5. CASE Negotiated
  <2>1. TypeOK'
    BY <1>5, NoFrame DEF TypeOK, client, Negotiated
  <2>2. StateInv' /\ PlaceInv'
    BY <1>5 DEF StateInv, PlaceInv, TypeOK, client, Negotiated
  <2>3. LockInv'
    BY <1>5 DEF LockInv, Holder, client, Negotiated
  <2>4. RequestInv'
    BY <1>5, Fields, NoFrame
       DEF RequestInv, PlaceInv, TypeOK, client, Negotiated
  <2> QED BY <2>1, <2>2, <2>3, <2>4
<1>6. CASE Subscribed
  <2>1. TypeOK'
    BY <1>6, NoFrame DEF TypeOK, client, Subscribed
  <2>2. StateInv' /\ PlaceInv'
    BY <1>6 DEF StateInv, PlaceInv, TypeOK, client, Subscribed
  <2>3. LockInv'
    BY <1>6 DEF LockInv, Holder, client, Subscribed
  <2>4. RequestInv'
    BY <1>6, Fields, NoFrame
       DEF RequestInv, PlaceInv, TypeOK, client, Subscribed
  <2> QED BY <2>1, <2>2, <2>3, <2>4
<1>7. CASE PrimeWrites
  <2>1. TypeOK'
    BY <1>7, NoFrame DEF TypeOK, client, PrimeWrites
  <2>2. StateInv' /\ PlaceInv'
    BY <1>7 DEF StateInv, PlaceInv, TypeOK, client, PrimeWrites
  <2>3. LockInv'
    BY <1>7 DEF LockInv, Holder, client, PrimeWrites
  <2>4. RequestInv'
    BY <1>7, Fields, NoFrame
       DEF RequestInv, PlaceInv, TypeOK, client, PrimeWrites
  <2> QED BY <2>1, <2>2, <2>3, <2>4
<1>8. CASE Undone
  <2>1. TypeOK'
    BY <1>8, NoFrame DEF TypeOK, client, Undone, Disconnected
  <2>2. StateInv' /\ PlaceInv'
    BY <1>8 DEF StateInv, PlaceInv, TypeOK, client, Undone, Disconnected
  <2>3. LockInv'
    BY <1>8 DEF LockInv, Holder, client, Undone, Disconnected
  <2>4. RequestInv'
    BY <1>8, Fields, NoFrame
       DEF RequestInv, PlaceInv, TypeOK, client, Undone, Disconnected
  <2> QED BY <2>1, <2>2, <2>3, <2>4
<1>9. CASE Retry
  <2>1. TypeOK'
    BY <1>9, NoFrame DEF TypeOK, client, Retry, Drained
  <2>2. StateInv' /\ PlaceInv'
    BY <1>9 DEF StateInv, PlaceInv, TypeOK, client, Retry, Drained
  <2>3. LockInv'
    BY <1>9 DEF LockInv, Holder, client, Retry, Drained
  <2>4. RequestInv'
    BY <1>9, Fields, NoFrame
       DEF RequestInv, PlaceInv, TypeOK, client, Retry, Drained
  <2> QED BY <2>1, <2>2, <2>3, <2>4
<1>10. CASE HoldEnds
  <2>1. TypeOK'
    BY <1>10, NoFrame DEF TypeOK, client, HoldEnds
  <2>2. StateInv' /\ PlaceInv'
    BY <1>10 DEF StateInv, PlaceInv, TypeOK, client, HoldEnds
  <2>3. LockInv'
    BY <1>10 DEF LockInv, Holder, client, HoldEnds
  <2>4. RequestInv'
    BY <1>10, Fields, NoFrame DEF RequestInv, PlaceInv, TypeOK, client, HoldEnds
  <2> QED BY <2>1, <2>2, <2>3, <2>4
<1>11. CASE Dropped
  <2>1. TypeOK'
    BY <1>11, NoFrame DEF TypeOK, client, Dropped, Disconnected
  <2>2. StateInv' /\ PlaceInv'
    BY <1>11 DEF StateInv, PlaceInv, TypeOK, client, Dropped, Disconnected
  <2>3. LockInv'
    BY <1>11 DEF LockInv, Holder, client, Dropped, Disconnected
  <2>4. RequestInv'
    <3>1. ~link' /\ loop' = "backoff" /\ pc' = pc /\ req' = req /\ got' = got
      BY <1>11 DEF PlaceInv, client, Dropped, Disconnected
    <3>2. queue' = NoFrames /\ fresh' = fresh
      BY <1>11 DEF Dropped, Disconnected
    <3> QED BY <3>1, <3>2, Fields, NoFrame DEF RequestInv, TypeOK
  <2> QED BY <2>1, <2>2, <2>3, <2>4
<1>12. CASE ScanAgain
  <2>1. TypeOK'
    BY <1>12, NoFrame DEF TypeOK, client, ScanAgain, Drained
  <2>2. StateInv' /\ PlaceInv'
    BY <1>12 DEF StateInv, PlaceInv, TypeOK, client, ScanAgain, Drained
  <2>3. LockInv'
    BY <1>12 DEF LockInv, Holder, client, ScanAgain, Drained
  <2>4. RequestInv'
    BY <1>12, Fields, NoFrame
       DEF RequestInv, PlaceInv, TypeOK, client, ScanAgain, Drained
  <2> QED BY <2>1, <2>2, <2>3, <2>4
<1> QED BY <1>1, <1>2, <1>3, <1>4, <1>5, <1>6, <1>7, <1>8, <1>9, <1>10, <1>11, <1>12

\* A task that is not in the queue joins it: the holder stays the holder.
LEMMA LockJoined ==
    ASSUME TypeOK, LockInv, NEW t \in Clients \cup {Loop}, ~In(t, lockQueue),
           lockQueue' = Append(lockQueue, t)
    PROVE  /\ lockQueue' \in Seq(Clients \cup {Loop}) /\ Distinct(lockQueue')
           /\ \A u : In(u, lockQueue') <=> In(u, lockQueue) \/ u = t
           /\ Holder # Nobody => Holder' = Holder
<1>1. lockQueue \in Seq(Clients \cup {Loop}) /\ Distinct(lockQueue)
  BY DEF TypeOK, LockInv
<1> HIDE DEF Loop, Nobody
<1> QED BY <1>1, Joined DEF Holder

\* The holder leaves the queue, and nobody else does.
LEMMA LockReleased ==
    ASSUME TypeOK, LockInv, Holder \in Clients \cup {Loop},
           lockQueue' = Tail(lockQueue)
    PROVE  /\ lockQueue' \in Seq(Clients \cup {Loop}) /\ Distinct(lockQueue')
           /\ In(Holder, lockQueue)
           /\ \A u : In(u, lockQueue') <=> In(u, lockQueue) /\ u # Holder
<1>1. lockQueue \in Seq(Clients \cup {Loop}) /\ Distinct(lockQueue)
  BY DEF TypeOK, LockInv
<1>2. lockQueue # <<>> /\ Holder = Head(lockQueue)
  BY SessionAssumption DEF Holder
<1> HIDE DEF Loop, Nobody
<1> QED BY <1>1, <1>2, Released

\* A request that returns gives the lock back.
LEMMA Returns ==
    ASSUME TypeOK, LockInv, NEW c \in Clients, Holder = c, Return(c),
           UNCHANGED loop
    PROVE  /\ LockInv' /\ lockQueue' \in Seq(Clients \cup {Loop})
           /\ pc' \in [Clients -> {"idle", "lock", "wait", "press"}]
           /\ req' \in [Clients -> Requests]
<1> USE SessionAssumption
<1>1. /\ lockQueue' \in Seq(Clients \cup {Loop}) /\ Distinct(lockQueue')
      /\ \A u : In(u, lockQueue') <=> In(u, lockQueue) /\ u # c
  BY LockReleased DEF Return
<1>2. /\ pc' \in [Clients -> {"idle", "lock", "wait", "press"}]
      /\ req' \in [Clients -> Requests]
      /\ pc'[c] = "idle" /\ \A d \in Clients : d # c => pc'[d] = pc[d]
  BY Fields DEF Return, TypeOK
<1>3. loop # "prime" /\ \A d \in Clients : pc[d] \in {"wait", "press"} => d = c
  BY DEF LockInv
<1>4. LockInv'
  BY <1>1, <1>2, <1>3 DEF LockInv
<1> QED BY <1>1, <1>2, <1>4

\* The probe takes the lock and gives it back.
LEMMA ProbeKeeps ==
    ASSUME IInv, PrimeAsksLock \/ PrimeAnswered \/ SetupFails
    PROVE  IInv'
<1> USE SessionAssumption DEF IInv, LoopAt, Setup, States, Without, Within
<1>0. loop \in Setup => \A c \in Clients : pc[c] = "idle"
  BY DEF RequestInv, TypeOK
<1>1. CASE PrimeAsksLock
  <2>1. /\ lockQueue' \in Seq(Clients \cup {Loop}) /\ Distinct(lockQueue')
        /\ \A u : In(u, lockQueue') <=> In(u, lockQueue) \/ u = Loop
    <3>1. ~In(Loop, lockQueue) /\ lockQueue' = Append(lockQueue, Loop)
      BY <1>1 DEF PrimeAsksLock, LockInv
    <3> QED BY <3>1, LockJoined
  <2>2. TypeOK'
    BY <1>1, <2>1 DEF TypeOK, client, PrimeAsksLock
  <2>3. StateInv' /\ PlaceInv'
    BY <1>1 DEF StateInv, PlaceInv, TypeOK, client, PrimeAsksLock
  <2>4. LockInv'
    BY <1>0, <1>1, <2>1 DEF LockInv, client, PrimeAsksLock
  <2>5. RequestInv'
    BY <1>1, <1>0 DEF RequestInv, client, PrimeAsksLock
  <2> QED BY <2>2, <2>3, <2>4, <2>5
<1>2. CASE PrimeAnswered
  <2>1. /\ lockQueue' \in Seq(Clients \cup {Loop}) /\ Distinct(lockQueue')
        /\ \A u : In(u, lockQueue') <=> In(u, lockQueue) /\ u # Loop
    <3>1. Holder = Loop /\ lockQueue' = Tail(lockQueue)
      BY <1>2 DEF PrimeAnswered, LockInv
    <3> QED BY <3>1, LockReleased
  <2>2. TypeOK'
    BY <1>2, <2>1 DEF TypeOK, client, PrimeAnswered
  <2>3. StateInv' /\ PlaceInv'
    BY <1>2 DEF StateInv, PlaceInv, TypeOK, client, PrimeAnswered
  <2>4. LockInv'
    BY <1>0, <1>2, <2>1 DEF LockInv, client, PrimeAnswered
  <2>5. RequestInv'
    BY <1>2, <1>0 DEF RequestInv, client, PrimeAnswered
  <2> QED BY <2>2, <2>3, <2>4, <2>5
<1>3. CASE SetupFails
  <2>1. /\ lockQueue' \in Seq(Clients \cup {Loop}) /\ Distinct(lockQueue')
        /\ \A u : In(u, lockQueue') <=> In(u, lockQueue) /\ u # Loop
    <3>1. CASE Holder = Loop
      <4>1. lockQueue' = Tail(lockQueue)
        BY <1>3, <3>1 DEF SetupFails
      <4> QED BY <4>1, <3>1, LockReleased
    <3>2. CASE Holder # Loop
      <4>1. lockQueue' = lockQueue /\ ~In(Loop, lockQueue)
        BY <1>3, <3>2 DEF SetupFails, LockInv
      <4> QED BY <4>1 DEF LockInv, TypeOK
    <3> QED BY <3>1, <3>2
  <2>2. TypeOK'
    <3>1. queue' \in [Ops -> 0 .. MaxQueue]
      BY <1>3 DEF TypeOK, SetupFails
    <3>2. notifier' \in {"none", "listening", "cancelled"}
      BY <1>3 DEF TypeOK, SetupFails
    <3> QED BY <1>3, <2>1, <3>1, <3>2 DEF TypeOK, client, SetupFails
  <2>3. StateInv' /\ PlaceInv'
    BY <1>3 DEF StateInv, PlaceInv, TypeOK, client, SetupFails
  <2>4. LockInv'
    BY <1>0, <1>3, <2>1 DEF LockInv, client, SetupFails
  <2>5. RequestInv'
    BY <1>3, <1>0 DEF RequestInv, client, SetupFails
  <2> QED BY <2>2, <2>3, <2>4, <2>5
<1> QED BY <1>1, <1>2, <1>3


\* The notification task and the link.
LEMMA LinkKeeps ==
    ASSUME IInv,
           \/ \E o \in Ops : Notify(o)
           \/ NotifierFails \/ NotifierCancelled \/ LinkDrops
    PROVE  IInv'
<1> USE SessionAssumption DEF IInv, session, client, LoopAt, Setup, States, Without, Within
<1>1. ASSUME NEW o \in Ops, Notify(o) PROVE IInv'
  <2>1. /\ queue' \in [Ops -> 0 .. MaxQueue] /\ fresh' \in 0 .. MaxQueue
    BY <1>1 DEF Notify, TypeOK, AtMost
  <2>2. TypeOK'
    BY <1>1, <2>1 DEF Notify, TypeOK
  <2>3. StateInv' /\ PlaceInv'
    BY <1>1 DEF StateInv, PlaceInv, TypeOK, Notify
  <2>4. LockInv'
    BY <1>1 DEF LockInv, Holder, Notify
  <2>5. ASSUME NEW c \in Clients, pc[c] = "wait"
        PROVE  queue'[req[c].op] <= fresh'
    <3>1. queue[req[c].op] <= fresh /\ req[c].op \in Ops
      BY <2>5, Fields DEF RequestInv, TypeOK
    <3>2. queue[req[c].op] \in 0 .. MaxQueue /\ fresh \in 0 .. MaxQueue
      BY <3>1 DEF TypeOK
    <3>3. CASE req[c].op = o
      <4>1. fresh' = AtMost(fresh + 1)
        BY <1>1, <2>5, <3>3 DEF Notify
      <4>2. queue'[o] = AtMost(queue[o] + 1)
        BY <1>1 DEF Notify, TypeOK
      <4> QED BY <4>1, <4>2, <3>1, <3>2, <3>3 DEF AtMost
    <3>4. CASE req[c].op # o
      <4>1. queue'[req[c].op] = queue[req[c].op]
        BY <1>1, <3>1, <3>4 DEF Notify, TypeOK
      <4>2. fresh <= fresh'
        BY <1>1, <3>2 DEF Notify, AtMost
      <4> QED BY <4>1, <4>2, <3>1, <3>2, <2>1
    <3> QED BY <3>3, <3>4
  <2>6. RequestInv'
    BY <1>1, <2>5 DEF RequestInv, Notify
  <2> QED BY <2>2, <2>3, <2>4, <2>6

<1>2. CASE NotifierFails
  <2>1. TypeOK'
    BY <1>2 DEF TypeOK, NotifierFails
  <2>2. StateInv' /\ PlaceInv'
    BY <1>2 DEF StateInv, PlaceInv, TypeOK, NotifierFails
  <2>3. LockInv'
    BY <1>2 DEF LockInv, Holder, NotifierFails
  <2>4. RequestInv'
    BY <1>2 DEF RequestInv, TypeOK, NotifierFails
  <2> QED BY <2>1, <2>2, <2>3, <2>4
<1>3. CASE NotifierCancelled
  <2>1. TypeOK'
    BY <1>3 DEF TypeOK, NotifierCancelled
  <2>2. StateInv' /\ PlaceInv'
    BY <1>3 DEF StateInv, PlaceInv, TypeOK, NotifierCancelled
  <2>3. LockInv'
    BY <1>3 DEF LockInv, Holder, NotifierCancelled
  <2>4. RequestInv'
    BY <1>3 DEF RequestInv, TypeOK, NotifierCancelled
  <2> QED BY <2>1, <2>2, <2>3, <2>4
<1>4. CASE LinkDrops
  <2>1. TypeOK'
    <3>1. link' \in BOOLEAN /\ primed' \in BOOLEAN
      BY <1>4 DEF LinkDrops
    <3> QED BY <1>4, <3>1 DEF TypeOK, LinkDrops
  <2>2. StateInv' /\ PlaceInv'
    BY <1>4 DEF StateInv, PlaceInv, TypeOK, LinkDrops
  <2>3. LockInv'
    BY <1>4 DEF LockInv, Holder, LinkDrops
  <2>4. RequestInv'
    BY <1>4 DEF RequestInv, TypeOK, LinkDrops
  <2> QED BY <2>1, <2>2, <2>3, <2>4
<1> QED BY <1>1, <1>2, <1>3, <1>4

\* The requests.  Only the holder of the lock does more than join its queue.
LEMMA ClientKeeps ==
    ASSUME IInv, NEW c \in Clients,
           ClientStep(c) \/ \E r \in Requests : Call(c, r)
    PROVE  IInv'
<1> USE SessionAssumption DEF IInv, session, LoopAt, Setup, States, Without, Within
<1>0. /\ \A d \in Clients : req[d].op \in Ops
      /\ \A d \in Clients : Holder = c /\ d # c => pc[d] \in {"idle", "lock"}
      /\ pc[c] \in {"wait", "press"} => Holder = c
  BY Fields DEF TypeOK, LockInv
<1>1. ASSUME NEW r \in Requests, Call(c, r) PROVE IInv'
  <2>1. /\ lockQueue' \in Seq(Clients \cup {Loop}) /\ Distinct(lockQueue')
        /\ \A u : In(u, lockQueue') <=> In(u, lockQueue) \/ u = c
        /\ Holder # Nobody => Holder' = Holder
    <3>1. ~In(c, lockQueue) /\ lockQueue' = Append(lockQueue, c)
      BY <1>1 DEF Call, LockInv
    <3> QED BY <3>1, LockJoined
  <2>2. /\ pc' \in [Clients -> {"idle", "lock", "wait", "press"}]
        /\ req' \in [Clients -> Requests] /\ got' \in [Clients -> 0 .. 2]
        /\ pc'[c] = "lock"
        /\ \A d \in Clients : d # c => pc'[d] = pc[d] /\ req'[d] = req[d]
                                      /\ got'[d] = got[d]
    BY <1>1 DEF Call, TypeOK
  <2>3. TypeOK'
    BY <1>1, <2>1, <2>2 DEF Call, TypeOK
  <2>4. StateInv' /\ PlaceInv' /\ loop = "hold"
    BY <1>1 DEF Call, Connected, StateInv, PlaceInv, TypeOK
  <2>5. LockInv'
    <3>1. \A d \in Clients : pc'[d] \in {"wait", "press"} => Holder' = d
      BY <2>1, <2>2 DEF LockInv
    <3>2. loop' = loop /\ pc[c] = "idle"
      BY <1>1 DEF Call
    <3> HIDE DEF Nobody
    <3> QED BY <2>1, <2>2, <2>4, <3>1, <3>2 DEF LockInv
  <2>6. RequestInv'
    BY <1>1, <2>2, <2>4 DEF RequestInv, Call
  <2> QED BY <2>3, <2>4, <2>5, <2>6
<1>2. CASE Write(c)
  <2>1. /\ queue' \in [Ops -> 0 .. MaxQueue] /\ queue'[req[c].op] = 0
        /\ pc' \in [Clients -> {"idle", "lock", "wait", "press"}]
        /\ pc'[c] = "wait" /\ \A d \in Clients : d # c => pc'[d] = pc[d]
    BY <1>0, <1>2 DEF Write, TypeOK
  <2>2. TypeOK'
    BY <1>2, <2>1 DEF Write, TypeOK
  <2>3. StateInv' /\ PlaceInv'
    <3>1. loop = "hold"
      BY <1>2 DEF Write, Writable, RequestInv
    <3> QED BY <1>2, <3>1 DEF Write, StateInv, PlaceInv
  <2>4. LockInv'
    BY <1>2, <2>1 DEF Write, LockInv, Holder
  <2>5. RequestInv'
    <3>1. req[c].kind # "reset" /\ got[c] < Wanted(req[c])
      <4>1. req[c].kind # "reset" /\ got[c] = 0
        BY <1>2 DEF Write, RequestInv
      <4>2. Wanted(req[c]) \in 1 .. 2
        BY Fields DEF TypeOK
      <4> QED BY <4>1, <4>2
    <3>2. /\ loop' = loop /\ link' = link /\ req' = req /\ got' = got
          /\ pressed' = Nobody /\ fresh' = 0
      BY <1>2 DEF Write
    <3>3. loop = "hold"
      BY <1>2 DEF Write, Writable, RequestInv
    <3>4. \A d \in Clients : d # c => pc[d] \in {"idle", "lock"}
      BY <1>0, <1>2 DEF Write
    <3> QED BY <2>1, <3>1, <3>2, <3>3, <3>4 DEF RequestInv
  <2> QED BY <2>2, <2>3, <2>4, <2>5

<1>3. CASE WriteFails(c)
  <2>1. /\ LockInv' /\ lockQueue' \in Seq(Clients \cup {Loop})
        /\ pc' \in [Clients -> {"idle", "lock", "wait", "press"}]
        /\ req' \in [Clients -> Requests]
    <3>1. Holder = c /\ Return(c) /\ UNCHANGED loop
      BY <1>0, <1>3 DEF WriteFails
    <3> QED BY <3>1, Returns
  <2>2. pc'[c] = "idle"
        /\ \A d \in Clients : d # c => pc'[d] = pc[d] /\ req'[d] = req[d]
    BY <1>3 DEF WriteFails, Return, TypeOK
  <2>3. queue' \in [Ops -> 0 .. MaxQueue] /\ got' \in [Clients -> 0 .. 2]
    BY <1>0, <1>3 DEF WriteFails, TypeOK
  <2>4. TypeOK'
    BY <1>3, <2>1, <2>3 DEF WriteFails, TypeOK
  <2>5. StateInv' /\ PlaceInv'
    BY <1>0, <1>3, NoFrame DEF WriteFails, StateInv, PlaceInv, TypeOK
  <2>6. RequestInv'
    BY <1>0, <1>3, <2>2 DEF WriteFails, RequestInv, LockInv, TypeOK
  <2> QED BY <2>1, <2>4, <2>5, <2>6
<1>4. CASE WaitLost(c)
  <2>1. /\ LockInv' /\ lockQueue' \in Seq(Clients \cup {Loop})
        /\ pc' \in [Clients -> {"idle", "lock", "wait", "press"}]
        /\ req' \in [Clients -> Requests]
    <3>1. Holder = c /\ Return(c) /\ UNCHANGED loop
      BY <1>0, <1>4 DEF WaitLost, Leave
    <3> QED BY <3>1, Returns
  <2>2. pc'[c] = "idle"
        /\ \A d \in Clients : d # c => pc'[d] = pc[d] /\ req'[d] = req[d]
    BY <1>4 DEF WaitLost, Leave, Return, TypeOK
  <2>3. queue' \in [Ops -> 0 .. MaxQueue] /\ got' \in [Clients -> 0 .. 2]
    BY <1>0, <1>4 DEF WaitLost, Leave, TypeOK
  <2>4. TypeOK'
    BY <1>4, <2>1, <2>3 DEF WaitLost, Leave, TypeOK
  <2>5. StateInv' /\ PlaceInv'
    BY <1>0, <1>4, NoFrame DEF WaitLost, Leave, StateInv, PlaceInv, TypeOK
  <2>6. RequestInv'
    BY <1>0, <1>4, <2>2 DEF WaitLost, Leave, RequestInv, LockInv, TypeOK
  <2> QED BY <2>1, <2>4, <2>5, <2>6
<1>5. CASE TimesOut(c)
  <2>1. /\ LockInv' /\ lockQueue' \in Seq(Clients \cup {Loop})
        /\ pc' \in [Clients -> {"idle", "lock", "wait", "press"}]
        /\ req' \in [Clients -> Requests]
    <3>1. Holder = c /\ Return(c) /\ UNCHANGED loop
      BY <1>0, <1>5 DEF TimesOut, Leave
    <3> QED BY <3>1, Returns
  <2>2. pc'[c] = "idle"
        /\ \A d \in Clients : d # c => pc'[d] = pc[d] /\ req'[d] = req[d]
    BY <1>5 DEF TimesOut, Leave, Return, TypeOK
  <2>3. queue' \in [Ops -> 0 .. MaxQueue] /\ got' \in [Clients -> 0 .. 2]
    BY <1>0, <1>5 DEF TimesOut, Leave, TypeOK
  <2>4. TypeOK'
    BY <1>5, <2>1, <2>3 DEF TimesOut, Leave, TypeOK
  <2>5. StateInv' /\ PlaceInv'
    BY <1>0, <1>5, NoFrame DEF TimesOut, Leave, StateInv, PlaceInv, TypeOK
  <2>6. RequestInv'
    BY <1>0, <1>5, <2>2 DEF TimesOut, Leave, RequestInv, LockInv, TypeOK
  <2> QED BY <2>1, <2>4, <2>5, <2>6
<1>6. CASE Release(c)
  <2>1. /\ LockInv' /\ lockQueue' \in Seq(Clients \cup {Loop})
        /\ pc' \in [Clients -> {"idle", "lock", "wait", "press"}]
        /\ req' \in [Clients -> Requests]
    <3>1. Holder = c /\ Return(c) /\ UNCHANGED loop
      BY <1>0, <1>6 DEF Release
    <3> QED BY <3>1, Returns
  <2>2. pc'[c] = "idle"
        /\ \A d \in Clients : d # c => pc'[d] = pc[d] /\ req'[d] = req[d]
    BY <1>6 DEF Release, Return, TypeOK
  <2>3. queue' \in [Ops -> 0 .. MaxQueue] /\ got' \in [Clients -> 0 .. 2]
    BY <1>0, <1>6 DEF Release, TypeOK
  <2>4. TypeOK'
    BY <1>6, <2>1, <2>3 DEF Release, TypeOK
  <2>5. StateInv' /\ PlaceInv'
    BY <1>0, <1>6, NoFrame DEF Release, StateInv, PlaceInv, TypeOK
  <2>6. RequestInv'
    BY <1>0, <1>6, <2>2 DEF Release, RequestInv, LockInv, TypeOK
  <2> QED BY <2>1, <2>4, <2>5, <2>6
<1>7. CASE ReleaseFails(c)
  <2>1. /\ LockInv' /\ lockQueue' \in Seq(Clients \cup {Loop})
        /\ pc' \in [Clients -> {"idle", "lock", "wait", "press"}]
        /\ req' \in [Clients -> Requests]
    <3>1. Holder = c /\ Return(c) /\ UNCHANGED loop
      BY <1>0, <1>7 DEF ReleaseFails, Leave
    <3> QED BY <3>1, Returns
  <2>2. pc'[c] = "idle"
        /\ \A d \in Clients : d # c => pc'[d] = pc[d] /\ req'[d] = req[d]
    BY <1>7 DEF ReleaseFails, Leave, Return, TypeOK
  <2>3. queue' \in [Ops -> 0 .. MaxQueue] /\ got' \in [Clients -> 0 .. 2]
    BY <1>0, <1>7 DEF ReleaseFails, Leave, TypeOK
  <2>4. TypeOK'
    BY <1>7, <2>1, <2>3 DEF ReleaseFails, Leave, TypeOK
  <2>5. StateInv' /\ PlaceInv'
    BY <1>0, <1>7, NoFrame DEF ReleaseFails, Leave, StateInv, PlaceInv, TypeOK
  <2>6. RequestInv'
    BY <1>0, <1>7, <2>2 DEF ReleaseFails, Leave, RequestInv, LockInv, TypeOK
  <2> QED BY <2>1, <2>4, <2>5, <2>6
<1>8. CASE Press(c)
  <2>1. /\ pc' \in [Clients -> {"idle", "lock", "wait", "press"}]
        /\ pc'[c] = "press" /\ \A d \in Clients : d # c => pc'[d] = pc[d]
    BY <1>8 DEF Press, TypeOK
  <2>2. TypeOK'
    BY <1>8, <2>1 DEF Press, TypeOK
  <2>3. StateInv' /\ PlaceInv'
    BY <1>8 DEF Press, StateInv, PlaceInv
  <2>4. LockInv'
    BY <1>8, <2>1 DEF Press, LockInv, Holder
  <2>5. RequestInv'
    BY <1>0, <1>8, <2>1 DEF Press, RequestInv
  <2> QED BY <2>2, <2>3, <2>4, <2>5
<1>9. CASE Take(c)
  <2> DEFINE o == req[c].op
  <2>1. /\ pc[c] = "wait" /\ o \in Ops /\ queue[o] \in 1 .. MaxQueue
        /\ queue[o] <= fresh /\ fresh \in 1 .. MaxQueue
        /\ got[c] < Wanted(req[c]) /\ Wanted(req[c]) \in 1 .. 2
        /\ req[c].kind # "reset"
    BY <1>0, <1>9, Fields DEF Take, RequestInv, TypeOK
  <2>2. /\ queue' \in [Ops -> 0 .. MaxQueue] /\ queue'[o] = queue[o] - 1
        /\ fresh' = fresh - 1 /\ fresh' \in 0 .. MaxQueue
    BY <1>9, <2>1 DEF Take, TypeOK
  <2>3. /\ got' \in [Clients -> 0 .. 2] /\ got'[c] = got[c] + 1
        /\ \A d \in Clients : d # c => got'[d] = got[d]
    BY <1>9, <2>1 DEF Take, TypeOK
  <2>4. /\ LockInv' /\ lockQueue' \in Seq(Clients \cup {Loop})
        /\ pc' \in [Clients -> {"idle", "lock", "wait", "press"}]
        /\ req' \in [Clients -> Requests]
        /\ \A d \in Clients : d # c => pc'[d] = pc[d] /\ req'[d] = req[d]
        /\ pc'[c] # "idle" => /\ pc'[c] = "wait" /\ req'[c] = req[c]
                              /\ got'[c] < Wanted(req[c])
    <3>1. CASE got[c] + 1 = Wanted(req[c])
      <4>1. Return(c) /\ Holder = c /\ UNCHANGED loop
        BY <1>0, <1>9, <2>1, <3>1 DEF Take
      <4>2. pc'[c] = "idle"
            /\ \A d \in Clients : d # c => pc'[d] = pc[d] /\ req'[d] = req[d]
        BY <4>1 DEF Return, TypeOK
      <4> QED BY <4>1, <4>2, Returns
    <3>2. CASE got[c] + 1 # Wanted(req[c])
      <4>1. UNCHANGED <<pc, req, lockQueue, loop>>
        BY <1>9, <3>2 DEF Take
      <4>2. got'[c] < Wanted(req[c])
        BY <2>1, <2>3, <3>2 DEF TypeOK
      <4> QED BY <2>1, <4>1, <4>2 DEF LockInv, Holder, TypeOK
    <3> QED BY <3>1, <3>2
  <2>5. TypeOK'
    BY <1>9, <2>2, <2>3, <2>4 DEF Take, TypeOK
  <2>6. StateInv' /\ PlaceInv'
    <3>1. loop \notin Without
      BY <2>1, NoFrame DEF PlaceInv
    <3> QED BY <1>9, <3>1 DEF Take, StateInv, PlaceInv
  <2>7. RequestInv'
    <3>1. ASSUME NEW d \in Clients, d # c, pc'[d] # "idle" PROVE pc'[d] = "lock"
      BY <1>0, <2>1, <2>4, <3>1
    <3>2. pc'[c] # "idle" => queue'[req'[c].op] <= fresh'
      BY <2>1, <2>2, <2>4
    <3> QED BY <1>0, <1>9, <2>1, <2>3, <2>4, <3>1, <3>2 DEF Take, RequestInv
  <2> QED BY <2>4, <2>5, <2>6, <2>7
<1> QED BY <1>1, <1>2, <1>3, <1>4, <1>5, <1>6, <1>7, <1>8, <1>9 DEF ClientStep

\* Every step keeps the invariant.
LEMMA StepKeeps == IInv /\ [Next]_vars => IInv'
<1> SUFFICES ASSUME IInv, [Next]_vars PROVE IInv'
  OBVIOUS
<1>1. CASE LoopStep
  BY <1>1, LoopKeeps, ProbeKeeps DEF LoopStep
<1>2. CASE \/ \E o \in Ops : Notify(o)
           \/ NotifierFails \/ NotifierCancelled \/ LinkDrops
  BY <1>2, LinkKeeps
<1>3. CASE \E c \in Clients : ClientStep(c) \/ \E r \in Requests : Call(c, r)
  BY <1>3, ClientKeeps
<1>4. CASE UNCHANGED vars
  BY <1>4 DEF vars, session, client, IInv, TypeOK, StateInv, PlaceInv, LockInv,
     RequestInv, Holder
<1> QED BY <1>1, <1>2, <1>3, <1>4 DEF Next

\* The invariant holds in every reachable state.
THEOREM Invariance == Spec => []IInv
BY Initially, StepKeeps, PTL DEF Spec

-----------------------------------------------------------------------------
(* What follows for the session. *)

\* Every variable keeps its type; no queue outgrows its limit.
THEOREM TypeCorrect == Spec => []TypeOK
BY Invariance, PTL DEF IInv

\* The bridge calls itself connected only with a session that can answer.
THEOREM ReadyServed == Spec => []ReadyIsServed
<1>1. IInv => ReadyIsServed
  <2> SUFFICES ASSUME IInv, Connected, link
               PROVE  loop = "hold" /\ conn /\ chars /\ notifier = "listening"
    BY DEF ReadyIsServed
  <2>1. loop = "hold"
    BY DEF IInv, TypeOK, StateInv, Connected, LoopAt, Setup
  <2> QED BY <2>1 DEF IInv, PlaceInv, Within
<1> QED BY <1>1, Invariance, PTL

\* Every setup attempt starts with nothing of an earlier one, also when that one
\* could not be disconnected.
THEOREM AttemptsClean == Spec => []AttemptStartsClean
<1>1. IInv => AttemptStartsClean
  <2> SUFFICES ASSUME IInv, loop = "connect"
               PROVE  /\ ~conn /\ ~chars /\ ~ff06
                      /\ queue = NoFrames /\ lockQueue = <<>>
                      /\ notifier = "none"
    BY DEF AttemptStartsClean
  <2>1. \A t \in Clients \cup {Loop} : ~In(t, lockQueue)
    BY DEF IInv, LockInv, RequestInv
  <2>2. lockQueue = <<>>
    <3>1. lockQueue \in Seq(Clients \cup {Loop})
      BY DEF IInv, TypeOK
    <3> HIDE DEF Loop
    <3> QED BY <2>1, <3>1, HeadIn
  <2> QED BY <2>2 DEF IInv, PlaceInv, Without
<1> QED BY <1>1, Invariance, PTL

\* Only the steps of a request change what it has sent and collected.
LEMMA OthersKeep ==
    ASSUME Next, NEW c \in Clients,
           ~ClientStep(c), \A r \in Requests : ~Call(c, r), TypeOK
    PROVE  pc'[c] = pc[c] /\ got'[c] = got[c]
<1>1. CASE LoopStep
  BY <1>1 DEF LoopStep, ScanFails, Found, Connects, Settled, Negotiated,
     Subscribed, PrimeAsksLock, PrimeWrites, PrimeAnswered, SetupFails, Undone,
     Retry, HoldEnds, Dropped, ScanAgain, Disconnected, client
<1>2. CASE \/ \E o \in Ops : Notify(o)
           \/ NotifierFails \/ NotifierCancelled \/ LinkDrops
  BY <1>2 DEF Notify, NotifierFails, NotifierCancelled, LinkDrops, client
<1>3. ASSUME NEW d \in Clients, d # c, ClientStep(d)
      PROVE  pc'[c] = pc[c] /\ got'[c] = got[c]
  BY <1>3 DEF ClientStep, Write, WriteFails, Take, WaitLost, TimesOut, Press,
     Release, ReleaseFails, Leave, Return, TypeOK
<1>4. ASSUME NEW d \in Clients, d # c, NEW r \in Requests, Call(d, r)
      PROVE  pc'[c] = pc[c] /\ got'[c] = got[c]
  BY <1>4 DEF Call, TypeOK
<1> QED BY <1>1, <1>2, <1>3, <1>4 DEF Next

\* A command is answered only with what arrived after it was written.
THEOREM AnswersFresh == Spec => AnswersAreFresh
<1> DEFINE A == \A c \in Clients :
                  got'[c] > got[c] /\ req[c].kind # "reset" => fresh > 0
<1>1. IInv /\ [Next]_vars => [A]_vars
  <2> SUFFICES ASSUME IInv, Next, NEW c \in Clients,
                      got'[c] > got[c], req[c].kind # "reset"
               PROVE  fresh > 0
    OBVIOUS
  <2>1. got[c] \in 0 .. 2 /\ req[c].op \in Ops /\ queue \in [Ops -> 0 .. MaxQueue]
        /\ fresh \in 0 .. MaxQueue
    BY Fields DEF IInv, TypeOK
  <2>2. CASE ClientStep(c)
    <3>1. Take(c) \/ Release(c)
      BY <2>1, <2>2
         DEF ClientStep, Write, WriteFails, WaitLost, TimesOut, Press,
         ReleaseFails, Leave
    <3>2. ~Release(c)
      BY DEF Release, IInv, RequestInv
    <3>3. pc[c] = "wait" /\ queue[req[c].op] > 0
      BY <3>1, <3>2 DEF Take
    <3>4. queue[req[c].op] <= fresh
      BY <3>3 DEF IInv, RequestInv
    <3> QED BY <2>1, <3>3, <3>4, SessionAssumption
  <2>3. CASE \E r \in Requests : Call(c, r)
    <3>1. got'[c] = 0
      BY <2>3 DEF Call, IInv, TypeOK
    <3> QED BY <2>1, <3>1
  <2>4. CASE ~ClientStep(c) /\ \A r \in Requests : ~Call(c, r)
    <3>1. got'[c] = got[c]
      BY <2>4, OthersKeep DEF IInv
    <3> QED BY <2>1, <3>1
  <2> QED BY <2>2, <2>3, <2>4
<1> QED BY <1>1, Invariance, PTL DEF Spec, AnswersAreFresh

\* Requests are written only to a connection that has answered the probe.
THEOREM CommandsProbed == Spec => CommandsAfterProbe
<1> DEFINE A == \A c \in Clients :
                  pc[c] = "lock" /\ pc'[c] \in {"wait", "press"} => primed
<1>1. IInv /\ [Next]_vars => [A]_vars
  <2> SUFFICES ASSUME IInv, Next, NEW c \in Clients,
                      pc[c] = "lock", pc'[c] \in {"wait", "press"}
               PROVE  primed
    OBVIOUS
  <2>1. CASE ClientStep(c)
    <3>1. Write(c) \/ Press(c)
      BY <2>1 DEF ClientStep, WriteFails, Take, WaitLost, TimesOut, Release,
         ReleaseFails, Leave, Return, IInv, TypeOK
    <3>2. link
      BY <3>1 DEF Write, Press, Writable
    <3>3. loop = "hold"
      BY <3>2 DEF IInv, RequestInv, PlaceInv, Without
    <3> QED BY <3>2, <3>3 DEF IInv, PlaceInv
  <2>2. ~\E r \in Requests : Call(c, r)
    BY DEF Call
  <2>3. ClientStep(c) \/ pc'[c] = pc[c]
    BY <2>2, OthersKeep DEF IInv
  <2> QED BY <2>1, <2>3
<1> QED BY <1>1, Invariance, PTL DEF Spec, CommandsAfterProbe

\* A reset that answers True pressed and released with nothing in between.
THEOREM ResetsWhole == Spec => ResetWhole
<1> DEFINE A == \A c \in Clients :
                  pc[c] = "press" /\ got'[c] > got[c] => pressed = c
<1>1. IInv /\ [Next]_vars => [A]_vars
  <2> SUFFICES ASSUME IInv, Next, NEW c \in Clients,
                      pc[c] = "press", got'[c] > got[c]
               PROVE  pressed = c
    OBVIOUS
  <2>1. got[c] \in 0 .. 2
    BY DEF IInv, TypeOK
  <2>2. CASE ClientStep(c)
    <3>1. Release(c)
      BY <2>1, <2>2 DEF ClientStep, Write, WriteFails, Take, WaitLost, TimesOut,
         Press, ReleaseFails, Leave
    <3> QED BY <3>1 DEF Release, IInv, RequestInv
  <2>3. ~\E r \in Requests : Call(c, r)
    BY DEF Call
  <2>4. CASE ~ClientStep(c)
    <3>1. got'[c] = got[c]
      BY <2>3, <2>4, OthersKeep DEF IInv
    <3> QED BY <2>1, <3>1
  <2> QED BY <2>2, <2>4
<1> QED BY <1>1, Invariance, PTL DEF Spec, ResetWhole

-----------------------------------------------------------------------------
(* Refinement of CommandChannel. *)

\* The history variables, as far as the channel's connection needs them.
HistoryInv ==
    /\ primed => loop = "hold" /\ link
    /\ loop = "prime" => pressed = Nobody

ChannelInv == IInv /\ HistoryInv

\* A probed connection is one that is held and up.
LEMMA HistoryKeeps == ChannelInv /\ [Next]_vars => HistoryInv'
<1> SUFFICES ASSUME ChannelInv, [Next]_vars PROVE HistoryInv'
  OBVIOUS
<1> USE DEF ChannelInv, HistoryInv
<1>1. CASE LoopStep
  <2>1. CASE Connects
    BY <2>1 DEF Connects
  <2>2. CASE Undone \/ Dropped
    BY <2>2 DEF Undone, Dropped, Disconnected
  <2>3. CASE ~(Connects \/ Undone \/ Dropped)
    BY <1>1, <2>3 DEF LoopStep, ScanFails, Found, Settled, Negotiated,
       Subscribed, PrimeAsksLock, PrimeWrites, PrimeAnswered, SetupFails,
       Retry, HoldEnds, ScanAgain, session, client
  <2> QED BY <2>1, <2>2, <2>3
<1>2. CASE \/ \E o \in Ops : Notify(o)
           \/ NotifierFails \/ NotifierCancelled \/ LinkDrops
  BY <1>2 DEF Notify, NotifierFails, NotifierCancelled, LinkDrops, session
<1>3. ASSUME NEW c \in Clients, ClientStep(c) PROVE HistoryInv'
  <2>1. pc[c] # "idle" => loop # "prime"
    BY DEF IInv, RequestInv
  <2>2. pc[c] # "idle"
    BY <1>3 DEF ClientStep, Write, WriteFails, Take, WaitLost, TimesOut, Press,
       Release, ReleaseFails
  <2>3. primed' = primed /\ loop' = loop /\ link' = link
    BY <1>3 DEF ClientStep, Write, WriteFails, Take, WaitLost, TimesOut, Press,
       Release, ReleaseFails, Leave, session
  <2> QED BY <2>1, <2>2, <2>3
<1>4. CASE \E c \in Clients, r \in Requests : Call(c, r)
  BY <1>4 DEF Call, session
<1>5. CASE UNCHANGED vars
  BY <1>5 DEF vars, session
<1> QED BY <1>1, <1>2, <1>3, <1>4, <1>5 DEF Next

\* Both invariants hold throughout.
LEMMA ChannelInvariance == Spec => []ChannelInv
<1>1. Init => HistoryInv
  BY DEF Init, HistoryInv
<1>2. ChannelInv /\ [Next]_vars => ChannelInv'
  BY HistoryKeeps, StepKeeps DEF ChannelInv
<1>3. Init => ChannelInv
  BY <1>1, Initially DEF ChannelInv
<1> QED BY <1>2, <1>3, PTL DEF Spec

\* A queue without requests has at most ble_loop in it; one without ble_loop
\* is the channel's line.
LEMMA LineOf ==
    ASSUME NEW q \in Seq(Clients \cup {Loop})
    PROVE  /\ (\A c \in Clients : ~In(c, q)) => q = <<>> \/ Head(q) = Loop
           /\ ~In(Loop, q) => q = <<>> \/ Head(q) # Loop
<1>1. q # <<>> => In(Head(q), q) /\ Head(q) \in Clients \cup {Loop}
  BY HeadIn
<1> QED BY <1>1

\* Who is in line, and who has been served, by where a request is.
LEMMA LineFacts ==
    ASSUME IInv
    PROVE  /\ ~In(Loop, lockQueue) => Line = lockQueue
           /\ (\A c \in Clients : pc[c] = "idle") => Line = <<>> /\ Sent = {}
           /\ \A c \in Clients : pc[c] # "idle" => Line = lockQueue
           /\ \A c \in Clients : Holder = c => Channel!Turn(c)
           /\ \A c \in Clients : pc[c] \in {"wait", "press"} =>
                 Holder = c /\ Sent = {c}
           /\ \A c \in Clients : pc[c] = "lock" /\ Holder = c => Sent = {}
<1> USE DEF IInv
<1>1. lockQueue \in Seq(Clients \cup {Loop})
  BY DEF TypeOK
<1>2. ~In(Loop, lockQueue) => Line = lockQueue
  BY <1>1, LineOf DEF Line, Holder
<1>3. (\A c \in Clients : pc[c] = "idle") => Line = <<>> /\ Sent = {}
  <2>1. ASSUME \A c \in Clients : pc[c] = "idle" PROVE Line = <<>>
    <3>1. \A c \in Clients : ~In(c, lockQueue)
      BY <2>1 DEF LockInv
    <3> QED BY <3>1, <1>1, LineOf DEF Line, Holder
  <2> QED BY <2>1 DEF Sent
<1>4. \A c \in Clients : pc[c] # "idle" => Line = lockQueue
  <2> SUFFICES ASSUME NEW c \in Clients, pc[c] # "idle"
               PROVE  ~In(Loop, lockQueue)
    BY <1>2
  <2>1. loop \in {"hold", "drop", "backoff"}
    BY DEF RequestInv
  <2> QED BY <2>1 DEF LockInv
<1>5. \A c \in Clients : Holder = c => Channel!Turn(c)
  <2> SUFFICES ASSUME NEW c \in Clients, Holder = c PROVE Channel!Turn(c)
    OBVIOUS
  <2>1. lockQueue # <<>> /\ Head(lockQueue) = c /\ Holder # Loop
    BY SessionAssumption DEF Holder
  <2> QED BY <2>1 DEF Channel!Turn, Line
<1>6. \A c \in Clients : pc[c] \in {"wait", "press"} => Holder = c /\ Sent = {c}
  BY DEF LockInv, Sent
<1>7. \A c \in Clients : pc[c] = "lock" /\ Holder = c => Sent = {}
  BY DEF LockInv, Sent
<1> QED BY <1>2, <1>3, <1>4, <1>5, <1>6, <1>7

\* The initial state of the session is that of the channel.
LEMMA InitMaps == Init => Channel!Init
<1> SUFFICES ASSUME Init PROVE Channel!Init
  OBVIOUS
<1>1. Line = <<>>
  BY SessionAssumption DEF Init, Line, Holder
<1>2. Kinds = [c \in Clients |-> "none"]
  BY DEF Init, Kinds
<1>3. Sent = {}
  BY DEF Init, Sent
<1> QED BY <1>1, <1>2, <1>3 DEF Init, Channel!Init

\* What the requests of the channel are seen by, and what leaves them alone.
RequestsKept ==
    /\ pc' = pc /\ req' = req /\ got' = got
    /\ lockQueue' = lockQueue

\* A step that leaves the requests alone leaves what the channel sees of them.
LEMMA KeptMaps ==
    RequestsKept => Line' = Line /\ Kinds' = Kinds /\ Sent' = Sent
BY DEF RequestsKept, Line, Kinds, Sent, Holder

\* ble_loop opens and closes the connection, and keeps out of the line.
LEMMA LoopMaps ==
    ASSUME ChannelInv, IInv', LoopStep
    PROVE  Channel!Next \/ UNCHANGED Channel!vars
<1> USE DEF ChannelInv
<1>1. pc' = pc /\ req' = req /\ got' = got /\ fresh' = fresh
  BY DEF LoopStep, ScanFails, Found, Connects, Settled, Negotiated, Subscribed,
     PrimeAsksLock, PrimeWrites, PrimeAnswered, SetupFails, Undone, Retry,
     HoldEnds, Dropped, ScanAgain, Disconnected, client
<1>2. Kinds' = Kinds /\ Sent' = Sent
  BY <1>1 DEF Kinds, Sent
<1>3. Line' = Line
  <2>1. CASE lockQueue' = lockQueue
    BY <2>1 DEF Line, Holder
  <2>2. CASE lockQueue' # lockQueue
    <3>1. PrimeAsksLock \/ PrimeAnswered \/ SetupFails
      BY <2>2 DEF LoopStep, ScanFails, Found, Connects, Settled, Negotiated,
         Subscribed, PrimeWrites, Undone, Retry, HoldEnds, Dropped, ScanAgain,
         Disconnected
    <3>2. loop \notin {"hold", "drop", "backoff"}
      BY <3>1 DEF PrimeAsksLock, PrimeAnswered, SetupFails
    <3>3. \A c \in Clients : pc[c] = "idle"
      BY <3>2 DEF IInv, RequestInv
    <3>4. Line = <<>>
      BY <3>3, LineFacts
    <3>5. \A c \in Clients : ~In(c, lockQueue')
      BY <3>3, <1>1 DEF IInv, LockInv
    <3>6. lockQueue' \in Seq(Clients \cup {Loop})
      BY DEF IInv, TypeOK
    <3>7. lockQueue' = <<>> \/ Head(lockQueue') = Loop
      BY <3>5, <3>6, LineOf
    <3>8. Line' = <<>>
      BY <3>7 DEF Line, Holder
    <3> QED BY <3>4, <3>8
  <2> QED BY <2>1, <2>2
<1>4. CASE PrimeAnswered
  <2>1. loop = "prime" /\ pressed' = pressed /\ primed' = link
    BY <1>4 DEF PrimeAnswered
  <2>2. pressed = Nobody /\ primed = FALSE
    BY <2>1 DEF HistoryInv, IInv, TypeOK
  <2>3. Line = <<>>
    <3>1. \A c \in Clients : pc[c] = "idle"
      BY <2>1 DEF IInv, RequestInv
    <3> QED BY <3>1, LineFacts
  <2>4. link \in BOOLEAN
    BY DEF IInv, TypeOK
  <2>5. CASE link = TRUE
    <3>1. Channel!Open
      BY <1>1, <1>2, <1>3, <2>1, <2>2, <2>3, <2>5 DEF Channel!Open
    <3> QED BY <3>1 DEF Channel!Next
  <2>6. CASE link = FALSE
    BY <1>1, <1>2, <1>3, <2>1, <2>2, <2>6 DEF Channel!vars
  <2> QED BY <2>4, <2>5, <2>6
<1>5. CASE PrimeWrites \/ Undone \/ Dropped
  <2>1. pressed' = Nobody /\ (primed' = FALSE \/ primed' = primed)
    BY <1>5 DEF PrimeWrites, Undone, Dropped, Disconnected
  <2>2. PrimeWrites => primed = FALSE
    BY DEF PrimeWrites, HistoryInv, IInv, TypeOK
  <2>3. primed' = FALSE
    BY <1>5, <2>1, <2>2 DEF Undone, Dropped, Disconnected
  <2>4. Channel!Close
    BY <1>1, <1>2, <1>3, <2>1, <2>3 DEF Channel!Close
  <2> QED BY <2>4 DEF Channel!Next
<1>6. CASE ~(PrimeAnswered \/ PrimeWrites \/ Undone \/ Dropped)
  <2>1. primed' = primed /\ pressed' = pressed
    BY <1>6 DEF LoopStep, ScanFails, Found, Connects, Settled, Negotiated,
       Subscribed, PrimeAsksLock, SetupFails, Retry, HoldEnds, ScanAgain
  <2> QED BY <1>1, <1>2, <1>3, <2>1 DEF Channel!vars
<1> QED BY <1>4, <1>5, <1>6

\* A frame is heard, or changes nothing; a lost link closes the connection.
LEMMA LinkMaps ==
    ASSUME ChannelInv,
           \/ \E o \in Ops : Notify(o)
           \/ NotifierFails \/ NotifierCancelled \/ LinkDrops
    PROVE  Channel!Next \/ UNCHANGED Channel!vars
<1> USE DEF ChannelInv
<1>1. RequestsKept
  BY DEF Notify, NotifierFails, NotifierCancelled, LinkDrops, client,
     RequestsKept
<1>2. got' = got /\ Line' = Line /\ Kinds' = Kinds /\ Sent' = Sent
  BY <1>1, KeptMaps DEF RequestsKept
<1>3. CASE NotifierFails \/ NotifierCancelled
  BY <1>2, <1>3 DEF NotifierFails, NotifierCancelled, Channel!vars
<1>4. CASE LinkDrops
  <2>1. Channel!Close
    BY <1>2, <1>4 DEF LinkDrops, Channel!Close
  <2> QED BY <2>1 DEF Channel!Next
<1>5. ASSUME NEW o \in Ops, Notify(o)
      PROVE  Channel!Next \/ UNCHANGED Channel!vars
  <2>1. primed' = primed /\ pressed' = pressed
    BY <1>5 DEF Notify
  <2>2. CASE fresh' = fresh
    BY <1>2, <2>1, <2>2 DEF Channel!vars
  <2>3. CASE fresh' # fresh
    <3>1. PICK c \in Clients : pc[c] = "wait" /\ fresh' = AtMost(fresh + 1)
      BY <1>5, <2>3 DEF Notify
    <3>2. Sent # {}
      BY <3>1, LineFacts
    <3>3. primed = TRUE
      <4>1. link
        BY <1>5 DEF Notify
      <4>2. loop = "hold"
        BY <3>1, <4>1 DEF IInv, RequestInv, PlaceInv, Without
      <4> QED BY <4>1, <4>2 DEF IInv, PlaceInv, TypeOK
    <3>4. fresh' = fresh + 1
      <4>1. fresh \in 0 .. MaxQueue /\ MaxQueue \in Nat
        BY SessionAssumption DEF IInv, TypeOK
      <4> QED BY <4>1, <3>1, <2>3 DEF AtMost
    <3>5. Channel!Hear
      BY <1>2, <2>1, <3>2, <3>3, <3>4 DEF Channel!Hear
    <3> QED BY <3>5 DEF Channel!Next
  <2> QED BY <2>2, <2>3
<1> QED BY <1>3, <1>4, <1>5

\* A request joins the line, at its end.
LEMMA CallMaps ==
    ASSUME ChannelInv, IInv', NEW c \in Clients, NEW r \in Requests, Call(c, r)
    PROVE  Channel!Next
<1> USE DEF ChannelInv
<1>1. Kinds[c] = "none"
  BY DEF Call, Kinds
<1>2. Line' = Append(Line, c)
  <2>1. loop = "hold" /\ loop' = loop
    BY DEF Call, Connected, IInv, StateInv, TypeOK, LoopAt, Setup, session
  <2>2. ~In(Loop, lockQueue) /\ ~In(Loop, lockQueue')
    BY <2>1 DEF IInv, LockInv
  <2>3. Line = lockQueue
    BY <2>2, LineFacts
  <2>4. lockQueue' \in Seq(Clients \cup {Loop})
    BY DEF IInv, TypeOK
  <2>5. Line' = lockQueue'
    BY <2>2, <2>4, LineOf DEF Line, Holder
  <2> QED BY <2>3, <2>5 DEF Call
<1>3. Kinds' = [Kinds EXCEPT ![c] = r.kind]
  <2>1. /\ pc \in [Clients -> {"idle", "lock", "wait", "press"}]
        /\ req \in [Clients -> Requests]
        /\ pc' = [pc EXCEPT ![c] = "lock"] /\ req' = [req EXCEPT ![c] = r]
    BY DEF Call, IInv, TypeOK
  <2>2. pc'[c] = "lock" /\ req'[c] = r
    BY <2>1
  <2>3. \A d \in Clients : d # c => pc'[d] = pc[d] /\ req'[d] = req[d]
    BY <2>1
  <2> QED BY <2>2, <2>3 DEF Kinds
<1>4. Sent' = Sent
  BY DEF Call, IInv, TypeOK, Sent
<1>5. r.kind \in {"single", "multi", "reset"}
  BY Fields
<1>6. /\ got' = [got EXCEPT ![c] = 0] /\ primed' = primed /\ fresh' = fresh
      /\ pressed' = pressed
  BY DEF Call
<1>7. Channel!Ask(c, r.kind)
  BY <1>1, <1>2, <1>3, <1>4, <1>6 DEF Channel!Ask
<1> QED BY <1>5, <1>7 DEF Channel!Next

\* The end of a request: the channel's line without its head.
LEMMA ReturnMaps ==
    ASSUME IInv, IInv', NEW c \in Clients, Return(c), pc[c] # "idle", Holder = c
    PROVE  Channel!Turn(c) /\ Channel!Leave(c)
<1>1. Channel!Turn(c)
  BY LineFacts
<1>2. Line = lockQueue
  BY LineFacts
<1>3. Line' = Tail(Line)
  <2>1. lockQueue' = Tail(lockQueue)
    BY DEF Return
  <2>2. lockQueue # <<>> /\ lockQueue \in Seq(Clients \cup {Loop})
    BY SessionAssumption DEF Holder, IInv, TypeOK
  <2>3. ~In(Loop, lockQueue)
    BY DEF IInv, RequestInv, LockInv
  <2>4. /\ Tail(lockQueue) \in Seq(Clients \cup {Loop})
        /\ ~In(Loop, Tail(lockQueue))
    BY <2>2, <2>3, Released DEF IInv, LockInv
  <2>5. Line' = lockQueue'
    BY <2>1, <2>4, LineOf DEF Line, Holder
  <2> QED BY <1>2, <2>1, <2>5
<1>4. /\ pc \in [Clients -> {"idle", "lock", "wait", "press"}]
      /\ req \in [Clients -> Requests]
      /\ pc' = [pc EXCEPT ![c] = "idle"] /\ req' = [req EXCEPT ![c] = Reset]
  BY DEF Return, IInv, TypeOK
<1>5. /\ pc'[c] = "idle"
      /\ \A d \in Clients : d # c => pc'[d] = pc[d] /\ req'[d] = req[d]
  BY <1>4
<1>6. Kinds' = [Kinds EXCEPT ![c] = "none"]
  BY <1>5 DEF Kinds
<1>7. Sent' = {}
  <2>1. \A d \in Clients : pc[d] \in {"wait", "press"} => d = c
    BY DEF IInv, LockInv
  <2> QED BY <1>5, <2>1 DEF Sent
<1> QED BY <1>1, <1>3, <1>6, <1>7 DEF Channel!Leave

\* A request that is not idle has its kind in the channel.
LEMMA KindOf ==
    \A c \in Clients : pc[c] # "idle" =>
        Kinds[c] = req[c].kind /\ Channel!Wanted(Kinds[c]) = Wanted(req[c])
BY DEF Kinds, Wanted, Channel!Wanted

\* What is written is sent, in its turn and over an open connection.
LEMMA WriteMaps ==
    ASSUME ChannelInv, NEW c \in Clients, Write(c) \/ Press(c)
    PROVE  Channel!SendCommand(c) \/ Channel!SendReset(c)
<1> USE DEF ChannelInv
<1>1. pc[c] = "lock" /\ Holder = c /\ link
  BY DEF Write, Press, Writable
<1>2. primed = TRUE
  <2>1. loop = "hold"
    BY <1>1 DEF IInv, RequestInv, PlaceInv, Without
  <2> QED BY <1>1, <2>1 DEF IInv, PlaceInv, TypeOK
<1>3. Channel!Turn(c) /\ Sent = {} /\ Kinds[c] = req[c].kind
  BY <1>1, LineFacts, KindOf
<1>4. /\ lockQueue' = lockQueue /\ req' = req /\ got' = got /\ primed' = primed
      /\ pc \in [Clients -> {"idle", "lock", "wait", "press"}]
      /\ \/ pc' = [pc EXCEPT ![c] = "wait"]
         \/ pc' = [pc EXCEPT ![c] = "press"]
  BY DEF Write, Press, IInv, TypeOK
<1>5. /\ pc'[c] \in {"wait", "press"}
      /\ \A d \in Clients : d # c => pc'[d] = pc[d]
  BY <1>4
<1>6. Line' = Line
  BY <1>4 DEF Line, Holder
<1>7. Kinds' = Kinds
  BY <1>1, <1>4, <1>5 DEF Kinds
<1>8. Sent' = {c}
  BY <1>3, <1>5 DEF Sent
<1>9. CASE Write(c)
  BY <1>2, <1>3, <1>4, <1>6, <1>7, <1>8, <1>9 DEF Write, Channel!SendCommand
<1>10. CASE Press(c)
  BY <1>2, <1>3, <1>4, <1>6, <1>7, <1>8, <1>10 DEF Press, Channel!SendReset
<1> QED BY <1>9, <1>10

\* A frame taken from the queue is one that was heard since the command was
\* sent, and the last one wanted ends the request.
LEMMA TakeMaps ==
    ASSUME ChannelInv, IInv', NEW c \in Clients, Take(c)
    PROVE  Channel!Answer(c)
<1> USE DEF ChannelInv
<1>1. pc[c] = "wait" /\ queue[req[c].op] > 0
  BY DEF Take
<1>2. Holder = c /\ Sent = {c} /\ Channel!Turn(c)
  BY <1>1, LineFacts
<1>3. /\ Kinds[c] = req[c].kind /\ Kinds[c] # "reset"
      /\ Channel!Wanted(Kinds[c]) = Wanted(req[c])
  BY <1>1, KindOf DEF IInv, RequestInv
<1>4. fresh > 0 /\ fresh' = fresh - 1
  <2>1. /\ req[c].op \in Ops /\ queue \in [Ops -> 0 .. MaxQueue]
        /\ fresh \in 0 .. MaxQueue
    BY Fields DEF IInv, TypeOK
  <2>2. queue[req[c].op] <= fresh
    BY <1>1 DEF IInv, RequestInv
  <2>3. fresh > 0
    BY <1>1, <2>1, <2>2, SessionAssumption
  <2> QED BY <2>1, <2>3 DEF Take
<1>5. got' = [got EXCEPT ![c] = @ + 1] /\ got'[c] = got[c] + 1
  BY DEF Take, IInv, TypeOK
<1>6. primed' = primed /\ pressed' = pressed
  BY DEF Take
<1>7. CASE got[c] + 1 = Wanted(req[c])
  <2>1. Channel!Leave(c)
    BY <1>1, <1>2, <1>7, ReturnMaps DEF Take
  <2> QED BY <1>2, <1>3, <1>4, <1>5, <1>6, <1>7, <2>1 DEF Channel!Answer
<1>8. CASE got[c] + 1 # Wanted(req[c])
  <2>1. pc' = pc /\ req' = req /\ lockQueue' = lockQueue
    BY <1>8 DEF Take
  <2>2. Line' = Line /\ Kinds' = Kinds /\ Sent' = Sent
    BY <2>1 DEF Line, Kinds, Sent, Holder
  <2> QED BY <1>2, <1>3, <1>4, <1>5, <1>6, <1>8, <2>2 DEF Channel!Answer
<1> QED BY <1>7, <1>8

\* A release that is written ends a reset that nothing came between.
LEMMA ReleaseMaps ==
    ASSUME ChannelInv, IInv', NEW c \in Clients, Release(c)
    PROVE  Channel!ResetDone(c)
<1> USE DEF ChannelInv
<1>1. pc[c] = "press" /\ link /\ Return(c)
  BY DEF Release
<1>2. Holder = c /\ Sent = {c} /\ Channel!Turn(c)
  BY <1>1, LineFacts
<1>3. Kinds[c] = "reset" /\ pressed = c
  BY <1>1, KindOf DEF IInv, RequestInv
<1>4. primed = TRUE
  <2>1. loop = "hold"
    BY <1>1 DEF IInv, RequestInv, PlaceInv, Without
  <2> QED BY <1>1, <2>1 DEF IInv, PlaceInv, TypeOK
<1>5. Channel!Leave(c)
  BY <1>1, <1>2, ReturnMaps
<1> QED BY <1>2, <1>3, <1>4, <1>5 DEF Release, Channel!ResetDone

\* Every other end of a request leaves it without (further) answers.
LEMMA GiveUpMaps ==
    ASSUME ChannelInv, IInv', NEW c \in Clients,
           WriteFails(c) \/ WaitLost(c) \/ TimesOut(c) \/ ReleaseFails(c)
    PROVE  Channel!GiveUp(c)
<1> USE DEF ChannelInv
<1>1. /\ Return(c) /\ pc[c] # "idle"
      /\ got' = got /\ fresh' = fresh /\ primed' = primed /\ pressed' = pressed
  BY DEF WriteFails, WaitLost, TimesOut, ReleaseFails, Leave
<1>2. Holder = c
  BY LineFacts DEF WriteFails, WaitLost, TimesOut, ReleaseFails
<1>3. Channel!Turn(c) /\ Channel!Leave(c)
  BY <1>1, <1>2, ReturnMaps
<1> QED BY <1>1, <1>3 DEF Channel!GiveUp

\* Every step of the session is one of the channel, or none.
LEMMA StepMaps ==
    ChannelInv /\ IInv' /\ [Next]_vars => [Channel!Next]_(Channel!vars)
<1> SUFFICES ASSUME ChannelInv, IInv', [Next]_vars
             PROVE  Channel!Next \/ UNCHANGED Channel!vars
  OBVIOUS
<1>1. CASE LoopStep
  BY <1>1, LoopMaps
<1>2. CASE \/ \E o \in Ops : Notify(o)
           \/ NotifierFails \/ NotifierCancelled \/ LinkDrops
  BY <1>2, LinkMaps
<1>3. ASSUME NEW c \in Clients, ClientStep(c) PROVE Channel!Next
  <2>1. \/ Channel!SendCommand(c) \/ Channel!SendReset(c) \/ Channel!Answer(c)
        \/ Channel!ResetDone(c) \/ Channel!GiveUp(c)
    BY <1>3, WriteMaps, TakeMaps, ReleaseMaps, GiveUpMaps DEF ClientStep
  <2> QED BY <2>1 DEF Channel!Next
<1>4. ASSUME NEW c \in Clients, NEW r \in Requests, Call(c, r)
      PROVE  Channel!Next
  BY <1>4, CallMaps
<1>5. CASE UNCHANGED vars
  <2>1. RequestsKept /\ fresh' = fresh /\ primed' = primed /\ pressed' = pressed
    BY <1>5 DEF vars, client, RequestsKept
  <2> QED BY <2>1, KeptMaps DEF RequestsKept, Channel!vars
<1> QED BY <1>1, <1>2, <1>3, <1>4, <1>5 DEF Next

\* The BLE session keeps the promise of the command channel: requests one at a
\* time and in order, over a probed connection, with answers of their own.
THEOREM ImplementsChannel == Spec => ChannelSpec
<1>1. ChannelInv /\ [Next]_vars => IInv'
  BY StepKeeps DEF ChannelInv
<1> QED BY <1>1, ChannelInvariance, InitMaps, StepMaps, PTL
        DEF Spec, ChannelSpec, Channel!Spec

=============================================================================
