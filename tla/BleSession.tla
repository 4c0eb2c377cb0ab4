----------------------------- MODULE BleSession -----------------------------
(***************************************************************************)
(* esp32/marstek_ble.py: the bridge's BLE session with the battery, and    *)
(* the commands that the handlers of webserver.py send over it.            *)
(*                                                                         *)
(* The tasks of one event loop: ble_loop, the notification task it starts  *)
(* for each session, and one task per HTTP request (Clients).  They are    *)
(* cooperative, so a step of this module is the code between two awaits    *)
(* that can suspend.  A write without response does not suspend.  A task   *)
(* that finds _lock free goes on at once in the code; here taking the lock *)
(* is a step of its own, as it is whenever the lock is contended.          *)
(*                                                                         *)
(* Timeouts fire at any time, with one exception.  The sleeps of ble_loop  *)
(* between two sessions last 2 s and more; every other task looks at the   *)
(* state again within 20 ms (_wait_for_opcode) or 500 ms (the reset), so   *)
(* it has ended when such a sleep does (Drained).  That is also why the    *)
(* session nonce always matches and is left out.                           *)
(*                                                                         *)
(* Of the BLE library: any call of a setup may raise, and so may           *)
(* disconnect(), which has a timeout.  notified() and disconnected() end   *)
(* otherwise than by a timeout only when the link is gone.                 *)
(***************************************************************************)
EXTENDS Naturals, Sequences

CONSTANTS
    Clients,    \* HTTP requests being handled
    Ops,        \* opcodes
    Runtime,    \* 0x03, the opcode the probe of a new session waits for
    Retries,    \* _HANDSHAKE_RETRIES
    MaxQueue    \* _MAX_QUEUE_PER_OPCODE

Loop == "ble_loop"      \* ble_loop as a user of _lock
Nobody == "nobody"

ASSUME SessionAssumption ==
    /\ Loop \notin Clients /\ Nobody \notin Clients
    /\ Runtime \in Ops
    /\ Retries \in Nat \ {0} /\ MaxQueue \in Nat \ {0}

VARIABLES
    loop,           \* control state of ble_loop
    attempt,        \* its attempt at a setup
    state,          \* module variable state; connected is state = "ready"
    link,           \* a BLE connection with the battery is up
    conn,           \* _conn is not None
    chars,          \* _write_char and _notify_char are not None
    ff06,           \* _ff06_char is not None
    notifier,       \* the notification task
    queue,          \* _notify_queues, as the length of each opcode's queue
    lockQueue,      \* _lock: its holder, followed by those who wait for it
    pc,             \* control state of each client
    req,            \* what each client sends
    got,            \* how many answers each client has collected
    \* history variables: read by no action
    fresh,          \* answers that arrived since the command was written
    primed,         \* the probe was answered on this connection
    pressed         \* whose FF06 press was the last thing written

session == <<loop, attempt, link, conn, chars, ff06>>
client  == <<pc, req, got>>
vars == <<session, state, notifier, queue, lockQueue, client,
          fresh, primed, pressed>>

Setup     == {"connect", "settle", "negotiate", "subscribe", "warm",
              "primeLock", "prime"}
LoopAt    == {"scan", "hold", "undo", "retry", "drop", "backoff"} \cup Setup
States    == {"scanning", "connecting", "negotiating", "subscribing",
              "priming", "ready", "degraded", "disconnected"}
Live      == {"priming", "ready"}       \* states in which frames are exchanged
Reset     == [kind |-> "reset", op |-> Runtime]      \* its op is not used
Requests  == [kind : {"single", "multi"}, op : Ops] \cup {Reset}
Holder    == IF lockQueue = <<>> THEN Nobody ELSE Head(lockQueue)
Connected == state = "ready"
Wanted(r) == IF r.kind = "multi" THEN 2 ELSE 1
\* Faulty on purpose: queues without a limit.
Unbounded(n) == n
AtMost(n) == IF n > MaxQueue THEN MaxQueue ELSE n
NoFrames  == [o \in Ops |-> 0]

TypeOK ==
    /\ loop \in LoopAt /\ attempt \in 1 .. Retries
    /\ state \in States
    /\ link \in BOOLEAN /\ conn \in BOOLEAN
    /\ chars \in BOOLEAN /\ ff06 \in BOOLEAN
    /\ notifier \in {"none", "listening", "cancelled"}
    /\ queue \in [Ops -> 0 .. MaxQueue]
    /\ lockQueue \in Seq(Clients \cup {Loop})
    /\ pc \in [Clients -> {"idle", "lock", "wait", "press"}]
    /\ req \in [Clients -> Requests]
    /\ got \in [Clients -> 0 .. 2]
    /\ fresh \in 0 .. MaxQueue
    /\ primed \in BOOLEAN
    /\ pressed \in Clients \cup {Nobody}

Init ==
    /\ loop = "scan" /\ attempt = 1 /\ state = "scanning"
    /\ link = FALSE /\ conn = FALSE /\ chars = FALSE /\ ff06 = FALSE
    /\ notifier = "none" /\ queue = NoFrames /\ lockQueue = <<>>
    /\ pc = [c \in Clients |-> "idle"]
    /\ req = [c \in Clients |-> Reset]
    /\ got = [c \in Clients |-> 0]
    /\ fresh = 0 /\ primed = FALSE /\ pressed = Nobody

\* See the head of the module: what has ended when a long sleep does.
Drained == (\A c \in Clients : pc[c] = "idle") /\ notifier # "cancelled"

-----------------------------------------------------------------------------
(* ble_loop and _setup_connection. *)

\* Nothing found, or the scan raises: sleep 5 or 10 s.
ScanFails ==
    /\ loop = "scan"
    /\ loop' = "backoff" /\ state' = "disconnected"
    /\ UNCHANGED <<attempt, link, conn, chars, ff06, notifier, queue,
                   lockQueue, client, fresh, primed, pressed>>

Found ==
    /\ loop = "scan"
    /\ loop' = "connect" /\ attempt' = 1 /\ state' = "connecting"
    /\ UNCHANGED <<link, conn, chars, ff06, notifier, queue, lockQueue,
                   client, fresh, primed, pressed>>

\* The library may hand out the connection that an earlier attempt left up.
Connects ==
    /\ loop = "connect"
    /\ loop' = "settle" /\ link' = TRUE /\ conn' = TRUE
    /\ UNCHANGED <<attempt, state, chars, ff06, notifier, queue, lockQueue,
                   client, fresh, primed, pressed>>

Settled ==
    /\ loop = "settle"
    /\ loop' = "negotiate" /\ state' = "negotiating"
    /\ UNCHANGED <<attempt, link, conn, chars, ff06, notifier, queue,
                   lockQueue, client, fresh, primed, pressed>>

\* The MTU, with or without success; then the service and FF01/FF02.
Negotiated ==
    /\ loop = "negotiate" /\ link
    /\ loop' = "subscribe" /\ state' = "subscribing"
    /\ UNCHANGED <<attempt, link, conn, chars, ff06, notifier, queue,
                   lockQueue, client, fresh, primed, pressed>>

\* FF06 may be missing.  The notification task starts before the probe.
Subscribed ==
    /\ loop = "subscribe" /\ link
    /\ loop' = "warm" /\ chars' = TRUE /\ ff06' \in BOOLEAN
    /\ queue' = NoFrames
    /\ state' = "priming" /\ notifier' = "listening"
    /\ UNCHANGED <<attempt, link, conn, lockQueue, client,
                   fresh, primed, pressed>>

PrimeAsksLock ==
    /\ loop = "warm"
    /\ loop' = "primeLock" /\ lockQueue' = Append(lockQueue, Loop)
    /\ UNCHANGED <<attempt, state, link, conn, chars, ff06, notifier, queue,
                   client, fresh, primed, pressed>>

PrimeWrites ==
    /\ loop = "primeLock" /\ Holder = Loop /\ link
    /\ loop' = "prime" /\ pressed' = Nobody
    /\ UNCHANGED <<attempt, state, link, conn, chars, ff06, notifier, queue,
                   lockQueue, client, fresh, primed>>

\* _wait_for_opcode looks at the queue before it looks at the state, so the
\* probe can succeed although the notification task has just given up.
PrimeAnswered ==
    /\ loop = "prime" /\ queue[Runtime] > 0
    /\ queue' = [queue EXCEPT ![Runtime] = @ - 1]
    /\ lockQueue' = Tail(lockQueue)
    /\ loop' = "hold" /\ state' = "ready" /\ primed' = link
    /\ UNCHANGED <<attempt, link, conn, chars, ff06, notifier, client,
                   fresh, pressed>>

\* An exception: "degraded", and _disconnect_current up to its await.  The
\* lock is released on the way out of _prime_session, after a frame too short
\* for a runtime frame has been taken from the queue.
SetupFails ==
    /\ loop \in {"connect", "negotiate", "subscribe", "primeLock", "prime"}
    /\ loop = "primeLock" => Holder = Loop
    /\ loop' = "undo" /\ state' = "degraded"
    /\ notifier' = IF notifier = "listening" THEN "cancelled" ELSE notifier
    /\ lockQueue' = IF Holder = Loop THEN Tail(lockQueue) ELSE lockQueue
    /\ \/ queue' = queue
       \/ /\ loop = "prime" /\ queue[Runtime] > 0
          /\ queue' = [queue EXCEPT ![Runtime] = @ - 1]
    /\ UNCHANGED <<attempt, link, conn, chars, ff06, client,
                   fresh, primed, pressed>>

\* Faulty on purpose: a disconnect() that raises skips the rest.
SkippedDisconnected(next) ==
    /\ loop' = next
    /\ \/ /\ link' = FALSE /\ conn' = FALSE /\ chars' = FALSE /\ ff06' = FALSE
          /\ queue' = NoFrames
       \/ conn /\ UNCHANGED <<link, conn, chars, ff06, queue>>
    /\ primed' = FALSE /\ pressed' = Nobody
    /\ UNCHANGED <<attempt, state, notifier, lockQueue, client, fresh>>

\* The rest of _disconnect_current.  A disconnect() that raises is passed over:
\* the connection may still be up when it is forgotten, and then nobody closes
\* it.
Disconnected(next) ==
    /\ loop' = next
    /\ link' \in IF conn THEN {FALSE, link} ELSE {link}
    /\ conn' = FALSE /\ chars' = FALSE /\ ff06' = FALSE
    /\ queue' = NoFrames
    /\ primed' = FALSE /\ pressed' = Nobody
    /\ UNCHANGED <<attempt, state, notifier, lockQueue, client, fresh>>

Undone == loop = "undo" /\ Disconnected("retry")

Retry ==
    /\ loop = "retry" /\ Drained
    /\ \/ /\ attempt < Retries
          /\ loop' = "connect" /\ state' = "connecting"
          /\ attempt' = attempt + 1
       \/ /\ attempt = Retries
          /\ loop' = "backoff" /\ state' = "disconnected"
          /\ UNCHANGED attempt
    /\ UNCHANGED <<link, conn, chars, ff06, notifier, queue, lockQueue,
                   client, fresh, primed, pressed>>

\* Faulty on purpose: ble_loop watches the state, not the link.
HoldEndsWhileReady ==
    /\ loop = "hold" /\ ~link /\ state = "ready"
    /\ loop' = "drop" /\ state' = "disconnected"
    /\ notifier' = IF notifier = "listening" THEN "cancelled" ELSE notifier
    /\ UNCHANGED <<attempt, link, conn, chars, ff06, queue, lockQueue,
                   client, fresh, primed, pressed>>

\* _conn.disconnected() returns, whatever the state says by then.
HoldEnds ==
    /\ loop = "hold" /\ ~link
    /\ loop' = "drop" /\ state' = "disconnected"
    /\ notifier' = IF notifier = "listening" THEN "cancelled" ELSE notifier
    /\ UNCHANGED <<attempt, link, conn, chars, ff06, queue, lockQueue,
                   client, fresh, primed, pressed>>

Dropped == loop = "drop" /\ Disconnected("backoff")

ScanAgain ==
    /\ loop = "backoff" /\ Drained
    /\ loop' = "scan" /\ state' = "scanning"
    /\ UNCHANGED <<attempt, link, conn, chars, ff06, notifier, queue,
                   lockQueue, client, fresh, primed, pressed>>

LoopStep ==
    \/ ScanFails \/ Found \/ Connects \/ Settled \/ Negotiated \/ Subscribed
    \/ PrimeAsksLock \/ PrimeWrites \/ PrimeAnswered \/ SetupFails
    \/ Undone \/ Retry \/ HoldEnds \/ Dropped \/ ScanAgain

-----------------------------------------------------------------------------
(* _notification_loop, and the link. *)

\* A frame that is accepted.  A queue at its limit loses its oldest frame.
\* Malformed frames, and frames whose tail is wrong and whose shape is too,
\* are dropped and change nothing.
Notify(o) ==
    /\ notifier = "listening" /\ link /\ state \in Live
    /\ queue' = [queue EXCEPT ![o] = AtMost(@ + 1)]
    /\ fresh' = IF \E c \in Clients : pc[c] = "wait" /\ req[c].op = o
                THEN AtMost(fresh + 1) ELSE fresh
    /\ UNCHANGED <<session, state, notifier, lockQueue, client,
                   primed, pressed>>

\* Faulty on purpose: a timeout of notified() ends the task.
NotifierQuits ==
    /\ notifier = "listening"
    /\ notifier' = "none"
    /\ UNCHANGED <<session, state, queue, lockQueue, client,
                   fresh, primed, pressed>>

\* notified() raises, because the link is gone; its timeout changes nothing.
NotifierFails ==
    /\ notifier = "listening" /\ ~link
    /\ notifier' = "none" /\ state' = "degraded"
    /\ UNCHANGED <<session, queue, lockQueue, client, fresh, primed, pressed>>

\* A cancelled notified() raises CancelledError, or, when the link is gone,
\* possibly the library's own exception, which the task handles as above.
NotifierCancelled ==
    /\ notifier = "cancelled"
    /\ notifier' = "none"
    /\ \/ state' = state
       \/ ~link /\ state' = "degraded"
    /\ UNCHANGED <<session, queue, lockQueue, client, fresh, primed, pressed>>

LinkDrops ==
    /\ link
    /\ link' = FALSE /\ primed' = FALSE /\ pressed' = Nobody
    /\ UNCHANGED <<loop, attempt, state, conn, chars, ff06, notifier, queue,
                   lockQueue, client, fresh>>

-----------------------------------------------------------------------------
(* send_command, send_command_multi and send_ff06_reset. *)

\* Faulty on purpose: a session that is being probed takes commands.
CallWhilePriming(c, r) ==
    /\ pc[c] = "idle" /\ state \in Live
    /\ IF r.kind = "reset" THEN ff06 ELSE chars
    /\ pc' = [pc EXCEPT ![c] = "lock"]
    /\ req' = [req EXCEPT ![c] = r]
    /\ got' = [got EXCEPT ![c] = 0]
    /\ lockQueue' = Append(lockQueue, c)
    /\ UNCHANGED <<session, state, notifier, queue, fresh, primed, pressed>>

\* A call that finds the session not ready returns None and changes nothing.
Call(c, r) ==
    /\ pc[c] = "idle" /\ Connected
    /\ IF r.kind = "reset" THEN ff06 ELSE chars
    /\ pc' = [pc EXCEPT ![c] = "lock"]
    /\ req' = [req EXCEPT ![c] = r]
    /\ got' = [got EXCEPT ![c] = 0]
    /\ lockQueue' = Append(lockQueue, c)
    /\ UNCHANGED <<session, state, notifier, queue, fresh, primed, pressed>>

\* The function returns: its locals are gone and the lock is released.
Return(c) ==
    /\ pc' = [pc EXCEPT ![c] = "idle"]
    /\ req' = [req EXCEPT ![c] = Reset]
    /\ lockQueue' = Tail(lockQueue)

\* With the lock.  Only send_command looks at the state again.
Writable(r) ==
    /\ link
    /\ r.kind = "single" => chars /\ state \in Live
    /\ r.kind = "multi" => chars
    /\ r.kind = "reset" => ff06

\* Faulty on purpose: old answers are kept.
KeepWrite(c) ==
    /\ pc[c] = "lock" /\ Holder = c /\ Writable(req[c])
    /\ req[c].kind # "reset"
    /\ pc' = [pc EXCEPT ![c] = "wait"]
    /\ fresh' = 0 /\ pressed' = Nobody
    /\ UNCHANGED <<session, state, notifier, queue, lockQueue, req, got,
                   primed>>

\* Old answers to the opcode are thrown away, then the frame is written.
Write(c) ==
    /\ pc[c] = "lock" /\ Holder = c /\ Writable(req[c])
    /\ req[c].kind # "reset"
    /\ pc' = [pc EXCEPT ![c] = "wait"]
    /\ queue' = [queue EXCEPT ![req[c].op] = 0]
    /\ fresh' = 0 /\ pressed' = Nobody
    /\ UNCHANGED <<session, state, notifier, lockQueue, req, got, primed>>

\* _wait_for_opcode finds a frame.
Take(c) ==
    /\ pc[c] = "wait" /\ queue[req[c].op] > 0
    /\ queue' = [queue EXCEPT ![req[c].op] = @ - 1]
    /\ fresh' = IF fresh = 0 THEN 0 ELSE fresh - 1
    /\ got' = [got EXCEPT ![c] = @ + 1]
    /\ IF got[c] + 1 = Wanted(req[c])
         THEN Return(c) ELSE UNCHANGED <<pc, req, lockQueue>>
    /\ UNCHANGED <<session, state, notifier, primed, pressed>>

\* The end of a command that gets no (further) answer.
Leave(c) ==
    /\ Return(c)
    /\ UNCHANGED <<session, state, notifier, queue, got, fresh,
                   primed, pressed>>

\* The code before the write finds the session gone, or the write raises; by
\* then the answers have been thrown away, unless the state was checked first.
WriteFails(c) ==
    /\ pc[c] = "lock" /\ Holder = c
    /\ Return(c)
    /\ queue' = IF \/ req[c].kind = "reset"
                   \/ req[c].kind = "single" /\ ~(chars /\ state \in Live)
                THEN queue ELSE [queue EXCEPT ![req[c].op] = 0]
    /\ UNCHANGED <<session, state, notifier, got, fresh, primed, pressed>>

\* Every 20 ms: no frame, and the session is gone.
WaitLost(c) ==
    /\ pc[c] = "wait" /\ queue[req[c].op] = 0 /\ state \notin Live
    /\ Leave(c)

\* Faulty on purpose: no deadline.
WaitsForever(c) ==
    /\ pc[c] = "wait" /\ state \notin Live
    /\ Leave(c)

\* The deadline passes; a frame that came since the last look stays queued.
TimesOut(c) ==
    /\ pc[c] = "wait"
    /\ Leave(c)

\* Faulty on purpose: the lock is not held while the reset sleeps.
UnlockedPress(c) ==
    /\ pc[c] = "lock" /\ Holder = c /\ Writable(req[c])
    /\ req[c].kind = "reset"
    /\ pc' = [pc EXCEPT ![c] = "press"]
    /\ pressed' = c
    /\ lockQueue' = Append(Tail(lockQueue), c)
    /\ UNCHANGED <<session, state, notifier, queue, req, got, fresh, primed>>

\* send_ff06_reset writes the press and sleeps 500 ms with the lock.
Press(c) ==
    /\ pc[c] = "lock" /\ Holder = c /\ Writable(req[c])
    /\ req[c].kind = "reset"
    /\ pc' = [pc EXCEPT ![c] = "press"]
    /\ pressed' = c
    /\ UNCHANGED <<session, state, notifier, queue, lockQueue, req, got,
                   fresh, primed>>

\* The release; the reset answers True.
Release(c) ==
    /\ pc[c] = "press" /\ ff06 /\ link
    /\ Return(c)
    /\ got' = [got EXCEPT ![c] = 1]
    /\ pressed' = Nobody
    /\ UNCHANGED <<session, state, notifier, queue, fresh, primed>>

\* The release raises: _ff06_char is None by now, or the link is gone.
ReleaseFails(c) ==
    /\ pc[c] = "press"
    /\ Leave(c)

ClientStep(c) ==
    \/ Write(c) \/ WriteFails(c) \/ Take(c) \/ WaitLost(c) \/ TimesOut(c)
    \/ Press(c) \/ Release(c) \/ ReleaseFails(c)

Next ==
    \/ LoopStep
    \/ \E o \in Ops : Notify(o)
    \/ NotifierFails \/ NotifierCancelled \/ LinkDrops
    \/ \E c \in Clients : ClientStep(c) \/ \E r \in Requests : Call(c, r)

Fairness ==
    /\ WF_vars(LoopStep)
    /\ WF_vars(NotifierCancelled)
    /\ \A c \in Clients : WF_vars(ClientStep(c))

Spec == Init /\ [][Next]_vars /\ Fairness

-----------------------------------------------------------------------------
(* Safety. *)

\* While the bridge reports itself connected and the link is up, the session is
\* complete: ble_loop watches the link, the characteristics are there, and the
\* notification task is listening, so an answer can arrive.
ReadyIsServed ==
    Connected /\ link =>
        loop = "hold" /\ conn /\ chars /\ notifier = "listening"

\* A command is never answered with a notification that arrived before it was
\* written, such as the late answer to an earlier command that timed out.
AnswersAreFresh ==
    [][\A c \in Clients :
          got'[c] > got[c] /\ req[c].kind # "reset" => fresh > 0]_vars

\* No request is written to a connection whose probe has not been answered,
\* although send_command_multi and the reset look at the state only before
\* they wait for the lock.
CommandsAfterProbe ==
    [][\A c \in Clients :
          pc[c] = "lock" /\ pc'[c] \in {"wait", "press"} => primed]_vars

\* A hardware reset that answers True wrote the release on the connection of
\* its press, with nothing written between the two.
ResetWhole ==
    [][\A c \in Clients :
          pc[c] = "press" /\ got'[c] > got[c] => pressed = c]_vars

\* Every setup attempt starts with nothing of an earlier one, wherever that one
\* failed and whether or not it could be disconnected: no handle of its
\* connection, no characteristic or frame, no task that still listens, and
\* _lock free.  (Its connection itself may still be up, see Disconnected.)
AttemptStartsClean ==
    loop = "connect" =>
        /\ ~conn /\ ~chars /\ ~ff06
        /\ queue = NoFrames /\ lockQueue = <<>> /\ notifier = "none"

-----------------------------------------------------------------------------
(* Liveness. *)

\* Every request is answered in the end, whatever the battery and the link do.
RequestsEnd == \A c \in Clients : pc[c] # "idle" ~> pc[c] = "idle"

\* ble_loop's docstring: "Reconnects automatically on disconnect."
LinkLossNoticed == (loop = "hold" /\ ~link) ~> loop = "scan"

-----------------------------------------------------------------------------
(* Refinement: the session and the requests implement the channel. *)

\* The refinement mapping.  ble_loop queues for the lock only when no request
\* does, so a queue with it at its head holds no request.
Line  == IF Holder = Loop THEN <<>> ELSE lockQueue
Kinds == [c \in Clients |-> IF pc[c] = "idle" THEN "none" ELSE req[c].kind]
Sent  == {c \in Clients : pc[c] \in {"wait", "press"}}

Channel == INSTANCE CommandChannel WITH
    open <- primed, line <- Line, kind <- Kinds, sent <- Sent,
    answers <- got, heard <- fresh

\* The requests are served one at a time and in the order they came, over a
\* connection that has answered its probe, with frames that arrived since the
\* command was written; and no connection is opened while a request that saw
\* the last one is unfinished.
ChannelSpec == Channel!Spec

=============================================================================
