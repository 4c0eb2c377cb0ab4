--------------------------- MODULE CommandChannel ---------------------------
(***************************************************************************)
(* The promise of the bridge's BLE session to the HTTP requests, without   *)
(* ble_loop, its notification task, the lock, the queues and the states: a *)
(* channel that serves the requests one at a time and in the order they    *)
(* came.  A request is sent only over an open connection, it is answered   *)
(* only with what was heard since it was sent, a reset is whole only if    *)
(* its connection was not lost and nothing else sent in between, and no    *)
(* connection opens while a request of the last one is unfinished.         *)
(***************************************************************************)
EXTENDS Naturals, Sequences

CONSTANTS Clients, Nobody

VARIABLES
    open,       \* a connection whose probe was answered
    line,       \* the unfinished requests, in the order they came
    kind,       \* what each of them is
    sent,       \* those of them that have been written
    answers,    \* answers each client has had to its last request
    heard,      \* frames heard since the last command was written
    pressed     \* whose reset is between its press and its release

vars == <<open, line, kind, sent, answers, heard, pressed>>

Wanted(k) == IF k = "multi" THEN 2 ELSE 1

Init ==
    /\ open = FALSE /\ line = <<>> /\ sent = {}
    /\ kind = [c \in Clients |-> "none"]
    /\ answers = [c \in Clients |-> 0]
    /\ heard = 0 /\ pressed = Nobody

Open ==
    /\ line = <<>>
    /\ open' = TRUE /\ pressed' = Nobody
    /\ UNCHANGED <<line, kind, sent, answers, heard>>

Close ==
    /\ open' = FALSE /\ pressed' = Nobody
    /\ UNCHANGED <<line, kind, sent, answers, heard>>

Ask(c, k) ==
    /\ kind[c] = "none"
    /\ line' = Append(line, c)
    /\ kind' = [kind EXCEPT ![c] = k]
    /\ answers' = [answers EXCEPT ![c] = 0]
    /\ UNCHANGED <<open, sent, heard, pressed>>

\* The first in line, and nobody before it is still being served.
Turn(c) == line # <<>> /\ Head(line) = c

SendCommand(c) ==
    /\ open /\ Turn(c) /\ sent = {} /\ kind[c] # "reset"
    /\ sent' = {c} /\ heard' = 0 /\ pressed' = Nobody
    /\ UNCHANGED <<open, line, kind, answers>>

SendReset(c) ==
    /\ open /\ Turn(c) /\ sent = {} /\ kind[c] = "reset"
    /\ sent' = {c} /\ pressed' = c
    /\ UNCHANGED <<open, line, kind, answers, heard>>

Hear ==
    /\ open /\ sent # {}
    /\ heard' = heard + 1
    /\ UNCHANGED <<open, line, kind, sent, answers, pressed>>

\* The first in line is finished, with or without its answers.
Leave(c) ==
    /\ line' = Tail(line)
    /\ kind' = [kind EXCEPT ![c] = "none"]
    /\ sent' = {}

\* A frame heard before the loss of the connection may still be the answer.
Answer(c) ==
    /\ Turn(c) /\ sent = {c} /\ kind[c] # "reset" /\ heard > 0
    /\ heard' = heard - 1
    /\ answers' = [answers EXCEPT ![c] = @ + 1]
    /\ IF answers'[c] = Wanted(kind[c])
         THEN Leave(c) ELSE UNCHANGED <<line, kind, sent>>
    /\ UNCHANGED <<open, pressed>>

ResetDone(c) ==
    /\ open /\ Turn(c) /\ sent = {c} /\ kind[c] = "reset" /\ pressed = c
    /\ pressed' = Nobody
    /\ answers' = [answers EXCEPT ![c] = 1]
    /\ Leave(c)
    /\ UNCHANGED <<open, heard>>

GiveUp(c) ==
    /\ Turn(c) /\ Leave(c)
    /\ UNCHANGED <<open, answers, heard, pressed>>

Next ==
    \/ Open \/ Close \/ Hear
    \/ \E c \in Clients :
          \/ SendCommand(c) \/ SendReset(c) \/ Answer(c) \/ ResetDone(c)
          \/ GiveUp(c)
          \/ \E k \in {"single", "multi", "reset"} : Ask(c, k)

Spec == Init /\ [][Next]_vars
=============================================================================
