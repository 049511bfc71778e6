-------------------------- MODULE MessageDelivery --------------------------
(***************************************************************************)
(* What the agent promises about the user messages handed to it: each      *)
(* waits in the order of its source, is delivered once and in that order,  *)
(* or is given up by a clear of the queues or a run that fails.            *)
(*                                                                         *)
(* Messages are numbered as they are handed over, so that the numbers give *)
(* the order of what waits.                                                *)
(***************************************************************************)
EXTENDS Naturals

CONSTANT Source   \* the calls that hand messages over

VARIABLES
    waiting,      \* waiting[s]: messages of source s not delivered yet
    delivered,    \* pairs of a place in the transcript and its message
    gone          \* messages given up

vars == <<waiting, delivered, gone>>

Known == (UNION {waiting[s] : s \in Source}) \cup {d[2] : d \in delivered} \cup gone

\* A source hands over a message, newer than those handed over before.
HandOver(s, m) ==
    /\ \A n \in Known : n < m
    /\ waiting' = [waiting EXCEPT ![s] = @ \cup {m}]
    /\ UNCHANGED <<delivered, gone>>

\* The oldest message of a source takes a place behind all others.
Deliver(s, place, m) ==
    /\ m \in waiting[s] /\ \A n \in waiting[s] : m <= n
    /\ \A d \in delivered : d[1] < place
    /\ waiting' = [waiting EXCEPT ![s] = @ \ {m}]
    /\ delivered' = delivered \cup {<<place, m>>}
    /\ UNCHANGED gone

\* Some of the waiting messages are given up.
GiveUp ==
    /\ gone \subseteq gone' /\ gone' \ gone \subseteq UNION {waiting[s] : s \in Source}
    /\ waiting' = [s \in Source |-> waiting[s] \ (gone' \ gone)]
    /\ UNCHANGED delivered

Init == waiting = [s \in Source |-> {}] /\ delivered = {} /\ gone = {}

Next ==
    \/ \E s \in Source : \E m \in waiting'[s] : HandOver(s, m)
    \/ \E s \in Source : \E d \in delivered' : Deliver(s, d[1], d[2])
    \/ GiveUp

Spec == Init /\ [][Next]_vars

=============================================================================
