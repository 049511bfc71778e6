---------------------------- MODULE EventChannel ----------------------------
(***************************************************************************)
(* What a stream of provider events promises its readers: each event that  *)
(* was sent is taken once, in the order of sending, nothing is sent behind *)
(* the closing event, and a reader leaves a closed stream only when no     *)
(* event is left.                                                          *)
(***************************************************************************)
EXTENDS Naturals, Sequences

CONSTANT Event, Reader

VARIABLES sent, taken, closed, left

Init == sent = <<>> /\ taken = <<>> /\ closed = FALSE /\ left = {}

\* A waiting reader may take what is sent at once.
Send ==
    /\ ~closed
    /\ \E e \in Event : sent' = Append(sent, e)
    /\ closed' \in BOOLEAN
    /\ \/ UNCHANGED taken
       \/ taken = sent /\ taken' = sent'
    /\ UNCHANGED left

Take ==
    /\ Len(taken) < Len(sent)
    /\ taken' = Append(taken, sent[Len(taken) + 1])
    /\ UNCHANGED <<sent, closed, left>>

Close == closed' = TRUE /\ UNCHANGED <<sent, taken, left>>

Leave ==
    /\ closed /\ taken = sent
    /\ \E r \in Reader : left' = left \cup {r}
    /\ UNCHANGED <<sent, taken, closed>>

Next == Send \/ Take \/ Close \/ Leave

Spec == Init /\ [][Next]_<<sent, taken, closed, left>>

=============================================================================
