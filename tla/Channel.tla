------------------------------ MODULE Channel ------------------------------
(***************************************************************************)
(* What a queue of the communication layer promises its users: messages    *)
(* are received in the order in which they were accepted, none is lost,    *)
(* altered or received twice, and each is received eventually.             *)
(***************************************************************************)
EXTENDS Naturals, Sequences

CONSTANT Messages

VARIABLES
    sent,       \* all messages accepted so far
    received    \* all messages received so far

vars == <<sent, received>>

Init == sent = <<>> /\ received = <<>>

Send ==
    /\ \E m \in Messages : sent' = Append(sent, m)
    /\ UNCHANGED received

Receive ==
    /\ Len(received) < Len(sent)
    /\ received' = Append(received, sent[Len(received) + 1])
    /\ UNCHANGED sent

Next == Send \/ Receive

Spec == Init /\ [][Next]_vars

FairSpec == Spec /\ WF_vars(Receive)
=============================================================================
