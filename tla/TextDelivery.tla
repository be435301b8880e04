----------------------------- MODULE TextDelivery -----------------------------
(***************************************************************************)
(* What a text system owes to its users: whatever one of them sends is     *)
(* delivered complete, once and in the order it was sent.                  *)
(***************************************************************************)
EXTENDS Naturals, Sequences

CONSTANT Users

VARIABLES
    sent,      \* user -> what has been sent for it
    delivered  \* user -> what has been delivered of that

Init == sent = [u \in Users |-> <<>>] /\ delivered = [u \in Users |-> <<>>]

\* Exactly one more entry, behind the ones there are.
OneMore(old, new) == Len(new) = Len(old) + 1 /\ SubSeq(new, 1, Len(old)) = old

Send(u) ==
    /\ \A v \in Users \ {u} : sent'[v] = sent[v]
    /\ OneMore(sent[u], sent'[u])
    /\ UNCHANGED delivered

Deliver(u) ==
    /\ Len(delivered[u]) < Len(sent[u])
    /\ delivered' = [delivered EXCEPT ![u] = Append(@, sent[u][Len(@) + 1])]
    /\ UNCHANGED sent

Next == \E u \in Users : Send(u) \/ Deliver(u)

Spec == Init /\ [][Next]_<<sent, delivered>>
=============================================================================
