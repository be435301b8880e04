----------------------------- MODULE MCTextRelay -----------------------------
(***************************************************************************)
(* TextRelay for TLC: a behaviour follows one of a few scenarios, each of  *)
(* which allows some phones, bounds and causes of trouble, so that the     *)
(* run covers the sum of the scenarios and not their product.              *)
(***************************************************************************)
EXTENDS TextRelay

VARIABLE scenario

Scenario(phones, texts, lengths, wrong, leaving, replies, bad, radioFaults) ==
    [phones |-> phones, texts |-> texts, lengths |-> lengths, wrong |-> wrong,
     leaving |-> leaving, replies |-> replies, bad |-> bad, radioFaults |-> radioFaults]

Within(s) ==
    /\ begun' <= s.texts /\ arrived' <= s.replies /\ malformed' <= s.bad
    /\ lost' + repeats' <= s.radioFaults
    /\ \A p \in Phones :
        /\ mishaps'[p] \subseteq s.wrong
        /\ gatt'[p].connected => p \in s.phones
        /\ gatt[p].connected => gatt'[p].connected \/ s.leaving
        /\ writing'[p] # Nothing => Len(writing'[p].bytes) - 1 \in s.lengths

\* One phone that writes hastily, leaves, cancels and writes too much; two phones over a
\* faulty radio; two patient phones and a reply; a phone that leaves and two replies; a
\* reply over a faulty radio.
Scenarios ==
    {Scenario({1}, 2, {1, 3, 5, 6}, Mishaps, TRUE, 0, 0, 0),
     Scenario({1, 2}, 3, {3}, {}, FALSE, 0, 0, 1),
     Scenario({1, 2}, 2, {2, 4}, {}, FALSE, 1, 1, 0),
     Scenario({1}, 1, {0, 1}, {}, TRUE, 2, 1, 0),
     Scenario({1}, 1, {3}, {}, FALSE, 1, 0, 1)}

MCInit(scenarios) == Init /\ scenario \in scenarios
MCNext == Next /\ Within(scenario) /\ UNCHANGED scenario

MCSpec == MCInit(Scenarios) /\ [][MCNext]_<<vars, scenario>>

\* One patient phone, two texts, one of them as long as two full packages.
Multiples == {Scenario({1}, 2, {1, 2 * LoraBytes}, {}, FALSE, 0, 0, 0)}
MultiplesSpec == MCInit(Multiples) /\ [][MCNext]_<<vars, scenario>>
=============================================================================
