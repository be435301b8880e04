-------------------------- MODULE MeasurementDelivery --------------------------
(***************************************************************************)
(* What the chain of towers owes to a measurement, whatever the radio      *)
(* loses: the server publishes it at most once, and the main tower reports *)
(* it successful only if the server has it.  How many hops, packages,      *)
(* retransmissions and reboots that takes is not visible here.             *)
(***************************************************************************)
EXTENDS Naturals

CONSTANT MaxMeasurements    \* bound: measurements taken

VARIABLES
    taken,       \* measurements taken so far; measurement m is the m-th
    deliveries,  \* measurement -> how often the server has published it
    reported     \* measurements reported successful

Init ==
    /\ taken = 0
    /\ deliveries = [m \in 1..MaxMeasurements |-> 0]
    /\ reported = {}

Take ==
    /\ taken < MaxMeasurements
    /\ taken' = taken + 1
    /\ UNCHANGED <<deliveries, reported>>

Deliver(m) ==
    /\ m <= taken /\ deliveries[m] = 0
    /\ deliveries' = [deliveries EXCEPT ![m] = 1]
    /\ UNCHANGED <<taken, reported>>

Report(m) ==
    /\ deliveries[m] = 1 /\ m \notin reported
    /\ reported' = reported \cup {m}
    /\ UNCHANGED <<taken, deliveries>>

Next == Take \/ \E m \in 1..MaxMeasurements : Deliver(m) \/ Report(m)

Spec == Init /\ [][Next]_<<taken, deliveries, reported>>
=============================================================================
