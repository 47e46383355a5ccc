----------------------------- MODULE MCWorkers ------------------------------
(* EnrichmentMerge and LeaseTiming for TLC, the latter with the times of   *)
(* the code in units of 5 seconds.  They share no state: a behaviour looks *)
(* at one of them while the other one rests.                               *)
EXTENDS EnrichmentMerge, LeaseTiming, TLC

VARIABLE part

MCInit ==
    /\ part \in {"merging", "timing"}
    /\ Init /\ LeaseInit
    /\ part = "merging" => status = "pending"

MCNext ==
    /\ UNCHANGED part
    /\ \/ part = "merging" /\ Next /\ UNCHANGED leaseVars
       \/ part = "timing" /\ LeaseNext /\ UNCHANGED vars

MCSpec == MCInit /\ [][MCNext]_<<part, vars, leaseVars>>

Symmetry == Permutations(Workers) \cup Permutations(Loops)
=============================================================================
