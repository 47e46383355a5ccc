----------------------------- MODULE MCReplica ------------------------------
(* The readiness probe and the start-up of learnd for TLC.  They share no  *)
(* state: a behaviour looks at one of them while the other one rests.      *)
EXTENDS Readiness, Startup, TLC

VARIABLE part

MCInit ==
    /\ part \in {"probing", "booting"}
    /\ Init /\ BootInit
    /\ part = "booting" => db = "up"

MCNext ==
    /\ UNCHANGED part
    /\ \/ part = "probing" /\ Next /\ UNCHANGED bootVars
       \/ part = "booting" /\ BootNext /\ UNCHANGED vars

MCSpec == MCInit /\ [][MCNext]_<<part, vars, bootVars>>

Symmetry == Permutations(Probes) \cup Permutations(Replicas)
=============================================================================
