----------------------------- MODULE MCJobLease -----------------------------
(* JobLease for TLC.  A run allows each event a few times, and no more     *)
(* than Budget events in one behaviour: all orders and all combinations of *)
(* that many are explored.                                                 *)
EXTENDS JobLease, TLC, FiniteSetsExt

CONSTANTS Faults, Crashes, Stops, Lapses, Resets, Edits, Deletes, Budget

Most == "fault" :> Faults @@ "crash" :> Crashes @@ "stop" :> Stops
        @@ "lapse" :> Lapses @@ "reset" :> Resets @@ "edit" :> Edits
        @@ "delete" :> Deletes

MCScenarios == {u \in [Events -> 0..2] :
                   /\ \A ev \in Events : u[ev] <= Most[ev]
                   /\ MapThenSumSet(LAMBDA ev : u[ev], Events) <= Budget}

ReplicaSymmetry == Permutations(Replicas)
=============================================================================
