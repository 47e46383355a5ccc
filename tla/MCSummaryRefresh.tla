-------------------------- MODULE MCSummaryRefresh --------------------------
(* SummaryRefresh for TLC, with any Budget of the allowed events.          *)
EXTENDS SummaryRefresh, TLC, FiniteSetsExt

CONSTANTS Resets, Edits, Losses, Moves, Budget

Most == "reset" :> Resets @@ "edit" :> Edits @@ "loss" :> Losses @@ "move" :> Moves

MCScenarios == {u \in [Events -> 0..2] :
                   /\ \A ev \in Events : u[ev] <= Most[ev]
                   /\ MapThenSumSet(LAMBDA ev : u[ev], Events) <= Budget}

Symmetry == Permutations(Workers) \cup Permutations(Users) \cup Permutations(Urls)
            \cup Permutations(Entries)
=============================================================================
