----------------------------- MODULE MCAggregation -----------------------------
(***************************************************************************)
(* Aggregation on small instances, and the window computations of the      *)
(* three tasks against their definition, for every second of two days.     *)
(***************************************************************************)
EXTENDS Aggregation, TLC

Symmetry == Permutations(Servers) \cup Permutations(Containers) \cup Permutations(Passes)


ASSUME WindowsAreLastComplete ==
    \A s \in 0 .. 2 * Day :
        /\ FiveminStart(s) = LastComplete(s, 5 * Minute)
        /\ HourlyStart(s) = LastComplete(s, Hour)
        /\ DailyStart(s) = LastComplete(s, Day)
=============================================================================
