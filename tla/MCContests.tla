----------------------------- MODULE MCContests -----------------------------
(* Bounds for Contests.                                                    *)
EXTENDS Contests, TLC

Symmetry == Permutations(Powered) \cup Permutations(Filed \ Powered)
              \cup Permutations(Licenses) \cup Permutations(Seats)
              \cup Permutations(Slots)
=============================================================================
