--------------------------- MODULE MCDom26rMemory ---------------------------
(* Instances of Dom26rMemory for TLC. *)
EXTENDS Dom26rMemory, TLC

Symmetry == Permutations(Calls) \cup Permutations(Subjects)
              \cup Permutations(Candidates \ Issued) \cup Permutations(Engrams \ Issued)
=============================================================================
