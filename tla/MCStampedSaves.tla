--------------------------- MODULE MCStampedSaves ---------------------------
(***************************************************************************)
(* Instances of StampedSaves for TLC.                                      *)
(***************************************************************************)
EXTENDS StampedSaves, TLC

\* No writer, property, value or target is told from another.
Interchangeable ==
  Permutations(Writers) \cup Permutations(Fields) \cup Permutations(Values) \cup Permutations(Targets)

=============================================================================
