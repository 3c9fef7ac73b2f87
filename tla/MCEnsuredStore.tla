--------------------------- MODULE MCEnsuredStore ---------------------------
(* Instances of EnsuredStore for TLC. *)
EXTENDS EnsuredStore

CONSTANTS c1, c2, maker

\* c1 saves, and c2 loads.
OneSaves == {c1}
CallersAndMaker == {c1, c2, maker}
=============================================================================
