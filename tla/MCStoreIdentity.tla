-------------------------- MODULE MCStoreIdentity --------------------------
(* Instances of StoreIdentity for TLC. *)
EXTENDS StoreIdentity

Two == {1, 2}
TwoEarlier == {<<0, 1>>, <<0, 2>>}
=============================================================================
