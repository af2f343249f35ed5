------------------------------ MODULE MCLookups ------------------------------
(* LookupCache on a small instance.  Callers, writers and loads are alike, but the liveness *)
(* properties are checked with the invariants, so no use is made of it.                     *)
EXTENDS LookupCache
=============================================================================
