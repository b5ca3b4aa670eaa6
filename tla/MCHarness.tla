----------------------------- MODULE MCHarness -----------------------------
(* Harness on small instances. *)
EXTENDS Harness
=============================================================================
