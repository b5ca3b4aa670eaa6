---------------------------- MODULE MCRaftApply ----------------------------
(* RaftApply on small instances. *)
EXTENDS RaftApply
=============================================================================
