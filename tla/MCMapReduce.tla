---------------------------- MODULE MCMapReduce ----------------------------
(* Instances of MapReduce for TLC. *)
EXTENDS MapReduce, TLC

\* Every map task may be slow, and the first reduce task; the others are not.
MapsAndOneReduce ==
    [type : {"Map"}, number : 1..NMap] \cup [type : {"Reduce"}, number : {1}]

=============================================================================
