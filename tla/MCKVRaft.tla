------------------------------ MODULE MCKVRaft ------------------------------
(* KVRaft on small instances. *)
EXTENDS KVRaft, TLC

CONSTANTS c1, c2, k1, v1, v2

\* One clerk appends; the other one overwrites, or reads.
MCWorkload ==
    c1 :> {[type |-> "Append", key |-> k1, value |-> v1]}
 @@ c2 :> {[type |-> "Put", key |-> k1, value |-> v2], [type |-> "Get", key |-> k1, value |-> v2]}

\* The first leader is server 0.
MCMayWin == [t \in 1..MaxTerm |-> IF t = 1 THEN {0} ELSE {1}]

=============================================================================
