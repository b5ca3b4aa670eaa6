---------------------------- MODULE MCPorcupine ----------------------------
(* Porcupine on small histories of two keys. *)
EXTENDS Porcupine

CONSTANTS k1, k2

MCOperations ==
    {[key |-> k1, op |-> "put", value |-> <<1>>],
     [key |-> k1, op |-> "append", value |-> <<2>>],
     [key |-> k1, op |-> "get", value |-> <<>>],
     [key |-> k1, op |-> "get", value |-> <<1>>],
     [key |-> k1, op |-> "get", value |-> <<1, 2>>],
     [key |-> k2, op |-> "put", value |-> <<1>>],
     [key |-> k2, op |-> "get", value |-> <<1>>]}
=============================================================================
