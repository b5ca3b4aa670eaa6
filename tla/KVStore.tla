------------------------------ MODULE KVStore ------------------------------
(***************************************************************************)
(* What the key/value service promises to the callers of Clerk.Get(),      *)
(* Put() and Append(): one atomic store.  A call takes effect once, at one *)
(* instant between its start and its return, and Get() returns the value   *)
(* of that instant.                                                        *)
(***************************************************************************)
EXTENDS Sequences

CONSTANTS
    Clerk,      \* the clerks; each has one call at a time
    Key,
    Value,      \* the strings that are put or appended
    NoOp,       \* not an operation: the clerk has no call in progress
    Pending     \* not a result: the call has not taken effect

VARIABLES
    store,      \* the value of every key; a string is the sequence of its parts
    request,    \* the call each clerk is in
    result,     \* what that call will return
    returned    \* what the last call of each clerk returned

storeVars == <<store, request, result, returned>>

Operation == [type : {"Get", "Put", "Append"}, key : Key, value : Value]

\* The store after an operation, and what the operation returns.
After(op, st) ==
    IF op.type = "Get" THEN st
    ELSE [st EXCEPT ![op.key] = IF op.type = "Append" THEN Append(st[op.key], op.value)
                                                      ELSE <<op.value>>]

Answer(op, st) == IF op.type = "Get" THEN st[op.key] ELSE <<>>

Init ==
    /\ store = [k \in Key |-> <<>>]
    /\ request = [c \in Clerk |-> NoOp]
    /\ result = [c \in Clerk |-> Pending]
    /\ returned = [c \in Clerk |-> <<>>]

Invoke(c) ==
    /\ request[c] = NoOp
    /\ \E op \in Operation : request' = [request EXCEPT ![c] = op]
    /\ UNCHANGED <<store, result, returned>>

Execute(c) ==
    /\ request[c] # NoOp
    /\ result[c] = Pending
    /\ store' = After(request[c], store)
    /\ result' = [result EXCEPT ![c] = Answer(request[c], store)]
    /\ UNCHANGED <<request, returned>>

Return(c) ==
    /\ request[c] # NoOp
    /\ result[c] # Pending
    /\ returned' = [returned EXCEPT ![c] = result[c]]
    /\ request' = [request EXCEPT ![c] = NoOp]
    /\ result' = [result EXCEPT ![c] = Pending]
    /\ UNCHANGED store

Next == \E c \in Clerk : Invoke(c) \/ Execute(c) \/ Return(c)

Spec == Init /\ [][Next]_storeVars

=============================================================================
