------------------------------- MODULE KVRaft -------------------------------
(***************************************************************************)
(* The replicated key/value service: Clerk (kvraft/client.go) and KVServer *)
(* (kvraft/server.go).                                                     *)
(*                                                                         *)
(* A handler runs under kv.mu but for its sleeps; one action is what it    *)
(* does from one release of kv.mu, or from one call of its Raft peer, to   *)
(* the next.  Every operation has an ID of its own, drawn by nrand().      *)
(*                                                                         *)
(* Of Raft the service sees GetState(), Start() and applyCh.  The Raft     *)
(* module is about how they are implemented; here a peer has a term and    *)
(* may believe to be leader, an entry given to Start() may later be        *)
(* committed or never, and every server is sent the one committed log in   *)
(* order.  A string is the sequence of its parts.                          *)
(***************************************************************************)
EXTENDS Integers, Sequences, FiniteSets

CONSTANTS
    N,            \* the number of servers
    Clerk, Key, Value,
    Workload,     \* bound: the operations each clerk may be asked for
    MayWin,       \* bound: who may win the election of each term
    MayCrash,     \* bound: which servers may be restarted
    MaxOps,       \* bound: the operations of one clerk
    MaxTerm,      \* bound: the elections
    MaxFaults,    \* bound: crashes, failed calls and operations not applied in time
    NoOp, NoKey, NoRecord, NoReply, Pending

ASSUME SizeAssumption == N \in Nat \ {0}
ASSUME BoundAssumption == MaxOps \in Nat /\ MaxTerm \in Nat /\ MaxFaults \in Nat

Server == 0..N - 1
ID == Clerk \X (1..MaxOps)

Op == [type : {"Get", "Put", "Append"}, key : Key, value : Value]

ASSUME WorkloadAssumption == Workload \in [Clerk -> SUBSET Op]
ASSUME NoOpAssumption == NoOp \notin Op
ASSUME NoKeyAssumption == NoKey \notin Seq(Value) /\ Pending \notin Seq(Value)

\* What execRecord keeps of an operation.
Record == [err : {"OK", "ErrNoKey"}, value : Seq(Value)]

ASSUME NoRecordAssumption == NoRecord \notin Record /\ NoReply \notin Record

VARIABLES
    term, leader,         \* GetState() of every peer
    uncommitted,          \* how many entries of an ID and a term are in logs, not committed
    log,                  \* the committed entries
    applied,              \* how many of them each server has taken from applyCh
    db, execRecord,       \* of every server
    args,                 \* what each ID stands for
    requests, handlers,   \* calls that wait for their handler, and handlers at work
    opNo, busy,           \* the operations of each clerk so far, is the last one in progress
    at, prevLeader,       \* the server a clerk calls, and the one that answered it last
    reply, returned,      \* the reply of a clerk's call, what its last operation returned
    faults,
    states                \* history: the database and records after each entry of log

raftVars == <<term, leader, uncommitted, log, states>>
kvVars == <<applied, db, execRecord>>
clerkVars == <<args, opNo, busy, at, prevLeader, returned>>
vars == <<term, leader, uncommitted, log, applied, db, execRecord, args, requests, handlers,
          opNo, busy, at, prevLeader, reply, returned, faults, states>>

emptyDb == [k \in Key |-> NoKey]
emptyRecord == [id \in ID |-> NoRecord]

Init ==
    /\ term = [s \in Server |-> 0]
    /\ leader = [s \in Server |-> FALSE]
    /\ uncommitted = [x \in ID \X (1..MaxTerm) |-> 0]
    /\ log = <<>>
    /\ applied = [s \in Server |-> 0]
    /\ db = [s \in Server |-> emptyDb]
    /\ execRecord = [s \in Server |-> emptyRecord]
    /\ args = [id \in ID |-> NoOp]
    /\ requests = {}
    /\ handlers = {}
    /\ opNo = [c \in Clerk |-> 0]
    /\ busy = [c \in Clerk |-> FALSE]
    /\ at = [c \in Clerk |-> 0]
    /\ prevLeader = [c \in Clerk |-> 0]
    /\ reply = [c \in Clerk |-> NoReply]
    /\ returned = [c \in Clerk |-> <<>>]
    /\ faults = 0
    /\ states = <<[db |-> emptyDb, execRecord |-> emptyRecord]>>

-----------------------------------------------------------------------------
(* The clerk *)

Call(id, s) == [id |-> id, server |-> s, awaited |-> TRUE]
Abandoned(call) == [call EXCEPT !.awaited = FALSE]
ByClerk(calls, c) == {x \in calls : x.awaited /\ x.id[1] = c}

\* Get(), Put() and Append() begin with a fresh ID and the server that answered last.
Invoke(c, op) ==
    /\ ~busy[c]
    /\ opNo[c] < MaxOps
    /\ LET id == <<c, opNo[c] + 1>> IN
       /\ args' = [args EXCEPT ![id] = op]
       /\ requests' = requests \cup {Call(id, prevLeader[c])}
    /\ opNo' = [opNo EXCEPT ![c] = @ + 1]
    /\ busy' = [busy EXCEPT ![c] = TRUE]
    /\ at' = [at EXCEPT ![c] = prevLeader[c]]
    /\ UNCHANGED <<raftVars, kvVars, handlers, prevLeader, reply, returned, faults>>

\* Mutant: the index does not wrap.
TryNextNoWrap(c, left) ==
    LET s == at[c] + 1 IN
    /\ at' = [at EXCEPT ![c] = s]
    /\ requests' = left \cup {Call(<<c, opNo[c]>>, s)}

\* Mutant: the same server is tried again.
TryNextSame(c, left) ==
    /\ requests' = left \cup {Call(<<c, opNo[c]>>, at[c])}
    /\ UNCHANGED at

\* The loop goes on with the next server and the same ID.
TryNext(c, left) ==
    LET s == (at[c] + 1) % N IN
    /\ at' = [at EXCEPT ![c] = s]
    /\ requests' = left \cup {Call(<<c, opNo[c]>>, s)}

\* Call() returns false: the request was dropped, or it is or will be handled
\* and its reply is lost.  A handler that nobody waits for and that has called
\* Start() has no effect any more.
CallFails(c) ==
    /\ busy[c]
    /\ faults < MaxFaults
    /\ faults' = faults + 1
    /\ LET mine == ByClerk(requests, c) IN
       \/ TryNext(c, requests \ mine)
       \/ mine # {} /\ TryNext(c, (requests \ mine) \cup {Abandoned(r) : r \in mine})
    /\ LET mine == ByClerk(handlers, c) IN
       handlers' = (handlers \ mine) \cup {Abandoned(h) : h \in {x \in mine : x.phase = "starting"}}
    /\ reply' = [reply EXCEPT ![c] = NoReply]
    /\ UNCHANGED <<raftVars, kvVars, args, opNo, busy, prevLeader, returned>>

\* Get() returns "" for a key that does not exist.  PutAppend() would not
\* remember the server if it ever answered ErrNoKey.
Receive(c) ==
    /\ reply[c] # NoReply
    /\ returned' = [returned EXCEPT ![c] = reply[c].value]
    /\ prevLeader' = [prevLeader EXCEPT ![c] =
           IF reply[c].err = "ErrNoKey" /\ args[<<c, opNo[c]>>].type # "Get" THEN @ ELSE at[c]]
    /\ busy' = [busy EXCEPT ![c] = FALSE]
    /\ reply' = [reply EXCEPT ![c] = NoReply]
    /\ UNCHANGED <<raftVars, kvVars, args, requests, handlers, opNo, at, faults>>

-----------------------------------------------------------------------------
(* The server *)

\* kv.mu is held between two actions only by a handler on its way to Start().
Unlocked(s) == \A h \in handlers : h.server = s => h.phase # "starting"

\* A handler returns: the answer is on its way, or the clerk turns to the next
\* server.  Nobody hears of it if the call was given up.
ReplyRecord(call, r) ==
    reply' = IF call.awaited THEN [reply EXCEPT ![call.id[1]] = r] ELSE reply

ReplyWrongLeader(call, left) ==
    IF call.awaited THEN TryNext(call.id[1], left) ELSE requests' = left /\ UNCHANGED at

\* Get() and PutAppend() up to Start(): wrong leader, or a repeated request.
Enter(call) ==
    LET s == call.server
        left == requests \ {call}
        h == [id |-> call.id, server |-> s, awaited |-> call.awaited,
              phase |-> "starting", term |-> term[s]]
    IN /\ Unlocked(s)
       /\ \/ /\ ~leader[s]
             /\ ReplyWrongLeader(call, left)
             /\ UNCHANGED <<handlers, reply>>
          \/ /\ leader[s]
             /\ execRecord[s][call.id] # NoRecord
             /\ ReplyRecord(call, execRecord[s][call.id])
             /\ requests' = left
             /\ UNCHANGED <<handlers, at>>
          \/ /\ leader[s]
             /\ execRecord[s][call.id] = NoRecord
             /\ handlers' = handlers \cup {h}
             /\ requests' = left
             /\ UNCHANGED <<reply, at>>
       /\ UNCHANGED <<raftVars, kvVars, args, opNo, busy, prevLeader, returned, faults>>

\* kv.rf.Start(op): the peer may have lost or gained leadership since GetState(),
\* and what Start() returns is not looked at.
StartOp(h) ==
    LET s == h.server IN
    /\ h.phase = "starting"
    /\ handlers' = (handlers \ {h}) \cup {x \in {[h EXCEPT !.phase = "waiting"]} : x.awaited}
    /\ uncommitted' = IF leader[s] THEN [uncommitted EXCEPT ![<<h.id, term[s]>>] = @ + 1]
                                   ELSE uncommitted
    /\ UNCHANGED <<term, leader, log, states, kvVars, clerkVars, requests, reply, faults>>

\* The highest term of any peer.
Latest(t) == \A s \in Server : term[s] <= t

\* The handler wakes up after checkInterval.  A look that finds the term as it
\* was and no record changes nothing, unless it is the last of numChecks.
CheckEvicted(h) ==
    /\ term[h.server] # h.term
    /\ ReplyWrongLeader(h, requests)
    /\ UNCHANGED <<reply, faults>>

CheckApplied(h) ==
    /\ term[h.server] = h.term
    /\ execRecord[h.server][h.id] # NoRecord
    /\ ReplyRecord(h, execRecord[h.server][h.id])
    /\ UNCHANGED <<requests, at, faults>>

CheckLast(h) ==
    /\ term[h.server] = h.term
    /\ execRecord[h.server][h.id] = NoRecord
    /\ faults < MaxFaults
    /\ faults' = faults + 1
    /\ ReplyWrongLeader(h, requests)
    /\ UNCHANGED reply

Check(h) ==
    /\ h.phase = "waiting"
    /\ Unlocked(h.server)
    /\ CheckEvicted(h) \/ CheckApplied(h) \/ CheckLast(h)
    /\ handlers' = handlers \ {h}
    /\ UNCHANGED <<raftVars, kvVars, args, opNo, busy, prevLeader, returned>>

\* What readApplyChRoutine() does to a database and its records.
Recorded(op, d) ==
    IF op.type = "Get" /\ d[op.key] = NoKey THEN [err |-> "ErrNoKey", value |-> <<>>]
    ELSE [err |-> "OK", value |-> IF op.type = "Get" THEN d[op.key] ELSE <<>>]

Updated(op, d) ==
    IF op.type = "Get" THEN d
    ELSE [d EXCEPT ![op.key] = IF op.type = "Append" /\ d[op.key] # NoKey
                               THEN Append(d[op.key], op.value) ELSE <<op.value>>]

\* Mutant: an operation that was executed before is executed again.
ExecuteAgain(op, id, st) ==
    [db |-> Updated(op, st.db),
     execRecord |-> [st.execRecord EXCEPT ![id] = Recorded(op, st.db)]]

Execute(op, id, st) ==
    IF st.execRecord[id] # NoRecord THEN st
    ELSE [db |-> Updated(op, st.db),
          execRecord |-> [st.execRecord EXCEPT ![id] = Recorded(op, st.db)]]

readApplyChRoutine(s) ==
    /\ applied[s] < Len(log)
    /\ Unlocked(s)
    /\ LET id == log[applied[s] + 1]
           st == Execute(args[id], id, [db |-> db[s], execRecord |-> execRecord[s]])
       IN /\ db' = [db EXCEPT ![s] = st.db]
          /\ execRecord' = [execRecord EXCEPT ![s] = st.execRecord]
    /\ applied' = [applied EXCEPT ![s] = @ + 1]
    /\ UNCHANGED <<raftVars, clerkVars, requests, handlers, reply, faults>>

\* The server is shut down and StartKVServer() makes another: empty, and fed
\* the log from its beginning.  The calls it was handling return false.
StartKVServer(s) ==
    /\ s \in MayCrash
    /\ faults < MaxFaults
    /\ faults' = faults + 1
    /\ leader' = [leader EXCEPT ![s] = FALSE]
    /\ applied' = [applied EXCEPT ![s] = 0]
    /\ db' = [db EXCEPT ![s] = emptyDb]
    /\ execRecord' = [execRecord EXCEPT ![s] = emptyRecord]
    /\ LET lost == {c \in Clerk : \E x \in requests \cup handlers :
                           x.server = s /\ x.awaited /\ x.id[1] = c}
           next(c) == (at[c] + 1) % N
       IN /\ requests' = {r \in requests : r.server # s}
                             \cup {Call(<<c, opNo[c]>>, next(c)) : c \in lost}
          /\ at' = [c \in Clerk |-> IF c \in lost THEN next(c) ELSE at[c]]
    /\ handlers' = {h \in handlers : h.server # s}
    /\ UNCHANGED <<term, uncommitted, log, states, args, opNo, busy, prevLeader, returned, reply>>

-----------------------------------------------------------------------------
(* Raft, as the service sees it *)

\* A peer times out and wins the election of a new term, all at the moment its
\* timer runs out; the others hear of the term later.  A candidate that loses,
\* or hears late of its votes, is one that no clerk asks before it hears of a
\* later term.
Elect(s) ==
    /\ \E t \in 1..MaxTerm :
        /\ Latest(t - 1)
        /\ \E q \in Server : term[q] = t - 1
        /\ s \in MayWin[t]
        /\ term' = [term EXCEPT ![s] = t]
    /\ leader' = [leader EXCEPT ![s] = TRUE]
    /\ UNCHANGED <<uncommitted, log, states, kvVars, clerkVars, requests, handlers, reply, faults>>

\* A peer hears of a later term, in a request or a reply.
LearnTerm(s) ==
    /\ \E q \in Server : term[q] > term[s] /\ term' = [term EXCEPT ![s] = term[q]]
    /\ leader' = [leader EXCEPT ![s] = FALSE]
    /\ UNCHANGED <<uncommitted, log, states, kvVars, clerkVars, requests, handlers, reply, faults>>

\* The leader of term t counts the entry as committed.  It may do so until long
\* after a later term has begun, since replies are delayed.
Commit(id, t) ==
    /\ uncommitted[<<id, t>>] > 0
    /\ uncommitted' = [uncommitted EXCEPT ![<<id, t>>] = @ - 1]
    /\ log' = Append(log, id)
    /\ states' = Append(states, Execute(args[id], id, states[Len(states)]))
    /\ UNCHANGED <<term, leader, kvVars, clerkVars, requests, handlers, reply, faults>>

-----------------------------------------------------------------------------

HandlerStep == \/ \E call \in requests : Enter(call)
               \/ \E h \in handlers : StartOp(h) \/ Check(h)

Next ==
    \/ \E c \in Clerk : \/ \E op \in Workload[c] : Invoke(c, op)
                        \/ Receive(c)
                        \/ CallFails(c)
    \/ HandlerStep
    \/ \E s \in Server : \/ readApplyChRoutine(s)
                         \/ StartKVServer(s)
                         \/ LearnTerm(s)
                         \/ Elect(s)
    \/ \E id \in ID, t \in 1..MaxTerm : Commit(id, t)

Spec == Init /\ [][Next]_vars

\* A leader that no later term replaces commits what it was given.
LeaderCommits(t) ==
    /\ \E s \in Server : leader[s] /\ term[s] = t
    /\ Latest(t)
    /\ \E id \in ID : Commit(id, t)

\* What cannot go on for ever: some of it is done as long as some can be.
Progress ==
    \/ \E c \in Clerk : Receive(c)
    \/ \E h \in handlers : StartOp(h) \/ Check(h)
    \/ \E s \in Server : readApplyChRoutine(s) \/ LearnTerm(s)
    \/ \E t \in 1..MaxTerm : LeaderCommits(t)

\* The scheduler runs every goroutine that can run, and the network answers.
Fairness ==
    /\ WF_vars(Progress)
    /\ \A c \in Clerk : WF_vars(\E call \in ByClerk(requests, c) : Enter(call))

FairSpec == Spec /\ Fairness

-----------------------------------------------------------------------------
(* Properties *)

CallType == [id : ID, server : Server, awaited : BOOLEAN]

HandlerType ==
    [id : ID, server : Server, awaited : BOOLEAN,
     phase : {"starting", "waiting"}, term : 1..MaxTerm]

StateType ==
    [db : [Key -> Seq(Value) \cup {NoKey}], execRecord : [ID -> Record \cup {NoRecord}]]

RaftType ==
    /\ term \in [Server -> 0..MaxTerm]
    /\ leader \in [Server -> BOOLEAN]
    /\ uncommitted \in [ID \X (1..MaxTerm) -> Nat]
    /\ log \in Seq(ID)
    /\ states \in Seq(StateType)

ServerType ==
    /\ applied \in [Server -> Nat]
    /\ db \in [Server -> [Key -> Seq(Value) \cup {NoKey}]]
    /\ execRecord \in [Server -> [ID -> Record \cup {NoRecord}]]
    /\ requests \subseteq CallType
    /\ handlers \subseteq HandlerType

ClerkType ==
    /\ args \in [ID -> Op \cup {NoOp}]
    /\ opNo \in [Clerk -> 0..MaxOps]
    /\ busy \in [Clerk -> BOOLEAN]
    /\ at \in [Clerk -> Server]
    /\ prevLeader \in [Clerk -> Server]
    /\ reply \in [Clerk -> Record \cup {NoReply}]
    /\ returned \in [Clerk -> Seq(Value)]
    /\ faults \in 0..MaxFaults

\* The state has the types of the fields of KVServer and Clerk: an index of a
\* server, an ID or a term is always one that exists.
TypeOK == RaftType /\ ServerType /\ ClerkType

Current == states[Len(states)]
Request(c) == IF busy[c] THEN args[<<c, opNo[c]>>] ELSE NoOp
Outcome(c) ==
    IF busy[c] /\ Current.execRecord[<<c, opNo[c]>>] # NoRecord
    THEN Current.execRecord[<<c, opNo[c]>>].value ELSE Pending

Text(v) == IF v = NoKey THEN <<>> ELSE v

Store == INSTANCE KVStore WITH
    store <- [k \in Key |-> Text(Current.db[k])],
    request <- [c \in Clerk |-> Request(c)],
    result <- [c \in Clerk |-> Outcome(c)]

\* Linearizability, and at most once: the service implements the atomic store.
\* An operation takes effect when its first entry is committed; a retry after a
\* lost reply, a deposed leader or a crash, a second entry of the same ID, a
\* server that replays its log, and an answer from execRecord add no effect and
\* return the value of that instant.
Linearizable == Store!Spec

\* Every call of a clerk returns, if from some time on one server stays the
\* leader of the latest term: no call, handler and apply loop wait on each other
\* for ever, and retries end.
OpReturns ==
    <>[](\E s \in Server : leader[s] /\ Latest(term[s]))
        => \A c \in Clerk : busy[c] ~> ~busy[c]

=============================================================================
