---------------------------- MODULE KVRaftProofs ----------------------------
(***************************************************************************)
(* Module KVRaft, for any number of servers, clerks, keys, values,         *)
(* operations, elections and faults: the types, the inductive invariant,   *)
(* and that module KVRaft implements module KVStore.                       *)
(***************************************************************************)
EXTENDS KVRaft, TLAPS

\* The prover of a leaf that names none, and the seconds it has; a leaf that takes
\* arithmetic or sequences names SMT.
USE ZenonT(30)

-----------------------------------------------------------------------------
(* The inductive invariant *)

Issued(id) == id[2] <= opNo[id[1]]

\* Only IDs that a clerk has drawn are in calls, logs and records.
IssuedInv ==
    /\ \A id \in ID : Issued(id) => args[id] \in Op
    /\ \A id \in ID : ~Issued(id) => Current.execRecord[id] = NoRecord
    /\ \A x \in requests : Issued(x.id)
    /\ \A h \in handlers : Issued(h.id)
    /\ \A id \in ID, t \in 1..MaxTerm : uncommitted[<<id, t>>] > 0 => Issued(id)
    /\ \A k \in 1..Len(log) : Issued(log[k])

\* The history follows the log, and a record is never changed again.
HistoryInv ==
    /\ Len(states) = Len(log) + 1
    /\ states[1] = [db |-> emptyDb, execRecord |-> emptyRecord]
    /\ \A k \in 1..Len(log) : states[k + 1] = Execute(args[log[k]], log[k], states[k])
    /\ \A k \in 1..Len(states), id \in ID :
        states[k].execRecord[id] # NoRecord
            => Current.execRecord[id] = states[k].execRecord[id]

\* A server holds what the prefix of the log it has applied gives.
ReplicaInv ==
    \A s \in Server :
        /\ applied[s] <= Len(log)
        /\ states[applied[s] + 1] = [db |-> db[s], execRecord |-> execRecord[s]]

\* An operation that has returned has taken effect.
FinishedInv ==
    \A id \in ID :
        id[2] < opNo[id[1]] \/ (id[2] = opNo[id[1]] /\ ~busy[id[1]])
            => Current.execRecord[id] # NoRecord

\* A clerk waits for one call, of its present operation, or for the reply to it.
CallInv ==
    /\ \A x \in requests \cup handlers :
        x.awaited => busy[x.id[1]] /\ x.id[2] = opNo[x.id[1]] /\ reply[x.id[1]] = NoReply
    /\ \A x, y \in requests : x.awaited /\ y.awaited /\ x.id[1] = y.id[1] => x = y
    /\ \A x, y \in handlers : x.awaited /\ y.awaited /\ x.id[1] = y.id[1] => x = y
    /\ \A x \in requests, y \in handlers : ~(x.awaited /\ y.awaited /\ x.id[1] = y.id[1])
    /\ \A c \in Clerk : reply[c] # NoReply =>
        busy[c] /\ reply[c] = Current.execRecord[<<c, opNo[c]>>]

LeaderInv ==
    /\ \A s \in Server : leader[s] => term[s] \in 1..MaxTerm
    /\ \A c \in Clerk : busy[c] => opNo[c] \in 1..MaxOps

TypeInv == TypeOK /\ LeaderInv

Inv == TypeInv /\ IssuedInv /\ HistoryInv /\ ReplicaInv /\ FinishedInv /\ CallInv

-----------------------------------------------------------------------------
(* The operators *)

\* The clerk's loop stays within the array of servers.
LEMMA NextServer ==
    ASSUME NEW s \in Server
    PROVE  (s + 1) % N \in Server
BY SizeAssumption, SMTT(30) DEF Server

\* A state of a server stays one under readApplyChRoutine().
LEMMA ExecuteType ==
    ASSUME NEW op \in Op, NEW id \in ID, NEW st \in StateType
    PROVE  /\ Execute(op, id, st) \in StateType
           /\ Recorded(op, st.db) \in Record
<1>1. /\ st.db \in [Key -> Seq(Value) \cup {NoKey}]
      /\ st.execRecord \in [ID -> Record \cup {NoRecord}]
      /\ op.key \in Key /\ op.value \in Value
      /\ st.db[op.key] \in Seq(Value) \cup {NoKey}
  BY DEF StateType, Op
<1>2. Recorded(op, st.db) \in Record
  BY <1>1, SMTT(30) DEF Recorded, Record
<1>3. Updated(op, st.db) \in [Key -> Seq(Value) \cup {NoKey}]
  BY <1>1, SMTT(30) DEF Updated
<1> QED BY <1>1, <1>2, <1>3 DEF Execute, StateType

\* It records the operation, and touches no other record.
LEMMA ExecuteRecords ==
    ASSUME NEW op \in Op, NEW id \in ID, NEW st \in StateType
    PROVE  /\ Execute(op, id, st).execRecord[id] # NoRecord
           /\ st.execRecord[id] # NoRecord => Execute(op, id, st) = st
           /\ \A x \in ID : x # id => Execute(op, id, st).execRecord[x] = st.execRecord[x]
<1>1. Recorded(op, st.db) # NoRecord
  BY ExecuteType, NoRecordAssumption
<1>2. st.execRecord \in [ID -> Record \cup {NoRecord}]
  BY DEF StateType
<1> QED BY <1>1, <1>2 DEF Execute

-----------------------------------------------------------------------------
(* Types *)

\* No server, clerk or entry exists yet.
LEMMA InitType == Init => TypeInv
<1> SUFFICES ASSUME Init PROVE TypeInv
  OBVIOUS
<1>1. /\ term \in [Server -> 0..MaxTerm]
      /\ uncommitted \in [ID \X (1..MaxTerm) -> Nat]
      /\ opNo \in [Clerk -> 0..MaxOps]
      /\ faults \in 0..MaxFaults
  BY BoundAssumption, SMTT(30) DEF Init
<1>2. at \in [Clerk -> Server] /\ prevLeader \in [Clerk -> Server]
  BY SizeAssumption, SMTT(30) DEF Init, Server
<1>3. emptyDb \in [Key -> Seq(Value) \cup {NoKey}] /\ emptyRecord \in [ID -> Record \cup {NoRecord}]
  BY DEF emptyDb, emptyRecord
<1>4. states \in Seq(StateType)
  BY <1>3, SMTT(30) DEF Init, StateType
<1> QED BY <1>1, <1>2, <1>3, <1>4, SMTT(30) DEF Init, TypeInv, TypeOK, RaftType, ServerType, ClerkType, LeaderInv

\* A call names a server and an ID that exist.
LEMMA CallIsCall ==
    ASSUME NEW id \in ID, NEW s \in Server
    PROVE  Call(id, s) \in CallType
BY DEF Call, CallType

\* The clerk's actions keep the types.
LEMMA InvokeType ==
    ASSUME TypeInv, NEW c \in Clerk, NEW op \in Op, Invoke(c, op)
    PROVE  TypeInv'
<1> DEFINE id == <<c, opNo[c] + 1>>
<1>1. id \in ID /\ opNo[c] + 1 \in 0..MaxOps /\ prevLeader[c] \in Server
  BY BoundAssumption, SMTT(30) DEF Invoke, TypeInv, TypeOK, ClerkType, ID
<1>2. Call(id, prevLeader[c]) \in CallType
  BY <1>1, CallIsCall
<1>3. RaftType' /\ LeaderInv'
  BY <1>1, SMTT(30) DEF Invoke, TypeInv, TypeOK, RaftType, ClerkType, LeaderInv, raftVars
<1>4. ServerType'
  BY <1>2 DEF Invoke, TypeInv, TypeOK, ServerType, kvVars
<1>5. ClerkType'
  BY <1>1 DEF Invoke, TypeInv, TypeOK, ClerkType
<1> QED BY <1>3, <1>4, <1>5 DEF TypeInv, TypeOK

\* The next turn of the clerk's loop, if it is in one.
LEMMA TryNextType ==
    ASSUME TypeInv, NEW c \in Clerk, opNo[c] # 0, NEW left, left \subseteq CallType, TryNext(c, left)
    PROVE  requests' \subseteq CallType /\ at' \in [Clerk -> Server]
<1>1. (at[c] + 1) % N \in Server
  BY NextServer DEF TypeInv, TypeOK, ClerkType
<1>2. <<c, opNo[c]>> \in ID
  BY BoundAssumption, SMTT(30) DEF TypeInv, TypeOK, ClerkType, ID
<1>3. Call(<<c, opNo[c]>>, (at[c] + 1) % N) \in CallType
  BY <1>1, <1>2, CallIsCall
<1> QED BY <1>1, <1>3 DEF TryNext, TypeInv, TypeOK, ClerkType

\* A call that fails leaves the clerk, and maybe its handler, with one call each.
LEMMA CallFailsType ==
    ASSUME Inv, NEW c \in Clerk, CallFails(c)
    PROVE  TypeInv'
<1> USE DEF Inv
<1>1. opNo[c] # 0
  BY SMTT(30) DEF CallFails, TypeInv, LeaderInv
<1>2. \A x \in CallType : Abandoned(x) \in CallType
  BY DEF Abandoned, CallType
<1>3. \A x \in HandlerType : Abandoned(x) \in HandlerType
  BY DEF Abandoned, HandlerType
<1> DEFINE next == (at[c] + 1) % N
<1>4. next \in Server
  BY NextServer DEF TypeInv, TypeOK, ClerkType
<1>a. <<c, opNo[c]>> \in ID
  BY <1>1, BoundAssumption, SMTT(30) DEF TypeInv, TypeOK, ClerkType, ID
<1>b. Call(<<c, opNo[c]>>, next) \in CallType
  BY <1>4, <1>a, CallIsCall
<1>c. \A x \in requests' : \/ x \in requests
                           \/ \E r \in requests : x = Abandoned(r)
                           \/ x = Call(<<c, opNo[c]>>, next)
  BY DEF CallFails, TryNext, ByClerk
<1>d. at' = [at EXCEPT ![c] = next]
  BY DEF CallFails, TryNext
<1> HIDE DEF next
<1>e. requests' \subseteq CallType
  BY <1>2, <1>b, <1>c DEF TypeInv, TypeOK, ServerType
<1>5. requests' \subseteq CallType /\ at' \in [Clerk -> Server]
  BY <1>4, <1>d, <1>e DEF TypeInv, TypeOK, ClerkType
<1>6. handlers' \subseteq HandlerType
  BY <1>3 DEF CallFails, ByClerk, TypeInv, TypeOK, ServerType
<1>7. RaftType' /\ LeaderInv'
  BY DEF CallFails, TypeInv, TypeOK, RaftType, LeaderInv, raftVars
<1>8. ServerType'
  BY <1>5, <1>6 DEF CallFails, TypeInv, TypeOK, ServerType, kvVars
<1>f. /\ faults < MaxFaults /\ faults' = faults + 1
      /\ reply' = [reply EXCEPT ![c] = NoReply]
      /\ UNCHANGED <<args, opNo, busy, prevLeader, returned>>
  BY DEF CallFails
<1>9. ClerkType'
  BY <1>5, <1>f, BoundAssumption, SMTT(30) DEF TypeInv, TypeOK, ClerkType
<1> QED BY <1>7, <1>8, <1>9 DEF TypeInv, TypeOK

\* A reply is a record, so the value returned is a string.
LEMMA ReceiveType ==
    ASSUME TypeInv, NEW c \in Clerk, Receive(c)
    PROVE  TypeInv'
<1>1. reply[c].value \in Seq(Value)
  BY DEF Receive, TypeInv, TypeOK, ClerkType, Record
<1>2. RaftType' /\ LeaderInv'
  BY DEF Receive, TypeInv, TypeOK, RaftType, ClerkType, LeaderInv, raftVars
<1>3. ServerType'
  BY DEF Receive, TypeInv, TypeOK, ServerType, kvVars
<1>4. ClerkType'
  BY <1>1 DEF Receive, TypeInv, TypeOK, ClerkType
<1> QED BY <1>2, <1>3, <1>4 DEF TypeInv, TypeOK

\* A handler that answers ErrWrongLeader.
LEMMA ReplyWrongLeaderType ==
    ASSUME Inv, NEW x \in requests \cup handlers, NEW left, left \subseteq CallType,
           ReplyWrongLeader(x, left)
    PROVE  requests' \subseteq CallType /\ at' \in [Clerk -> Server]
<1>1. x.id \in ID
  BY DEF Inv, TypeInv, TypeOK, ServerType, CallType, HandlerType
<1>2. x.id[1] \in Clerk
  BY <1>1 DEF ID
<1>3. CASE x.awaited
  <2>1. opNo[x.id[1]] # 0
    BY <1>2, <1>3, SMTT(30) DEF Inv, CallInv, TypeInv, LeaderInv
  <2> QED BY <1>2, <1>3, <2>1, TryNextType DEF ReplyWrongLeader, Inv
<1>4. CASE ~x.awaited
  BY <1>4 DEF ReplyWrongLeader, Inv, TypeInv, TypeOK, ClerkType
<1> QED BY <1>3, <1>4

\* A handler that answers from execRecord.
LEMMA ReplyRecordType ==
    ASSUME TypeInv, NEW x, x.id \in ID, NEW r \in Record, ReplyRecord(x, r)
    PROVE  reply' \in [Clerk -> Record \cup {NoReply}]
BY DEF ReplyRecord, TypeInv, TypeOK, ClerkType, ID

\* Get() and PutAppend() up to Start().
LEMMA EnterType ==
    ASSUME Inv, NEW x \in requests, Enter(x)
    PROVE  TypeInv'
<1> USE DEF Inv
<1>1. x \in CallType /\ x.id \in ID /\ x.server \in Server /\ x.awaited \in BOOLEAN
  BY DEF TypeInv, TypeOK, ServerType, CallType
<1>2. requests \ {x} \subseteq CallType
  BY DEF TypeInv, TypeOK, ServerType
<1>3. RaftType' /\ LeaderInv'
  BY DEF Enter, TypeInv, TypeOK, RaftType, LeaderInv, raftVars
<1>4. /\ requests' \subseteq CallType
      /\ at' \in [Clerk -> Server]
      /\ reply' \in [Clerk -> Record \cup {NoReply}]
      /\ handlers' \subseteq HandlerType
  <2>1. CASE ~leader[x.server]
    BY <1>2, <2>1, ReplyWrongLeaderType DEF Enter, TypeInv, TypeOK, ServerType, ClerkType
  <2>2. CASE leader[x.server] /\ execRecord[x.server][x.id] # NoRecord
    <3>1. execRecord[x.server][x.id] \in Record
      BY <1>1, <2>2 DEF TypeInv, TypeOK, ServerType
    <3>2. ReplyRecord(x, execRecord[x.server][x.id])
      BY <2>2 DEF Enter
    <3>3. reply' \in [Clerk -> Record \cup {NoReply}]
      BY <1>1, <3>1, <3>2, ReplyRecordType
    <3> QED BY <1>2, <2>2, <3>3 DEF Enter, TypeInv, TypeOK, ServerType, ClerkType
  <2>3. CASE leader[x.server] /\ execRecord[x.server][x.id] = NoRecord
    <3> DEFINE h == [id |-> x.id, server |-> x.server, awaited |-> x.awaited,
                     phase |-> "starting", term |-> term[x.server]]
    <3>1. h \in HandlerType
      BY <1>1, <2>3 DEF HandlerType, TypeInv, LeaderInv
    <3> HIDE DEF h
    <3>2. handlers' = handlers \cup {h} /\ requests' = requests \ {x} /\ UNCHANGED <<reply, at>>
      BY <2>3 DEF Enter, h
    <3> QED BY <1>2, <3>1, <3>2 DEF TypeInv, TypeOK, ServerType, ClerkType
  <2> QED BY <2>1, <2>2, <2>3
<1>5. ServerType'
  BY <1>4 DEF Enter, TypeInv, TypeOK, ServerType, kvVars
<1>6. ClerkType'
  BY <1>4 DEF Enter, TypeInv, TypeOK, ClerkType
<1> QED BY <1>3, <1>5, <1>6 DEF TypeInv, TypeOK

\* Start(): an entry is of a term that has a leader.
LEMMA StartOpType ==
    ASSUME Inv, NEW h \in handlers, StartOp(h)
    PROVE  TypeInv'
<1> USE DEF Inv
<1>1. h \in HandlerType /\ h.id \in ID /\ h.server \in Server
  BY DEF TypeInv, TypeOK, ServerType, HandlerType
<1>2. [h EXCEPT !.phase = "waiting"] \in HandlerType
  BY <1>1 DEF HandlerType
<1>3. handlers' \subseteq HandlerType
  BY <1>2 DEF StartOp, TypeInv, TypeOK, ServerType
<1>4. uncommitted' \in [ID \X (1..MaxTerm) -> Nat]
  <2>1. CASE leader[h.server]
    <3>1. <<h.id, term[h.server]>> \in ID \X (1..MaxTerm)
      BY <1>1, <2>1 DEF TypeInv, LeaderInv
    <3> QED BY <2>1, <3>1, SMTT(30) DEF StartOp, TypeInv, TypeOK, RaftType
  <2>2. CASE ~leader[h.server]
    BY <2>2 DEF StartOp, TypeInv, TypeOK, RaftType
  <2> QED BY <2>1, <2>2
<1>5. RaftType' /\ LeaderInv'
  BY <1>4 DEF StartOp, TypeInv, TypeOK, RaftType, LeaderInv, clerkVars
<1>6. ServerType'
  BY <1>3 DEF StartOp, TypeInv, TypeOK, ServerType, kvVars
<1>7. ClerkType'
  BY DEF StartOp, TypeInv, TypeOK, ClerkType, clerkVars
<1> QED BY <1>5, <1>6, <1>7 DEF TypeInv, TypeOK

\* A handler that wakes up.
LEMMA CheckType ==
    ASSUME Inv, NEW h \in handlers, Check(h)
    PROVE  TypeInv'
<1> USE DEF Inv
<1>1. h.id \in ID /\ h.server \in Server
  BY DEF TypeInv, TypeOK, ServerType, HandlerType
<1>2. requests \subseteq CallType
  BY DEF TypeInv, TypeOK, ServerType
<1>3. RaftType' /\ LeaderInv'
  BY DEF Check, TypeInv, TypeOK, RaftType, LeaderInv, raftVars
<1>4. /\ requests' \subseteq CallType
      /\ at' \in [Clerk -> Server]
      /\ reply' \in [Clerk -> Record \cup {NoReply}]
      /\ faults' \in 0..MaxFaults
  <2>1. CASE CheckEvicted(h)
    BY <1>2, <2>1, ReplyWrongLeaderType DEF CheckEvicted, TypeInv, TypeOK, ClerkType
  <2>2. CASE CheckApplied(h)
    <3>1. execRecord[h.server][h.id] \in Record
      BY <1>1, <2>2 DEF CheckApplied, TypeInv, TypeOK, ServerType
    <3>2. reply' \in [Clerk -> Record \cup {NoReply}]
      BY <1>1, <2>2, <3>1, ReplyRecordType DEF CheckApplied
    <3> QED BY <1>2, <2>2, <3>2 DEF CheckApplied, TypeInv, TypeOK, ClerkType
  <2>3. CASE CheckLast(h)
    <3>1. requests' \subseteq CallType /\ at' \in [Clerk -> Server]
      BY <1>2, <2>3, ReplyWrongLeaderType DEF CheckLast
    <3> QED BY <2>3, <3>1, BoundAssumption, SMTT(30) DEF CheckLast, TypeInv, TypeOK, ClerkType
  <2> QED BY <2>1, <2>2, <2>3 DEF Check
<1>5. ServerType'
  BY <1>4 DEF Check, TypeInv, TypeOK, ServerType, kvVars
<1>6. ClerkType'
  BY <1>4 DEF Check, TypeInv, TypeOK, ClerkType
<1> QED BY <1>3, <1>5, <1>6 DEF TypeInv, TypeOK

\* The apply loop: an entry of the log is of an ID whose operation is known.
LEMMA ApplyType ==
    ASSUME Inv, NEW s \in Server, readApplyChRoutine(s)
    PROVE  TypeInv'
<1> USE DEF Inv
<1> DEFINE id == log[applied[s] + 1]
           st == [db |-> db[s], execRecord |-> execRecord[s]]
           ex == Execute(args[id], id, st)
<1>1. applied[s] \in Nat /\ applied[s] + 1 \in 1..Len(log) /\ id \in ID
  BY SMTT(30) DEF readApplyChRoutine, TypeInv, TypeOK, RaftType, ServerType
<1>2. args[id] \in Op
  BY <1>1 DEF IssuedInv
<1>3. st \in StateType
  BY DEF TypeInv, TypeOK, ServerType, StateType
<1>4. ex \in StateType
  BY <1>1, <1>2, <1>3, ExecuteType
<1>5. /\ db' = [db EXCEPT ![s] = ex.db]
      /\ execRecord' = [execRecord EXCEPT ![s] = ex.execRecord]
      /\ applied' = [applied EXCEPT ![s] = @ + 1]
      /\ UNCHANGED <<requests, handlers>>
  BY DEF readApplyChRoutine
<1> HIDE DEF ex
<1>a. ex.db \in [Key -> Seq(Value) \cup {NoKey}] /\ ex.execRecord \in [ID -> Record \cup {NoRecord}]
  BY <1>4 DEF StateType
<1>6. ServerType'
  BY <1>1, <1>5, <1>a, SMTT(30) DEF TypeInv, TypeOK, ServerType
<1>7. RaftType' /\ ClerkType' /\ LeaderInv'
  BY DEF readApplyChRoutine, TypeInv, TypeOK, RaftType, ClerkType, LeaderInv, raftVars, clerkVars
<1> QED BY <1>6, <1>7 DEF TypeInv, TypeOK

\* A restart.
LEMMA StartKVServerType ==
    ASSUME Inv, NEW s \in Server, StartKVServer(s)
    PROVE  TypeInv'
<1> USE DEF Inv
<1> DEFINE lost == {c \in Clerk : \E x \in requests \cup handlers :
                        x.server = s /\ x.awaited /\ x.id[1] = c}
           next(c) == (at[c] + 1) % N
<1>1. \A c \in Clerk : next(c) \in Server
  BY NextServer DEF TypeInv, TypeOK, ClerkType
<1>2. \A c \in lost : <<c, opNo[c]>> \in ID
  <2>1. \A c \in lost : busy[c]
    BY DEF CallInv
  <2> QED BY <2>1 DEF TypeInv, LeaderInv, ID
<1>3. \A c \in lost : Call(<<c, opNo[c]>>, next(c)) \in CallType
  BY <1>1, <1>2, CallIsCall
<1>4. /\ requests' = {r \in requests : r.server # s} \cup {Call(<<c, opNo[c]>>, next(c)) : c \in lost}
      /\ at' = [c \in Clerk |-> IF c \in lost THEN next(c) ELSE at[c]]
  BY DEF StartKVServer
<1> HIDE DEF lost, next
<1>5. requests' \subseteq CallType
  BY <1>3, <1>4 DEF TypeInv, TypeOK, ServerType
<1>6. emptyDb \in [Key -> Seq(Value) \cup {NoKey}] /\ emptyRecord \in [ID -> Record \cup {NoRecord}]
  BY DEF emptyDb, emptyRecord
<1>7. ServerType'
  BY <1>5, <1>6 DEF StartKVServer, TypeInv, TypeOK, ServerType
<1>8. at' \in [Clerk -> Server]
  BY <1>1, <1>4 DEF TypeInv, TypeOK, ClerkType
<1>9. ClerkType'
  BY <1>8, BoundAssumption, SMTT(30) DEF StartKVServer, TypeInv, TypeOK, ClerkType
<1>10. RaftType' /\ LeaderInv'
  BY DEF StartKVServer, TypeInv, TypeOK, RaftType, LeaderInv
<1> QED BY <1>7, <1>9, <1>10 DEF TypeInv, TypeOK

\* An election, and the news of one.
LEMMA TermType ==
    ASSUME TypeInv, NEW s \in Server, Elect(s) \/ LearnTerm(s)
    PROVE  TypeInv'
<1>1. ServerType' /\ ClerkType'
  BY DEF Elect, LearnTerm, TypeInv, TypeOK, ServerType, ClerkType, kvVars, clerkVars
<1>2. CASE Elect(s)
  <2>1. PICK t \in 1..MaxTerm : term' = [term EXCEPT ![s] = t]
    BY <1>2 DEF Elect
  <2> QED BY <1>1, <1>2, <2>1, BoundAssumption, SMTT(30)
          DEF Elect, TypeInv, TypeOK, RaftType, LeaderInv, clerkVars
<1>3. CASE LearnTerm(s)
  <2>1. PICK q \in Server : term[q] > term[s] /\ term' = [term EXCEPT ![s] = term[q]]
    BY <1>3 DEF LearnTerm
  <2> QED BY <1>1, <1>3, <2>1 DEF LearnTerm, TypeInv, TypeOK, RaftType, LeaderInv, clerkVars
<1> QED BY <1>2, <1>3

\* An entry is committed.
LEMMA CommitType ==
    ASSUME Inv, NEW id \in ID, NEW t \in 1..MaxTerm, Commit(id, t)
    PROVE  /\ TypeInv'
           /\ args[id] \in Op
           /\ Len(states) \in 1..Len(states) /\ Current \in StateType
           /\ Len(states') = Len(states) + 1
           /\ \A k \in 1..Len(states) : states'[k] = states[k]
           /\ Current' = Execute(args[id], id, Current)
<1> USE DEF Inv
<1>1. args[id] \in Op
  BY DEF Commit, IssuedInv
<1>2. states \in Seq(StateType) /\ log \in Seq(ID) /\ Len(states) = Len(log) + 1
  BY DEF TypeInv, TypeOK, RaftType, HistoryInv
<1>3. Len(states) \in 1..Len(states) /\ Current \in StateType
  BY <1>2, SMTT(30) DEF Current
<1> DEFINE ex == Execute(args[id], id, Current)
<1>4. ex \in StateType
  BY <1>1, <1>3, ExecuteType
<1>5. states' = Append(states, ex) /\ log' = Append(log, id)
  BY DEF Commit, Current
<1> HIDE DEF ex
<1>6. /\ states' \in Seq(StateType) /\ log' \in Seq(ID)
      /\ Len(states') = Len(states) + 1
      /\ \A k \in 1..Len(states) : states'[k] = states[k]
      /\ states'[Len(states')] = ex
  BY <1>2, <1>4, <1>5, SMTT(30)
<1>7. uncommitted' \in [ID \X (1..MaxTerm) -> Nat]
  BY SMTT(30) DEF Commit, TypeInv, TypeOK, RaftType
<1>8. RaftType' /\ LeaderInv'
  BY <1>6, <1>7 DEF Commit, TypeInv, TypeOK, RaftType, LeaderInv, clerkVars
<1>9. ServerType' /\ ClerkType'
  BY DEF Commit, TypeInv, TypeOK, ServerType, ClerkType, kvVars, clerkVars
<1> QED BY <1>1, <1>3, <1>6, <1>8, <1>9 DEF TypeInv, TypeOK, Current, ex

-----------------------------------------------------------------------------
(* The log, the records and the calls *)

\* What a caller can observe changes in three actions only.
coreVars == <<args, opNo, busy, returned, log, states>>

\* A record found on any server, however far behind, is the one that counts.
LEMMA RecordIsCurrent ==
    ASSUME Inv, NEW s \in Server, NEW id \in ID, execRecord[s][id] # NoRecord
    PROVE  Current.execRecord[id] = execRecord[s][id]
<1>0. applied[s] \in Nat /\ Len(log) \in Nat /\ Len(states) = Len(log) + 1
  BY SMTT(30) DEF Inv, HistoryInv, TypeInv, TypeOK, RaftType, ServerType
<1>1. applied[s] <= Len(log) /\ states[applied[s] + 1] = [db |-> db[s], execRecord |-> execRecord[s]]
  BY DEF Inv, ReplicaInv
<1>2. applied[s] + 1 \in 1..Len(states) /\ states[applied[s] + 1].execRecord = execRecord[s]
  BY <1>0, <1>1, SMTT(30)
<1> QED BY <1>2 DEF Inv, HistoryInv

\* Get(), Put() and Append() begin.
LEMMA InvokeInv ==
    ASSUME Inv, NEW c \in Clerk, NEW op \in Op, Invoke(c, op)
    PROVE  Inv'
<1> USE DEF Inv
<1> DEFINE new == <<c, opNo[c] + 1>>
<1>1. TypeInv'
  BY InvokeType
<1>2. /\ ~busy[c] /\ opNo[c] \in 0..MaxOps
      /\ args' = [args EXCEPT ![new] = op]
      /\ requests' = requests \cup {Call(new, prevLeader[c])}
      /\ opNo' = [opNo EXCEPT ![c] = @ + 1]
      /\ busy' = [busy EXCEPT ![c] = TRUE]
      /\ UNCHANGED <<uncommitted, log, states, applied, db, execRecord, handlers, reply>>
  BY DEF Invoke, raftVars, kvVars, TypeInv, TypeOK, ClerkType
<1>3. new \in ID /\ new[1] = c /\ new[2] = opNo[c] + 1
  BY BoundAssumption, SMTT(30) DEF Invoke, TypeInv, TypeOK, ClerkType, ID
<1>4. Call(new, prevLeader[c]).id = new /\ Call(new, prevLeader[c]).awaited
  BY DEF Call
<1> HIDE DEF new
<1>5. \A id \in ID : /\ id[1] \in Clerk /\ id[2] \in 1..MaxOps /\ id = <<id[1], id[2]>>
                     /\ opNo[id[1]] \in Nat
  BY SMTT(30) DEF ID, TypeInv, TypeOK, ClerkType
<1>6. \A id \in ID : Issued(id) => id # new
  BY <1>2, <1>3, <1>5, SMTT(30) DEF Issued
<1>7. \A id \in ID : Issued(id)' <=> Issued(id) \/ id = new
  <2> SUFFICES ASSUME NEW id \in ID PROVE Issued(id)' <=> Issued(id) \/ id = new
    OBVIOUS
  <2>1. CASE id[1] = c
    BY <1>2, <1>3, <1>5, <2>1, SMTT(30) DEF Issued, new, TypeInv, TypeOK, ClerkType
  <2>2. CASE id[1] # c
    BY <1>2, <1>3, <1>5, <2>2 DEF Issued, TypeInv, TypeOK, ClerkType
  <2> QED BY <2>1, <2>2
<1>8. Current' = Current /\ Current.execRecord[new] = NoRecord
  BY <1>2, <1>3, <1>5, SMTT(30) DEF Current, IssuedInv, Issued
<1>9. IssuedInv'
  <2>1. \A id \in ID : Issued(id)' => args'[id] \in Op
    BY <1>2, <1>3, <1>7 DEF IssuedInv, TypeInv, TypeOK, ClerkType
  <2>2. \A id \in ID : ~Issued(id)' => Current'.execRecord[id] = NoRecord
    BY <1>7, <1>8 DEF IssuedInv
  <2>3. \A x \in requests' : Issued(x.id)'
    BY <1>2, <1>3, <1>4, <1>7 DEF IssuedInv, TypeInv, TypeOK, ServerType, CallType
  <2>4. \A h \in handlers' : Issued(h.id)'
    BY <1>2, <1>7 DEF IssuedInv, TypeInv, TypeOK, ServerType, HandlerType
  <2>5. \A id \in ID, t \in 1..MaxTerm : uncommitted'[<<id, t>>] > 0 => Issued(id)'
    BY <1>2, <1>7 DEF IssuedInv
  <2>6. (\A k \in 1..Len(log) : Issued(log[k]))'
    <3>1. \A k \in 1..Len(log) : log[k] \in ID /\ Issued(log[k])
      BY SMTT(30) DEF IssuedInv, TypeInv, TypeOK, RaftType
    <3>2. \A k \in 1..Len(log) : opNo'[log[k][1]] >= opNo[log[k][1]]
      BY <1>2, <1>5, <3>1, SMTT(30) DEF TypeInv, TypeOK, ClerkType
    <3>3. \A k \in 1..Len(log) : log[k][2] <= opNo'[log[k][1]]
      BY <1>1, <1>5, <3>1, <3>2, SMTT(30) DEF Issued, TypeInv, TypeOK, ClerkType
    <3> QED BY <1>2, <3>3 DEF Issued
  <2> QED BY <2>1, <2>2, <2>3, <2>4, <2>5, <2>6 DEF IssuedInv
<1>10. HistoryInv'
  <2>1. \A k \in 1..Len(log) : args'[log[k]] = args[log[k]]
    BY <1>2, <1>3, <1>6, SMTT(30) DEF IssuedInv, TypeInv, TypeOK, RaftType, ClerkType
  <2> QED BY <1>2, <1>8, <2>1 DEF HistoryInv
<1>11. ReplicaInv'
  BY <1>2 DEF ReplicaInv
<1>12. FinishedInv'
  <2> SUFFICES ASSUME NEW id \in ID,
                      id[2] < opNo'[id[1]] \/ (id[2] = opNo'[id[1]] /\ ~busy'[id[1]])
               PROVE  Current'.execRecord[id] # NoRecord
    BY DEF FinishedInv
  <2>1. CASE id[1] = c
    BY <1>2, <1>5, <1>8, <2>1, SMTT(30) DEF FinishedInv, TypeInv, TypeOK, ClerkType
  <2>2. CASE id[1] # c
    BY <1>2, <1>5, <1>8, <2>2 DEF FinishedInv, TypeInv, TypeOK, ClerkType
  <2> QED BY <2>1, <2>2
<1>13. CallInv'
  <2>1. reply[c] = NoReply
    BY <1>2 DEF CallInv
  <2>2. \A x \in requests \cup handlers : x.id \in ID /\ (x.awaited => x.id[1] # c)
    BY <1>2 DEF CallInv, TypeInv, TypeOK, ServerType, CallType, HandlerType
  <2>3. \A x \in requests' \cup handlers' :
            x.awaited => busy'[x.id[1]] /\ x.id[2] = opNo'[x.id[1]] /\ reply'[x.id[1]] = NoReply
    BY <1>2, <1>3, <1>4, <1>5, <2>1, <2>2, SMTT(30) DEF CallInv, TypeInv, TypeOK, ClerkType
  <2>4. /\ \A x, y \in requests' : x.awaited /\ y.awaited /\ x.id[1] = y.id[1] => x = y
        /\ \A x, y \in handlers' : x.awaited /\ y.awaited /\ x.id[1] = y.id[1] => x = y
        /\ \A x \in requests', y \in handlers' : ~(x.awaited /\ y.awaited /\ x.id[1] = y.id[1])
    BY <1>2, <1>3, <1>4, <2>2, SMTT(30) DEF CallInv
  <2>5. \A d \in Clerk : reply'[d] # NoReply =>
            busy'[d] /\ reply'[d] = Current'.execRecord[<<d, opNo'[d]>>]
    BY <1>2, <1>8, <2>1 DEF CallInv, TypeInv, TypeOK, ClerkType
  <2> QED BY <2>3, <2>4, <2>5 DEF CallInv
<1> QED BY <1>1, <1>9, <1>10, <1>11, <1>12, <1>13

\* An operation returns what its record holds.
LEMMA ReceiveInv ==
    ASSUME Inv, NEW c \in Clerk, Receive(c)
    PROVE  Inv'
<1> USE DEF Inv
<1>1. TypeInv'
  BY ReceiveType
<1>2. /\ reply[c] # NoReply
      /\ busy' = [busy EXCEPT ![c] = FALSE]
      /\ reply' = [reply EXCEPT ![c] = NoReply]
      /\ UNCHANGED <<uncommitted, log, states, applied, db, execRecord, args, requests, handlers, opNo>>
  BY DEF Receive, raftVars, kvVars
<1>3. busy[c] /\ reply[c] = Current.execRecord[<<c, opNo[c]>>] /\ reply[c] \in Record
  BY <1>2 DEF CallInv, TypeInv, TypeOK, ClerkType
<1>4. Current' = Current /\ Current.execRecord[<<c, opNo[c]>>] # NoRecord
  BY <1>2, <1>3, NoRecordAssumption DEF Current
<1>5. IssuedInv' /\ HistoryInv' /\ ReplicaInv'
  BY <1>2, <1>4 DEF IssuedInv, Issued, HistoryInv, ReplicaInv
<1>6. FinishedInv'
  <2>1. \A id \in ID : id[1] \in Clerk /\ id = <<id[1], id[2]>>
    BY SMTT(30) DEF ID
  <2> QED BY <1>2, <1>4, <2>1 DEF FinishedInv, TypeInv, TypeOK, ClerkType
<1>7. CallInv'
  <2>1. \A x \in requests \cup handlers : x.id[1] \in Clerk /\ (x.awaited => x.id[1] # c)
    BY <1>2 DEF CallInv, TypeInv, TypeOK, ServerType, CallType, HandlerType, ID
  <2>2. \A d \in Clerk : d # c => busy'[d] = busy[d] /\ reply'[d] = reply[d]
    BY <1>2 DEF TypeInv, TypeOK, ClerkType
  <2>3. reply'[c] = NoReply
    BY <1>2 DEF TypeInv, TypeOK, ClerkType
  <2> QED BY <1>2, <1>4, <2>1, <2>2, <2>3, SMTT(30) DEF CallInv
<1> QED BY <1>1, <1>5, <1>6, <1>7

\* The log grows by an entry: the operation takes effect, or it already had.
LEMMA CommitInv ==
    ASSUME Inv, NEW id \in ID, NEW t \in 1..MaxTerm, Commit(id, t)
    PROVE  Inv'
<1> USE DEF Inv
<1>1. /\ TypeInv'
      /\ args[id] \in Op
      /\ Len(states) \in 1..Len(states) /\ Current \in StateType
      /\ Len(states') = Len(states) + 1
      /\ \A k \in 1..Len(states) : states'[k] = states[k]
      /\ Current' = Execute(args[id], id, Current)
  BY CommitType
<1>2. /\ uncommitted[<<id, t>>] > 0
      /\ uncommitted' = [uncommitted EXCEPT ![<<id, t>>] = @ - 1]
      /\ log' = Append(log, id)
      /\ UNCHANGED <<applied, db, execRecord, args, requests, handlers, opNo, busy, reply>>
  BY DEF Commit, kvVars, clerkVars
<1>3. /\ log \in Seq(ID) /\ Len(log) \in Nat /\ Len(states) = Len(log) + 1
      /\ Len(log') = Len(log) + 1
      /\ \A k \in 1..Len(log) : log'[k] = log[k] /\ log[k] \in ID
      /\ log'[Len(log) + 1] = id
  BY <1>2, SMTT(30) DEF TypeInv, TypeOK, RaftType, HistoryInv
<1>4. Issued(id)
  BY <1>2 DEF IssuedInv
<1>5. \A x \in ID : /\ Current.execRecord[x] # NoRecord => Current'.execRecord[x] = Current.execRecord[x]
                    /\ x # id => Current'.execRecord[x] = Current.execRecord[x]
  BY <1>1, ExecuteRecords, SMTT(30)
<1>6. IssuedInv'
  <2>1. \A x \in ID : Issued(x)' <=> Issued(x)
    BY <1>2 DEF Issued
  <2>2. \A x \in ID : ~Issued(x) => Current'.execRecord[x] = NoRecord
    BY <1>4, <1>5 DEF IssuedInv
  <2>3. \A x \in ID, u \in 1..MaxTerm : uncommitted'[<<x, u>>] > 0 => uncommitted[<<x, u>>] > 0
    BY <1>2 DEF TypeInv, TypeOK, RaftType
  <2>4. (\A k \in 1..Len(log) : Issued(log[k]))'
    <3>1. \A k \in 1..Len(log) : log[k][2] <= opNo[log[k][1]]
      BY DEF IssuedInv, Issued
    <3>2. \A k \in 1..Len(log') : log'[k][2] <= opNo[log'[k][1]]
      BY <1>3, <1>4, <3>1, SMTT(30) DEF Issued
    <3> QED BY <1>2, <3>2 DEF Issued
  <2>5. (\A x \in requests : Issued(x.id))' /\ (\A h \in handlers : Issued(h.id))'
    BY <1>2 DEF IssuedInv, Issued
  <2>6. (\A x \in ID : Issued(x) => args[x] \in Op)'
    BY <1>2, <2>1 DEF IssuedInv
  <2> QED BY <2>1, <2>2, <2>3, <2>4, <2>5, <2>6 DEF IssuedInv
<1>7. HistoryInv'
  <2>1. states'[Len(states) + 1] = Execute(args[id], id, states[Len(states)])
    BY <1>1 DEF Current
  <2>2. \A k \in 1..Len(log') : states'[k + 1] = Execute(args'[log'[k]], log'[k], states'[k])
    <3> SUFFICES ASSUME NEW k \in 1..Len(log')
                 PROVE  states'[k + 1] = Execute(args'[log'[k]], log'[k], states'[k])
      OBVIOUS
    <3>1. CASE k \in 1..Len(log)
      <4>1. k \in 1..Len(states) /\ k + 1 \in 1..Len(states)
        BY <1>3, <3>1, SMTT(30)
      <4>2. states[k + 1] = Execute(args[log[k]], log[k], states[k])
        BY <3>1 DEF HistoryInv
      <4> QED BY <1>1, <1>2, <1>3, <3>1, <4>1, <4>2
    <3>2. CASE k = Len(log) + 1
      BY <1>1, <1>2, <1>3, <2>1, <3>2
    <3> QED BY <1>3, <3>1, <3>2, SMTT(30)
  <2>3. \A k \in 1..Len(states'), x \in ID :
            states'[k].execRecord[x] # NoRecord => Current'.execRecord[x] = states'[k].execRecord[x]
    <3>1. \A k \in 1..Len(states), x \in ID :
            states[k].execRecord[x] # NoRecord => Current.execRecord[x] = states[k].execRecord[x]
      BY DEF HistoryInv
    <3>2. states'[Len(states')] = Current'
      BY DEF Current
    <3>3. \A k \in 1..Len(states') : k \in 1..Len(states) \/ k = Len(states')
      BY <1>1, <1>3, SMTT(30)
    <3> QED BY <1>1, <1>5, <3>1, <3>2, <3>3, SMTT(30)
  <2>4. states'[1] = states[1]
    BY <1>1, <1>3, SMTT(30)
  <2> QED BY <1>1, <1>3, <2>2, <2>3, <2>4 DEF HistoryInv
<1>8. ReplicaInv'
  <2> SUFFICES ASSUME NEW s \in Server
               PROVE  /\ applied'[s] <= Len(log')
                      /\ states'[applied'[s] + 1] = [db |-> db'[s], execRecord |-> execRecord'[s]]
    BY DEF ReplicaInv
  <2>0. applied[s] \in Nat
    BY DEF TypeInv, TypeOK, ServerType
  <2>a. applied[s] <= Len(log)
    BY DEF ReplicaInv
  <2>1. applied[s] <= Len(log) /\ applied[s] + 1 \in 1..Len(states)
    BY <1>3, <2>0, <2>a, SMTT(30)
  <2>2. states'[applied[s] + 1] = states[applied[s] + 1]
    BY <1>1, <2>1
  <2>3. states[applied[s] + 1] = [db |-> db[s], execRecord |-> execRecord[s]]
    BY DEF ReplicaInv
  <2>4. applied'[s] = applied[s] /\ db'[s] = db[s] /\ execRecord'[s] = execRecord[s]
    BY <1>2
  <2>5. applied[s] <= Len(log')
    BY <1>3, <2>0, <2>1, SMTT(30)
  <2> QED BY <2>2, <2>3, <2>4, <2>5
<1>9. FinishedInv'
  BY <1>2, <1>5 DEF FinishedInv
<1>10. CallInv'
  <2>1. \A c \in Clerk : reply[c] # NoReply => reply[c] = Current'.execRecord[<<c, opNo[c]>>]
    <3> SUFFICES ASSUME NEW c \in Clerk, reply[c] # NoReply
                 PROVE  reply[c] = Current'.execRecord[<<c, opNo[c]>>]
      OBVIOUS
    <3>1. busy[c] /\ reply[c] = Current.execRecord[<<c, opNo[c]>>] /\ reply[c] \in Record
      BY DEF CallInv, TypeInv, TypeOK, ClerkType
    <3>2. <<c, opNo[c]>> \in ID /\ Current.execRecord[<<c, opNo[c]>>] # NoRecord
      BY <3>1, NoRecordAssumption DEF TypeInv, LeaderInv, ID
    <3> QED BY <1>5, <3>1, <3>2
  <2> QED BY <1>2, <2>1 DEF CallInv
<1> QED BY <1>1, <1>6, <1>7, <1>8, <1>9, <1>10

-----------------------------------------------------------------------------
(* Steps that no caller observes *)

\* What an action that no caller observes has to keep.
LEMMA QuietStep ==
    ASSUME Inv, UNCHANGED coreVars, TypeInv', ReplicaInv', CallInv',
           \A x \in requests' : Issued(x.id),
           \A h \in handlers' : Issued(h.id),
           \A id \in ID, t \in 1..MaxTerm : uncommitted'[<<id, t>>] > 0 => Issued(id)
    PROVE  Inv'
<1>1. Current' = Current /\ \A id : Issued(id)' <=> Issued(id)
  BY DEF coreVars, Current, Issued
<1>2. HistoryInv' /\ FinishedInv'
  BY <1>1 DEF coreVars, Inv, HistoryInv, FinishedInv
<1>3. (\A k \in 1..Len(log) : Issued(log[k]))'
  BY DEF coreVars, Inv, IssuedInv, Issued
<1>4. (\A id \in ID : Issued(id) => args[id] \in Op)'
      /\ (\A id \in ID : ~Issued(id) => Current.execRecord[id] = NoRecord)'
  BY <1>1 DEF coreVars, Inv, IssuedInv
<1>5. (\A x \in requests : Issued(x.id))' /\ (\A h \in handlers : Issued(h.id))'
  BY <1>1
<1>6. IssuedInv'
  BY <1>1, <1>3, <1>4, <1>5 DEF IssuedInv
<1> QED BY <1>2, <1>6 DEF Inv

\* Some clerks turn to their next server; every other call stays as it is.
LEMMA ClerksTurn ==
    ASSUME Inv, UNCHANGED coreVars, NEW moved \in SUBSET Clerk,
           \A c \in moved : busy[c] /\ reply'[c] = NoReply,
           \A c \in Clerk \ moved : reply'[c] = reply[c],
           \A x \in requests' : x.awaited =>
                \/ x \in requests /\ x.id[1] \notin moved
                \/ \E c \in moved : x = Call(<<c, opNo[c]>>, at'[c]),
           \A h \in handlers' : h.awaited => h \in handlers /\ h.id[1] \notin moved
    PROVE  CallInv'
<1>1. Current' = Current /\ busy' = busy /\ opNo' = opNo
  BY DEF coreVars, Current
<1>2. \A x \in requests \cup handlers : x.id[1] \in Clerk
  BY DEF Inv, TypeInv, TypeOK, ServerType, CallType, HandlerType, ID
<1> DEFINE call(c) == Call(<<c, opNo[c]>>, at'[c])
<1>3. \A c \in moved : call(c).id[1] = c /\ call(c).id[2] = opNo[c]
  BY DEF Call
<1> HIDE DEF call
<1>a. \A x \in requests' : x.awaited =>
        \/ x \in requests /\ x.id[1] \notin moved
        \/ x.id[1] \in moved /\ x.id[2] = opNo[x.id[1]] /\ x = call(x.id[1])
  <2> SUFFICES ASSUME NEW x \in requests', x.awaited, ~(x \in requests /\ x.id[1] \notin moved)
               PROVE  x.id[1] \in moved /\ x.id[2] = opNo[x.id[1]] /\ x = call(x.id[1])
    OBVIOUS
  <2>1. PICK c \in moved : x = call(c)
    BY DEF call
  <2> QED BY <1>3, <2>1
<1>4. \A x \in requests' \cup handlers' :
        x.awaited => busy[x.id[1]] /\ x.id[2] = opNo[x.id[1]] /\ reply'[x.id[1]] = NoReply
  <2>1. \A x \in requests' : x.awaited =>
            busy[x.id[1]] /\ x.id[2] = opNo[x.id[1]] /\ reply'[x.id[1]] = NoReply
    BY <1>2, <1>a DEF Inv, CallInv
  <2>2. \A x \in handlers' : x.awaited =>
            busy[x.id[1]] /\ x.id[2] = opNo[x.id[1]] /\ reply'[x.id[1]] = NoReply
    BY <1>2 DEF Inv, CallInv
  <2> QED BY <2>1, <2>2
<1>5. \A x, y \in requests' : x.awaited /\ y.awaited /\ x.id[1] = y.id[1] => x = y
  BY <1>a, SMTT(30) DEF Inv, CallInv
<1>6. \A x, y \in handlers' : x.awaited /\ y.awaited /\ x.id[1] = y.id[1] => x = y
  BY DEF Inv, CallInv
<1>7. \A x \in requests', y \in handlers' : ~(x.awaited /\ y.awaited /\ x.id[1] = y.id[1])
  BY <1>a DEF Inv, CallInv
<1>8. \A c \in Clerk : reply'[c] # NoReply => busy[c] /\ reply'[c] = Current.execRecord[<<c, opNo[c]>>]
  BY DEF Inv, CallInv
<1> QED BY <1>1, <1>4, <1>5, <1>6, <1>7, <1>8 DEF CallInv

\* The awaited call x ends with an answer from execRecord of server s.
LEMMA ClerkAnswered ==
    ASSUME Inv, UNCHANGED coreVars, NEW x \in requests \cup handlers, NEW s \in Server,
           execRecord[s][x.id] # NoRecord, ReplyRecord(x, execRecord[s][x.id]),
           requests' = requests \ {x}, handlers' = handlers \ {x}
    PROVE  CallInv'
<1>1. Current' = Current /\ busy' = busy /\ opNo' = opNo
  BY DEF coreVars, Current
<1>2. x.id \in ID /\ x.id[1] \in Clerk /\ x.id = <<x.id[1], x.id[2]>>
  BY SMTT(30) DEF Inv, TypeInv, TypeOK, ServerType, CallType, HandlerType, ID
<1>3. Current.execRecord[x.id] = execRecord[s][x.id]
  BY <1>2, RecordIsCurrent
<1>4. CASE x.awaited
  <2>1. reply' = [reply EXCEPT ![x.id[1]] = execRecord[s][x.id]]
    BY <1>4 DEF ReplyRecord
  <2>2. busy[x.id[1]] /\ x.id = <<x.id[1], opNo[x.id[1]]>>
    BY <1>2, <1>4 DEF Inv, CallInv
  <2>3. \A c \in Clerk : reply'[c] # NoReply => busy[c] /\ reply'[c] = Current.execRecord[<<c, opNo[c]>>]
    BY <1>2, <1>3, <2>1, <2>2 DEF Inv, CallInv, TypeInv, TypeOK, ClerkType
  <2>4. \A y \in requests' \cup handlers' : y.awaited => y.id[1] \in Clerk /\ y.id[1] # x.id[1]
    <3>1. \A y \in requests \cup handlers : y.id[1] \in Clerk
      BY DEF Inv, TypeInv, TypeOK, ServerType, CallType, HandlerType, ID
    <3> QED BY <1>4, <3>1 DEF Inv, CallInv
  <2>5. \A y \in requests' \cup handlers' : y.awaited => reply'[y.id[1]] = NoReply
    BY <2>1, <2>4 DEF Inv, CallInv, TypeInv, TypeOK, ClerkType
  <2> QED BY <1>1, <2>3, <2>5 DEF Inv, CallInv
<1>5. CASE ~x.awaited
  <2>1. reply' = reply
    BY <1>5 DEF ReplyRecord
  <2> QED BY <1>1, <2>1 DEF Inv, CallInv
<1> QED BY <1>4, <1>5

\* A call of the present operation is of an issued ID.
LEMMA PresentIssued ==
    ASSUME Inv, NEW c \in Clerk, NEW s
    PROVE  Issued(Call(<<c, opNo[c]>>, s).id)
BY SMTT(30) DEF Call, Issued, Inv, TypeInv, TypeOK, ClerkType

\* Call() returns false.
LEMMA CallFailsInv ==
    ASSUME Inv, NEW c \in Clerk, CallFails(c)
    PROVE  Inv'
<1>1. TypeInv' /\ UNCHANGED coreVars /\ UNCHANGED <<uncommitted, applied, db, execRecord>>
  BY CallFailsType DEF CallFails, coreVars, raftVars, kvVars
<1>2. ReplicaInv'
  BY <1>1 DEF coreVars, Inv, ReplicaInv
<1>3. busy[c] /\ reply' = [reply EXCEPT ![c] = NoReply] /\ at' = [at EXCEPT ![c] = (at[c] + 1) % N]
  BY DEF CallFails, TryNext
<1>4. reply'[c] = NoReply /\ (\A d \in Clerk \ {c} : reply'[d] = reply[d]) /\ at'[c] = (at[c] + 1) % N
  BY <1>3 DEF Inv, TypeInv, TypeOK, ClerkType
<1>5. \A x : Abandoned(x) = [x EXCEPT !.awaited = FALSE]
  BY DEF Abandoned
<1>6. \A x \in requests \cup handlers : Abandoned(x).id = x.id /\ ~Abandoned(x).awaited
  BY DEF Abandoned, Inv, TypeInv, TypeOK, ServerType, CallType, HandlerType
<1>7. \A x \in requests' : \/ x \in requests /\ ~(x.awaited /\ x.id[1] = c)
                           \/ \E r \in requests : x = Abandoned(r)
                           \/ x = Call(<<c, opNo[c]>>, (at[c] + 1) % N)
  BY SMTT(30) DEF CallFails, TryNext, ByClerk
<1>8. \A h \in handlers' : \/ h \in handlers /\ ~(h.awaited /\ h.id[1] = c)
                           \/ \E r \in handlers : h = Abandoned(r)
  BY DEF CallFails, ByClerk
<1>9. \A x \in requests' : x.awaited =>
         \/ x \in requests /\ x.id[1] # c
         \/ x = Call(<<c, opNo[c]>>, at'[c])
  BY <1>4, <1>6, <1>7
<1>10. \A h \in handlers' : h.awaited => h \in handlers /\ h.id[1] # c
  BY <1>6, <1>8
<1>11. CallInv'
  <2>1. \A y \in requests' : y.awaited =>
            \/ y \in requests /\ y.id[1] \notin {c}
            \/ \E d \in {c} : y = Call(<<d, opNo[d]>>, at'[d])
    BY <1>9
  <2>2. \A h \in handlers' : h.awaited => h \in handlers /\ h.id[1] \notin {c}
    BY <1>10
  <2>3. /\ {c} \in SUBSET Clerk
        /\ \A d \in {c} : busy[d] /\ reply'[d] = NoReply
        /\ \A d \in Clerk \ {c} : reply'[d] = reply[d]
    BY <1>3, <1>4
  <2> QED BY <1>1, <2>1, <2>2, <2>3, ClerksTurn
<1>12. (\A x \in requests' : Issued(x.id)) /\ (\A h \in handlers' : Issued(h.id))
  BY <1>6, <1>7, <1>8, PresentIssued DEF Inv, IssuedInv
<1>13. \A id \in ID, t \in 1..MaxTerm : uncommitted'[<<id, t>>] > 0 => Issued(id)
  BY <1>1 DEF Inv, IssuedInv
<1> QED BY <1>1, <1>2, <1>11, <1>12, <1>13, QuietStep

\* A call ends with ErrWrongLeader; it is removed from the requests or handlers.
LEMMA WrongLeaderCalls ==
    ASSUME Inv, UNCHANGED coreVars, NEW x \in requests \cup handlers,
           ReplyWrongLeader(x, requests \ {x}), handlers' = handlers \ {x}, reply' = reply
    PROVE  /\ CallInv'
           /\ \A y \in requests' : Issued(y.id)
           /\ \A y \in handlers' : Issued(y.id)
<1> DEFINE c == x.id[1]
<1>1. c \in Clerk
  BY DEF Inv, TypeInv, TypeOK, ServerType, CallType, HandlerType, ID
<1>2. CASE x.awaited
  <2>1. /\ requests' = (requests \ {x}) \cup {Call(<<c, opNo[c]>>, (at[c] + 1) % N)}
        /\ at' = [at EXCEPT ![c] = (at[c] + 1) % N]
    BY <1>2 DEF ReplyWrongLeader, TryNext
  <2>2. busy[c] /\ reply[c] = NoReply
    BY <1>2 DEF Inv, CallInv
  <2>3. at'[c] = (at[c] + 1) % N
    BY <1>1, <2>1 DEF Inv, TypeInv, TypeOK, ClerkType
  <2>4. \A y \in (requests \cup handlers) \ {x} : y.awaited => y.id[1] # c
    BY <1>2 DEF Inv, CallInv
  <2>5. CallInv'
    <3>1. \A y \in requests' : y.awaited =>
            \/ y \in requests /\ y.id[1] \notin {c}
            \/ \E d \in {c} : y = Call(<<d, opNo[d]>>, at'[d])
      BY <2>1, <2>3, <2>4
    <3>2. \A h \in handlers' : h.awaited => h \in handlers /\ h.id[1] \notin {c}
      BY <2>4
    <3> QED BY <1>1, <2>2, <3>1, <3>2, ClerksTurn
  <2>6. \A y \in requests' : Issued(y.id)
    BY <1>1, <2>1, PresentIssued DEF Inv, IssuedInv
  <2> QED BY <2>5, <2>6 DEF Inv, IssuedInv
<1>3. CASE ~x.awaited
  <2>1. requests' = requests \ {x}
    BY <1>3 DEF ReplyWrongLeader
  <2>2. CallInv'
    <3>1. Current' = Current /\ busy' = busy /\ opNo' = opNo
      BY DEF coreVars, Current
    <3> QED BY <2>1, <3>1 DEF Inv, CallInv
  <2> QED BY <2>1, <2>2 DEF Inv, IssuedInv
<1> QED BY <1>2, <1>3

\* A request is not a handler.
LEMMA RequestNotHandler ==
    ASSUME Inv, NEW x \in requests, NEW h \in handlers
    PROVE  x # h
<1>1. x \in CallType /\ h \in HandlerType
  BY DEF Inv, TypeInv, TypeOK, ServerType
<1>2. "phase" \notin DOMAIN x /\ "phase" \in DOMAIN h
  BY <1>1 DEF CallType, HandlerType
<1> QED BY <1>2

\* Get() and PutAppend() up to Start().
LEMMA EnterInv ==
    ASSUME Inv, NEW x \in requests, Enter(x)
    PROVE  Inv'
<1>1. TypeInv' /\ UNCHANGED coreVars /\ UNCHANGED <<uncommitted, applied, db, execRecord>>
  BY EnterType DEF Enter, coreVars, raftVars, kvVars
<1>2. ReplicaInv'
  BY <1>1 DEF coreVars, Inv, ReplicaInv
<1>3. \A id \in ID, t \in 1..MaxTerm : uncommitted'[<<id, t>>] > 0 => Issued(id)
  BY <1>1 DEF Inv, IssuedInv
<1>4. x.server \in Server /\ x.id \in ID
  BY DEF Inv, TypeInv, TypeOK, ServerType, CallType
<1>5. handlers \ {x} = handlers
  BY RequestNotHandler
<1>6. /\ CallInv'
      /\ \A y \in requests' : Issued(y.id)
      /\ \A y \in handlers' : Issued(y.id)
  <2>1. CASE ~leader[x.server]
    <3>1. ReplyWrongLeader(x, requests \ {x}) /\ handlers' = handlers \ {x} /\ reply' = reply
      BY <1>5, <2>1 DEF Enter
    <3> QED BY <1>1, <3>1, WrongLeaderCalls
  <2>2. CASE leader[x.server] /\ execRecord[x.server][x.id] # NoRecord
    <3>1. /\ ReplyRecord(x, execRecord[x.server][x.id])
          /\ requests' = requests \ {x} /\ handlers' = handlers \ {x}
      BY <1>5, <2>2 DEF Enter
    <3>2. CallInv'
      BY <1>1, <1>4, <2>2, <3>1, ClerkAnswered
    <3> QED BY <3>1, <3>2 DEF Inv, IssuedInv
  <2>3. CASE leader[x.server] /\ execRecord[x.server][x.id] = NoRecord
    <3> DEFINE h == [id |-> x.id, server |-> x.server, awaited |-> x.awaited,
                     phase |-> "starting", term |-> term[x.server]]
    <3>1. handlers' = handlers \cup {h} /\ requests' = requests \ {x} /\ reply' = reply
      BY <2>3 DEF Enter
    <3>2. h.id = x.id /\ h.awaited = x.awaited
      OBVIOUS
    <3> HIDE DEF h
    <3>3. Current' = Current /\ busy' = busy /\ opNo' = opNo
      BY <1>1 DEF coreVars, Current
    <3>4. CallInv'
      <4>0. CallInv
        BY DEF Inv
      <4>1. \A y \in requests' \cup handlers' :
              y.awaited => busy'[y.id[1]] /\ y.id[2] = opNo'[y.id[1]] /\ reply'[y.id[1]] = NoReply
        BY <3>1, <3>2, <3>3, <4>0, SMTT(30) DEF CallInv
      <4>2. \A y, z \in requests' : y.awaited /\ z.awaited /\ y.id[1] = z.id[1] => y = z
        BY <3>1, <3>2, <3>3, <4>0 DEF CallInv
      <4>3. \A y, z \in handlers' : y.awaited /\ z.awaited /\ y.id[1] = z.id[1] => y = z
        BY <3>1, <3>2, <3>3, <4>0, SMTT(30) DEF CallInv
      <4>4. \A y \in requests', z \in handlers' : ~(y.awaited /\ z.awaited /\ y.id[1] = z.id[1])
        BY <3>1, <3>2, <3>3, <4>0, SMTT(30) DEF CallInv
      <4>5. \A c \in Clerk : reply'[c] # NoReply =>
              busy'[c] /\ reply'[c] = Current'.execRecord[<<c, opNo'[c]>>]
        BY <3>1, <3>2, <3>3, <4>0 DEF CallInv
      <4> QED BY <4>1, <4>2, <4>3, <4>4, <4>5 DEF CallInv
    <3> QED BY <3>1, <3>2, <3>4 DEF Inv, IssuedInv
  <2> QED BY <2>1, <2>2, <2>3
<1> QED BY <1>1, <1>2, <1>3, <1>6, QuietStep

\* Start().
LEMMA StartOpInv ==
    ASSUME Inv, NEW h \in handlers, StartOp(h)
    PROVE  Inv'
<1>1. TypeInv' /\ UNCHANGED coreVars /\ UNCHANGED <<applied, db, execRecord, requests, reply>>
  BY StartOpType DEF StartOp, coreVars, kvVars, clerkVars
<1>2. ReplicaInv'
  BY <1>1 DEF coreVars, Inv, ReplicaInv
<1>3. h.id \in ID /\ h.server \in Server /\ Issued(h.id) /\ h \in HandlerType
  BY DEF Inv, TypeInv, TypeOK, ServerType, HandlerType, IssuedInv
<1>4. \A id \in ID, t \in 1..MaxTerm : uncommitted'[<<id, t>>] > 0 => Issued(id)
  <2>1. \A id \in ID, t \in 1..MaxTerm : id # h.id => uncommitted'[<<id, t>>] = uncommitted[<<id, t>>]
    BY <1>3 DEF StartOp, Inv, TypeInv, TypeOK, RaftType
  <2> QED BY <1>3, <2>1 DEF Inv, IssuedInv
<1> DEFINE g == [h EXCEPT !.phase = "waiting"]
<1>5. g.id = h.id /\ g.awaited = h.awaited
  BY <1>3 DEF HandlerType
<1>6. \A y \in handlers' : y \in handlers \ {h} \/ y = g
  BY DEF StartOp
<1> HIDE DEF g
<1>7. Current' = Current /\ busy' = busy /\ opNo' = opNo
  BY <1>1 DEF coreVars, Current
<1>8. CallInv'
  <2>0. CallInv
    BY DEF Inv
  <2>1. \A y \in requests' \cup handlers' :
          y.awaited => busy'[y.id[1]] /\ y.id[2] = opNo'[y.id[1]] /\ reply'[y.id[1]] = NoReply
    BY <1>1, <1>5, <1>6, <1>7, <2>0, SMTT(30) DEF CallInv
  <2>2. \A y, z \in requests' : y.awaited /\ z.awaited /\ y.id[1] = z.id[1] => y = z
    BY <1>1, <1>5, <1>6, <1>7, <2>0 DEF CallInv
  <2>3. \A y, z \in handlers' : y.awaited /\ z.awaited /\ y.id[1] = z.id[1] => y = z
    BY <1>1, <1>5, <1>6, <1>7, <2>0, SMTT(30) DEF CallInv
  <2>4. \A y \in requests', z \in handlers' : ~(y.awaited /\ z.awaited /\ y.id[1] = z.id[1])
    BY <1>1, <1>5, <1>6, <1>7, <2>0, SMTT(30) DEF CallInv
  <2>5. \A c \in Clerk : reply'[c] # NoReply =>
          busy'[c] /\ reply'[c] = Current'.execRecord[<<c, opNo'[c]>>]
    BY <1>1, <1>5, <1>6, <1>7, <2>0 DEF CallInv
  <2> QED BY <2>1, <2>2, <2>3, <2>4, <2>5 DEF CallInv
<1>9. (\A y \in requests' : Issued(y.id)) /\ (\A y \in handlers' : Issued(y.id))
  BY <1>1, <1>3, <1>5, <1>6 DEF Inv, IssuedInv
<1> QED BY <1>1, <1>2, <1>4, <1>8, <1>9, QuietStep

\* A handler that wakes up.
LEMMA CheckInv ==
    ASSUME Inv, NEW h \in handlers, Check(h)
    PROVE  Inv'
<1>1. TypeInv' /\ UNCHANGED coreVars /\ UNCHANGED <<uncommitted, applied, db, execRecord>>
  BY CheckType DEF Check, coreVars, raftVars, kvVars
<1>2. ReplicaInv'
  BY <1>1 DEF coreVars, Inv, ReplicaInv
<1>3. \A id \in ID, t \in 1..MaxTerm : uncommitted'[<<id, t>>] > 0 => Issued(id)
  BY <1>1 DEF Inv, IssuedInv
<1>4. h.server \in Server
  BY DEF Inv, TypeInv, TypeOK, ServerType, HandlerType
<1>5. requests \ {h} = requests /\ handlers' = handlers \ {h}
  BY RequestNotHandler DEF Check
<1>6. /\ CallInv'
      /\ \A y \in requests' : Issued(y.id)
      /\ \A y \in handlers' : Issued(y.id)
  <2>1. CASE CheckEvicted(h) \/ CheckLast(h)
    <3>1. ReplyWrongLeader(h, requests \ {h}) /\ reply' = reply
      BY <1>5, <2>1 DEF CheckEvicted, CheckLast
    <3> QED BY <1>1, <1>5, <3>1, WrongLeaderCalls
  <2>2. CASE CheckApplied(h)
    <3>1. /\ execRecord[h.server][h.id] # NoRecord
          /\ ReplyRecord(h, execRecord[h.server][h.id])
          /\ requests' = requests \ {h}
      BY <1>5, <2>2 DEF CheckApplied
    <3>2. CallInv'
      BY <1>1, <1>4, <1>5, <3>1, ClerkAnswered
    <3> QED BY <1>5, <3>1, <3>2 DEF Inv, IssuedInv
  <2> QED BY <2>1, <2>2 DEF Check
<1> QED BY <1>1, <1>2, <1>3, <1>6, QuietStep

\* A step that leaves the calls alone.
LEMMA CallsUntouched ==
    ASSUME Inv, UNCHANGED coreVars, UNCHANGED <<requests, handlers, reply>>
    PROVE  CallInv' /\ (\A x \in requests' : Issued(x.id)) /\ (\A h \in handlers' : Issued(h.id))
<1>1. Current' = Current /\ busy' = busy /\ opNo' = opNo
  BY DEF coreVars, Current
<1> QED BY <1>1 DEF Inv, CallInv, IssuedInv

\* The apply loop takes the next entry of the log.
LEMMA ApplyInv ==
    ASSUME Inv, NEW s \in Server, readApplyChRoutine(s)
    PROVE  Inv'
<1>1. TypeInv' /\ UNCHANGED coreVars /\ UNCHANGED <<uncommitted, requests, handlers, reply>>
  BY ApplyType DEF readApplyChRoutine, coreVars, raftVars, clerkVars
<1> DEFINE k == applied[s] + 1
           st == [db |-> db[s], execRecord |-> execRecord[s]]
           ex == Execute(args[log[k]], log[k], st)
<1>2. /\ db' = [db EXCEPT ![s] = ex.db]
      /\ execRecord' = [execRecord EXCEPT ![s] = ex.execRecord]
      /\ applied' = [applied EXCEPT ![s] = k]
  BY DEF readApplyChRoutine
<1>a. applied[s] < Len(log)
  BY DEF readApplyChRoutine
<1>b. applied[s] \in Nat /\ log \in Seq(ID)
  BY DEF Inv, TypeInv, TypeOK, RaftType, ServerType
<1>3. applied[s] \in Nat /\ Len(log) \in Nat /\ k \in 1..Len(log)
  BY <1>a, <1>b, SMTT(30)
<1>4. states[k] = st
  BY DEF Inv, ReplicaInv
<1>5. states[k + 1] = Execute(args[log[k]], log[k], states[k])
  BY <1>3 DEF Inv, HistoryInv
<1>6. states[k + 1] = ex
  BY <1>4, <1>5
<1>7. ex \in StateType
  <2>1. states \in Seq(StateType) /\ k + 1 \in 1..Len(states)
    BY <1>3, SMTT(30) DEF Inv, HistoryInv, TypeInv, TypeOK, RaftType
  <2> QED BY <1>6, <2>1, SMTT(30)
<1>8. ex = [db |-> ex.db, execRecord |-> ex.execRecord]
  BY <1>7 DEF StateType
<1> HIDE DEF k, ex
<1>9. ReplicaInv'
  <2>1. \A q \in Server \ {s} : applied'[q] = applied[q] /\ db'[q] = db[q] /\ execRecord'[q] = execRecord[q]
    BY <1>2 DEF Inv, TypeInv, TypeOK, ServerType
  <2>2. applied'[s] = k /\ db'[s] = ex.db /\ execRecord'[s] = ex.execRecord
    BY <1>2 DEF Inv, TypeInv, TypeOK, ServerType
  <2>3. states' = states /\ log' = log
    BY <1>1 DEF coreVars
  <2>4. applied'[s] <= Len(log') /\ states'[applied'[s] + 1] = [db |-> db'[s], execRecord |-> execRecord'[s]]
    BY <1>3, <1>6, <1>8, <2>2, <2>3, SMTT(30)
  <2> QED BY <2>1, <2>3, <2>4 DEF Inv, ReplicaInv
<1>10. \A id \in ID, t \in 1..MaxTerm : uncommitted'[<<id, t>>] > 0 => Issued(id)
  BY <1>1 DEF Inv, IssuedInv
<1> QED BY <1>1, <1>9, <1>10, CallsUntouched, QuietStep

\* A restart: the server is at the beginning of the log again.
LEMMA StartKVServerInv ==
    ASSUME Inv, NEW s \in Server, StartKVServer(s)
    PROVE  Inv'
<1>1. TypeInv' /\ UNCHANGED coreVars /\ UNCHANGED <<uncommitted, reply>>
  BY StartKVServerType DEF StartKVServer, coreVars
<1>2. ReplicaInv'
  <2>1. \A q \in Server \ {s} : applied'[q] = applied[q] /\ db'[q] = db[q] /\ execRecord'[q] = execRecord[q]
    BY DEF StartKVServer, Inv, TypeInv, TypeOK, ServerType
  <2>2. applied'[s] = 0 /\ db'[s] = emptyDb /\ execRecord'[s] = emptyRecord
    BY DEF StartKVServer, Inv, TypeInv, TypeOK, ServerType
  <2>3. states' = states /\ log' = log /\ Len(log) \in Nat
    BY <1>1, SMTT(30) DEF coreVars, Inv, TypeInv, TypeOK, RaftType
  <2> QED BY <2>1, <2>2, <2>3, SMTT(30) DEF Inv, ReplicaInv, HistoryInv
<1> DEFINE lost == {c \in Clerk : \E x \in requests \cup handlers :
                        x.server = s /\ x.awaited /\ x.id[1] = c}
<1>3. /\ requests' = {r \in requests : r.server # s}
                       \cup {Call(<<c, opNo[c]>>, (at[c] + 1) % N) : c \in lost}
      /\ at' = [c \in Clerk |-> IF c \in lost THEN (at[c] + 1) % N ELSE at[c]]
      /\ handlers' = {h \in handlers : h.server # s}
  BY DEF StartKVServer
<1>4. /\ lost \in SUBSET Clerk
      /\ \A c \in lost : busy[c] /\ reply'[c] = NoReply /\ at'[c] = (at[c] + 1) % N
  BY <1>1, <1>3 DEF Inv, CallInv
<1>5. \A x \in requests \cup handlers : x.awaited /\ x.server # s => x.id[1] \notin lost
  BY DEF Inv, CallInv
<1> HIDE DEF lost
<1>6. \A x \in requests' : x.awaited =>
        \/ x \in requests /\ x.id[1] \notin lost
        \/ \E c \in lost : x = Call(<<c, opNo[c]>>, at'[c])
  BY <1>3, <1>4, <1>5
<1>7. \A h \in handlers' : h.awaited => h \in handlers /\ h.id[1] \notin lost
  BY <1>3, <1>5
<1>8. CallInv'
  BY <1>1, <1>4, <1>6, <1>7, ClerksTurn
<1>9. (\A x \in requests' : Issued(x.id)) /\ (\A h \in handlers' : Issued(h.id))
  <2>1. \A c \in lost : Issued(Call(<<c, opNo[c]>>, (at[c] + 1) % N).id)
    BY <1>4, PresentIssued
  <2>2. \A x \in requests : Issued(x.id)
    BY DEF Inv, IssuedInv
  <2>3. \A h \in handlers : Issued(h.id)
    BY DEF Inv, IssuedInv
  <2>4. \A x \in requests' : x \in requests \/ \E c \in lost : x = Call(<<c, opNo[c]>>, (at[c] + 1) % N)
    BY <1>3
  <2>5. \A h \in handlers' : h \in handlers
    BY <1>3
  <2> QED BY <2>1, <2>2, <2>3, <2>4, <2>5
<1>10. \A id \in ID, t \in 1..MaxTerm : uncommitted'[<<id, t>>] > 0 => Issued(id)
  BY <1>1 DEF Inv, IssuedInv
<1> QED BY <1>1, <1>2, <1>8, <1>9, <1>10, QuietStep

\* An election, and the news of one.
LEMMA TermInv ==
    ASSUME Inv, NEW s \in Server, Elect(s) \/ LearnTerm(s)
    PROVE  Inv'
<1>1. /\ TypeInv' /\ UNCHANGED coreVars
      /\ UNCHANGED <<uncommitted, requests, handlers, reply, applied, db, execRecord>>
  BY TermType DEF Elect, LearnTerm, Inv, coreVars, kvVars, clerkVars
<1>2. ReplicaInv'
  BY <1>1 DEF coreVars, Inv, ReplicaInv
<1>3. \A id \in ID, t \in 1..MaxTerm : uncommitted'[<<id, t>>] > 0 => Issued(id)
  BY <1>1 DEF Inv, IssuedInv
<1> QED BY <1>1, <1>2, <1>3, CallsUntouched, QuietStep

\* Nothing has happened yet.
LEMMA InitInv == Init => Inv
<1> SUFFICES ASSUME Init PROVE Inv
  OBVIOUS
<1>1. TypeInv
  BY InitType
<1>2. /\ Len(states) = 1 /\ Len(log) = 0
      /\ states[1] = [db |-> emptyDb, execRecord |-> emptyRecord]
      /\ Current = states[1]
  BY DEF Init, Current
<1>3. \A id \in ID : emptyRecord[id] = NoRecord /\ id[1] \in Clerk /\ id[2] \in 1..MaxOps /\ opNo[id[1]] = 0
  BY DEF emptyRecord, ID, Init
<1>4. IssuedInv
  BY <1>2, <1>3, SMTT(30) DEF Init, IssuedInv, Issued
<1>5. HistoryInv
  BY <1>2, SMTT(30) DEF HistoryInv
<1>6. ReplicaInv
  BY <1>2, SMTT(30) DEF Init, ReplicaInv
<1>7. FinishedInv
  BY <1>3, SMTT(30) DEF FinishedInv
<1>8. CallInv
  BY DEF Init, CallInv
<1> QED BY <1>1, <1>4, <1>5, <1>6, <1>7, <1>8 DEF Inv

\* One step of the service.
LEMMA NextInv == Inv /\ [Next]_vars => Inv'
<1> SUFFICES ASSUME Inv, [Next]_vars PROVE Inv'
  OBVIOUS
<1>1. ASSUME NEW c \in Clerk, NEW op \in Workload[c], Invoke(c, op) PROVE Inv'
  <2>1. op \in Op
    BY WorkloadAssumption
  <2> QED BY <1>1, <2>1, InvokeInv
<1>2. CASE UNCHANGED vars
  <2>a. TypeInv'
    BY <1>2 DEF vars, Inv, TypeInv, TypeOK, RaftType, ServerType, ClerkType, LeaderInv
  <2>b. ReplicaInv'
    BY <1>2 DEF vars, Inv, ReplicaInv
  <2>1. UNCHANGED coreVars /\ UNCHANGED <<requests, handlers, reply, uncommitted>>
    BY <1>2 DEF vars, coreVars
  <2>2. \A id \in ID, t \in 1..MaxTerm : uncommitted'[<<id, t>>] > 0 => Issued(id)
    BY <2>1 DEF Inv, IssuedInv
  <2>3. CallInv' /\ (\A x \in requests' : Issued(x.id)) /\ (\A h \in handlers' : Issued(h.id))
    BY <2>1, CallsUntouched
  <2> QED BY <2>a, <2>b, <2>1, <2>2, <2>3, QuietStep
<1> QED BY <1>1, <1>2, ReceiveInv, CallFailsInv, EnterInv, StartOpInv, CheckInv, ApplyInv,
           StartKVServerInv, TermInv, CommitInv DEF Next, HandlerStep

\* The inductive invariant of the service.
THEOREM ServiceInvariant == Spec => []Inv
BY InitInv, NextInv, PTL DEF Spec

\* Every index of a server, ID and term that the service uses exists, and every
\* record and reply has the form the clerk expects.
THEOREM TypeCorrect == Spec => []TypeOK
<1>1. Inv => TypeOK
  BY DEF Inv, TypeInv
<1> QED BY <1>1, ServiceInvariant, PTL

-----------------------------------------------------------------------------
(* The service implements the atomic store *)

\* The empty service is the empty store.
LEMMA StoreInit == Init => Store!Init
<1> SUFFICES ASSUME Init PROVE Store!Init
  OBVIOUS
<1>1. Current.db = emptyDb
  BY DEF Init, Current
<1>2. \A k \in Key : Text(Current.db[k]) = <<>>
  BY <1>1 DEF emptyDb, Text
<1>3. \A c \in Clerk : Request(c) = NoOp /\ Outcome(c) = Pending
  BY DEF Init, Request, Outcome
<1> QED BY <1>2, <1>3 DEF Init, Store!Init

\* What no caller observes does not change the store.
LEMMA StoreQuiet ==
    ASSUME UNCHANGED coreVars
    PROVE  UNCHANGED Store!storeVars
<1>1. Current' = Current
  BY DEF coreVars, Current
<1>2. \A c \in Clerk : Request(c)' = Request(c) /\ Outcome(c)' = Outcome(c)
  BY <1>1 DEF coreVars, Request, Outcome
<1>3. \A k \in Key : Text(Current.db[k])' = Text(Current.db[k])
  BY <1>1 DEF Text
<1> QED BY <1>2, <1>3 DEF coreVars, Store!storeVars

\* A call begins.
LEMMA StoreInvoke ==
    ASSUME Inv, NEW c \in Clerk, NEW op \in Op, Invoke(c, op)
    PROVE  Store!Invoke(c)
<1> DEFINE new == <<c, opNo[c] + 1>>
<1>1. /\ ~busy[c] /\ opNo[c] \in 0..MaxOps
      /\ args' = [args EXCEPT ![new] = op]
      /\ opNo' = [opNo EXCEPT ![c] = @ + 1]
      /\ busy' = [busy EXCEPT ![c] = TRUE]
      /\ UNCHANGED <<states, returned>>
  BY DEF Invoke, raftVars, Inv, TypeInv, TypeOK, ClerkType
<1>2. new \in ID
  BY BoundAssumption, SMTT(30) DEF Invoke, Inv, TypeInv, TypeOK, ClerkType, ID
<1>t. /\ args \in [ID -> Op \cup {NoOp}]
      /\ opNo \in [Clerk -> 0..MaxOps]
      /\ busy \in [Clerk -> BOOLEAN]
  BY DEF Inv, TypeInv, TypeOK, ClerkType
<1>3. Current' = Current /\ Current.execRecord[new] = NoRecord
  <2>1. ~Issued(new)
    BY <1>1, SMTT(30) DEF Issued
  <2>2. Current.execRecord[new] = NoRecord
    BY <1>2, <2>1 DEF Inv, IssuedInv
  <2> QED BY <1>1, <2>2 DEF Current
<1>4. Request(c) = NoOp /\ Request(c)' = op /\ Outcome(c) = Pending /\ Outcome(c)' = Pending
  <2>1. busy'[c] /\ <<c, opNo'[c]>> = new /\ args'[new] = op
    BY <1>1, <1>2, <1>t
  <2> HIDE DEF new
  <2> QED BY <1>1, <1>3, <2>1 DEF Request, Outcome
<1>5. \A d \in Clerk \ {c} : Request(d)' = Request(d) /\ Outcome(d)' = Outcome(d)
  <2> SUFFICES ASSUME NEW d \in Clerk \ {c}
               PROVE  Request(d)' = Request(d) /\ Outcome(d)' = Outcome(d)
    OBVIOUS
  <2>1. busy'[d] = busy[d] /\ opNo'[d] = opNo[d]
    BY <1>1, <1>t
  <2>2. busy[d] => <<d, opNo[d]>> \in ID
    BY DEF Inv, TypeInv, LeaderInv, ID
  <2>3. busy[d] => args'[<<d, opNo[d]>>] = args[<<d, opNo[d]>>]
    BY <1>1, <1>t, <2>2
  <2> QED BY <1>3, <2>1, <2>3 DEF Request, Outcome
<1>6. \A k \in Key : Text(Current.db[k])' = Text(Current.db[k])
  BY <1>3 DEF Text
<1>7. op \in Store!Operation
  BY DEF Op, Store!Operation
<1> QED BY <1>1, <1>4, <1>5, <1>6, <1>7 DEF Store!Invoke

\* A call returns the value of the instant it took effect.
LEMMA StoreReturn ==
    ASSUME Inv, NEW c \in Clerk, Receive(c)
    PROVE  Store!Return(c)
<1>1. /\ reply[c] # NoReply
      /\ busy' = [busy EXCEPT ![c] = FALSE]
      /\ returned' = [returned EXCEPT ![c] = reply[c].value]
      /\ UNCHANGED <<states, args, opNo>>
  BY DEF Receive, raftVars
<1>t. /\ reply \in [Clerk -> Record \cup {NoReply}]
      /\ opNo \in [Clerk -> 0..MaxOps]
      /\ busy \in [Clerk -> BOOLEAN]
  BY DEF Inv, TypeInv, TypeOK, ClerkType
<1>2. busy[c] /\ reply[c] = Current.execRecord[<<c, opNo[c]>>] /\ reply[c] \in Record
  BY <1>1, <1>t DEF Inv, CallInv
<1>3. <<c, opNo[c]>> \in ID /\ Issued(<<c, opNo[c]>>)
  BY <1>2, <1>t, SMTT(30) DEF Inv, TypeInv, LeaderInv, ID, Issued
<1>4. Request(c) \in Op /\ Request(c) # NoOp
  BY <1>2, <1>3, NoOpAssumption DEF Inv, IssuedInv, Request
<1>5. Outcome(c) = reply[c].value /\ Outcome(c) # Pending
  BY <1>2, NoRecordAssumption, NoKeyAssumption DEF Outcome, Record
<1>6. Current' = Current
  BY <1>1 DEF Current
<1>7. Request(c)' = NoOp /\ Outcome(c)' = Pending
  BY <1>1, <1>t DEF Request, Outcome
<1>8. \A d \in Clerk \ {c} : Request(d)' = Request(d) /\ Outcome(d)' = Outcome(d)
  BY <1>1, <1>6, <1>t DEF Request, Outcome
<1>9. \A k \in Key : Text(Current.db[k])' = Text(Current.db[k])
  BY <1>6 DEF Text
<1> QED BY <1>1, <1>4, <1>5, <1>7, <1>8, <1>9 DEF Store!Return

\* The first entry of an operation is its execution, a later one is nothing.
LEMMA StoreExecute ==
    ASSUME Inv, NEW id \in ID, NEW t \in 1..MaxTerm, Commit(id, t)
    PROVE  (\E c \in Clerk : Store!Execute(c)) \/ UNCHANGED Store!storeVars
<1>1. /\ args[id] \in Op /\ Current \in StateType
      /\ Current' = Execute(args[id], id, Current)
  BY CommitType
<1>2. UNCHANGED <<args, opNo, busy, returned>>
  BY DEF Commit, clerkVars
<1>3. CASE Current.execRecord[id] # NoRecord
  <2>1. Current' = Current
    BY <1>1, <1>3, ExecuteRecords
  <2>2. \A c \in Clerk : Request(c)' = Request(c) /\ Outcome(c)' = Outcome(c)
    BY <1>2, <2>1 DEF Request, Outcome
  <2>3. \A k \in Key : Text(Current.db[k])' = Text(Current.db[k])
    BY <2>1 DEF Text
  <2> QED BY <1>2, <2>2, <2>3 DEF Store!storeVars
<1>4. CASE Current.execRecord[id] = NoRecord
  <2> DEFINE c == id[1]
             op == args[id]
  <2>1. c \in Clerk /\ id[2] \in Nat /\ opNo[c] \in Nat /\ id = <<c, id[2]>>
    BY SMTT(30) DEF Inv, TypeInv, TypeOK, ClerkType, ID
  <2>2. Issued(id)
    BY DEF Commit, Inv, IssuedInv
  <2>3. busy[c] /\ id[2] = opNo[c] /\ id = <<c, opNo[c]>>
    BY <1>4, <2>1, <2>2, SMTT(30) DEF Inv, FinishedInv, Issued, TypeInv, TypeOK, ClerkType
  <2>4. /\ Current'.db = Updated(op, Current.db)
        /\ Current'.execRecord = [Current.execRecord EXCEPT ![id] = Recorded(op, Current.db)]
    BY <1>1, <1>4 DEF Execute
  <2>5. Request(c) = op /\ Request(c) # NoOp /\ Outcome(c) = Pending
    BY <1>1, <1>4, <2>3, NoOpAssumption DEF Request, Outcome
  <2>6. Current.execRecord \in [ID -> Record \cup {NoRecord}] /\ Current.db \in [Key -> Seq(Value) \cup {NoKey}]
    BY <1>1 DEF StateType
  <2>7. Recorded(op, Current.db) \in Record /\ Recorded(op, Current.db) # NoRecord
    BY <1>1, ExecuteType, NoRecordAssumption
  <2>8. Outcome(c)' = Recorded(op, Current.db).value
    BY <1>2, <2>3, <2>4, <2>6, <2>7 DEF Outcome
  <2>9. \A d \in Clerk \ {c} : Outcome(d)' = Outcome(d)
    <3> SUFFICES ASSUME NEW d \in Clerk \ {c} PROVE Outcome(d)' = Outcome(d)
      OBVIOUS
    <3>1. CASE busy[d]
      <4>1. <<d, opNo[d]>> \in ID /\ <<d, opNo[d]>> # id
        BY <2>1, <3>1, SMTT(30) DEF Inv, TypeInv, LeaderInv, ID
      <4> QED BY <1>2, <2>4, <2>6, <4>1 DEF Outcome
    <3>2. CASE ~busy[d]
      BY <1>2, <3>2 DEF Outcome
    <3> QED BY <3>1, <3>2
  <2>10. \A d \in Clerk : Request(d)' = Request(d)
    BY <1>2 DEF Request
  <2> DEFINE st == [k \in Key |-> Text(Current.db[k])]
  <2>11. op.key \in Key /\ op.type \in {"Get", "Put", "Append"} /\ op.value \in Value
    BY <1>1 DEF Op
  <2>12. Recorded(op, Current.db).value = Store!Answer(op, st)
    BY <2>11 DEF Recorded, Store!Answer, Text
  <2>13. [k \in Key |-> Text(Current.db[k])]' = Store!After(op, st)
    <3>1. \A k \in Key : Text(Updated(op, Current.db)[k]) = Store!After(op, st)[k]
      <4>1. CASE op.type = "Get"
        BY <4>1 DEF Updated, Store!After
      <4>2. CASE op.type # "Get"
        <5> DEFINE old == Current.db[op.key]
                   v == IF op.type = "Append" /\ old # NoKey THEN Append(old, op.value) ELSE <<op.value>>
        <5>1. Updated(op, Current.db) = [Current.db EXCEPT ![op.key] = v]
          BY <4>2 DEF Updated
        <5>a. old \in Seq(Value) \cup {NoKey} /\ st[op.key] = Text(old)
          BY <2>6, <2>11
        <5> HIDE DEF old, st
        <5>b. <<op.value>> \in Seq(Value) /\ Append(<<>>, op.value) = <<op.value>>
          BY <2>11, SMTT(30)
        <5>c. old # NoKey => Append(old, op.value) \in Seq(Value)
          BY <2>11, <5>a, SMTT(30)
        <5>2. v \in Seq(Value) /\ v # NoKey
          BY <5>b, <5>c, NoKeyAssumption
        <5>3. v = IF op.type = "Append" THEN Append(st[op.key], op.value) ELSE <<op.value>>
          <6>1. CASE old = NoKey
            BY <5>a, <5>b, <6>1 DEF Text
          <6>2. CASE old # NoKey
            BY <5>a, <6>2 DEF Text
          <6> QED BY <6>1, <6>2
        <5> USE DEF st
        <5>4. Store!After(op, st) = [st EXCEPT ![op.key] = v]
          BY <4>2, <5>3 DEF Store!After
        <5> HIDE DEF v
        <5> QED BY <2>6, <2>11, <5>1, <5>2, <5>4 DEF Text
      <4> QED BY <4>1, <4>2
    <3>2. [k \in Key |-> Text(Current.db[k])]' = [k \in Key |-> Text(Current'.db[k])]
      BY DEF Text
    <3>3. [k \in Key |-> Text(Current'.db[k])] = [k \in Key |-> Store!After(op, st)[k]]
      BY <2>4, <3>1
    <3>4. Store!After(op, st) = [k \in Key |-> Store!After(op, st)[k]]
      BY DEF Store!After
    <3> QED BY <3>2, <3>3, <3>4
  <2> DEFINE req == [d \in Clerk |-> Request(d)]
             res == [d \in Clerk |-> Outcome(d)]
  <2>14. req' = req /\ req[c] = op /\ req[c] # NoOp
    BY <2>1, <2>5, <2>10
  <2>15. res' = [res EXCEPT ![c] = Store!Answer(op, st)] /\ res[c] = Pending
    BY <2>1, <2>5, <2>8, <2>9, <2>12
  <2>16. Store!Execute(c)
    <3> HIDE DEF op
    <3> QED BY <1>2, <2>13, <2>14, <2>15 DEF Store!Execute
  <2> QED BY <2>1, <2>16
<1> QED BY <1>3, <1>4

\* One step of the service is one step of the store, or none.
LEMMA StoreStep == Inv /\ [Next]_vars => [Store!Next]_Store!storeVars
<1> SUFFICES ASSUME Inv, [Next]_vars PROVE [Store!Next]_Store!storeVars
  OBVIOUS
<1>1. ASSUME NEW c \in Clerk, NEW op \in Workload[c], Invoke(c, op) PROVE Store!Next
  <2>1. op \in Op
    BY WorkloadAssumption
  <2> QED BY <1>1, <2>1, StoreInvoke DEF Store!Next
<1>2. ASSUME NEW c \in Clerk, Receive(c) PROVE Store!Next
  BY <1>2, StoreReturn DEF Store!Next
<1>3. ASSUME NEW id \in ID, NEW t \in 1..MaxTerm, Commit(id, t) PROVE [Store!Next]_Store!storeVars
  BY <1>3, StoreExecute DEF Store!Next
<1>4. CASE \/ UNCHANGED vars
           \/ HandlerStep
           \/ \E c \in Clerk : CallFails(c)
           \/ \E s \in Server : \/ readApplyChRoutine(s) \/ StartKVServer(s)
                                \/ LearnTerm(s) \/ Elect(s)
  <2>1. UNCHANGED coreVars
    BY <1>4 DEF vars, coreVars, raftVars, kvVars, clerkVars, HandlerStep, Enter, StartOp, Check,
                CallFails, readApplyChRoutine, StartKVServer, LearnTerm, Elect
  <2> QED BY <2>1, StoreQuiet
<1> QED BY <1>1, <1>2, <1>3, <1>4 DEF Next

\* The service is linearizable and executes every operation at most once.
THEOREM ServiceLinearizable == Spec => Linearizable
BY StoreInit, StoreStep, ServiceInvariant, PTL DEF Spec, Linearizable, Store!Spec

=============================================================================
