-------------------------- MODULE RaftApplyProofs ---------------------------
(***************************************************************************)
(* What module RaftApply promises, for any number of goroutines that raise *)
(* commitIndex, of requests and of entries: the locks exclude each other   *)
(* and the service applies every entry once and in order.                  *)
(***************************************************************************)
EXTENDS RaftApply, TLAPS

\* The prover of a leaf that names none, and the seconds it has; a leaf that takes
\* arithmetic or sequences names SMT.
USE ZenonT(30)

-----------------------------------------------------------------------------
(* The invariant *)

Goroutine == Committer \cup Request \cup {Applier, Reader}

Holding == {"GetState", "Start", "check"}
Asking == {"in GetState", "in Start", "in check"}
Place == {"idle", "handling", "notifying", "waiting", "locking", "looking", "sending",
          "receiving", "received", "applying", "sleeping"} \cup Holding \cup Asking

\* Goroutine g goes to l; the others stay where they are.
Moves(g, l) ==
    /\ pc' \in [Goroutine -> Place]
    /\ pc'[g] = l
    /\ \A k \in Goroutine : k # g => pc'[k] = pc[k]

\* Every goroutine is at a place of its own routine.
PcInv ==
    /\ pc \in [Goroutine -> Place]
    /\ \A h \in Committer : pc[h] \in {"idle", "handling", "notifying"}
    /\ pc[Applier] \in {"waiting", "locking", "looking", "sending"}
    /\ pc[Reader] \in {"receiving", "received", "applying"}
    /\ \A r \in Request : pc[r] \in {"idle", "sleeping"} \cup Holding \cup Asking

\* Whoever is between a lock and its unlock is the one that holds it: a
\* request holds kv.mu while it calls into Raft, and rf.mu inside the call.
LockInv ==
    /\ rfMu = Applier <=> pc[Applier] = "looking"
    /\ kvMu = Reader <=> pc[Reader] = "applying"
    /\ \A r \in Request : /\ rfMu = r <=> pc[r] \in Asking
                          /\ kvMu = r <=> pc[r] \in Holding \cup Asking

\* The indexes follow each other: what is committed, taken, sent, received.
Indexes ==
    /\ commitIndex \in 0..MaxIndex /\ lastApplied \in 0..commitIndex
    /\ msg \in 0..lastApplied /\ op \in 0..msg

\* The entries on their way: the service has applied those before the one
\* that the reader holds, which comes before the one the applier sends.
PipeInv ==
    /\ \A i \in 1..Len(applied) : applied[i] = i
    /\ pc[Reader] = "receiving" => op = Len(applied)
    /\ pc[Reader] # "receiving" => op = Len(applied) + 1
    /\ pc[Applier] = "sending" => msg = op + 1
    /\ pc[Applier] # "sending" => msg = op
    /\ lastApplied = msg

Inv == TypeOK /\ PcInv /\ LockInv /\ PipeInv

-----------------------------------------------------------------------------
(* The initial states and the steps *)

\* What Make() and StartKVServer() set up satisfies the invariant.
LEMMA InitInv == Init => Inv
<1> SUFFICES ASSUME Init PROVE Inv
  OBVIOUS
<1> USE BoundAssumption, GoroutineAssumption
<1>1. /\ DOMAIN pc = Goroutine
      /\ \A g \in Committer \cup Request : pc[g] = "idle"
      /\ pc[Applier] = "waiting" /\ pc[Reader] = "receiving"
      /\ pc = [g \in DOMAIN pc |-> pc[g]]
  BY DEF Init, Goroutine
<1>2. PcInv
  <2>1. \A g \in DOMAIN pc : pc[g] \in Place
    BY <1>1 DEF Goroutine, Place
  <2> QED
    BY <1>1, <2>1 DEF PcInv, Goroutine, Holding, Asking, Moves
<1>3. LockInv
  BY <1>1 DEF Init, LockInv, Goroutine, Holding, Asking
<1>4. TypeOK
  <2>1. Indexes
    BY SMTT(30) DEF Init, Indexes
  <2>2. applied \in Seq(1..MaxIndex)
    BY SMTT(30) DEF Init
  <2>3. checks \in [Request -> 0..NumChecks - 1]
    BY SMTT(30) DEF Init
  <2> QED
    BY <1>1, <2>1, <2>2, <2>3 DEF Init, TypeOK, Indexes
<1>5. PipeInv
  <2>1. Len(applied) = 0
    BY DEF Init
  <2>2. \A i \in 1..Len(applied) : applied[i] = i
    BY <2>1, SMTT(30)
  <2>3. op = 0 /\ msg = 0 /\ lastApplied = 0
    BY DEF Init
  <2> QED
    BY <1>1, <2>1, <2>2, <2>3 DEF PipeInv
<1> QED
  BY <1>2, <1>3, <1>4, <1>5 DEF Inv

\* Goto() moves one goroutine.
LEMMA GotoMoves ==
    ASSUME PcInv, NEW g \in Goroutine, NEW l \in Place, Goto(g, l)
    PROVE  Moves(g, l)
BY DEF PcInv, Goto, Moves

\* AppendEntries() and the reply goroutines: they hold rf.mu while they
\* raise commitIndex, and wait at notifyApplyCh without it.
LEMMA CommitterInv ==
    ASSUME Inv, NEW h \in Committer, Enter(h) \/ CommitterStep(h)
    PROVE  Inv'
<1> USE BoundAssumption, GoroutineAssumption DEF Inv, Goroutine, Place, Holding, Asking
<1>1. CASE Enter(h)
  <2>1. Moves(h, "handling")
    BY <1>1, GotoMoves DEF Enter
  <2>2. PcInv'
    BY <2>1 DEF PcInv, Moves
  <2>3. LockInv'
    BY <1>1, <2>1 DEF LockInv, Enter, Moves
  <2>4. TypeOK'
    BY <1>1, <2>1 DEF TypeOK, Enter, Moves
  <2>5. PipeInv'
    BY <1>1, <2>1 DEF PipeInv, Enter, Moves
  <2> QED
    BY <2>2, <2>3, <2>4, <2>5
<1>2. ASSUME NEW to \in 0..MaxIndex, Raise(h, to)
      PROVE  Inv'
  <2>1. PICK l \in {"notifying", "idle"} : Goto(h, l)
    BY <1>2 DEF Raise
  <2>2. Moves(h, l)
    BY <2>1, GotoMoves
  <2>3. PcInv'
    BY <2>2 DEF PcInv, Moves
  <2>4. LockInv'
    BY <1>2, <2>2 DEF LockInv, TypeOK, Raise, Moves
  <2>5. TypeOK'
    <3>1. Indexes'
      BY <1>2, SMTT(30) DEF TypeOK, Indexes, PipeInv, Raise
    <3>2. checks' \in [Request -> 0..NumChecks - 1]
      BY <1>2 DEF TypeOK, Raise
    <3> QED
      BY <1>2, <2>2, <3>1, <3>2 DEF TypeOK, Indexes, LockInv, Raise, Moves
  <2>6. PipeInv'
    BY <1>2, <2>2 DEF PipeInv, Raise, Moves
  <2> QED
    BY <2>3, <2>4, <2>5, <2>6
<1>3. CASE Notified(h)
  <2>1. /\ pc' \in [Goroutine -> Place]
        /\ pc'[h] = "idle" /\ pc'[Applier] = "locking"
        /\ \A k \in Goroutine :
              k \notin {h, Applier} => pc'[k] = pc[k]
    BY <1>3 DEF PcInv, Notified
  <2>2. PcInv'
    BY <2>1 DEF PcInv, Moves
  <2>3. LockInv'
    BY <1>3, <2>1 DEF LockInv, Notified, Moves
  <2>4. TypeOK'
    BY <1>3, <2>1 DEF TypeOK, Notified, Moves
  <2>5. PipeInv'
    BY <1>3, <2>1 DEF PipeInv, Notified, Moves
  <2> QED
    BY <2>2, <2>3, <2>4, <2>5
<1> QED
  BY <1>1, <1>2, <1>3 DEF CommitterStep

\* applyCommittedRoutine(): one entry is taken at a time, under rf.mu, and
\* sent without it.
LEMMA ApplierInv ==
    ASSUME Inv, applyCommittedRoutine
    PROVE  Inv'
<1> USE BoundAssumption, GoroutineAssumption DEF Inv, Goroutine, Place, Holding, Asking
<1>1. CASE LockToApply
  <2>1. Moves(Applier, "looking")
    BY <1>1, GotoMoves DEF LockToApply
  <2>2. PcInv'
    BY <2>1 DEF PcInv, Moves
  <2>3. LockInv'
    BY <1>1, <2>1 DEF LockInv, LockToApply, Moves
  <2>4. TypeOK'
    BY <1>1, <2>1 DEF TypeOK, LockToApply, Moves
  <2>5. PipeInv'
    BY <1>1, <2>1 DEF PipeInv, LockToApply, Moves
  <2> QED
    BY <2>2, <2>3, <2>4, <2>5
<1>2. CASE TakeCommitted
  <2>1. PICK l \in {"sending", "waiting"} :
           Goto(Applier, l) /\ (l = "sending" <=> commitIndex > lastApplied)
    BY <1>2 DEF TakeCommitted
  <2>2. Moves(Applier, l)
    BY <2>1, GotoMoves
  <2>3. PcInv'
    BY <2>2 DEF PcInv, Moves
  <2>4. LockInv'
    BY <1>2, <2>2 DEF LockInv, TypeOK, TakeCommitted, Moves
  <2>5. TypeOK'
    <3>1. Indexes'
      BY <1>2, SMTT(30) DEF TypeOK, Indexes, PipeInv, TakeCommitted
    <3>2. checks' \in [Request -> 0..NumChecks - 1]
      BY <1>2 DEF TypeOK, TakeCommitted
    <3> QED
      BY <1>2, <2>2, <3>1, <3>2 DEF TypeOK, Indexes, LockInv, TakeCommitted, Moves
  <2>6. PipeInv'
    BY <1>2, <2>1, <2>2 DEF PipeInv, TypeOK, TakeCommitted, Moves
  <2> QED
    BY <2>3, <2>4, <2>5, <2>6
<1>3. CASE SendApplyMsg
  <2>1. /\ pc' \in [Goroutine -> Place]
        /\ pc'[Applier] = "locking" /\ pc'[Reader] = "received"
        /\ \A k \in Committer \cup Request :  pc'[k] = pc[k]
    BY <1>3 DEF PcInv, SendApplyMsg
  <2>2. PcInv'
    BY <2>1 DEF PcInv, Moves
  <2>3. LockInv'
    BY <1>3, <2>1 DEF LockInv, SendApplyMsg, Moves
  <2>4. TypeOK'
    <3>1. Indexes'
      BY <1>3 DEF TypeOK, Indexes, PipeInv, SendApplyMsg
    <3>2. checks' \in [Request -> 0..NumChecks - 1]
      BY <1>3 DEF TypeOK, SendApplyMsg
    <3> QED
      BY <1>3, <2>1, <3>1, <3>2 DEF TypeOK, Indexes, LockInv, SendApplyMsg, Moves
  <2>5. PipeInv'
    BY <1>3, <2>1 DEF PipeInv, TypeOK, SendApplyMsg, Moves
  <2> QED
    BY <2>2, <2>3, <2>4, <2>5
<1> QED
  BY <1>1, <1>2, <1>3 DEF applyCommittedRoutine

\* readApplyChRoutine(): the entry it holds is the next one to apply.
LEMMA ReaderInv ==
    ASSUME Inv, readApplyChRoutine
    PROVE  Inv'
<1> USE BoundAssumption, GoroutineAssumption DEF Inv, Goroutine, Place, Holding, Asking
<1>1. CASE LockToExecute
  <2>1. Moves(Reader, "applying")
    BY <1>1, GotoMoves DEF LockToExecute
  <2>2. PcInv'
    BY <2>1 DEF PcInv, Moves
  <2>3. LockInv'
    BY <1>1, <2>1 DEF LockInv, LockToExecute, Moves
  <2>4. TypeOK'
    BY <1>1, <2>1 DEF TypeOK, LockToExecute, Moves
  <2>5. PipeInv'
    BY <1>1, <2>1 DEF PipeInv, LockToExecute, Moves
  <2> QED
    BY <2>2, <2>3, <2>4, <2>5
<1>2. CASE Execute
  <2>1. Moves(Reader, "receiving")
    BY <1>2, GotoMoves DEF Execute
  <2>2. PcInv'
    BY <2>1 DEF PcInv, Moves
  <2>3. LockInv'
    BY <1>2, <2>1 DEF LockInv, TypeOK, Execute, Moves
  <2>4. op = Len(applied) + 1 /\ op \in 1..MaxIndex
    BY <1>2, SMTT(30) DEF Execute, PipeInv, TypeOK
  <2>5. /\ applied' \in Seq(1..MaxIndex) /\ Len(applied') = op
        /\ \A i \in 1..Len(applied') : applied'[i] = i
    BY <1>2, <2>4, SMTT(30) DEF Execute, PipeInv, TypeOK
  <2>6. TypeOK'
    BY <1>2, <2>1, <2>5 DEF TypeOK, Execute, Moves
  <2>7. PipeInv'
    BY <1>2, <2>1, <2>5 DEF PipeInv, Execute, Moves
  <2> QED
    BY <2>2, <2>3, <2>6, <2>7
<1> QED
  BY <1>1, <1>2 DEF readApplyChRoutine

\* Get() and PutAppend(): they touch the two locks and nothing of the pipe.
LEMMA RequestInv ==
    ASSUME Inv, NEW r \in Request, LockKV(r) \/ RequestStep(r)
    PROVE  Inv'
<1> USE BoundAssumption, GoroutineAssumption DEF Inv, Goroutine, Place, Holding, Asking
<1>1. CASE LockKV(r)
  <2>1. PICK l \in {"GetState", "check"} : Goto(r, l)
    BY <1>1 DEF LockKV
  <2>2. Moves(r, l)
    BY GotoMoves, <2>1
  <2>3. PcInv'
    BY <2>2 DEF PcInv, Moves
  <2>4. LockInv'
    BY <1>1, <2>2 DEF LockInv, LockKV, Moves
  <2>5. TypeOK'
    BY <1>1, <2>2 DEF TypeOK, LockKV, Moves
  <2>6. PipeInv'
    BY <1>1, <2>2 DEF PipeInv, LockKV, Moves
  <2> QED
    BY <2>3, <2>4, <2>5, <2>6
<1>2. CASE CallRaft(r)
  <2>1. PICK l \in Asking : Goto(r, l)
    <3>1. Inside(pc[r]) \in Asking
      BY <1>2 DEF CallRaft, Inside
    <3> QED
      BY <1>2, <3>1 DEF CallRaft
  <2>2. Moves(r, l)
    BY GotoMoves, <2>1
  <2>3. PcInv'
    BY <2>2 DEF PcInv, Moves
  <2>4. LockInv'
    BY <1>2, <2>2 DEF LockInv, CallRaft, Moves
  <2>5. TypeOK'
    BY <1>2, <2>2 DEF TypeOK, CallRaft, Moves
  <2>6. PipeInv'
    BY <1>2, <2>2 DEF PipeInv, CallRaft, Moves
  <2> QED
    BY <2>3, <2>4, <2>5, <2>6
<1>3. CASE GotState(r)
  <2>1. PICK l \in {"idle", "Start"} :
           /\ Goto(r, l)
           /\ l = "idle" => kvMu' = Free
           /\ l = "Start" => kvMu' = kvMu
    BY <1>3 DEF GotState
  <2>2. Moves(r, l)
    BY GotoMoves, <2>1
  <2>3. PcInv'
    BY <2>2 DEF PcInv, Moves
  <2>4. LockInv'
    BY <1>3, <2>1, <2>2 DEF LockInv, TypeOK, GotState, Moves
  <2>5. TypeOK'
    BY <1>3, <2>1, <2>2 DEF TypeOK, LockInv, GotState, Moves
  <2>6. PipeInv'
    BY <1>3, <2>2 DEF PipeInv, GotState, Moves
  <2> QED
    BY <2>3, <2>4, <2>5, <2>6
<1>4. CASE Started(r)
  <2>1. Moves(r, "sleeping")
    BY GotoMoves, <1>4 DEF Started
  <2>2. PcInv'
    BY <2>1 DEF PcInv, Moves
  <2>3. LockInv'
    BY <1>4, <2>1 DEF LockInv, TypeOK, Started, Moves
  <2>4. TypeOK'
    <3>1. Indexes'
      BY <1>4 DEF TypeOK, Indexes, PipeInv, Started
    <3>2. checks' \in [Request -> 0..NumChecks - 1]
      <4>1. checks \in [Request -> 0..NumChecks - 1] /\ 0 \in 0..NumChecks - 1
        BY SMTT(30) DEF TypeOK
      <4>2. PICK k \in 0..NumChecks - 1 : checks' = [checks EXCEPT ![r] = k]
        BY <1>4, <4>1 DEF Started
      <4> QED
        BY <4>1, <4>2
    <3> QED
      BY <1>4, <2>1, <3>1, <3>2 DEF TypeOK, Indexes, LockInv, Started, Moves
  <2>5. PipeInv'
    BY <1>4, <2>1 DEF PipeInv, Started, Moves
  <2> QED
    BY <2>2, <2>3, <2>4, <2>5
<1>5. CASE Checked(r)
  <2>1. PICK l \in {"idle", "sleeping"} : Goto(r, l)
    BY <1>5 DEF Checked
  <2>2. Moves(r, l)
    BY GotoMoves, <2>1
  <2>3. PcInv'
    BY <2>2 DEF PcInv, Moves
  <2>4. LockInv'
    BY <1>5, <2>2 DEF LockInv, TypeOK, Checked, Moves
  <2>5. TypeOK'
    <3>1. Indexes'
      BY <1>5 DEF TypeOK, Indexes, PipeInv, Checked
    <3>2. checks' \in [Request -> 0..NumChecks - 1]
      <4>1. checks \in [Request -> 0..NumChecks - 1] /\ 0 \in 0..NumChecks - 1
        BY SMTT(30) DEF TypeOK
      <4>2. PICK k \in 0..NumChecks - 1 : checks' = [checks EXCEPT ![r] = k]
        <5>1. checks[r] \in Nat /\ NumChecks \in Nat
          BY <4>1, SMTT(30)
        <5>2. checks[r] + 1 < NumChecks => checks[r] + 1 \in 0..NumChecks - 1
          BY <5>1, SMTT(30)
        <5> QED
          BY <1>5, <4>1, <5>2 DEF Checked
      <4> QED
        BY <4>1, <4>2
    <3> QED
      BY <1>5, <2>2, <3>1, <3>2 DEF TypeOK, Indexes, LockInv, Checked, Moves
  <2>6. PipeInv'
    BY <1>5, <2>2 DEF PipeInv, Checked, Moves
  <2> QED
    BY <2>3, <2>4, <2>5, <2>6
<1> QED
  BY <1>1, <1>2, <1>3, <1>4, <1>5 DEF RequestStep

\* The invariant holds in every state.
LEMMA ApplyInvariant == Spec => []Inv
<1>1. Inv /\ [Next]_vars => Inv'
  <2> SUFFICES ASSUME Inv, [Next]_vars PROVE Inv'
    OBVIOUS
  <2>1. CASE UNCHANGED vars
    BY <2>1 DEF vars, Inv, TypeOK, PcInv, LockInv, PipeInv, Moves
  <2>2. CASE Next
    BY <2>2, CommitterInv, ApplierInv, ReaderInv, RequestInv DEF Next, Moves
  <2> QED
    BY <2>1, <2>2
<1> QED
  BY InitInv, <1>1, PTL DEF Spec

-----------------------------------------------------------------------------
(* What it gives *)

\* The indexes stay in order behind each other, a handler looks for its
\* record at most numChecks times, and a goroutine raises commitIndex while
\* it holds rf.mu, and only then.
THEOREM ApplyTypeCorrect == Spec => []TypeOK
<1>1. Inv => TypeOK
  BY DEF Inv
<1> QED
  BY ApplyInvariant, <1>1, PTL

\* Every committed entry is applied once, in the order of the log, whatever
\* the goroutines of the server do in between; Raft is never more than two
\* entries ahead of the service.
THEOREM AppliedInOrderHolds == Spec => []AppliedInOrder
<1>1. Inv => AppliedInOrder
  BY SMTT(30) DEF Inv, TypeOK, PipeInv, AppliedInOrder
<1> QED
  BY ApplyInvariant, <1>1, PTL

\* The places where a goroutine cannot go on before another one has: it
\* needs a lock, or somebody at the other end of a channel.
NeedsRaftLock == {"locking"} \cup Holding
NeedsServiceLock == {"sleeping", "received"}
AtChannel == {"notifying", "waiting", "sending", "receiving"}

\* Nobody waits for anything while it holds rf.mu, and whoever holds kv.mu
\* waits for nothing but rf.mu.
LocksInOrder ==
    \A g \in Goroutine :
        /\ rfMu = g => pc[g] \notin {"idle"} \cup NeedsRaftLock \cup NeedsServiceLock \cup AtChannel
        /\ kvMu = g => pc[g] \notin {"idle"} \cup NeedsServiceLock \cup AtChannel

\* The locks and the channels are always waited for in one order, so that
\* the goroutines of a server cannot wait for each other in a circle: a
\* handler holds kv.mu when it waits for rf.mu, never the other way round,
\* and both locks are given back before notifyApplyCh or applyCh is used.
THEOREM LocksInOrderHolds == Spec => []LocksInOrder
<1>1. ASSUME Inv PROVE LocksInOrder
  <2> USE <1>1, GoroutineAssumption
  <2>1. ASSUME NEW g \in Goroutine, rfMu = g
        PROVE  pc[g] \in {"handling", "looking"} \cup Asking
    BY <2>1 DEF Inv, TypeOK, LockInv, Goroutine
  <2>2. ASSUME NEW g \in Goroutine, kvMu = g
        PROVE  pc[g] \in {"applying"} \cup Holding \cup Asking
    BY <2>2 DEF Inv, TypeOK, LockInv, Goroutine
  <2> QED
    BY <2>1, <2>2 DEF LocksInOrder, NeedsRaftLock, NeedsServiceLock, AtChannel, Holding, Asking
<1> QED
  BY ApplyInvariant, <1>1, PTL

=============================================================================
