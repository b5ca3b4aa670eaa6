----------------------------- MODULE RaftApply -----------------------------
(***************************************************************************)
(* Inside one server: how committed entries get from Raft to the service.  *)
(*                                                                         *)
(* Goroutines that raise commitIndex (AppendEntries() on a follower, the   *)
(* reply goroutines on a leader) tell applyCommittedRoutine() over the     *)
(* unbuffered notifyApplyCh; it sends the entries over the unbuffered      *)
(* applyCh to readApplyChRoutine(), which applies them under kv.mu.  The   *)
(* handlers Get() and PutAppend() hold kv.mu while they call into Raft and *)
(* so take rf.mu.  One action is a lock, an unlock with what was done      *)
(* under the lock, or a meeting of two goroutines at a channel.            *)
(***************************************************************************)
EXTENDS Integers, Sequences

CONSTANTS
    Committer,  \* goroutines that run AppendEntries() or handle its reply
    Request,    \* goroutines that run Get() or PutAppend()
    Applier,    \* the goroutine of applyCommittedRoutine()
    Reader,     \* the goroutine of readApplyChRoutine()
    Free,       \* nobody holds the lock
    MaxIndex,   \* bound: the last index that is committed
    NumChecks   \* numChecks of the handlers

ASSUME BoundAssumption == MaxIndex \in Nat /\ NumChecks \in Nat \ {0}

\* Goroutines are told apart, and none of them is Free.
ASSUME GoroutineAssumption ==
    /\ Committer \cap Request = {}
    /\ {Applier, Reader, Free} \cap (Committer \cup Request) = {}
    /\ Applier # Reader /\ Free \notin {Applier, Reader}

VARIABLES
    rfMu, kvMu,     \* the holders of the two locks
    commitIndex, lastApplied,
    msg,            \* the index of the ApplyMsg the applier sends
    op,             \* the index of the one the reader received
    applied,        \* the indexes the service has applied, in order
    pc,             \* where every goroutine is
    checks          \* per request: how often it has looked for its record

vars == <<rfMu, kvMu, commitIndex, lastApplied, msg, op, applied, pc, checks>>

Init ==
    /\ rfMu = Free /\ kvMu = Free
    /\ commitIndex = 0 /\ lastApplied = 0
    /\ msg = 0 /\ op = 0
    /\ applied = <<>>
    /\ pc = [g \in Committer \cup Request \cup {Applier, Reader} |->
                CASE g = Applier -> "waiting" [] g = Reader -> "receiving" [] OTHER -> "idle"]
    /\ checks = [r \in Request |-> 0]

Goto(g, l) == pc' = [pc EXCEPT ![g] = l]

-----------------------------------------------------------------------------
(* Goroutines that raise commitIndex *)

Enter(h) ==
    /\ pc[h] = "idle" /\ rfMu = Free
    /\ rfMu' = h
    /\ Goto(h, "handling")
    /\ UNCHANGED <<kvMu, commitIndex, lastApplied, msg, op, applied, checks>>

\* commitIndex grows, or stays; rf.mu is released before notifyApplyCh is
\* used.  What a leader sends reaches beyond its commitIndex, so Min() in
\* AppendEntries() never lowers it.
Raise(h, to) ==
    /\ pc[h] = "handling"
    /\ to >= commitIndex
    /\ commitIndex' = to
    /\ rfMu' = Free
    /\ Goto(h, IF to > commitIndex THEN "notifying" ELSE "idle")
    /\ UNCHANGED <<kvMu, lastApplied, msg, op, applied, checks>>

-----------------------------------------------------------------------------
(* applyCommittedRoutine() *)

Notified(h) ==
    /\ pc[h] = "notifying" /\ pc[Applier] = "waiting"
    /\ pc' = [pc EXCEPT ![h] = "idle", ![Applier] = "locking"]
    /\ UNCHANGED <<rfMu, kvMu, commitIndex, lastApplied, msg, op, applied, checks>>

LockToApply ==
    /\ pc[Applier] = "locking" /\ rfMu = Free
    /\ rfMu' = Applier
    /\ Goto(Applier, "looking")
    /\ UNCHANGED <<kvMu, commitIndex, lastApplied, msg, op, applied, checks>>

\* Mutant: everything that is committed counts as applied at once.
TakeLatest ==
    /\ pc[Applier] = "looking"
    /\ rfMu' = Free
    /\ IF commitIndex > lastApplied
       THEN /\ lastApplied' = commitIndex
            /\ msg' = commitIndex
            /\ Goto(Applier, "sending")
       ELSE Goto(Applier, "waiting") /\ UNCHANGED <<lastApplied, msg>>
    /\ UNCHANGED <<kvMu, commitIndex, op, applied, checks>>

TakeCommitted ==
    /\ pc[Applier] = "looking"
    /\ rfMu' = Free
    /\ IF commitIndex > lastApplied
       THEN /\ lastApplied' = lastApplied + 1
            /\ msg' = lastApplied + 1
            /\ Goto(Applier, "sending")
       ELSE Goto(Applier, "waiting") /\ UNCHANGED <<lastApplied, msg>>
    /\ UNCHANGED <<kvMu, commitIndex, op, applied, checks>>

\* Mutant: one entry is applied for each notification.
SendApplyMsgOnce ==
    /\ pc[Applier] = "sending" /\ pc[Reader] = "receiving"
    /\ pc' = [pc EXCEPT ![Applier] = "waiting", ![Reader] = "received"]
    /\ op' = msg
    /\ UNCHANGED <<rfMu, kvMu, commitIndex, lastApplied, msg, applied, checks>>

\* The message is handed over; the routine locks rf.mu and looks again.
SendApplyMsg ==
    /\ pc[Applier] = "sending" /\ pc[Reader] = "receiving"
    /\ pc' = [pc EXCEPT ![Applier] = "locking", ![Reader] = "received"]
    /\ op' = msg
    /\ UNCHANGED <<rfMu, kvMu, commitIndex, lastApplied, msg, applied, checks>>

-----------------------------------------------------------------------------
(* readApplyChRoutine() *)

LockToExecute ==
    /\ pc[Reader] = "received" /\ kvMu = Free
    /\ kvMu' = Reader
    /\ Goto(Reader, "applying")
    /\ UNCHANGED <<rfMu, commitIndex, lastApplied, msg, op, applied, checks>>

Execute ==
    /\ pc[Reader] = "applying"
    /\ applied' = Append(applied, op)
    /\ kvMu' = Free
    /\ Goto(Reader, "receiving")
    /\ UNCHANGED <<rfMu, commitIndex, lastApplied, msg, op, checks>>

-----------------------------------------------------------------------------
(* Get() and PutAppend(): kv.mu is held while Raft is asked *)

LockKV(r) ==
    /\ pc[r] \in {"idle", "sleeping"} /\ kvMu = Free
    /\ kvMu' = r
    /\ Goto(r, IF pc[r] = "idle" THEN "GetState" ELSE "check")
    /\ UNCHANGED <<rfMu, commitIndex, lastApplied, msg, op, applied, checks>>

\* Where a handler is while Raft answers it.
Inside(at) ==
    CASE at = "GetState" -> "in GetState"
      [] at = "Start" -> "in Start"
      [] at = "check" -> "in check"

\* kv.rf.GetState() or kv.rf.Start() takes rf.mu ...
CallRaft(r) ==
    /\ pc[r] \in {"GetState", "Start", "check"} /\ rfMu = Free
    /\ rfMu' = r
    /\ Goto(r, Inside(pc[r]))
    /\ UNCHANGED <<kvMu, commitIndex, lastApplied, msg, op, applied, checks>>

\* ... and gives it back.  The handler returns if this is not the leader, or
\* the request is a duplicate; else it calls Start(), and sleeps.
GotState(r) ==
    /\ pc[r] = "in GetState"
    /\ rfMu' = Free
    /\ \/ Goto(r, "idle") /\ kvMu' = Free
       \/ Goto(r, "Start") /\ UNCHANGED kvMu
    /\ UNCHANGED <<commitIndex, lastApplied, msg, op, applied, checks>>

Started(r) ==
    /\ pc[r] = "in Start"
    /\ rfMu' = Free /\ kvMu' = Free
    /\ checks' = [checks EXCEPT ![r] = 0]
    /\ Goto(r, "sleeping")
    /\ UNCHANGED <<commitIndex, lastApplied, msg, op, applied>>

\* Mutant: the handler waits for its record without a limit.
CheckedForever(r) ==
    /\ pc[r] = "in check"
    /\ rfMu' = Free /\ kvMu' = Free
    /\ \/ Goto(r, "idle")
       \/ Goto(r, "sleeping")
    /\ UNCHANGED <<commitIndex, lastApplied, msg, op, applied, checks>>

\* Mutant: one look too many.
CheckedOnceMore(r) ==
    /\ pc[r] = "in check"
    /\ rfMu' = Free /\ kvMu' = Free
    /\ \/ Goto(r, "idle") /\ checks' = [checks EXCEPT ![r] = 0]
       \/ /\ checks[r] < NumChecks
          /\ checks' = [checks EXCEPT ![r] = @ + 1]
          /\ Goto(r, "sleeping")
    /\ UNCHANGED <<commitIndex, lastApplied, msg, op, applied>>

\* The term has changed or the record is there, or it was the last look.
Checked(r) ==
    /\ pc[r] = "in check"
    /\ rfMu' = Free /\ kvMu' = Free
    /\ \/ Goto(r, "idle") /\ checks' = [checks EXCEPT ![r] = 0]
       \/ /\ checks[r] + 1 < NumChecks
          /\ checks' = [checks EXCEPT ![r] = @ + 1]
          /\ Goto(r, "sleeping")
    /\ UNCHANGED <<commitIndex, lastApplied, msg, op, applied>>

-----------------------------------------------------------------------------
CommitterStep(h) == Notified(h) \/ \E to \in 0..MaxIndex : Raise(h, to)
applyCommittedRoutine == LockToApply \/ TakeCommitted \/ SendApplyMsg
readApplyChRoutine == LockToExecute \/ Execute
RequestStep(r) == CallRaft(r) \/ GotState(r) \/ Started(r) \/ Checked(r)

Next ==
    \/ \E h \in Committer : Enter(h) \/ CommitterStep(h)
    \/ applyCommittedRoutine
    \/ readApplyChRoutine
    \/ \E r \in Request : LockKV(r) \/ RequestStep(r)

Spec == Init /\ [][Next]_vars

\* Every goroutine that can run is run.  A sync.Mutex is handed to whoever
\* has waited for 1 ms, so a goroutine that finds the lock free again and
\* again gets it, and a channel serves the goroutines that wait at it in
\* turn.  Nothing is assumed of new requests and RPCs.
FairSpec ==
    /\ Spec
    /\ SF_vars(applyCommittedRoutine)
    /\ SF_vars(readApplyChRoutine)
    /\ \A h \in Committer : SF_vars(CommitterStep(h))
    /\ \A r \in Request : SF_vars(RequestStep(r) \/ (pc[r] = "sleeping" /\ LockKV(r)))

-----------------------------------------------------------------------------
(* Properties *)

\* The type invariant; the locks are held by those who are inside them.
TypeOK ==
    /\ rfMu \in Committer \cup Request \cup {Applier, Free}
    /\ kvMu \in Request \cup {Reader, Free}
    /\ commitIndex \in 0..MaxIndex /\ lastApplied \in 0..commitIndex
    /\ msg \in 0..lastApplied /\ op \in 0..msg
    /\ applied \in Seq(1..MaxIndex)
    /\ checks \in [Request -> 0..NumChecks - 1]
    /\ \A h \in Committer : pc[h] = "handling" <=> rfMu = h

\* The service applies every committed entry once, in the order of the log
\* (raft/config.go ends a test with "apply out of order" otherwise), and
\* Raft is at most two entries ahead of it: one sent, one received.
AppliedInOrder ==
    /\ \A i \in 1..Len(applied) : applied[i] = i
    /\ lastApplied - Len(applied) \in 0..2

\* Whatever is committed is applied, though the notification may come while
\* the routine is busy and the service's lock is taken by requests.
EventuallyApplied ==
    \A i \in 1..MaxIndex : commitIndex >= i ~> Len(applied) >= i

\* The handlers return: neither the RPCs that wait at notifyApplyCh nor the
\* requests that hold kv.mu while they wait for rf.mu are stuck ("Call() is
\* guaranteed to return [...] *except* if the handler function on the server
\* side does not return").
HandlersReturn ==
    \A g \in Committer \cup Request : pc[g] # "idle" ~> pc[g] = "idle"

=============================================================================
