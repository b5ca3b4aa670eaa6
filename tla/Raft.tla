-------------------------------- MODULE Raft --------------------------------
(***************************************************************************)
(* The Raft peers of raft/raft.go, their persisters (raft/persister.go)    *)
(* and the calls they have in flight through labrpc.                       *)
(*                                                                         *)
(* Every critical section of rf.mu is one action: a handler, a reply       *)
(* handler, one pass of a periodic routine.  The goroutine that makes a    *)
(* call holds nothing but the call's arguments, so a call is a record that *)
(* moves from "request" to "reply"; it is an "orphan" when the peer that   *)
(* made it has crashed and restarted, so that nobody waits for the reply.  *)
(*                                                                         *)
(* The dummy entry that Make() puts at rf.log[0] is left out: log[i][k]    *)
(* is the code's rf.log[k] for k >= 1, and len(rf.log) is Len(log[i]) + 1. *)
(*                                                                         *)
(* Time is abstracted: an election timer may fire at any moment, and a     *)
(* leader may send a round of AppendEntries at any moment.                 *)
(***************************************************************************)
EXTENDS Integers, FiniteSets, Sequences

CONSTANTS
    Server,           \* the peers
    Command,          \* what a client may pass to Start()
    noPeer,           \* votedFor when no vote was cast
    MaxTerm,          \* bound: no election beyond this term
    MaxLog,           \* bound: no Start() on a log of this length
    MayTimeout,       \* bound: the peers whose election timer may fire
    MayCrash,         \* bound: the peers that may crash and restart
    MaxCalls,         \* bound: calls in flight at once, by the caller's term
    LateReplies,      \* kinds of call whose reply may reach a caller that has
                      \* moved on to another term since it made the call
    LateEncoding      \* may an AppendEntries call be encoded after the caller
                      \* has released rf.mu and written to its log again

ASSUME ServerAssumption == IsFiniteSet(Server) /\ noPeer \notin Server
ASSUME BoundAssumption == /\ MaxTerm \in Nat
                          /\ MaxLog \in Nat
                          /\ MaxCalls \in [1..MaxTerm -> Nat]
                          /\ MayTimeout \subseteq Server
                          /\ MayCrash \subseteq Server
ASSUME NetworkAssumption == /\ LateReplies \subseteq {"RequestVote", "AppendEntries"}
                            /\ LateEncoding \in BOOLEAN

VARIABLES
    currentTerm, votedFor, log,          \* persistent fields of Raft
    state, votesReceived,                \* volatile fields of Raft
    commitIndex, lastApplied,
    nextIndex, matchIndex,               \* leader only
    persister,                           \* what SaveRaftState() last stored
    voteCalls, appendCalls,              \* RPCs in flight
    votes,      \* history: <<voter, term, candidate>> for every vote cast
    leaders,    \* history: <<term, server>> for every election won
    delivered   \* history: <<index, entry>> for every ApplyMsg sent

logVars == <<log, persister>>
leaderVars == <<nextIndex, matchIndex>>
applyVars == <<commitIndex, lastApplied, delivered>>
electionVars == <<votesReceived, votes, leaders>>
vars == <<currentTerm, votedFor, log, state, votesReceived, commitIndex,
          lastApplied, nextIndex, matchIndex, persister, voteCalls,
          appendCalls, votes, leaders, delivered>>

-----------------------------------------------------------------------------
(* Logs *)

Entry == [command : Command, term : Nat]

\* rf.log[k].Term; the dummy entry has term 0.
TermAt(l, k) == IF k = 0 THEN 0 ELSE l[k].term

LastTerm(l) == TermAt(l, Len(l))

Minimum(a, b) == IF a < b THEN a ELSE b

\* More than len(rf.peers)/2 of the peers.
IsMajority(n) == n > Cardinality(Server) \div 2

Peers(i) == Server \ {i}

\* The candidate's log is at least as up to date as l.
UpToDate(lastLogTerm, lastLogIndex, l) ==
    \/ lastLogTerm > LastTerm(l)
    \/ lastLogTerm = LastTerm(l) /\ lastLogIndex >= Len(l)

\* Mutant: the check of the preceding entry forgets its term.
PrevMatchesByLength(l, prev, prevTerm) == prev <= Len(l)

\* The log has the entry that precedes the new ones.
PrevMatches(l, prev, prevTerm) == prev <= Len(l) /\ TermAt(l, prev) = prevTerm

\* Mutant: the hint without its last increment.
NextTryHintTooSmall(l, prev) ==
    IF Len(l) < prev
    THEN Len(l) + 1
    ELSE CHOOSE h \in 0..prev :
            /\ \A k \in h + 1 .. prev : TermAt(l, k) = TermAt(l, prev)
            /\ h = 0 \/ TermAt(l, h) # TermAt(l, prev)

\* Where a follower whose log does not match tells the leader to try next:
\* just past its log, or the first entry of the conflicting term.
NextTryHint(l, prev) ==
    IF Len(l) < prev
    THEN Len(l) + 1
    ELSE CHOOSE h \in 1..prev :
            /\ \A k \in h..prev : TermAt(l, k) = TermAt(l, prev)
            /\ h = 1 \/ TermAt(l, h - 1) # TermAt(l, prev)

\* Mutant: the log is cut behind prev even when nothing conflicts.
OverwriteAlways(l, prev, entries) == SubSeq(l, 1, prev) \o entries

\* The log after entries were put behind prev: it is cut only at a conflict.
Overwrite(l, prev, entries) ==
    IF \A n \in 1..Len(entries) : prev + n <= Len(l) /\ l[prev + n] = entries[n]
    THEN l
    ELSE SubSeq(l, 1, prev) \o entries

\* Mutant: entries of earlier terms are counted as well.
ReplicatedOnAnyTerm(i, match, N) == {i} \cup {j \in Peers(i) : match[j] >= N}

\* Mutant: a follower is counted once the entry is the next one for it.
ReplicatedOnNext(i, match, N) ==
    {i} \cup {j \in Peers(i) : match[j] + 1 >= N /\ log[i][N].term = currentTerm[i]}

\* tryCommit(): the largest index above commit that a majority stores and
\* whose entry is of the leader's own term; commit itself if there is none.
ReplicatedOn(i, match, N) ==
    {i} \cup {j \in Peers(i) : match[j] >= N /\ log[i][N].term = currentTerm[i]}

Committable(i, match) ==
    {N \in commitIndex[i] + 1 .. Len(log[i]) : IsMajority(Cardinality(ReplicatedOn(i, match, N)))}

tryCommit(i, match) ==
    IF Committable(i, match) = {}
    THEN commitIndex[i]
    ELSE CHOOSE N \in Committable(i, match) : \A M \in Committable(i, match) : M <= N

-----------------------------------------------------------------------------
(* Calls in flight *)

Phase == {"spawned", "request", "orphan", "reply"}

VoteCall == [from : Server, to : Server, term : Nat,
             lastLogIndex : Nat, lastLogTerm : Nat,
             phase : Phase, replyTerm : Nat, voteGranted : BOOLEAN]

AppendCall == [from : Server, to : Server, term : Nat,
               prevLogIndex : Nat, prevLogTerm : Nat,
               entries : Seq(Entry), leaderCommit : Nat,
               phase : Phase, replyTerm : Nat, success : BOOLEAN, nextTryHint : Nat]

RequestVoteCall(i, j, term) ==
    [from |-> i, to |-> j, term |-> term,
     lastLogIndex |-> Len(log[i]), lastLogTerm |-> LastTerm(log[i]),
     phase |-> "request", replyTerm |-> 0, voteGranted |-> FALSE]

\* The call that leader i makes to j when its nextIndex for j is next.
AppendEntriesCall(i, j, next) ==
    [from |-> i, to |-> j, term |-> currentTerm[i],
     prevLogIndex |-> next - 1, prevLogTerm |-> TermAt(log[i], next - 1),
     entries |-> SubSeq(log[i], next, Len(log[i])), leaderCommit |-> commitIndex[i],
     phase |-> IF LateEncoding THEN "spawned" ELSE "request",
     replyTerm |-> 0, success |-> FALSE, nextTryHint |-> 0]

\* The term of a request or a reply is later than the peer's own.
OutOfTerm(i, rpcTerm) == rpcTerm > currentTerm[i]

\* The set of calls once the handler of c has filled in the reply.
AfterReply(calls, c, reply) ==
    (calls \ {c}) \cup (IF c.phase = "orphan" THEN {} ELSE {reply})

\* A leader sends the same AppendEntries again until something changes, and one
\* record stands for all such calls: when one is answered others may remain.
AfterAppendReply(calls, c, reply) ==
    {AfterReply(calls, c, reply), AfterReply(calls, c, reply) \cup {c}}

\* Call() may return this reply to its caller: unless late replies are
\* possible, the caller is still in the term in which it made the call.
ReplyArrives(kind, c) ==
    /\ c.phase = "reply"
    /\ kind \in LateReplies \/ c.term = currentTerm[c.from]

\* A reply that cannot arrive any more is as good as lost.
Awaited(kind, c) == c.phase = "reply" => ReplyArrives(kind, c)

InFlight ==
    Cardinality({c \in voteCalls : Awaited("RequestVote", c)})
        + Cardinality({c \in appendCalls : Awaited("AppendEntries", c)})

\* The calls in flight after their caller i has crashed.
Orphan(c) == [c EXCEPT !.phase = "orphan"]

Orphaned(calls, i) ==
    {c \in calls : c.from # i}
        \cup {Orphan(c) : c \in {d \in calls : d.from = i /\ d.phase # "reply"}}

\* args.Entries is a slice of the caller's log, encoded without the lock.  When
\* the caller i then writes the cells written of its log in place, a call that
\* is not encoded yet may find in any field of them what was there before or
\* what was written, since neither side waits for the other; a call that finds
\* all of it may also be encoded later still.
Spawned(i) == {c \in appendCalls : c.from = i /\ c.phase = "spawned"}

Fields(written) == written \X {"command", "term"}

WrittenOver(c, l, written, seen) ==
    [c EXCEPT !.phase = IF seen = Fields(written) THEN "spawned" ELSE "request",
              !.entries = [n \in 1..Len(c.entries) |->
                  [command |-> IF <<c.prevLogIndex + n, "command">> \in seen
                               THEN l[c.prevLogIndex + n].command ELSE c.entries[n].command,
                   term |-> IF <<c.prevLogIndex + n, "term">> \in seen
                            THEN l[c.prevLogIndex + n].term ELSE c.entries[n].term]]]

\* The cells that AppendEntries() writes: those from the first conflict on.
Written(l, prev, entries) ==
    {prev + n : n \in {n \in 1..Len(entries) :
        \E m \in 1..n : ~(prev + m <= Len(l) /\ l[prev + m] = entries[m])}}

AfterLogWrite(i, l, written, seen) ==
    (appendCalls \ Spawned(i)) \cup {WrittenOver(c, l, written, seen[c]) : c \in Spawned(i)}

Sightings(i, written) == [Spawned(i) -> SUBSET Fields(written)]

-----------------------------------------------------------------------------
(* Actions *)

\* make([]int, len(rf.peers)); it also stands for the leader-only fields that
\* Make() leaves alone, which nobody reads before an election is won.
zeros == [j \in Server |-> 0]

Init ==
    /\ currentTerm = [i \in Server |-> 0]
    /\ votedFor = [i \in Server |-> noPeer]
    /\ log = [i \in Server |-> <<>>]
    /\ state = [i \in Server |-> "follower"]
    /\ votesReceived = [i \in Server |-> 0]
    /\ commitIndex = [i \in Server |-> 0]
    /\ lastApplied = [i \in Server |-> 0]
    /\ nextIndex = [i \in Server |-> zeros]
    /\ matchIndex = [i \in Server |-> zeros]
    /\ persister = [i \in Server |-> [currentTerm |-> 0, votedFor |-> noPeer, log |-> <<>>]]
    /\ voteCalls = {}
    /\ appendCalls = {}
    /\ votes = {}
    /\ leaders = {}
    /\ delivered = {}

\* Mutants: nothing is stored; the vote is not stored.
persistNothing(i) == UNCHANGED persister

persistNoVote(i) ==
    persister' = [persister EXCEPT ![i] = [currentTerm |-> currentTerm'[i],
                                           votedFor |-> noPeer,
                                           log |-> log'[i]]]

\* persist(): store the fields as the action leaves them.
persist(i) ==
    persister' = [persister EXCEPT ![i] = [currentTerm |-> currentTerm'[i],
                                           votedFor |-> votedFor'[i],
                                           log |-> log'[i]]]

\* convertToFollowerIfOutOfTerm(rpcTerm), as far as it changes the fields.
convertToFollowerIfOutOfTerm(i, rpcTerm) ==
    IF OutOfTerm(i, rpcTerm)
    THEN /\ currentTerm' = [currentTerm EXCEPT ![i] = rpcTerm]
         /\ state' = [state EXCEPT ![i] = "follower"]
    ELSE UNCHANGED <<currentTerm, state>>

\* votedFor after convertToFollowerIfOutOfTerm(rpcTerm).
VoteAfter(i, rpcTerm) == IF OutOfTerm(i, rpcTerm) THEN noPeer ELSE votedFor[i]

\* electionTimoutRoutine(): the timer of a peer that is not leader fires.
ElectionTimeout(i) ==
    /\ i \in MayTimeout
    /\ state[i] # "leader"
    /\ currentTerm[i] < MaxTerm
    /\ currentTerm' = [currentTerm EXCEPT ![i] = @ + 1]
    /\ votedFor' = [votedFor EXCEPT ![i] = i]
    /\ state' = [state EXCEPT ![i] = "candidate"]
    /\ votesReceived' = [votesReceived EXCEPT ![i] = 1]
    /\ votes' = votes \cup {<<i, currentTerm[i] + 1, i>>}
    /\ UNCHANGED log
    /\ persist(i)
    /\ voteCalls' = voteCalls \cup {RequestVoteCall(i, j, currentTerm[i] + 1) : j \in Peers(i)}
    /\ UNCHANGED <<appendCalls, leaders, leaderVars, applyVars>>
    /\ InFlight' <= MaxCalls[currentTerm'[i]]

\* Mutant: a peer votes for whoever asks.
GrantsAgain(i, c) ==
    /\ c.term >= currentTerm[i]
    /\ UpToDate(c.lastLogTerm, c.lastLogIndex, log[i])

\* The candidate c.from gets i's vote.
Grants(i, c) ==
    /\ c.term >= currentTerm[i]
    /\ VoteAfter(i, c.term) \in {noPeer, c.from}
    /\ UpToDate(c.lastLogTerm, c.lastLogIndex, log[i])

RequestVote(i, c) ==
    /\ c.to = i
    /\ c.phase # "reply"
    /\ convertToFollowerIfOutOfTerm(i, c.term)
    /\ votedFor' = [votedFor EXCEPT ![i] = IF Grants(i, c) THEN c.from ELSE VoteAfter(i, c.term)]
    /\ votes' = IF Grants(i, c) THEN votes \cup {<<i, c.term, c.from>>} ELSE votes
    /\ UNCHANGED log
    /\ IF OutOfTerm(i, c.term) \/ Grants(i, c) THEN persist(i) ELSE UNCHANGED persister
    /\ voteCalls' = AfterReply(voteCalls, c,
                        [c EXCEPT !.phase = "reply", !.replyTerm = currentTerm'[i],
                                  !.voteGranted = Grants(i, c)])
    /\ UNCHANGED <<appendCalls, votesReceived, leaders, leaderVars, applyVars>>

\* A reply of either kind carries a later term: the caller steps down.
StepDown(i, replyTerm) ==
    /\ OutOfTerm(i, replyTerm)
    /\ convertToFollowerIfOutOfTerm(i, replyTerm)
    /\ votedFor' = [votedFor EXCEPT ![i] = noPeer]
    /\ UNCHANGED log
    /\ persist(i)
    /\ UNCHANGED <<electionVars, leaderVars, applyVars>>

\* sendAppendEntriesToPeers() for a leader with this nextIndex.  rf.log[next-1]
\* exists for every peer; where it does not the code panics (see PeerIndexInLog).
SendAppendEntriesToPeers(i, next) ==
    /\ \A j \in Peers(i) : next[j] - 1 \in 0..Len(log[i])
    /\ appendCalls' = appendCalls \cup {AppendEntriesCall(i, j, next[j]) : j \in Peers(i)}

\* sendRequestVoteAndHandleReply(), once Call() has returned true.
VoteReplyOutOfTerm(i, c) ==
    /\ ReplyArrives("RequestVote", c)
    /\ c.from = i
    /\ StepDown(i, c.replyTerm)
    /\ voteCalls' = voteCalls \ {c}
    /\ UNCHANGED appendCalls

VoteReplyDenied(i, c) ==
    /\ ReplyArrives("RequestVote", c)
    /\ c.from = i
    /\ ~OutOfTerm(i, c.replyTerm)
    /\ ~c.voteGranted
    /\ voteCalls' = voteCalls \ {c}
    /\ UNCHANGED <<currentTerm, votedFor, state, appendCalls, logVars, electionVars,
                   leaderVars, applyVars>>

VoteReplyGranted(i, c) ==
    /\ ReplyArrives("RequestVote", c)
    /\ c.from = i
    /\ ~OutOfTerm(i, c.replyTerm)
    /\ c.voteGranted
    /\ votesReceived' = [votesReceived EXCEPT ![i] = @ + 1]
    /\ voteCalls' = voteCalls \ {c}
    /\ IF state[i] # "leader" /\ IsMajority(votesReceived[i] + 1)
       THEN /\ state' = [state EXCEPT ![i] = "leader"]
            /\ leaders' = leaders \cup {<<currentTerm[i], i>>}
            /\ nextIndex' = [nextIndex EXCEPT ![i] = [j \in Server |-> Len(log[i]) + 1]]
            /\ matchIndex' = [matchIndex EXCEPT ![i] = zeros]
            /\ SendAppendEntriesToPeers(i, nextIndex'[i])
       ELSE UNCHANGED <<state, leaders, leaderVars, appendCalls>>
    /\ UNCHANGED <<currentTerm, votedFor, logVars, votes, applyVars>>
    /\ InFlight' <= MaxCalls[currentTerm'[i]]

\* periodicAppendEntriesRoutine(): the heartbeat interval has passed.
PeriodicAppendEntries(i) ==
    /\ state[i] = "leader"
    /\ UNCHANGED <<currentTerm, votedFor, state, voteCalls, logVars, electionVars,
                   leaderVars, applyVars>>
    /\ SendAppendEntriesToPeers(i, nextIndex[i])
    /\ InFlight' <= MaxCalls[currentTerm'[i]]

\* The three outcomes of the AppendEntries() handler.
RejectSmallerTerm(i, c) ==
    /\ c.term < currentTerm[i]
    /\ appendCalls' \in AfterAppendReply(appendCalls, c,
                        [c EXCEPT !.phase = "reply", !.replyTerm = currentTerm[i],
                                  !.nextTryHint = Len(log[i]) + 1])
    /\ UNCHANGED <<logVars, commitIndex>>

RejectMismatch(i, c) ==
    /\ c.term >= currentTerm[i]
    /\ ~PrevMatches(log[i], c.prevLogIndex, c.prevLogTerm)
    /\ UNCHANGED <<log, commitIndex>>
    /\ IF OutOfTerm(i, c.term) THEN persist(i) ELSE UNCHANGED persister
    /\ appendCalls' \in AfterAppendReply(appendCalls, c,
                        [c EXCEPT !.phase = "reply", !.replyTerm = c.term,
                                  !.nextTryHint = NextTryHint(log[i], c.prevLogIndex)])

\* Mutant: the leader's commit index is taken over even when it is smaller.
AcceptAnyCommit(i, c) ==
    /\ c.term >= currentTerm[i]
    /\ PrevMatches(log[i], c.prevLogIndex, c.prevLogTerm)
    /\ log' = [log EXCEPT ![i] = Overwrite(@, c.prevLogIndex, c.entries)]
    /\ persist(i)
    /\ commitIndex' = [commitIndex EXCEPT ![i] =
            Minimum(c.leaderCommit, c.prevLogIndex + Len(c.entries))]
    /\ appendCalls' \in AfterAppendReply(appendCalls, c,
                        [c EXCEPT !.phase = "reply", !.replyTerm = c.term, !.success = TRUE])

\* Mutant: the entries of any term are accepted.
AcceptAnyTerm(i, c) ==
    /\ PrevMatches(log[i], c.prevLogIndex, c.prevLogTerm)
    /\ log' = [log EXCEPT ![i] = Overwrite(@, c.prevLogIndex, c.entries)]
    /\ persist(i)
    /\ UNCHANGED commitIndex
    /\ appendCalls' \in AfterAppendReply(appendCalls, c,
                        [c EXCEPT !.phase = "reply", !.replyTerm = c.term, !.success = TRUE])

AcceptEntries(i, c) ==
    /\ c.term >= currentTerm[i]
    /\ PrevMatches(log[i], c.prevLogIndex, c.prevLogTerm)
    /\ log' = [log EXCEPT ![i] = Overwrite(@, c.prevLogIndex, c.entries)]
    /\ persist(i)
    /\ commitIndex' = [commitIndex EXCEPT ![i] =
            IF c.leaderCommit > @
            THEN Minimum(c.leaderCommit, c.prevLogIndex + Len(c.entries))
            ELSE @]
    /\ \E seen \in Sightings(i, Written(log[i], c.prevLogIndex, c.entries)) :
          appendCalls' \in AfterAppendReply(
                AfterLogWrite(i, log'[i], Written(log[i], c.prevLogIndex, c.entries), seen),
                c, [c EXCEPT !.phase = "reply", !.replyTerm = c.term, !.success = TRUE])

AppendEntries(i, c) ==
    /\ c.to = i
    /\ c.phase # "reply"
    /\ convertToFollowerIfOutOfTerm(i, c.term)
    /\ votedFor' = [votedFor EXCEPT ![i] = VoteAfter(i, c.term)]
    /\ RejectSmallerTerm(i, c) \/ RejectMismatch(i, c) \/ AcceptEntries(i, c)
    /\ UNCHANGED <<voteCalls, lastApplied, delivered, electionVars, leaderVars>>

\* The goroutine of sendAppendEntriesToPeers(), once Call() has returned true.
AppendReplyOutOfTerm(i, c) ==
    /\ ReplyArrives("AppendEntries", c)
    /\ c.from = i
    /\ StepDown(i, c.replyTerm)
    /\ appendCalls' = appendCalls \ {c}
    /\ UNCHANGED voteCalls

AppendReply(i, c) ==
    /\ ReplyArrives("AppendEntries", c)
    /\ c.from = i
    /\ ~OutOfTerm(i, c.replyTerm)
    /\ appendCalls' = appendCalls \ {c}
    /\ UNCHANGED <<currentTerm, votedFor, state, voteCalls, logVars, electionVars,
                   lastApplied, delivered>>

AppendReplyNotLeader(i, c) ==
    /\ AppendReply(i, c)
    /\ state[i] # "leader"
    /\ UNCHANGED <<commitIndex, leaderVars>>

\* Mutant: matchIndex is one too small, and not kept at zero or above.
AppendReplySuccessLow(i, c) ==
    /\ AppendReply(i, c)
    /\ state[i] = "leader"
    /\ c.success
    /\ nextIndex' = [nextIndex EXCEPT ![i][c.to] = c.prevLogIndex + Len(c.entries)]
    /\ matchIndex' = [matchIndex EXCEPT ![i][c.to] = c.prevLogIndex + Len(c.entries) - 1]
    /\ commitIndex' = [commitIndex EXCEPT ![i] = tryCommit(i, matchIndex'[i])]

AppendReplySuccess(i, c) ==
    /\ AppendReply(i, c)
    /\ state[i] = "leader"
    /\ c.success
    /\ nextIndex' = [nextIndex EXCEPT ![i][c.to] = c.prevLogIndex + Len(c.entries) + 1]
    /\ matchIndex' = [matchIndex EXCEPT ![i][c.to] = c.prevLogIndex + Len(c.entries)]
    /\ commitIndex' = [commitIndex EXCEPT ![i] = tryCommit(i, matchIndex'[i])]

AppendReplyFailure(i, c) ==
    /\ AppendReply(i, c)
    /\ state[i] = "leader"
    /\ ~c.success
    /\ nextIndex' = [nextIndex EXCEPT ![i][c.to] = c.nextTryHint]
    /\ UNCHANGED <<commitIndex, matchIndex>>

\* Start(command) on a leader; on any other peer it changes nothing.
Start(i, command) ==
    /\ state[i] = "leader"
    /\ Len(log[i]) < MaxLog
    /\ log' = [log EXCEPT ![i] = Append(@, [command |-> command, term |-> currentTerm[i]])]
    /\ UNCHANGED <<currentTerm, votedFor>>
    /\ persist(i)
    /\ \E seen \in Sightings(i, {Len(log'[i])}) :
          appendCalls' = AfterLogWrite(i, log'[i], {Len(log'[i])}, seen)
    /\ UNCHANGED <<state, voteCalls, electionVars, leaderVars, applyVars>>

\* applyCommittedRoutine(): the next committed entry goes out on applyCh.
Apply(i) ==
    /\ commitIndex[i] > lastApplied[i]
    /\ lastApplied[i] < Len(log[i])
    /\ lastApplied' = [lastApplied EXCEPT ![i] = @ + 1]
    /\ delivered' = delivered \cup {<<lastApplied[i] + 1, log[i][lastApplied[i] + 1]>>}
    /\ UNCHANGED <<currentTerm, votedFor, state, commitIndex, voteCalls, appendCalls,
                   logVars, electionVars, leaderVars>>

\* What was encoded last; nothing was lost or cut off on the way.
readPersist(i, saved) ==
    /\ currentTerm' = [currentTerm EXCEPT ![i] = saved.currentTerm]
    /\ votedFor' = [votedFor EXCEPT ![i] = saved.votedFor]
    /\ log' = [log EXCEPT ![i] = saved.log]

\* The peer crashes and Make() starts it again from what its persister holds.
Make(i, saved) ==
    /\ i \in MayCrash
    /\ readPersist(i, saved)
    /\ state' = [state EXCEPT ![i] = "follower"]
    /\ votesReceived' = [votesReceived EXCEPT ![i] = 0]
    /\ commitIndex' = [commitIndex EXCEPT ![i] = 0]
    /\ lastApplied' = [lastApplied EXCEPT ![i] = 0]
    /\ nextIndex' = [nextIndex EXCEPT ![i] = zeros]
    /\ matchIndex' = [matchIndex EXCEPT ![i] = zeros]
    /\ voteCalls' = Orphaned(voteCalls, i)
    /\ appendCalls' = Orphaned(appendCalls, i)
    /\ UNCHANGED <<votes, leaders, delivered>>

Restart(i) ==
    /\ Make(i, persister[i])
    /\ UNCHANGED persister

\* The crash comes inside a handler, between the persist() of
\* convertToFollowerIfOutOfTerm() and whatever the handler would do next.
RestartInHandler(i, c) ==
    /\ c.to = i
    /\ c.phase # "reply"
    /\ OutOfTerm(i, c.term)
    /\ Make(i, [currentTerm |-> c.term, votedFor |-> noPeer, log |-> log[i]])
    /\ persist(i)

\* A request or a reply is lost: Call() returns false and the caller returns.
LoseVoteCall(c) ==
    /\ voteCalls' = voteCalls \ {c}
    /\ UNCHANGED <<currentTerm, votedFor, state, appendCalls, logVars, electionVars,
                   leaderVars, applyVars>>

LoseAppendCall(c) ==
    /\ appendCalls' = appendCalls \ {c}
    /\ UNCHANGED <<currentTerm, votedFor, state, voteCalls, logVars, electionVars,
                   leaderVars, applyVars>>

VoteStep(c) ==
    \/ RequestVote(c.to, c)
    \/ VoteReplyOutOfTerm(c.from, c)
    \/ VoteReplyDenied(c.from, c)
    \/ VoteReplyGranted(c.from, c)
    \/ RestartInHandler(c.to, c)
    \/ LoseVoteCall(c)

AppendStep(c) ==
    \/ AppendEntries(c.to, c)
    \/ AppendReplyOutOfTerm(c.from, c)
    \/ AppendReplyNotLeader(c.from, c)
    \/ AppendReplySuccess(c.from, c)
    \/ AppendReplyFailure(c.from, c)
    \/ RestartInHandler(c.to, c)
    \/ LoseAppendCall(c)

ServerStep(i) ==
    \/ ElectionTimeout(i)
    \/ PeriodicAppendEntries(i)
    \/ Apply(i)
    \/ Restart(i)
    \/ \E command \in Command : Start(i, command)

Next ==
    \/ \E i \in Server : ServerStep(i)
    \/ \E c \in voteCalls : VoteStep(c)
    \/ \E c \in appendCalls : AppendStep(c)

Spec == Init /\ [][Next]_vars

-----------------------------------------------------------------------------
(* Properties *)

\* Every field of a Raft peer, its persister and the calls in flight keep the
\* type that raft.go gives them.
TypeOK ==
    /\ currentTerm \in [Server -> Nat]
    /\ votedFor \in [Server -> Server \cup {noPeer}]
    /\ log \in [Server -> Seq(Entry)]
    /\ state \in [Server -> {"follower", "candidate", "leader"}]
    /\ votesReceived \in [Server -> Nat]
    /\ commitIndex \in [Server -> Nat]
    /\ lastApplied \in [Server -> Nat]
    /\ nextIndex \in [Server -> [Server -> Nat]]
    /\ matchIndex \in [Server -> [Server -> Nat]]
    /\ persister \in [Server -> [currentTerm : Nat, votedFor : Server \cup {noPeer}, log : Seq(Entry)]]
    /\ voteCalls \subseteq VoteCall
    /\ appendCalls \subseteq AppendCall
    /\ votes \subseteq Server \X Nat \X Server
    /\ leaders \subseteq Nat \X Server
    /\ delivered \subseteq Nat \X Entry

\* A peer never votes for two candidates in one term, whatever it forgets in a
\* crash: RequestVote() and the election timer persist the vote before anybody
\* can learn of it.
OneVotePerTerm ==
    \A v, w \in votes : v[1] = w[1] /\ v[2] = w[2] => v[3] = w[3]

\* At most one peer ever wins the election of a term.
ElectionSafety ==
    \A l, m \in leaders : l[1] = m[1] => l[2] = m[2]

\* No two peers that report themselves as leaders do so for the same term.
OneLeaderReported ==
    \A i, j \in Server :
        state[i] = "leader" /\ state[j] = "leader" /\ currentTerm[i] = currentTerm[j] => i = j

\* Two logs that hold an entry of the same term at the same index are equal up
\* to that index: AppendEntries() only adds entries behind a matching one.
LogMatching ==
    \A i, j \in Server : \A k \in 1..Minimum(Len(log[i]), Len(log[j])) :
        log[i][k].term = log[j][k].term => SubSeq(log[i], 1, k) = SubSeq(log[j], 1, k)

\* A leader holds every entry that a peer of its own or an earlier term knows
\* to be committed.
LeaderCompleteness ==
    \A i, j \in Server :
        state[i] = "leader" /\ currentTerm[j] <= currentTerm[i] =>
            /\ commitIndex[j] <= Len(log[i])
            /\ SubSeq(log[i], 1, commitIndex[j]) = SubSeq(log[j], 1, commitIndex[j])

\* No two ApplyMsgs ever carry different entries for one index, on whichever
\* peer and on whichever side of a crash they were sent.
StateMachineSafety ==
    \A d, e \in delivered : d[1] = e[1] => d[2] = e[2]

\* What a leader believes to be stored on a follower that has not moved on to
\* a later term is stored there: matchIndex never counts towards a commit an
\* entry the follower does not have.
MatchIndexSound ==
    \A i, j \in Server :
        state[i] = "leader" /\ i # j /\ currentTerm[j] <= currentTerm[i] =>
            /\ matchIndex[i][j] <= Minimum(Len(log[i]), Len(log[j]))
            /\ SubSeq(log[i], 1, matchIndex[i][j]) = SubSeq(log[j], 1, matchIndex[i][j])

\* Every index that the code uses on a log is within it: a leader's nextIndex
\* for a peer is at most one past its log (sendAppendEntriesToPeers() reads the
\* entry before it), and a committed entry exists (applyCommittedRoutine()
\* reads those up to commitIndex).
PeerIndexInLog ==
    \A i \in Server :
        /\ commitIndex[i] <= Len(log[i])
        /\ state[i] = "leader" => \A j \in Peers(i) : nextIndex[i][j] \in 1..Len(log[i]) + 1

\* A step of a peer that stays leader of its term only appends to its log:
\* AppendEntries() never writes over the log of a leader, whatever call of
\* whichever term it gets.
LeaderAppendOnly ==
    [][\A i \in Server :
        state[i] = "leader" /\ state'[i] = "leader" /\ currentTerm'[i] = currentTerm[i]
            => Len(log'[i]) >= Len(log[i]) /\ SubSeq(log'[i], 1, Len(log[i])) = log[i]]_vars

\* A peer never takes back a commit, unless it restarts: whatever old commit
\* index AppendEntries() is told, and although matchIndex goes back when
\* replies arrive out of order.
CommitNeverGoesBack ==
    [][\A i \in Server :
        \/ commitIndex'[i] >= commitIndex[i]
        \/ Restart(i)
        \/ \E c \in voteCalls \cup appendCalls : RestartInHandler(i, c)]_vars

\* A peer's term never goes back, not even in a restart, and while its term
\* stays the same so does a vote it has cast.
TermNeverGoesBack ==
    [][\A i \in Server :
        /\ currentTerm'[i] >= currentTerm[i]
        /\ currentTerm'[i] = currentTerm[i] /\ votedFor[i] # noPeer => votedFor'[i] = votedFor[i]]_vars

=============================================================================
