----------------------------- MODULE RaftProofs -----------------------------
(***************************************************************************)
(* Theorems about module Raft, for any number of peers and any bounds:     *)
(* types, votes, and elections.                                            *)
(***************************************************************************)
EXTENDS Raft, TLAPS, FiniteSetTheorems, WellFoundedInduction

\* The prover of a leaf that names none, and the seconds it has; a leaf that takes
\* arithmetic or sequences names SMT.
USE ZenonT(30)

-----------------------------------------------------------------------------
(* What the operators on logs return *)

\* A set of naturals below a bound has a largest element.
LEMMA LargestExists ==
    ASSUME NEW n \in Nat, NEW S \in SUBSET (0..n), S # {}
    PROVE  \E m \in S : \A k \in S : k <= m
<1> DEFINE T == {n - k : k \in S}
<1>1. T \subseteq Nat /\ T # {}
  <2>1. \A k \in S : k \in Nat /\ n - k \in Nat
    BY SMTT(30)
  <2>2. T \subseteq Nat
    BY <2>1
  <2>3. PICK k \in S : TRUE
    OBVIOUS
  <2>4. n - k \in T
    OBVIOUS
  <2> QED BY <2>2, <2>4
<1>2. PICK x \in T : \A y \in T : ~(<<y, x>> \in OpToRel(<, Nat))
  BY <1>1, NatLessThanWellFounded, WFMin
<1>3. \A y \in T : ~(y < x)
  BY <1>1, <1>2 DEF OpToRel
<1>4. PICK m \in S : x = n - m
  OBVIOUS
<1>5. ASSUME NEW k \in S
      PROVE  k <= m
  <2>1. ~(n - k < n - m)
    BY <1>3, <1>4
  <2> QED BY <2>1, SMTT(30)
<1> QED BY <1>5

\* A term read from a log is a term.
LEMMA TermAtType ==
    ASSUME NEW l \in Seq(Entry), NEW k \in 0..Len(l)
    PROVE  TermAt(l, k) \in Nat
<1>1. CASE k = 0
  BY <1>1 DEF TermAt
<1>2. CASE k # 0
  <2>1. l[k] \in Entry
    BY <1>2, SMTT(30)
  <2> QED BY <1>2, <2>1 DEF TermAt, Entry
<1> QED BY <1>1, <1>2

\* The hint of a follower whose log does not match is an index from 1 up, and
\* none beyond the one that did not match.
LEMMA NextTryHintType ==
    ASSUME NEW l \in Seq(Entry), NEW prev \in Nat, prev # 0
    PROVE  NextTryHint(l, prev) \in 1..prev
<1>1. CASE Len(l) < prev
  <2>1. Len(l) \in Nat
    BY SMTT(30)
  <2> QED BY <1>1, <2>1, SMTT(30) DEF NextTryHint
<1>2. CASE ~(Len(l) < prev)
  <2> DEFINE S == {k \in 0..prev - 1 : k = 0 \/ TermAt(l, k) # TermAt(l, prev)}
             P(h) == /\ \A k \in h..prev : TermAt(l, k) = TermAt(l, prev)
                     /\ h = 1 \/ TermAt(l, h - 1) # TermAt(l, prev)
  <2>1. S \in SUBSET (0..prev - 1) /\ 0 \in S /\ prev - 1 \in Nat
    BY SMTT(30)
  <2>2. PICK m \in S : \A k \in S : k <= m
    BY <2>1, LargestExists
  <2>3. m \in 0..prev - 1 /\ (m = 0 \/ TermAt(l, m) # TermAt(l, prev))
    OBVIOUS
  <2>4. ASSUME NEW k \in m + 1..prev
        PROVE  TermAt(l, k) = TermAt(l, prev)
    <3>1. CASE k = prev
      BY <3>1
    <3>2. CASE k # prev
      <4>1. k \in 0..prev - 1 /\ ~(k <= m)
        BY <3>2, <2>3, SMTT(30)
      <4> QED BY <4>1, <2>2
    <3> QED BY <3>1, <3>2
  <2>5. m + 1 \in 1..prev /\ P(m + 1)
    BY <2>3, <2>4, SMTT(30)
  <2>6. (CHOOSE h \in 1..prev : P(h)) \in 1..prev
    <3> HIDE DEF P
    <3> QED BY <2>5
  <2>7. NextTryHint(l, prev) \in 1..prev
    BY <1>2, <2>6 DEF NextTryHint
  <2> QED BY <2>7
<1> QED BY <1>1, <1>2

\* The log stays a sequence of entries when a follower overwrites its tail.
LEMMA OverwriteType ==
    ASSUME NEW l \in Seq(Entry), NEW prev \in 0..Len(l), NEW entries \in Seq(Entry)
    PROVE  Overwrite(l, prev, entries) \in Seq(Entry)
<1>1. SubSeq(l, 1, prev) \in Seq(Entry)
  BY SMTT(30)
<1> QED BY <1>1, SMTT(30) DEF Overwrite

\* tryCommit() returns an index.
LEMMA TryCommitType ==
    ASSUME TypeOK, NEW i \in Server, NEW match
    PROVE  /\ tryCommit(i, match) \in Nat
           /\ tryCommit(i, match) >= commitIndex[i]
<1>1. commitIndex[i] \in Nat /\ Len(log[i]) \in Nat
  BY SMTT(30) DEF TypeOK
<1>2. CASE Committable(i, match) = {}
  BY <1>1, <1>2, SMTT(30) DEF tryCommit
<1>3. CASE Committable(i, match) # {}
  <2>1. Committable(i, match) \in SUBSET (0..Len(log[i]))
    BY <1>1, SMTT(30) DEF Committable
  <2>2. \E N \in Committable(i, match) : \A M \in Committable(i, match) : M <= N
    BY <1>1, <1>3, <2>1, LargestExists
  <2>3. tryCommit(i, match) \in Committable(i, match)
    BY <1>3, <2>2 DEF tryCommit
  <2> QED BY <1>1, <2>3, SMTT(30) DEF Committable
<1> QED BY <1>2, <1>3

-----------------------------------------------------------------------------
(* Type correctness *)

\* An AppendEntries call whose new entries start the log names the dummy
\* entry's term, so that every log matches it and no hint is asked for.
FirstEntryMatches == \A c \in appendCalls : c.prevLogIndex = 0 => c.prevLogTerm = 0

TypeInv == TypeOK /\ FirstEntryMatches

\* What TypeInv says of the fields, for the proofs that leave TypeInv folded.
LEMMA TypeParts == (TypeInv => TypeOK) /\ (TypeInv' => TypeOK')
BY DEF TypeInv

\* persist() stores fields of the right type.
LEMMA PersistType ==
    ASSUME TypeOK, NEW i \in Server, persist(i),
           currentTerm' \in [Server -> Nat],
           votedFor' \in [Server -> Server \cup {noPeer}],
           log' \in [Server -> Seq(Entry)]
    PROVE  persister' \in [Server -> [currentTerm : Nat, votedFor : Server \cup {noPeer}, log : Seq(Entry)]]
BY DEF TypeOK, persist

\* convertToFollowerIfOutOfTerm() leaves the fields it touches well typed.
LEMMA ConvertType ==
    ASSUME TypeOK, NEW i \in Server, NEW t \in Nat, convertToFollowerIfOutOfTerm(i, t)
    PROVE  /\ currentTerm' \in [Server -> Nat]
           /\ state' \in [Server -> {"follower", "candidate", "leader"}]
           /\ VoteAfter(i, t) \in Server \cup {noPeer}
BY DEF TypeOK, convertToFollowerIfOutOfTerm, VoteAfter, OutOfTerm

\* The calls that a round of AppendEntries adds are well formed.
LEMMA SendType ==
    ASSUME TypeInv, NEW i \in Server, NEW next \in [Server -> Nat],
           SendAppendEntriesToPeers(i, next)
    PROVE  (appendCalls \subseteq AppendCall /\ FirstEntryMatches)'
<1>1. ASSUME NEW j \in Peers(i)
      PROVE  /\ AppendEntriesCall(i, j, next[j]) \in AppendCall
             /\ AppendEntriesCall(i, j, next[j]).prevLogIndex = 0 =>
                    AppendEntriesCall(i, j, next[j]).prevLogTerm = 0
  <2>1. /\ log[i] \in Seq(Entry) /\ currentTerm[i] \in Nat /\ commitIndex[i] \in Nat
        /\ next[j] \in Nat /\ next[j] - 1 \in 0..Len(log[i]) /\ j \in Server
    BY <1>1, TypeParts DEF TypeOK, SendAppendEntriesToPeers, Peers
  <2>2. TermAt(log[i], next[j] - 1) \in Nat
    BY <2>1, TermAtType
  <2>3. SubSeq(log[i], next[j], Len(log[i])) \in Seq(Entry)
    BY <2>1, SMTT(30)
  <2>4. next[j] - 1 = 0 => TermAt(log[i], next[j] - 1) = 0
    BY DEF TermAt
  <2> QED BY <2>1, <2>2, <2>3, <2>4, SMTT(30) DEF AppendEntriesCall, AppendCall, Phase
<1> QED BY <1>1 DEF TypeInv, TypeOK, FirstEntryMatches, SendAppendEntriesToPeers

\* Where the calls in flight after a crash come from.
LEMMA OrphanedOrigin ==
    ASSUME NEW calls, NEW i, NEW c \in Orphaned(calls, i)
    PROVE  \/ c \in calls /\ c.from # i
           \/ \E d \in calls : d.from = i /\ d.phase # "reply" /\ c = Orphan(d)
BY DEF Orphaned

\* Crashing a caller leaves its calls well formed.
LEMMA OrphanedType ==
    ASSUME TypeInv, NEW i \in Server
    PROVE  /\ Orphaned(voteCalls, i) \subseteq VoteCall
           /\ Orphaned(appendCalls, i) \subseteq AppendCall
           /\ \A c \in Orphaned(appendCalls, i) : c.prevLogIndex = 0 => c.prevLogTerm = 0
<1>1. ASSUME NEW c \in VoteCall
      PROVE  Orphan(c) \in VoteCall
  BY DEF VoteCall, Phase, Orphan
<1>2. ASSUME NEW c \in AppendCall
      PROVE  /\ Orphan(c) \in AppendCall
             /\ Orphan(c).prevLogIndex = c.prevLogIndex
             /\ Orphan(c).prevLogTerm = c.prevLogTerm
  BY DEF AppendCall, Phase, Orphan
<1>3. voteCalls \subseteq VoteCall /\ appendCalls \subseteq AppendCall
  BY TypeParts DEF TypeOK
<1>4. Orphaned(voteCalls, i) \subseteq VoteCall
  BY <1>1, <1>3, OrphanedOrigin, SMTT(30)
<1>5. ASSUME NEW c \in Orphaned(appendCalls, i)
      PROVE  c \in AppendCall /\ (c.prevLogIndex = 0 => c.prevLogTerm = 0)
  BY <1>2, <1>3, OrphanedOrigin, SMTT(30) DEF TypeInv, FirstEntryMatches
<1> QED BY <1>4, <1>5

\* Writing over the entries of a call not yet encoded leaves it well formed.
LEMMA LogWriteType ==
    ASSUME TypeInv, NEW i \in Server, NEW l \in Seq(Entry), NEW written \in SUBSET (1..Len(l)),
           NEW seen \in Sightings(i, written)
    PROVE  /\ AfterLogWrite(i, l, written, seen) \subseteq AppendCall
           /\ \A c \in AfterLogWrite(i, l, written, seen) : c.prevLogIndex = 0 => c.prevLogTerm = 0
<1>1. ASSUME NEW c \in Spawned(i)
      PROVE  /\ WrittenOver(c, l, written, seen[c]) \in AppendCall
             /\ WrittenOver(c, l, written, seen[c]).prevLogIndex = c.prevLogIndex
             /\ WrittenOver(c, l, written, seen[c]).prevLogTerm = c.prevLogTerm
  <2> DEFINE Sees(n, field) == <<c.prevLogIndex + n, field>> \in seen[c]
             entry(n) == [command |-> IF Sees(n, "command") THEN l[c.prevLogIndex + n].command
                                                            ELSE c.entries[n].command,
                          term |-> IF Sees(n, "term") THEN l[c.prevLogIndex + n].term
                                                      ELSE c.entries[n].term]
             e == [n \in 1..Len(c.entries) |-> entry(n)]
  <2>1. c \in AppendCall /\ seen[c] \subseteq Fields(written)
    BY TypeParts DEF Sightings, Spawned, TypeOK
  <2>2. c.entries \in Seq(Entry)
    BY <2>1 DEF AppendCall
  <2>3. ASSUME NEW n \in 1..Len(c.entries)
        PROVE  entry(n) \in Entry
    <3>1. c.entries[n] \in Entry
      BY <2>2, SMTT(30)
    <3>2. ASSUME NEW field, Sees(n, field)
          PROVE  l[c.prevLogIndex + n] \in Entry
      <4>1. c.prevLogIndex + n \in 1..Len(l)
        BY <2>1, <3>2 DEF Fields
      <4> QED BY <4>1, SMTT(30)
    <3> HIDE DEF Sees
    <3> QED BY <3>1, <3>2 DEF Entry
  <2>4. e \in [1..Len(c.entries) -> Entry] /\ Len(c.entries) \in Nat
    <3> HIDE DEF entry
    <3> QED BY <2>2, <2>3, SMTT(30)
  <2> HIDE DEF e
  <2>5. e \in Seq(Entry)
    BY <2>4, SMTT(30)
  <2>6. WrittenOver(c, l, written, seen[c]) =
            [c EXCEPT !.phase = IF seen[c] = Fields(written) THEN "spawned" ELSE "request",
                      !.entries = e]
    BY DEF WrittenOver, e
  <2> QED BY <2>1, <2>5, <2>6 DEF AppendCall, Phase
<1>2. appendCalls \subseteq AppendCall /\ Spawned(i) \subseteq appendCalls
  BY TypeParts DEF TypeOK, Spawned
<1> QED BY <1>1, <1>2, SMTT(30) DEF AfterLogWrite, TypeInv, FirstEntryMatches

\* The cells that AppendEntries() writes are cells of the log it leaves.
LEMMA WrittenInLog ==
    ASSUME NEW l \in Seq(Entry), NEW prev \in Nat, prev <= Len(l), NEW entries \in Seq(Entry)
    PROVE  Written(l, prev, entries) \subseteq 1..Len(Overwrite(l, prev, entries))
<1> SUFFICES ASSUME NEW k \in Written(l, prev, entries)
             PROVE  k \in 1..Len(Overwrite(l, prev, entries))
  OBVIOUS
<1>1. PICK n \in 1..Len(entries) :
          /\ k = prev + n
          /\ \E m \in 1..n : ~(prev + m <= Len(l) /\ l[prev + m] = entries[m])
  BY DEF Written
<1>2. Overwrite(l, prev, entries) = SubSeq(l, 1, prev) \o entries
  BY <1>1, SMTT(30) DEF Overwrite
<1>3. SubSeq(l, 1, prev) \in Seq(Entry) /\ Len(SubSeq(l, 1, prev)) = prev
  BY SMTT(30)
<1>4. Len(SubSeq(l, 1, prev) \o entries) = prev + Len(entries)
  BY <1>3, SMTT(30)
<1> QED BY <1>1, <1>2, <1>4, SMTT(30)

\* Make() on an empty persister has the types.
LEMMA InitType == Init => TypeInv
<1> SUFFICES ASSUME Init
             PROVE  TypeInv
  OBVIOUS
<1>1. <<>> \in Seq(Entry)
  BY SMTT(30)
<1> QED BY <1>1 DEF Init, zeros, TypeInv, TypeOK, FirstEntryMatches

\* A new candidate (electionTimeoutTimer and startElection) keeps the types.
LEMMA ElectionTimeoutType ==
    ASSUME TypeInv, NEW i \in Server, ElectionTimeout(i)
    PROVE  TypeInv'
<1>1. /\ log[i] \in Seq(Entry)
      /\ currentTerm[i] \in Nat
  BY TypeParts DEF TypeOK
<1>2. Len(log[i]) \in Nat /\ LastTerm(log[i]) \in Nat
  BY <1>1, TermAtType, SMTT(30) DEF LastTerm
<1>3. \A j \in Peers(i) : RequestVoteCall(i, j, currentTerm[i] + 1) \in VoteCall
  BY <1>1, <1>2, SMTT(30) DEF RequestVoteCall, VoteCall, Phase, Peers
<1>4. voteCalls' \subseteq VoteCall
  BY <1>3, TypeParts DEF ElectionTimeout, TypeOK
<1>5. /\ currentTerm' \in [Server -> Nat]
      /\ votedFor' \in [Server -> Server \cup {noPeer}]
      /\ log' \in [Server -> Seq(Entry)]
      /\ state' \in [Server -> {"follower", "candidate", "leader"}]
      /\ votesReceived' \in [Server -> Nat]
  BY <1>1, TypeParts, SMTT(30) DEF ElectionTimeout, TypeOK
<1>6. persister' \in [Server -> [currentTerm : Nat, votedFor : Server \cup {noPeer}, log : Seq(Entry)]]
  BY <1>5, PersistType DEF ElectionTimeout, TypeInv
<1>7. votes' \subseteq Server \X Nat \X Server
  <2>1. <<i, currentTerm[i] + 1, i>> \in Server \X Nat \X Server
    BY <1>1, SMTT(30)
  <2> QED BY <2>1, TypeParts DEF ElectionTimeout, TypeOK
<1> QED BY <1>4, <1>5, <1>6, <1>7 DEF ElectionTimeout, TypeInv, TypeOK, FirstEntryMatches, leaderVars, applyVars

\* The RequestVote handler keeps the types.
LEMMA RequestVoteType ==
    ASSUME TypeInv, NEW c \in voteCalls, RequestVote(c.to, c)
    PROVE  TypeInv'
<1>1. c \in VoteCall
  BY TypeParts DEF TypeOK
<1>2. c.to \in Server /\ c.from \in Server /\ c.term \in Nat
  BY <1>1 DEF VoteCall
<1>3. /\ currentTerm' \in [Server -> Nat]
      /\ state' \in [Server -> {"follower", "candidate", "leader"}]
      /\ VoteAfter(c.to, c.term) \in Server \cup {noPeer}
  BY <1>2, ConvertType DEF RequestVote, TypeInv
<1>4. /\ votedFor' \in [Server -> Server \cup {noPeer}]
      /\ log' \in [Server -> Seq(Entry)]
  BY <1>2, <1>3, TypeParts DEF RequestVote, TypeOK
<1>5. persister' \in [Server -> [currentTerm : Nat, votedFor : Server \cup {noPeer}, log : Seq(Entry)]]
  BY <1>2, <1>3, <1>4, PersistType, TypeParts DEF RequestVote, TypeOK
<1>6. Grants(c.to, c) \in BOOLEAN
  BY DEF Grants
<1>7. [c EXCEPT !.phase = "reply", !.replyTerm = currentTerm'[c.to],
                !.voteGranted = Grants(c.to, c)] \in VoteCall
  BY <1>1, <1>2, <1>3, <1>6 DEF VoteCall, Phase
<1>8. voteCalls' \subseteq VoteCall
  BY <1>7, TypeParts DEF RequestVote, AfterReply, TypeOK
<1>9. votes' \subseteq Server \X Nat \X Server
  <2>1. <<c.to, c.term, c.from>> \in Server \X Nat \X Server
    BY <1>2
  <2> QED BY <2>1, TypeParts DEF RequestVote, TypeOK
<1> QED BY <1>3, <1>4, <1>5, <1>8, <1>9
        DEF RequestVote, TypeInv, TypeOK, FirstEntryMatches, leaderVars, applyVars

\* Falling back to follower on a newer term keeps the types.
LEMMA StepDownType ==
    ASSUME TypeInv, NEW i \in Server, NEW t \in Nat, StepDown(i, t),
           voteCalls' \subseteq voteCalls, appendCalls' \subseteq appendCalls
    PROVE  TypeInv'
<1>1. /\ currentTerm' \in [Server -> Nat]
      /\ state' \in [Server -> {"follower", "candidate", "leader"}]
  BY ConvertType DEF StepDown, TypeInv
<1>2. /\ votedFor' \in [Server -> Server \cup {noPeer}]
      /\ log' \in [Server -> Seq(Entry)]
  BY TypeParts DEF StepDown, TypeOK
<1>3. persister' \in [Server -> [currentTerm : Nat, votedFor : Server \cup {noPeer}, log : Seq(Entry)]]
  BY <1>1, <1>2, PersistType DEF StepDown, TypeInv
<1> QED BY <1>1, <1>2, <1>3
        DEF StepDown, TypeInv, TypeOK, FirstEntryMatches, electionVars, leaderVars, applyVars

\* Every way a vote reply is treated keeps the types; the winner's nextIndex
\* starts past its own log.
LEMMA VoteReplyType ==
    ASSUME TypeInv, NEW c \in voteCalls,
           \/ VoteReplyOutOfTerm(c.from, c)
           \/ VoteReplyDenied(c.from, c)
           \/ VoteReplyGranted(c.from, c)
    PROVE  TypeInv'
<1>1. c.from \in Server /\ c.replyTerm \in Nat
  BY TypeParts DEF TypeOK, VoteCall
<1>2. CASE VoteReplyOutOfTerm(c.from, c)
  BY <1>1, <1>2, StepDownType DEF VoteReplyOutOfTerm
<1>3. CASE VoteReplyDenied(c.from, c)
  BY <1>3 DEF VoteReplyDenied, TypeInv, TypeOK, FirstEntryMatches, logVars, electionVars, leaderVars, applyVars
<1>4. CASE VoteReplyGranted(c.from, c)
  <2>1. /\ votesReceived' \in [Server -> Nat]
        /\ voteCalls' \subseteq VoteCall
    <3>1. votesReceived \in [Server -> Nat] /\ voteCalls \subseteq VoteCall
      BY TypeParts DEF TypeOK
    <3>2. /\ votesReceived' = [votesReceived EXCEPT ![c.from] = @ + 1]
          /\ voteCalls' \subseteq voteCalls
      BY <1>4 DEF VoteReplyGranted
    <3>3. votesReceived' \in [Server -> Nat]
      BY <1>1, <3>1, <3>2, SMTT(30)
    <3> QED BY <3>1, <3>2, <3>3
  <2>2. CASE state[c.from] # "leader" /\ IsMajority(votesReceived[c.from] + 1)
    <3>1. Len(log[c.from]) + 1 \in Nat /\ currentTerm[c.from] \in Nat
      BY <1>1, TypeParts, SMTT(30) DEF TypeOK
    <3>2. /\ state' = [state EXCEPT ![c.from] = "leader"]
          /\ leaders' = leaders \cup {<<currentTerm[c.from], c.from>>}
          /\ nextIndex' = [nextIndex EXCEPT ![c.from] = [j \in Server |-> Len(log[c.from]) + 1]]
          /\ matchIndex' = [matchIndex EXCEPT ![c.from] = [j \in Server |-> 0]]
          /\ SendAppendEntriesToPeers(c.from, nextIndex'[c.from])
      BY <1>4, <2>2 DEF VoteReplyGranted, zeros
    <3>3. /\ state' \in [Server -> {"follower", "candidate", "leader"}]
          /\ nextIndex' \in [Server -> [Server -> Nat]]
          /\ matchIndex' \in [Server -> [Server -> Nat]]
      BY <3>1, <3>2, TypeParts DEF TypeOK
    <3>4. leaders' \subseteq Nat \X Server
      BY <1>1, <3>1, <3>2, TypeParts, SMTT(30) DEF TypeOK
    <3>5. (appendCalls \subseteq AppendCall /\ FirstEntryMatches)'
      BY <1>1, <3>2, <3>3, SendType
    <3> QED BY <1>4, <2>1, <3>3, <3>4, <3>5
             DEF VoteReplyGranted, TypeInv, TypeOK, logVars, applyVars
  <2>3. CASE ~(state[c.from] # "leader" /\ IsMajority(votesReceived[c.from] + 1))
    BY <1>4, <2>1, <2>3 DEF VoteReplyGranted, TypeInv, TypeOK, FirstEntryMatches, logVars, leaderVars, applyVars
  <2> QED BY <2>2, <2>3
<1> QED BY <1>2, <1>3, <1>4

\* The AppendEntries handler keeps the types: whatever it cuts off and appends,
\* the log stays a sequence and commitIndex stays inside it.
LEMMA AppendEntriesType ==
    ASSUME TypeInv, NEW c \in appendCalls, AppendEntries(c.to, c)
    PROVE  TypeInv'
<1> DEFINE i == c.to
<1>1. c \in AppendCall
  BY TypeParts DEF TypeOK
<1>2. /\ i \in Server /\ c.term \in Nat /\ c.prevLogIndex \in Nat /\ c.entries \in Seq(Entry)
      /\ c.leaderCommit \in Nat /\ c.prevLogTerm \in Nat
      /\ log[i] \in Seq(Entry) /\ commitIndex[i] \in Nat /\ currentTerm[i] \in Nat
  BY <1>1, TypeParts DEF AppendCall, TypeOK
<1>3. c.prevLogIndex = 0 => c.prevLogTerm = 0
  BY DEF TypeInv, FirstEntryMatches
<1>4. /\ currentTerm' \in [Server -> Nat]
      /\ state' \in [Server -> {"follower", "candidate", "leader"}]
      /\ VoteAfter(i, c.term) \in Server \cup {noPeer}
  BY <1>2, ConvertType DEF AppendEntries, TypeInv
<1>5. votedFor' \in [Server -> Server \cup {noPeer}]
  BY <1>2, <1>4, TypeParts DEF AppendEntries, TypeOK
<1> DEFINE Rest == /\ log' \in [Server -> Seq(Entry)]
                   /\ commitIndex' \in [Server -> Nat]
                   /\ persister' \in [Server -> [currentTerm : Nat, votedFor : Server \cup {noPeer}, log : Seq(Entry)]]
                   /\ (appendCalls \subseteq AppendCall /\ FirstEntryMatches)'
<1>6. ASSUME NEW calls, NEW r, r \in AppendCall, r.prevLogIndex = c.prevLogIndex, r.prevLogTerm = c.prevLogTerm,
             calls \subseteq AppendCall,
             \A d \in calls : d.prevLogIndex = 0 => d.prevLogTerm = 0,
             appendCalls' \in AfterAppendReply(calls, c, r)
      PROVE  (appendCalls \subseteq AppendCall /\ FirstEntryMatches)'
  BY <1>1, <1>3, <1>6 DEF AfterAppendReply, AfterReply, FirstEntryMatches
<1>7. ASSUME RejectSmallerTerm(i, c)
      PROVE  Rest
  <2> DEFINE r == [c EXCEPT !.phase = "reply", !.replyTerm = currentTerm[i],
                            !.nextTryHint = Len(log[i]) + 1]
  <2>1. r \in AppendCall /\ r.prevLogIndex = c.prevLogIndex /\ r.prevLogTerm = c.prevLogTerm
    <3>1. Len(log[i]) + 1 \in Nat
      BY <1>2, SMTT(30)
    <3> QED BY <1>1, <1>2, <3>1 DEF AppendCall, Phase
  <2>2. appendCalls' \in AfterAppendReply(appendCalls, c, r)
    BY <1>7 DEF RejectSmallerTerm
  <2> HIDE DEF r
  <2>3. (appendCalls \subseteq AppendCall /\ FirstEntryMatches)'
    BY <2>1, <2>2, <1>6 DEF TypeInv, TypeOK, FirstEntryMatches
  <2> QED BY <1>7, <2>3, TypeParts DEF RejectSmallerTerm, logVars, TypeOK
<1>8. ASSUME RejectMismatch(i, c)
      PROVE  Rest
  <2> DEFINE r == [c EXCEPT !.phase = "reply", !.replyTerm = c.term,
                            !.nextTryHint = NextTryHint(log[i], c.prevLogIndex)]
  <2>1. c.prevLogIndex # 0
    BY <1>2, <1>3, <1>8, SMTT(30) DEF RejectMismatch, PrevMatches, TermAt
  <2>2. NextTryHint(log[i], c.prevLogIndex) \in Nat
    <3>1. NextTryHint(log[i], c.prevLogIndex) \in 1..c.prevLogIndex
      BY <1>2, <2>1, NextTryHintType
    <3>2. 1..c.prevLogIndex \subseteq Nat
      BY <1>2, SMTT(30)
    <3> QED BY <3>1, <3>2
  <2>3. r \in AppendCall /\ r.prevLogIndex = c.prevLogIndex /\ r.prevLogTerm = c.prevLogTerm
    BY <1>1, <1>2, <2>2 DEF AppendCall, Phase
  <2>4. appendCalls' \in AfterAppendReply(appendCalls, c, r)
    BY <1>8 DEF RejectMismatch
  <2> HIDE DEF r
  <2>5. (appendCalls \subseteq AppendCall /\ FirstEntryMatches)'
    BY <2>3, <2>4, <1>6 DEF TypeInv, TypeOK, FirstEntryMatches
  <2>6. log' \in [Server -> Seq(Entry)] /\ commitIndex' \in [Server -> Nat]
    BY <1>8, TypeParts DEF RejectMismatch, TypeOK
  <2>7. persister' \in [Server -> [currentTerm : Nat, votedFor : Server \cup {noPeer}, log : Seq(Entry)]]
    BY <1>2, <1>4, <1>5, <1>8, <2>6, PersistType, TypeParts DEF RejectMismatch, TypeOK
  <2> QED BY <2>5, <2>6, <2>7
<1>9. ASSUME AcceptEntries(i, c)
      PROVE  Rest
  <2> DEFINE r == [c EXCEPT !.phase = "reply", !.replyTerm = c.term, !.success = TRUE]
             written == Written(log[i], c.prevLogIndex, c.entries)
  <2>1. r \in AppendCall /\ r.prevLogIndex = c.prevLogIndex /\ r.prevLogTerm = c.prevLogTerm
    BY <1>1, <1>2 DEF AppendCall, Phase
  <2>2. Overwrite(log[i], c.prevLogIndex, c.entries) \in Seq(Entry)
    BY <1>2, <1>9, OverwriteType, SMTT(30) DEF AcceptEntries, PrevMatches
  <2>3. log' \in [Server -> Seq(Entry)] /\ log'[i] \in Seq(Entry)
    BY <1>2, <1>9, <2>2, TypeParts DEF AcceptEntries, TypeOK
  <2>4. commitIndex' \in [Server -> Nat]
    BY <1>2, <1>9, TypeParts, SMTT(30) DEF AcceptEntries, Minimum, TypeOK
  <2>5. persister' \in [Server -> [currentTerm : Nat, votedFor : Server \cup {noPeer}, log : Seq(Entry)]]
    BY <1>2, <1>4, <1>5, <1>9, <2>3, PersistType DEF AcceptEntries, TypeInv
  <2>6. written \in SUBSET (1..Len(log'[i]))
    <3>1. log'[i] = Overwrite(log[i], c.prevLogIndex, c.entries) /\ c.prevLogIndex <= Len(log[i])
      BY <1>2, <1>9, TypeParts DEF AcceptEntries, PrevMatches, TypeOK
    <3> QED BY <1>2, <3>1, WrittenInLog
  <2>7. PICK seen \in Sightings(i, written) :
            appendCalls' \in AfterAppendReply(AfterLogWrite(i, log'[i], written, seen), c, r)
    BY <1>9 DEF AcceptEntries
  <2> HIDE DEF r, written
  <2>8. /\ AfterLogWrite(i, log'[i], written, seen) \subseteq AppendCall
        /\ \A d \in AfterLogWrite(i, log'[i], written, seen) : d.prevLogIndex = 0 => d.prevLogTerm = 0
    BY <1>2, <2>3, <2>6, LogWriteType
  <2>9. (appendCalls \subseteq AppendCall /\ FirstEntryMatches)'
    BY <2>1, <2>7, <2>8, <1>6
  <2> QED BY <2>3, <2>4, <2>5, <2>9
<1>10. Rest
  BY <1>7, <1>8, <1>9 DEF AppendEntries
<1> QED BY <1>4, <1>5, <1>10 DEF AppendEntries, TypeInv, TypeOK, electionVars, leaderVars

\* Setting nextIndex or matchIndex of one leader for one peer keeps its type.
LEMMA PeerIndexType ==
    ASSUME NEW f \in [Server -> [Server -> Nat]], NEW i \in Server, NEW j \in Server, NEW n \in Nat
    PROVE  [f EXCEPT ![i][j] = n] \in [Server -> [Server -> Nat]]
<1>1. [f[i] EXCEPT ![j] = n] \in [Server -> Nat]
  OBVIOUS
<1> QED BY <1>1

\* Every way an AppendEntries reply is treated keeps the types.
LEMMA AppendReplyType ==
    ASSUME TypeInv, NEW c \in appendCalls,
           \/ AppendReplyOutOfTerm(c.from, c)
           \/ AppendReplyNotLeader(c.from, c)
           \/ AppendReplySuccess(c.from, c)
           \/ AppendReplyFailure(c.from, c)
    PROVE  TypeInv'
<1>1. /\ c.from \in Server /\ c.to \in Server /\ c.replyTerm \in Nat /\ c.nextTryHint \in Nat
      /\ c.prevLogIndex \in Nat /\ c.entries \in Seq(Entry)
  BY TypeParts DEF TypeOK, AppendCall
<1>2. CASE AppendReplyOutOfTerm(c.from, c)
  BY <1>1, <1>2, StepDownType DEF AppendReplyOutOfTerm
<1>3. CASE AppendReplyNotLeader(c.from, c)
  BY <1>3 DEF AppendReplyNotLeader, AppendReply, TypeInv, TypeOK, FirstEntryMatches, logVars,
              electionVars, leaderVars
<1>4. CASE AppendReplySuccess(c.from, c)
  <2>1. c.prevLogIndex + Len(c.entries) \in Nat
    BY <1>1, SMTT(30)
  <2>2. /\ nextIndex' \in [Server -> [Server -> Nat]]
        /\ matchIndex' \in [Server -> [Server -> Nat]]
    <3>1. /\ nextIndex' = [nextIndex EXCEPT ![c.from][c.to] = c.prevLogIndex + Len(c.entries) + 1]
          /\ matchIndex' = [matchIndex EXCEPT ![c.from][c.to] = c.prevLogIndex + Len(c.entries)]
      BY <1>4 DEF AppendReplySuccess
    <3>2. nextIndex \in [Server -> [Server -> Nat]] /\ matchIndex \in [Server -> [Server -> Nat]]
      BY TypeParts DEF TypeOK
    <3>3. nextIndex' \in [Server -> [Server -> Nat]]
      <4>1. c.prevLogIndex + Len(c.entries) + 1 \in Nat
        BY <2>1, SMTT(30)
      <4> QED BY <1>1, <3>1, <3>2, <4>1, PeerIndexType
    <3>4. matchIndex' \in [Server -> [Server -> Nat]]
      BY <1>1, <2>1, <3>1, <3>2, PeerIndexType
    <3> QED BY <3>3, <3>4
  <2>3. tryCommit(c.from, matchIndex'[c.from]) \in Nat
    BY <1>1, TryCommitType DEF TypeInv
  <2>4. commitIndex' \in [Server -> Nat]
    BY <1>1, <1>4, <2>3, TypeParts DEF AppendReplySuccess, TypeOK
  <2> QED BY <1>4, <2>2, <2>4 DEF AppendReplySuccess, AppendReply, TypeInv, TypeOK,
              FirstEntryMatches, logVars, electionVars
<1>5. CASE AppendReplyFailure(c.from, c)
  <2>1. nextIndex' \in [Server -> [Server -> Nat]]
    BY <1>1, <1>5, PeerIndexType, TypeParts DEF AppendReplyFailure, TypeOK
  <2> QED BY <1>5, <2>1 DEF AppendReplyFailure, AppendReply, TypeInv, TypeOK,
              FirstEntryMatches, logVars, electionVars
<1> QED BY <1>2, <1>3, <1>4, <1>5

\* Start() keeps the types.
LEMMA StartType ==
    ASSUME TypeInv, NEW i \in Server, NEW command \in Command, Start(i, command)
    PROVE  TypeInv'
<1>1. /\ log[i] \in Seq(Entry)
      /\ [command |-> command, term |-> currentTerm[i]] \in Entry
  BY TypeParts DEF TypeOK, Entry
<1>2. log' \in [Server -> Seq(Entry)] /\ log'[i] = Append(log[i], [command |-> command, term |-> currentTerm[i]])
  BY <1>1, TypeParts, SMTT(30) DEF Start, TypeOK
<1>3. persister' \in [Server -> [currentTerm : Nat, votedFor : Server \cup {noPeer}, log : Seq(Entry)]]
  BY <1>2, PersistType, TypeParts DEF Start, TypeOK
<1>4. log'[i] \in Seq(Entry) /\ {Len(log'[i])} \in SUBSET (1..Len(log'[i]))
  BY <1>1, <1>2, SMTT(30)
<1>5. (appendCalls \subseteq AppendCall /\ FirstEntryMatches)'
  <2>1. PICK seen \in Sightings(i, {Len(log'[i])}) :
            appendCalls' = AfterLogWrite(i, log'[i], {Len(log'[i])}, seen)
    BY DEF Start
  <2> QED BY <1>4, <2>1, LogWriteType DEF FirstEntryMatches
<1> QED BY <1>2, <1>3, <1>5 DEF Start, TypeInv, TypeOK, electionVars, leaderVars, applyVars

\* Delivering the next committed entry keeps the types.
LEMMA ApplyType ==
    ASSUME TypeInv, NEW i \in Server, Apply(i)
    PROVE  TypeInv'
<1>1. lastApplied[i] + 1 \in 1..Len(log[i]) /\ lastApplied[i] + 1 \in Nat /\ log[i] \in Seq(Entry)
  BY TypeParts, SMTT(30) DEF Apply, TypeOK
<1>2. log[i][lastApplied[i] + 1] \in Entry
  BY <1>1, SMTT(30)
<1>3. delivered' \subseteq Nat \X Entry
  BY <1>1, <1>2, TypeParts, SMTT(30) DEF Apply, TypeOK
<1>4. lastApplied' \in [Server -> Nat]
  BY <1>1, TypeParts DEF Apply, TypeOK
<1> QED BY <1>3, <1>4 DEF Apply, TypeInv, TypeOK, FirstEntryMatches, logVars, electionVars, leaderVars

\* Make() on any saved state keeps the types.
LEMMA MakeType ==
    ASSUME TypeInv, NEW i \in Server,
           NEW saved \in [currentTerm : Nat, votedFor : Server \cup {noPeer}, log : Seq(Entry)],
           Make(i, saved),
           persist(i) \/ UNCHANGED persister
    PROVE  TypeInv'
<1>1. /\ currentTerm' \in [Server -> Nat]
      /\ votedFor' \in [Server -> Server \cup {noPeer}]
      /\ log' \in [Server -> Seq(Entry)]
      /\ state' \in [Server -> {"follower", "candidate", "leader"}]
      /\ votesReceived' \in [Server -> Nat]
      /\ commitIndex' \in [Server -> Nat]
      /\ lastApplied' \in [Server -> Nat]
  BY TypeParts DEF Make, readPersist, TypeOK
<1>2. /\ nextIndex' \in [Server -> [Server -> Nat]]
      /\ matchIndex' \in [Server -> [Server -> Nat]]
  BY TypeParts DEF Make, readPersist, zeros, TypeOK
<1>3. persister' \in [Server -> [currentTerm : Nat, votedFor : Server \cup {noPeer}, log : Seq(Entry)]]
  BY <1>1, PersistType, TypeParts DEF TypeOK
<1>4. (voteCalls \subseteq VoteCall /\ appendCalls \subseteq AppendCall /\ FirstEntryMatches)'
  BY OrphanedType DEF Make, readPersist, FirstEntryMatches
<1> QED BY <1>1, <1>2, <1>3, <1>4 DEF Make, readPersist, TypeInv, TypeOK

\* A restart reads back a well-typed state.
LEMMA RestartType ==
    ASSUME TypeInv, NEW i \in Server, Restart(i)
    PROVE  TypeInv'
<1>1. persister[i] \in [currentTerm : Nat, votedFor : Server \cup {noPeer}, log : Seq(Entry)]
  BY TypeParts DEF TypeOK
<1> QED BY <1>1, MakeType DEF Restart

\* So does a restart in the middle of a handler.
LEMMA RestartInHandlerType ==
    ASSUME TypeInv, NEW c, c \in voteCalls \/ c \in appendCalls, RestartInHandler(c.to, c)
    PROVE  TypeInv'
<1>1. c.to \in Server /\ c.term \in Nat
  BY TypeParts DEF TypeOK, VoteCall, AppendCall
<1>2. [currentTerm |-> c.term, votedFor |-> noPeer, log |-> log[c.to]]
        \in [currentTerm : Nat, votedFor : Server \cup {noPeer}, log : Seq(Entry)]
  BY <1>1, TypeParts DEF TypeOK
<1> QED BY <1>1, <1>2, MakeType DEF RestartInHandler

\* Every step of Raft keeps TypeInv.
LEMMA NextType == TypeInv /\ [Next]_vars => TypeInv'
<1> SUFFICES ASSUME TypeInv, [Next]_vars
             PROVE  TypeInv'
  OBVIOUS
<1>1. ASSUME NEW i \in Server, ServerStep(i)
      PROVE  TypeInv'
  <2>1. CASE PeriodicAppendEntries(i)
    <3>1. (appendCalls \subseteq AppendCall /\ FirstEntryMatches)'
      BY <2>1, SendType, TypeParts DEF PeriodicAppendEntries, TypeOK
    <3> QED BY <2>1, <3>1 DEF PeriodicAppendEntries, TypeInv, TypeOK, logVars, electionVars,
                leaderVars, applyVars
  <2> QED BY <1>1, <2>1, ElectionTimeoutType, ApplyType, RestartType, StartType DEF ServerStep
<1>2. ASSUME NEW c \in voteCalls, VoteStep(c)
      PROVE  TypeInv'
  <2>1. CASE LoseVoteCall(c)
    BY <2>1 DEF LoseVoteCall, TypeInv, TypeOK, FirstEntryMatches, logVars, electionVars, leaderVars, applyVars
  <2> QED BY <1>2, <2>1, RequestVoteType, VoteReplyType, RestartInHandlerType DEF VoteStep
<1>3. ASSUME NEW c \in appendCalls, AppendStep(c)
      PROVE  TypeInv'
  <2>1. CASE LoseAppendCall(c)
    BY <2>1 DEF LoseAppendCall, TypeInv, TypeOK, FirstEntryMatches, logVars, electionVars, leaderVars, applyVars
  <2> QED BY <1>3, <2>1, AppendEntriesType, AppendReplyType, RestartInHandlerType DEF AppendStep
<1>4. CASE UNCHANGED vars
  BY <1>4 DEF vars, TypeInv, TypeOK, FirstEntryMatches
<1> QED BY <1>1, <1>2, <1>3, <1>4 DEF Next

\* The fields of every peer, its persister and the calls in flight keep their
\* types for ever, whatever the network loses, delays or reorders.
THEOREM TypeCorrect == Spec => []TypeOK
<1>1. TypeInv => TypeOK
  BY DEF TypeInv
<1> QED BY <1>1, InitType, NextType, PTL DEF Spec

-----------------------------------------------------------------------------
(* Votes: no assumption on the network *)

\* At every release of rf.mu the persister holds what a restart needs.
Durable ==
    \A i \in Server :
        persister[i] = [currentTerm |-> currentTerm[i], votedFor |-> votedFor[i], log |-> log[i]]

\* A peer remembers the vote it cast in its present term.
VoteRemembered ==
    \A w \in votes : /\ w[2] <= currentTerm[w[1]]
                     /\ w[2] = currentTerm[w[1]] => votedFor[w[1]] = w[3]

VoteInv == TypeInv /\ Durable /\ VoteRemembered /\ OneVotePerTerm

\* What a step does to the term and the vote of peer j.
Kept(j) == currentTerm'[j] = currentTerm[j] /\ votedFor'[j] = votedFor[j]

Raised(j) == currentTerm'[j] > currentTerm[j]

NoVote == votes' = votes /\ \A j \in Server : Kept(j) \/ Raised(j)

\* Peer i casts a vote for c: its first in this term, or the same again.
CastsVote(i, c) ==
    /\ votes' = votes \cup {<<i, currentTerm'[i], c>>}
    /\ votedFor'[i] = c
    /\ Raised(i) \/ (currentTerm'[i] = currentTerm[i] /\ votedFor[i] \in {noPeer, c})
    /\ \A j \in Server \ {i} : Kept(j)

VoteStepKind == Durable' /\ (NoVote \/ \E i, c \in Server : CastsVote(i, c))

\* persist() makes the saved state of its server current again.
LEMMA PersistDurable ==
    ASSUME TypeInv, Durable, NEW i \in Server, persist(i),
           \A j \in Server \ {i} : Kept(j) /\ log'[j] = log[j]
    PROVE  Durable'
BY TypeParts, SMTT(30) DEF TypeOK, Durable, persist, Kept

\* A candidate votes for itself in a fresh term.
LEMMA ElectionTimeoutVote ==
    ASSUME TypeInv, Durable, NEW i \in Server, ElectionTimeout(i)
    PROVE  VoteStepKind
<1>1. /\ currentTerm'[i] = currentTerm[i] + 1
      /\ currentTerm[i] \in Nat
      /\ votedFor'[i] = i
      /\ \A j \in Server \ {i} : Kept(j) /\ log'[j] = log[j]
  BY TypeParts, SMTT(30) DEF ElectionTimeout, TypeOK, Kept
<1>2. Durable'
  BY <1>1, PersistDurable DEF ElectionTimeout
<1>3. CastsVote(i, i)
  BY <1>1, SMTT(30) DEF CastsVote, ElectionTimeout, Raised
<1> QED BY <1>2, <1>3 DEF VoteStepKind

\* RequestVote grants at most one vote a term and saves it before it answers.
LEMMA RequestVoteVote ==
    ASSUME TypeInv, Durable, NEW c \in voteCalls, RequestVote(c.to, c)
    PROVE  VoteStepKind
<1> DEFINE i == c.to
<1>1. i \in Server /\ c.from \in Server /\ c.term \in Nat /\ currentTerm[i] \in Nat
  BY TypeParts DEF TypeOK, VoteCall
<1>2. \A j \in Server \ {i} : Kept(j) /\ log'[j] = log[j]
  BY <1>1, TypeParts DEF RequestVote, convertToFollowerIfOutOfTerm, TypeOK, Kept
<1>3. /\ currentTerm'[i] = IF c.term > currentTerm[i] THEN c.term ELSE currentTerm[i]
      /\ votedFor'[i] = IF Grants(i, c) THEN c.from ELSE VoteAfter(i, c.term)
      /\ votes' = IF Grants(i, c) THEN votes \cup {<<i, c.term, c.from>>} ELSE votes
      /\ log' = log
  BY <1>1, TypeParts DEF RequestVote, convertToFollowerIfOutOfTerm, OutOfTerm, TypeOK
<1>4. Durable'
  <2>1. CASE OutOfTerm(i, c.term) \/ Grants(i, c)
    BY <1>1, <1>2, <2>1, PersistDurable DEF RequestVote
  <2>2. CASE ~(OutOfTerm(i, c.term) \/ Grants(i, c))
    <3>1. UNCHANGED persister /\ currentTerm'[i] = currentTerm[i] /\ votedFor'[i] = votedFor[i]
      BY <1>1, <1>3, <2>2 DEF RequestVote, OutOfTerm, VoteAfter
    <3> QED BY <1>2, <1>3, <3>1 DEF Durable, Kept
  <2> QED BY <2>1, <2>2
<1>5. CASE Grants(i, c)
  <2>1. c.term >= currentTerm[i] /\ VoteAfter(i, c.term) \in {noPeer, c.from}
    BY <1>5 DEF Grants
  <2>2. currentTerm'[i] = c.term
    BY <1>1, <1>3, <2>1, SMTT(30)
  <2>3. CastsVote(i, c.from)
    BY <1>1, <1>2, <1>3, <1>5, <2>1, <2>2 DEF CastsVote, VoteAfter, OutOfTerm, Raised
  <2> QED BY <1>1, <1>4, <2>3 DEF VoteStepKind
<1>6. CASE ~Grants(i, c)
  <2>1. Kept(i) \/ Raised(i)
    BY <1>1, <1>3, <1>6 DEF Kept, Raised, VoteAfter, OutOfTerm
  <2> QED BY <1>2, <1>3, <1>4, <1>6, <2>1 DEF VoteStepKind, NoVote
<1> QED BY <1>5, <1>6

\* Stepping down to a newer term forgets the vote of an older one only.
LEMMA StepDownVote ==
    ASSUME TypeInv, Durable, NEW i \in Server, NEW t \in Nat, StepDown(i, t)
    PROVE  VoteStepKind
<1>1. /\ currentTerm'[i] = t /\ t > currentTerm[i]
      /\ \A j \in Server \ {i} : Kept(j) /\ log'[j] = log[j]
  BY TypeParts, SMTT(30) DEF StepDown, OutOfTerm, convertToFollowerIfOutOfTerm, TypeOK, Kept
<1>2. Durable'
  BY <1>1, PersistDurable DEF StepDown
<1> QED BY <1>1, <1>2 DEF StepDown, VoteStepKind, NoVote, Raised, electionVars

\* AppendEntries changes the vote only together with the term.
LEMMA AppendEntriesVote ==
    ASSUME TypeInv, Durable, NEW c \in appendCalls, AppendEntries(c.to, c)
    PROVE  VoteStepKind
<1> DEFINE i == c.to
<1>1. i \in Server /\ c.term \in Nat /\ currentTerm[i] \in Nat
  BY TypeParts DEF TypeOK, AppendCall
<1>2. /\ \A j \in Server \ {i} : Kept(j)
      /\ currentTerm'[i] = IF c.term > currentTerm[i] THEN c.term ELSE currentTerm[i]
      /\ votedFor'[i] = VoteAfter(i, c.term)
      /\ votes' = votes
  BY <1>1, TypeParts, SMTT(30) DEF AppendEntries, convertToFollowerIfOutOfTerm, OutOfTerm, electionVars, TypeOK, Kept
<1>3. Kept(i) \/ Raised(i)
  BY <1>1, <1>2 DEF Kept, Raised, VoteAfter, OutOfTerm
<1>4. \A j \in Server \ {i} : log'[j] = log[j]
  BY <1>1, TypeParts DEF AppendEntries, RejectSmallerTerm, RejectMismatch, AcceptEntries, logVars, TypeOK
<1>5. CASE persist(i)
  <2>1. Durable'
    BY <1>1, <1>2, <1>4, <1>5, PersistDurable
  <2> QED BY <1>2, <1>3, <2>1 DEF VoteStepKind, NoVote
<1>6. CASE ~persist(i)
  <2>1. UNCHANGED <<log, persister>> /\ ~OutOfTerm(i, c.term)
    BY <1>1, <1>6, SMTT(30) DEF AppendEntries, RejectSmallerTerm, RejectMismatch, AcceptEntries, logVars, OutOfTerm
  <2>2. Durable'
    BY <1>1, <1>2, <2>1 DEF Durable, Kept, VoteAfter, OutOfTerm
  <2> QED BY <1>2, <1>3, <2>2 DEF VoteStepKind, NoVote
<1> QED BY <1>5, <1>6

\* A restart, in a handler or not, comes back with the term and the vote saved.
LEMMA MakeVote ==
    ASSUME TypeInv, Durable, NEW i \in Server, NEW c,
           Restart(i) \/ (c.term \in Nat /\ RestartInHandler(i, c))
    PROVE  VoteStepKind
<1>1. CASE Restart(i)
  <2>1. persister[i] = [currentTerm |-> currentTerm[i], votedFor |-> votedFor[i], log |-> log[i]]
    BY DEF Durable
  <2>2. UNCHANGED <<currentTerm, votedFor, log, persister, votes>>
    BY <1>1, <2>1, TypeParts, SMTT(30) DEF Restart, Make, readPersist, TypeOK
  <2> QED BY <2>2 DEF VoteStepKind, NoVote, Kept, Durable
<1>2. CASE c.term \in Nat /\ RestartInHandler(i, c)
  <2>1. /\ currentTerm'[i] = c.term /\ c.term > currentTerm[i]
        /\ \A j \in Server \ {i} : Kept(j) /\ log'[j] = log[j]
        /\ votes' = votes
    BY <1>2, TypeParts, SMTT(30) DEF RestartInHandler, Make, readPersist, OutOfTerm, TypeOK, Kept
  <2>2. Durable'
    BY <1>2, <2>1, PersistDurable DEF RestartInHandler
  <2> QED BY <2>1, <2>2 DEF VoteStepKind, NoVote, Raised
<1> QED BY <1>1, <1>2

\* Start() changes the log only.
LEMMA StartVote ==
    ASSUME TypeInv, Durable, NEW i \in Server, NEW command, Start(i, command)
    PROVE  VoteStepKind
<1>1. /\ \A j \in Server : Kept(j)
      /\ \A j \in Server \ {i} : log'[j] = log[j]
      /\ votes' = votes
  BY TypeParts DEF Start, electionVars, TypeOK, Kept
<1>2. Durable'
  BY <1>1, PersistDurable DEF Start
<1> QED BY <1>1, <1>2 DEF VoteStepKind, NoVote

\* Steps that leave terms, votes and logs alone keep what is known of them.
LEMMA UnchangedVote ==
    ASSUME Durable, UNCHANGED <<currentTerm, votedFor, log, persister, votes>>
    PROVE  VoteStepKind
BY DEF VoteStepKind, NoVote, Kept, Durable

\* Every step keeps the persisters up to date and casts at most one vote.
LEMMA NextVote ==
    ASSUME TypeInv, Durable, [Next]_vars
    PROVE  VoteStepKind
<1>1. ASSUME NEW i \in Server, ServerStep(i)
      PROVE  VoteStepKind
  <2>1. CASE PeriodicAppendEntries(i) \/ Apply(i)
    BY <2>1, UnchangedVote DEF PeriodicAppendEntries, Apply, logVars, electionVars
  <2> QED BY <1>1, <2>1, ElectionTimeoutVote, MakeVote, StartVote DEF ServerStep
<1>2. ASSUME NEW c \in voteCalls, VoteStep(c)
      PROVE  VoteStepKind
  <2>1. c.from \in Server /\ c.to \in Server /\ c.term \in Nat /\ c.replyTerm \in Nat
    BY <1>2, TypeParts DEF TypeOK, VoteCall
  <2>2. CASE VoteReplyOutOfTerm(c.from, c)
    BY <2>1, <2>2, StepDownVote DEF VoteReplyOutOfTerm
  <2>3. CASE VoteReplyDenied(c.from, c) \/ VoteReplyGranted(c.from, c) \/ LoseVoteCall(c)
    BY <2>3, UnchangedVote DEF VoteReplyDenied, VoteReplyGranted, LoseVoteCall, logVars, electionVars
  <2> QED BY <1>2, <2>1, <2>2, <2>3, RequestVoteVote, MakeVote DEF VoteStep
<1>3. ASSUME NEW c \in appendCalls, AppendStep(c)
      PROVE  VoteStepKind
  <2>1. c.from \in Server /\ c.to \in Server /\ c.term \in Nat /\ c.replyTerm \in Nat
    BY <1>3, TypeParts DEF TypeOK, AppendCall
  <2>2. CASE AppendReplyOutOfTerm(c.from, c)
    BY <2>1, <2>2, StepDownVote DEF AppendReplyOutOfTerm
  <2>3. CASE \/ AppendReplyNotLeader(c.from, c) \/ AppendReplySuccess(c.from, c)
             \/ AppendReplyFailure(c.from, c) \/ LoseAppendCall(c)
    BY <2>3, UnchangedVote DEF AppendReplyNotLeader, AppendReplySuccess, AppendReplyFailure,
                               AppendReply, LoseAppendCall, logVars, electionVars
  <2> QED BY <1>3, <2>1, <2>2, <2>3, AppendEntriesVote, MakeVote DEF AppendStep
<1>4. CASE UNCHANGED vars
  BY <1>4, UnchangedVote DEF vars
<1> QED BY <1>1, <1>2, <1>3, <1>4 DEF Next

\* Nobody has voted at first.
LEMMA InitVote == Init => VoteInv
BY InitType, SMTT(30) DEF Init, VoteInv, Durable, VoteRemembered, OneVotePerTerm

\* The vote invariant is inductive.
LEMMA NextVoteInv == VoteInv /\ [Next]_vars => VoteInv'
<1> SUFFICES ASSUME VoteInv, [Next]_vars
             PROVE  VoteInv'
  OBVIOUS
<1>1. TypeInv' /\ VoteStepKind
  BY NextType, NextVote DEF VoteInv
<1>2. \A w \in votes : w[1] \in Server /\ w[2] \in Nat /\ w[3] \in Server
  BY TypeParts DEF VoteInv, TypeOK
<1>3. /\ \A j \in Server : currentTerm[j] \in Nat /\ currentTerm'[j] \in Nat
      /\ noPeer \notin Server
  BY <1>1, ServerAssumption, TypeParts DEF VoteInv, TypeOK
<1>4. CASE NoVote
  <2>1. VoteRemembered'
    BY <1>2, <1>3, <1>4, SMTT(30) DEF NoVote, Kept, Raised, VoteInv, VoteRemembered
  <2>2. OneVotePerTerm'
    BY <1>4 DEF NoVote, VoteInv, OneVotePerTerm
  <2> QED BY <1>1, <2>1, <2>2 DEF VoteInv, VoteStepKind
<1>5. ASSUME NEW i \in Server, NEW c \in Server, CastsVote(i, c)
      PROVE  VoteInv'
  <2> DEFINE new == <<i, currentTerm'[i], c>>
  <2>1. votes' = votes \cup {new} /\ new[1] = i /\ new[2] = currentTerm'[i] /\ new[3] = c
    BY <1>5 DEF CastsVote
  <2>2. ASSUME NEW w \in votes, w[1] = i
        PROVE  w[2] <= currentTerm'[i] /\ (w[2] = currentTerm'[i] => w[3] = c)
    BY <1>2, <1>3, <1>5, <2>2, SMTT(30) DEF CastsVote, Raised, VoteInv, VoteRemembered
  <2> HIDE DEF new
  <2>3. VoteRemembered'
    <3>1. ASSUME NEW w \in votes, w[1] # i
          PROVE  /\ w[2] <= currentTerm'[w[1]]
                 /\ w[2] = currentTerm'[w[1]] => votedFor'[w[1]] = w[3]
      BY <1>2, <1>5, <3>1 DEF CastsVote, Kept, VoteInv, VoteRemembered
    <3>2. votedFor'[i] = c
      BY <1>5 DEF CastsVote
    <3> QED BY <1>3, <2>1, <2>2, <3>1, <3>2, SMTT(30) DEF VoteRemembered
  <2>4. OneVotePerTerm'
    BY <2>1, <2>2, SMTT(30) DEF OneVotePerTerm, VoteInv
  <2> QED BY <1>1, <2>3, <2>4 DEF VoteInv, VoteStepKind
<1> QED BY <1>1, <1>4, <1>5 DEF VoteStepKind

\* Whatever the network does and wherever peers crash, no peer votes for two
\* candidates in one term.
THEOREM OneVotePerTermHolds == Spec => []OneVotePerTerm
<1>1. VoteInv => OneVotePerTerm
  BY DEF VoteInv
<1> QED BY <1>1, InitVote, NextVoteInv, PTL DEF Spec

\* No step, a restart included, takes a peer back to an earlier term or makes
\* it forget a vote of its present term.
THEOREM TermNeverGoesBackHolds == Spec => TermNeverGoesBack
<1> DEFINE A == \A i \in Server :
                    /\ currentTerm'[i] >= currentTerm[i]
                    /\ currentTerm'[i] = currentTerm[i] /\ votedFor[i] # noPeer
                            => votedFor'[i] = votedFor[i]
<1>1. VoteInv /\ [Next]_vars => [A]_vars
  <2> SUFFICES ASSUME VoteInv, [Next]_vars
               PROVE  A
    OBVIOUS
  <2>1. TypeInv' /\ VoteStepKind
    BY NextType, NextVote DEF VoteInv
  <2>2. \A j \in Server : currentTerm[j] \in Nat /\ currentTerm'[j] \in Nat
    BY <2>1, TypeParts DEF VoteInv, TypeOK
  <2> QED BY <2>1, <2>2, SMTT(30) DEF VoteStepKind, NoVote, CastsVote, Kept, Raised
<1>2. VoteInv /\ [][Next]_vars => [][A]_vars
  BY <1>1, NextVoteInv, PTL
<1> QED BY <1>2, InitVote DEF Spec, TermNeverGoesBack

-----------------------------------------------------------------------------
(* Elections: no vote counts for an election it was not cast in *)

\* The peers that voted for i in term t, and those that i has still a call to.
Voters(i, t) == {v \in Server : <<v, t, i>> \in votes}

Called(i, t) == {v \in Server : \E c \in voteCalls : c.from = i /\ c.to = v /\ c.term = t}

SameCall(c, d) == c.from = d.from /\ c.to = d.to /\ c.term = d.term

OneCallPerPeer == \A c, d \in voteCalls : SameCall(c, d) => c = d

\* The vote calls in flight tell the truth about votes, terms and candidates.
CallsSound ==
    /\ OneCallPerPeer
    /\ \A c \in voteCalls :
        /\ c.term <= currentTerm[c.from]
        /\ c.from # c.to
        /\ c.voteGranted => <<c.to, c.term, c.from>> \in votes
        /\ c.phase # "orphan" /\ c.term = currentTerm[c.from] => state[c.from] # "follower"

\* votesReceived counts peers that did vote and whose reply was used up, so
\* that no reply is counted twice; every leader had a majority of voters.
CountSound ==
    /\ \A i \in Server : state[i] # "follower" =>
        votesReceived[i] <= Cardinality(Voters(i, currentTerm[i]) \ Called(i, currentTerm[i]))
    /\ \A l \in leaders : IsMajority(Cardinality(Voters(l[2], l[1])))

ElectionInv == TypeInv /\ CallsSound /\ CountSound

\* A step that neither starts an election nor counts a vote.
Quiet ==
    /\ votes \subseteq votes'
    /\ leaders' = leaders
    /\ \A i \in Server :
        /\ currentTerm'[i] >= currentTerm[i]
        /\ state'[i] # "follower" => /\ state[i] # "follower"
                                     /\ currentTerm'[i] = currentTerm[i]
                                     /\ votesReceived'[i] = votesReceived[i]
        /\ currentTerm'[i] = currentTerm[i] =>
              state'[i] = state[i] \/ \A c \in voteCalls' : c.from = i => c.phase = "orphan"
    /\ OneCallPerPeer'
    /\ \A c \in voteCalls' : \E d \in voteCalls :
        /\ SameCall(c, d)
        /\ c.voteGranted => <<c.to, c.term, c.from>> \in votes'
        /\ c.phase # "orphan" => d.phase # "orphan"

\* Sets of voters are finite, and larger sets of them count more.
LEMMA VotersFinite ==
    ASSUME NEW A \in SUBSET Server
    PROVE  /\ IsFiniteSet(A) /\ Cardinality(A) \in Nat
           /\ \A B \in SUBSET A : IsFiniteSet(B) /\ Cardinality(B) \in Nat
                                   /\ Cardinality(B) <= Cardinality(A)
BY FS_Subset, FS_CardinalityType, ServerAssumption

\* With more votes the majorities of earlier elections stay majorities.
LEMMA MajorityKept ==
    ASSUME votes \subseteq votes', TypeInv,
           NEW l \in leaders, IsMajority(Cardinality(Voters(l[2], l[1])))
    PROVE  IsMajority(Cardinality(Voters(l[2], l[1])'))
<1> DEFINE A == Voters(l[2], l[1])
           B == {v \in Server : <<v, l[1], l[2]>> \in votes'}
<1>1. A \subseteq B /\ B \in SUBSET Server /\ A \in SUBSET B
  BY DEF Voters
<1>2. Cardinality(A) <= Cardinality(B) /\ Cardinality(A) \in Nat /\ Cardinality(B) \in Nat
  BY <1>1, VotersFinite
<1>3. Cardinality(Server) \div 2 \in Int
  BY FS_CardinalityType, ServerAssumption, SMTT(30)
<1>4. Cardinality(B) > Cardinality(Server) \div 2
  <2> HIDE DEF A, B
  <2> QED BY <1>2, <1>3, SMTT(30) DEF IsMajority, A
<1> QED BY <1>4 DEF IsMajority, Voters

\* Such a step can only add voters and use up calls.
LEMMA QuietKeeps ==
    ASSUME ElectionInv, TypeInv', Quiet
    PROVE  ElectionInv'
<1>1. \A i \in Server : currentTerm[i] \in Nat /\ currentTerm'[i] \in Nat /\ votesReceived[i] \in Nat
  BY TypeParts DEF ElectionInv, TypeOK
<1>2. \A c \in voteCalls : c.from \in Server /\ c.to \in Server /\ c.term \in Nat
  BY TypeParts DEF ElectionInv, TypeOK, VoteCall
<1>3. CallsSound'
  <2>1. ASSUME NEW c \in voteCalls'
        PROVE  /\ c.term <= currentTerm'[c.from]
               /\ c.from # c.to
               /\ c.voteGranted => <<c.to, c.term, c.from>> \in votes'
               /\ c.phase # "orphan" /\ c.term = currentTerm'[c.from] => state'[c.from] # "follower"
    <3>1. PICK d \in voteCalls : /\ SameCall(c, d)
                                 /\ c.voteGranted => <<c.to, c.term, c.from>> \in votes'
                                 /\ c.phase # "orphan" => d.phase # "orphan"
      BY <2>1 DEF Quiet
    <3>2. /\ d.term <= currentTerm[d.from] /\ d.from # d.to
          /\ d.phase # "orphan" /\ d.term = currentTerm[d.from] => state[d.from] # "follower"
      BY DEF ElectionInv, CallsSound
    <3>3. c.from = d.from /\ c.to = d.to /\ c.term = d.term
      BY <3>1 DEF SameCall
    <3>4. currentTerm'[d.from] >= currentTerm[d.from]
      BY <1>2 DEF Quiet
    <3>5. c.phase # "orphan" /\ currentTerm'[d.from] = currentTerm[d.from]
              => state'[d.from] = state[d.from]
      BY <1>2, <2>1, <3>3 DEF Quiet
    <3> QED BY <1>1, <1>2, <3>1, <3>2, <3>3, <3>4, <3>5, SMTT(30)
  <2> QED BY <2>1 DEF CallsSound, Quiet
<1>4. CountSound'
  <2>1. ASSUME NEW i \in Server, state'[i] # "follower"
        PROVE  votesReceived'[i] <= Cardinality((Voters(i, currentTerm[i]) \ Called(i, currentTerm[i]))')
    <3> DEFINE t == currentTerm[i]
               A == Voters(i, t) \ Called(i, t)
               B == {v \in Server : <<v, t, i>> \in votes'}
                      \ {v \in Server : \E c \in voteCalls' : c.from = i /\ c.to = v /\ c.term = t}
    <3>1. state[i] # "follower" /\ currentTerm'[i] = t /\ votesReceived'[i] = votesReceived[i]
      BY <2>1 DEF Quiet
    <3>2. A \in SUBSET B /\ B \in SUBSET Server
      BY SMTT(30) DEF Voters, Called, Quiet, SameCall
    <3>3. Cardinality(A) <= Cardinality(B) /\ Cardinality(A) \in Nat /\ Cardinality(B) \in Nat
      BY <3>2, VotersFinite
    <3>4. votesReceived[i] <= Cardinality(A)
      BY <3>1 DEF ElectionInv, CountSound
    <3>5. B = (Voters(i, currentTerm[i]) \ Called(i, currentTerm[i]))'
      BY <3>1 DEF Voters, Called
    <3> HIDE DEF A, B
    <3> QED BY <1>1, <3>1, <3>3, <3>4, <3>5, SMTT(30)
  <2>2. \A l \in leaders' : IsMajority(Cardinality(Voters(l[2], l[1])'))
    BY MajorityKept DEF Quiet, ElectionInv, CountSound
  <2> QED BY <2>1, <2>2 DEF CountSound, IsMajority
<1> QED BY <1>3, <1>4 DEF ElectionInv

\* An election starts with the candidate's own vote and a call to every peer.
LEMMA ElectionTimeoutElection ==
    ASSUME ElectionInv, TypeInv', NEW i \in Server, ElectionTimeout(i)
    PROVE  ElectionInv'
<1> DEFINE t == currentTerm[i] + 1
           new == {RequestVoteCall(i, j, t) : j \in Peers(i)}
<1>1. \A j \in Server : currentTerm[j] \in Nat /\ votesReceived[j] \in Nat
  BY TypeParts DEF ElectionInv, TypeOK
<1>2. \A c \in voteCalls : c.from \in Server /\ c.to \in Server /\ c.term \in Nat
  BY TypeParts DEF ElectionInv, TypeOK, VoteCall
<1>3. /\ currentTerm'[i] = t /\ state'[i] = "candidate" /\ votesReceived'[i] = 1
      /\ \A j \in Server \ {i} : /\ currentTerm'[j] = currentTerm[j] /\ state'[j] = state[j]
                                 /\ votesReceived'[j] = votesReceived[j]
      /\ votes' = votes \cup {<<i, t, i>>}
      /\ voteCalls' = voteCalls \cup new
      /\ leaders' = leaders
  BY TypeParts, SMTT(30) DEF ElectionTimeout, ElectionInv, TypeOK
<1>4. ASSUME NEW c \in new
      PROVE  c.from = i /\ c.to \in Peers(i) /\ c.term = t /\ ~c.voteGranted
             /\ c = RequestVoteCall(i, c.to, t)
  BY SMTT(30) DEF RequestVoteCall
<1> HIDE DEF new
<1>5. CallsSound'
  <2>1. ASSUME NEW c \in voteCalls'
        PROVE  /\ c.term <= currentTerm'[c.from]
               /\ c.from # c.to
               /\ c.voteGranted => <<c.to, c.term, c.from>> \in votes'
               /\ c.phase # "orphan" /\ c.term = currentTerm'[c.from] => state'[c.from] # "follower"
    <3>1. CASE c \in new
      BY <1>1, <1>3, <1>4, <3>1, SMTT(30) DEF Peers
    <3>2. CASE c \in voteCalls
      <4>1. /\ c.term <= currentTerm[c.from] /\ c.from # c.to
            /\ c.voteGranted => <<c.to, c.term, c.from>> \in votes
            /\ c.phase # "orphan" /\ c.term = currentTerm[c.from] => state[c.from] # "follower"
        BY <3>2 DEF ElectionInv, CallsSound
      <4>2. CASE c.from = i
        BY <1>1, <1>2, <1>3, <3>2, <4>1, <4>2, SMTT(30)
      <4>3. CASE c.from # i
        BY <1>2, <1>3, <3>2, <4>1, <4>3
      <4> QED BY <4>2, <4>3
    <3> QED BY <1>3, <3>1, <3>2
  <2>2. OneCallPerPeer'
    <3>1. \A c \in voteCalls : c.from = i => c.term # t
      <4>1. \A c \in voteCalls : c.term <= currentTerm[c.from]
        BY DEF ElectionInv, CallsSound
      <4> QED BY <1>1, <1>2, <4>1, SMTT(30)
    <3>2. ASSUME NEW c \in voteCalls', NEW d \in voteCalls', SameCall(c, d)
          PROVE  c = d
      <4>1. CASE c \in voteCalls /\ d \in voteCalls
        BY <3>2, <4>1 DEF ElectionInv, CallsSound, OneCallPerPeer
      <4>2. CASE c \in new /\ d \in new
        BY <1>4, <3>2, <4>2 DEF SameCall
      <4> QED BY <1>3, <1>4, <3>1, <3>2, <4>1, <4>2 DEF SameCall
    <3> QED BY <3>2 DEF OneCallPerPeer
  <2> QED BY <2>1, <2>2 DEF CallsSound
<1>6. CountSound'
  <2>1. ASSUME NEW j \in Server, state'[j] # "follower"
        PROVE  votesReceived'[j] <= Cardinality((Voters(j, currentTerm[j]) \ Called(j, currentTerm[j]))')
    <3> DEFINE B == (Voters(j, currentTerm[j]) \ Called(j, currentTerm[j]))'
    <3>1. CASE j = i
      <4>1. B \in SUBSET Server /\ {i} \in SUBSET B
        <5>1. i \in Voters(j, currentTerm[j])'
          BY <1>3, <3>1 DEF Voters
        <5>2. \A c \in voteCalls' : c.from # c.to
          BY <1>5 DEF CallsSound
        <5>3. i \notin Called(j, currentTerm[j])'
          BY <3>1, <5>2 DEF Called
        <5> QED BY <5>1, <5>3 DEF Voters
      <4>2. Cardinality({i}) <= Cardinality(B) /\ Cardinality({i}) = 1
        BY <4>1, VotersFinite, FS_Singleton
      <4> QED BY <1>3, <3>1, <4>2
    <3>2. CASE j # i
      <4>1. B = Voters(j, currentTerm[j]) \ Called(j, currentTerm[j])
        BY <1>3, <1>4, <3>2 DEF Voters, Called
      <4>2. state[j] # "follower" /\ votesReceived'[j] = votesReceived[j]
        BY <1>3, <2>1, <3>2
      <4> QED BY <4>1, <4>2 DEF ElectionInv, CountSound
    <3> QED BY <3>1, <3>2
  <2>2. \A l \in leaders' : IsMajority(Cardinality(Voters(l[2], l[1])'))
    BY <1>3, MajorityKept DEF ElectionInv, CountSound
  <2> QED BY <2>1, <2>2 DEF CountSound, IsMajority
<1> QED BY <1>5, <1>6 DEF ElectionInv

\* A vote that is counted was cast in this election and was not counted before.
LEMMA VoteReplyGrantedElection ==
    ASSUME "RequestVote" \notin LateReplies,
           ElectionInv, TypeInv', NEW c \in voteCalls, VoteReplyGranted(c.from, c)
    PROVE  ElectionInv'
<1> DEFINE i == c.from
           t == currentTerm[i]
<1>1. /\ i \in Server /\ c.to \in Server /\ c.term = t
      /\ \A j \in Server : currentTerm[j] \in Nat /\ votesReceived[j] \in Nat
      /\ c.voteGranted /\ c.phase = "reply"
  BY TypeParts DEF ElectionInv, TypeOK, VoteCall, VoteReplyGranted, ReplyArrives
<1>2. /\ votes' = votes /\ currentTerm' = currentTerm /\ voteCalls' = voteCalls \ {c}
      /\ votesReceived'[i] = votesReceived[i] + 1
      /\ \A j \in Server \ {i} : state'[j] = state[j] /\ votesReceived'[j] = votesReceived[j]
  <2>1. votesReceived \in [Server -> Nat] /\ DOMAIN state = Server
    BY TypeParts DEF ElectionInv, TypeOK
  <2>2. /\ votes' = votes /\ currentTerm' = currentTerm /\ voteCalls' = voteCalls \ {c}
        /\ votesReceived' = [votesReceived EXCEPT ![i] = @ + 1]
    BY DEF VoteReplyGranted
  <2>3. state' = state \/ state' = [state EXCEPT ![i] = "leader"]
    BY DEF VoteReplyGranted
  <2>4. \A j \in Server \ {i} : state'[j] = state[j]
    BY <2>1, <2>3
  <2>5. /\ votesReceived'[i] = votesReceived[i] + 1
        /\ \A j \in Server \ {i} : votesReceived'[j] = votesReceived[j]
    BY <1>1, <2>1, <2>2
  <2> QED BY <2>2, <2>4, <2>5
<1>3. /\ state[i] # "follower" /\ state'[i] # "follower"
      /\ <<c.to, t, i>> \in votes
  <2>1. state[i] # "follower" /\ <<c.to, t, i>> \in votes
    BY <1>1 DEF ElectionInv, CallsSound
  <2>2. state'[i] = state[i] \/ state'[i] = "leader"
    <3>1. state' = state \/ state' = [state EXCEPT ![i] = "leader"]
      BY DEF VoteReplyGranted
    <3>2. DOMAIN state = Server
      BY TypeParts DEF ElectionInv, TypeOK
    <3> QED BY <1>1, <3>1, <3>2
  <2> QED BY <2>1, <2>2
<1>4. leaders' = leaders \/ (leaders' = leaders \cup {<<t, i>>} /\ IsMajority(votesReceived[i] + 1))
  BY DEF VoteReplyGranted
<1>5. CallsSound'
  <2>1. \A d \in voteCalls : d.from \in Server
    BY TypeParts DEF ElectionInv, TypeOK, VoteCall
  <2>2. \A j \in Server : state[j] # "follower" => state'[j] # "follower"
    BY <1>2, <1>3
  <2> QED BY <1>2, <2>1, <2>2 DEF ElectionInv, CallsSound, OneCallPerPeer
<1>6. votesReceived'[i] <= Cardinality((Voters(i, currentTerm[i]) \ Called(i, currentTerm[i]))')
  <2> DEFINE A == Voters(i, t) \ Called(i, t)
  <2>1. c.to \notin A
    BY <1>1 DEF Called
  <2>2. Called(i, t)' = Called(i, t) \ {c.to}
    <3>1. \A d \in voteCalls : d.from = i /\ d.to = c.to /\ d.term = t => d = c
      BY <1>1 DEF ElectionInv, CallsSound, OneCallPerPeer, SameCall
    <3> QED BY <1>1, <1>2, <3>1, SMTT(30) DEF Called
  <2>3. (Voters(i, currentTerm[i]) \ Called(i, currentTerm[i]))' = A \cup {c.to}
    BY <1>1, <1>2, <1>3, <2>2 DEF Voters, Called
  <2>4. A \in SUBSET Server
    BY DEF Voters
  <2>5. votesReceived[i] <= Cardinality(A)
    BY <1>1, <1>3 DEF ElectionInv, CountSound
  <2> HIDE DEF A
  <2>6. IsFiniteSet(A) /\ Cardinality(A) \in Nat
    BY <2>4, VotersFinite
  <2>7. Cardinality(A \cup {c.to}) = Cardinality(A) + 1
    BY <2>1, <2>6, FS_AddElement
  <2>8. votesReceived[i] \in Nat /\ votesReceived'[i] = votesReceived[i] + 1
    BY <1>1, <1>2
  <2>9. votesReceived'[i] <= Cardinality(A \cup {c.to})
    BY <2>5, <2>6, <2>7, <2>8, SMTT(30)
  <2> QED BY <2>3, <2>9
<1>7. CountSound'
  <2>1. ASSUME NEW j \in Server, state'[j] # "follower"
        PROVE  votesReceived'[j] <= Cardinality((Voters(j, currentTerm[j]) \ Called(j, currentTerm[j]))')
    <3>1. CASE j # i
      <4>1. (Voters(j, currentTerm[j]) \ Called(j, currentTerm[j]))'
                = Voters(j, currentTerm[j]) \ Called(j, currentTerm[j])
        BY <1>2, <3>1 DEF Voters, Called
      <4>2. state[j] # "follower" /\ votesReceived'[j] = votesReceived[j]
        BY <1>2, <2>1, <3>1
      <4> QED BY <4>1, <4>2 DEF ElectionInv, CountSound
    <3> QED BY <1>6, <3>1
  <2>2. \A l \in leaders : IsMajority(Cardinality(Voters(l[2], l[1])'))
    BY <1>2, MajorityKept DEF ElectionInv, CountSound
  <2>3. IsMajority(votesReceived[i] + 1) => IsMajority(Cardinality(Voters(i, t)'))
    <3> DEFINE B == (Voters(i, currentTerm[i]) \ Called(i, currentTerm[i]))'
               V == Voters(i, t)'
    <3>1. B \in SUBSET V /\ V \in SUBSET Server
      BY <1>2 DEF Voters
    <3>2. Cardinality(B) <= Cardinality(V) /\ Cardinality(B) \in Nat /\ Cardinality(V) \in Nat
      BY <3>1, VotersFinite
    <3>3. votesReceived[i] + 1 <= Cardinality(B)
      BY <1>2, <1>6
    <3>4. Cardinality(Server) \div 2 \in Int
      BY FS_CardinalityType, ServerAssumption, SMTT(30)
    <3> HIDE DEF B, V
    <3>5. votesReceived[i] + 1 <= Cardinality(V) /\ votesReceived[i] \in Nat
      BY <1>1, <3>2, <3>3, SMTT(30)
    <3>6. IsMajority(votesReceived[i] + 1) => IsMajority(Cardinality(V))
      BY <3>2, <3>4, <3>5, SMTT(30) DEF IsMajority
    <3> QED BY <3>6 DEF V
  <2>4. <<t, i>>[1] = t /\ <<t, i>>[2] = i
    OBVIOUS
  <2>5. \A l \in leaders' : IsMajority(Cardinality(Voters(l[2], l[1])'))
    <3>1. ASSUME NEW l \in leaders', l \notin leaders
          PROVE  IsMajority(Cardinality(Voters(l[2], l[1])'))
      <4>1. l = <<t, i>> /\ IsMajority(votesReceived[i] + 1)
        BY <1>4, <3>1
      <4>2. l[1] = t /\ l[2] = i
        BY <2>4, <4>1
      <4>3. Voters(l[2], l[1])' = Voters(i, t)'
        BY <1>2, <4>2 DEF Voters
      <4> QED BY <2>3, <4>1, <4>3
    <3> QED BY <2>2, <3>1
  <2> QED BY <2>1, <2>5 DEF CountSound, IsMajority
<1> QED BY <1>5, <1>7 DEF ElectionInv

\* A request leaves terms and states as they are, or makes its receiver a
\* follower of a later term.
LEMMA ConvertTerm ==
    ASSUME TypeInv, NEW i \in Server, NEW t \in Nat, convertToFollowerIfOutOfTerm(i, t)
    PROVE  \A j \in Server : \/ currentTerm'[j] = currentTerm[j] /\ state'[j] = state[j]
                             \/ j = i /\ currentTerm'[j] > currentTerm[j] /\ state'[j] = "follower"
<1>1. CASE OutOfTerm(i, t)
  BY <1>1, TypeParts DEF convertToFollowerIfOutOfTerm, OutOfTerm, TypeOK
<1>2. CASE ~OutOfTerm(i, t)
  BY <1>2 DEF convertToFollowerIfOutOfTerm
<1> QED BY <1>1, <1>2

\* Every other step is quiet.
LEMMA RequestVoteQuiet ==
    ASSUME ElectionInv, TypeInv', NEW c \in voteCalls, RequestVote(c.to, c)
    PROVE  Quiet
<1> DEFINE i == c.to
           r == [c EXCEPT !.phase = "reply", !.replyTerm = currentTerm'[i], !.voteGranted = Grants(i, c)]
<1>1. /\ i \in Server /\ c.term \in Nat /\ c \in VoteCall
      /\ \A j \in Server : currentTerm[j] \in Nat /\ currentTerm'[j] \in Nat
  BY TypeParts DEF ElectionInv, TypeOK, VoteCall
<1>2. /\ votes' = IF Grants(i, c) THEN votes \cup {<<i, c.term, c.from>>} ELSE votes
      /\ leaders' = leaders /\ votesReceived' = votesReceived
      /\ voteCalls' = AfterReply(voteCalls, c, r)
      /\ convertToFollowerIfOutOfTerm(i, c.term)
  BY DEF RequestVote
<1>3. /\ r.from = c.from /\ r.to = c.to /\ r.term = c.term
      /\ r.voteGranted = Grants(i, c)
  BY <1>1 DEF VoteCall
<1>4. c.phase # "orphan" => voteCalls' = (voteCalls \ {c}) \cup {r}
  BY <1>2 DEF AfterReply
<1>5. c.phase = "orphan" => voteCalls' = voteCalls \ {c}
  BY <1>2 DEF AfterReply
<1> HIDE DEF r
<1>6. OneCallPerPeer'
  <2>1. \A d \in voteCalls : SameCall(c, d) => c = d
    BY DEF ElectionInv, CallsSound, OneCallPerPeer
  <2> QED BY <1>3, <1>4, <1>5, <2>1, SMTT(30) DEF ElectionInv, CallsSound, OneCallPerPeer, SameCall
<1>7. ASSUME NEW d \in voteCalls'
      PROVE  \E e \in voteCalls : /\ SameCall(d, e)
                                  /\ d.voteGranted => <<d.to, d.term, d.from>> \in votes'
                                  /\ d.phase # "orphan" => e.phase # "orphan"
  <2>1. CASE d \in voteCalls
    BY <1>2, <2>1 DEF SameCall, ElectionInv, CallsSound
  <2>2. CASE d = r /\ c.phase # "orphan"
    <3>1. d.voteGranted => <<d.to, d.term, d.from>> \in votes'
      BY <1>2, <1>3, <2>2
    <3> QED BY <1>3, <2>2, <3>1 DEF SameCall
  <2> QED BY <1>4, <1>5, <1>7, <2>1, <2>2
<1>8. \A j \in Server :
        /\ currentTerm'[j] >= currentTerm[j]
        /\ state'[j] # "follower" => /\ state[j] # "follower"
                                     /\ currentTerm'[j] = currentTerm[j]
                                     /\ votesReceived'[j] = votesReceived[j]
        /\ currentTerm'[j] = currentTerm[j] => state'[j] = state[j]
  <2>1. \A j \in Server : \/ currentTerm'[j] = currentTerm[j] /\ state'[j] = state[j]
                          \/ j = i /\ currentTerm'[j] > currentTerm[j] /\ state'[j] = "follower"
    BY <1>1, <1>2, ConvertTerm DEF ElectionInv
  <2>2. \A j \in Server : currentTerm[j] \in Nat /\ currentTerm'[j] \in Nat
    BY <1>1, <1>2, <2>1
  <2>3. \A j \in Server : votesReceived'[j] = votesReceived[j]
    BY <1>1, <1>2
  <2> QED BY <2>1, <2>2, <2>3, SMTT(30)
<1> QED BY <1>2, <1>6, <1>7, <1>8 DEF Quiet

\* A step that leaves votes alone, makes and answers no vote call, and changes
\* a peer's state only to make it a follower of a later term.
LEMMA TermQuiet ==
    ASSUME ElectionInv, TypeInv', voteCalls' \subseteq voteCalls,
           votes' = votes, leaders' = leaders, votesReceived' = votesReceived,
           \A j \in Server : \/ currentTerm'[j] = currentTerm[j] /\ state'[j] = state[j]
                             \/ currentTerm'[j] > currentTerm[j] /\ state'[j] = "follower"
    PROVE  Quiet
<1>1. \A j \in Server : currentTerm[j] \in Nat /\ currentTerm'[j] \in Nat
  BY TypeParts DEF ElectionInv, TypeOK
<1>2. OneCallPerPeer'
  BY DEF ElectionInv, CallsSound, OneCallPerPeer
<1>3. \A d \in voteCalls' : d \in voteCalls /\ SameCall(d, d)
                             /\ (d.voteGranted => <<d.to, d.term, d.from>> \in votes')
  BY DEF SameCall, ElectionInv, CallsSound
<1>4. \A j \in Server :
        /\ currentTerm'[j] >= currentTerm[j]
        /\ state'[j] # "follower" => state[j] # "follower" /\ currentTerm'[j] = currentTerm[j]
        /\ currentTerm'[j] = currentTerm[j] => state'[j] = state[j]
  BY <1>1, SMTT(30)
<1> QED BY <1>2, <1>3, <1>4 DEF Quiet

\* A crash leaves only orphans of the calls its victim had made.
LEMMA MakeQuiet ==
    ASSUME ElectionInv, NEW i \in Server, NEW saved, Make(i, saved),
           saved.currentTerm \in Nat, saved.currentTerm >= currentTerm[i]
    PROVE  Quiet
<1>1. /\ votes' = votes /\ leaders' = leaders /\ voteCalls' = Orphaned(voteCalls, i)
      /\ state'[i] = "follower" /\ currentTerm'[i] = saved.currentTerm
      /\ \A j \in Server \ {i} : /\ currentTerm'[j] = currentTerm[j] /\ state'[j] = state[j]
                                 /\ votesReceived'[j] = votesReceived[j]
      /\ \A j \in Server : currentTerm[j] \in Nat
  BY TypeParts, SMTT(30) DEF Make, readPersist, ElectionInv, TypeOK
<1>2. ASSUME NEW d \in voteCalls'
      PROVE  \/ d \in voteCalls /\ d.from # i
             \/ \E e \in voteCalls : d = Orphan(e) /\ e.from = i
  BY <1>1 DEF Orphaned
<1>3. \A e \in voteCalls : /\ SameCall(Orphan(e), e)
                           /\ Orphan(e).voteGranted = e.voteGranted
                           /\ Orphan(e).phase = "orphan"
  BY TypeParts DEF Orphan, SameCall, ElectionInv, TypeOK, VoteCall
<1>4. OneCallPerPeer'
  <2>1. ASSUME NEW c \in voteCalls', NEW d \in voteCalls', SameCall(c, d)
        PROVE  c = d
    <3>1. CASE c.from # i
      BY <1>2, <1>3, <2>1, <3>1, SMTT(30) DEF SameCall, ElectionInv, CallsSound, OneCallPerPeer
    <3>2. CASE c.from = i
      <4>1. PICK e \in voteCalls, f \in voteCalls : c = Orphan(e) /\ d = Orphan(f)
        BY <1>2, <2>1, <3>2 DEF SameCall
      <4>2. SameCall(e, f)
        BY <1>3, <2>1, <4>1 DEF SameCall
      <4> QED BY <4>1, <4>2 DEF ElectionInv, CallsSound, OneCallPerPeer
    <3> QED BY <3>1, <3>2
  <2> QED BY <2>1 DEF OneCallPerPeer
<1>5. ASSUME NEW d \in voteCalls'
      PROVE  \E e \in voteCalls : /\ SameCall(d, e)
                                  /\ d.voteGranted => <<d.to, d.term, d.from>> \in votes'
                                  /\ d.phase # "orphan" => e.phase # "orphan"
  <2>1. CASE d \in voteCalls /\ d.from # i
    BY <1>1, <2>1 DEF SameCall, ElectionInv, CallsSound
  <2>2. CASE \E e \in voteCalls : d = Orphan(e) /\ e.from = i
    <3>1. PICK e \in voteCalls : d = Orphan(e)
      BY <2>2
    <3>2. e.voteGranted => <<e.to, e.term, e.from>> \in votes
      BY DEF ElectionInv, CallsSound
    <3> QED BY <1>1, <1>3, <3>1, <3>2 DEF SameCall
  <2> QED BY <1>2, <1>5, <2>1, <2>2
<1>6. \A c \in voteCalls' : c.from = i => c.phase = "orphan"
  BY <1>2, <1>3
<1>7. \A j \in Server : currentTerm'[j] >= currentTerm[j]
  BY <1>1, SMTT(30)
<1> QED BY <1>1, <1>4, <1>5, <1>6, <1>7 DEF Quiet

\* No call is under way at first.
LEMMA InitElection == Init => ElectionInv
BY InitType DEF Init, ElectionInv, CallsSound, CountSound, OneCallPerPeer

\* The election invariant is inductive when no vote reply outlives its term.
\* It leans on Durable: a restart does not take a peer back in terms.
LEMMA NextElection ==
    ASSUME "RequestVote" \notin LateReplies, Durable, ElectionInv, [Next]_vars
    PROVE  ElectionInv'
<1>1. TypeInv /\ TypeInv'
  BY NextType DEF ElectionInv
<1>2. \A j \in Server : currentTerm[j] \in Nat /\ state[j] \in {"follower", "candidate", "leader"}
  BY <1>1, TypeParts DEF TypeOK
<1>3. ASSUME NEW i \in Server, ServerStep(i)
      PROVE  ElectionInv'
  <2>1. CASE ElectionTimeout(i)
    BY <1>1, <2>1, ElectionTimeoutElection
  <2>2. CASE PeriodicAppendEntries(i) \/ Apply(i) \/ \E command \in Command : Start(i, command)
    <3>1. UNCHANGED <<voteCalls, votes, leaders, votesReceived, currentTerm, state>>
      BY <2>2 DEF PeriodicAppendEntries, Apply, Start, electionVars
    <3>2. Quiet
      BY <1>1, <3>1, TermQuiet
    <3> QED BY <1>1, <3>2, QuietKeeps
  <2>3. CASE Restart(i)
    <3>1. persister[i].currentTerm = currentTerm[i]
      <4>1. persister[i] = [currentTerm |-> currentTerm[i], votedFor |-> votedFor[i], log |-> log[i]]
        BY DEF Durable
      <4> QED BY <4>1, SMTT(30)
    <3>2. Make(i, persister[i])
      BY <2>3 DEF Restart
    <3>3. Quiet
      BY <1>2, <3>1, <3>2, MakeQuiet, SMTT(30)
    <3> QED BY <1>1, <3>3, QuietKeeps
  <2> QED BY <1>3, <2>1, <2>2, <2>3 DEF ServerStep
<1>4. ASSUME NEW i \in Server, NEW c, c.term \in Nat, RestartInHandler(i, c)
      PROVE  ElectionInv'
  <2> DEFINE saved == [currentTerm |-> c.term, votedFor |-> noPeer, log |-> log[i]]
  <2>1. Make(i, saved) /\ saved.currentTerm = c.term /\ c.term > currentTerm[i]
    BY <1>4 DEF RestartInHandler, OutOfTerm
  <2> HIDE DEF saved
  <2>2. saved.currentTerm \in Nat /\ saved.currentTerm >= currentTerm[i]
    <3>1. c.term \in Nat /\ currentTerm[i] \in Nat
      BY <1>2, <1>4
    <3> QED BY <2>1, <3>1, SMTT(30)
  <2>3. Quiet
    BY <2>1, <2>2, MakeQuiet
  <2> QED BY <1>1, <2>3, QuietKeeps
<1>5. ASSUME NEW i \in Server, NEW t \in Nat, StepDown(i, t), voteCalls' \subseteq voteCalls
      PROVE  ElectionInv'
  <2>1. /\ UNCHANGED <<votes, leaders, votesReceived>>
        /\ currentTerm'[i] > currentTerm[i] /\ state'[i] = "follower"
        /\ \A j \in Server \ {i} : currentTerm'[j] = currentTerm[j] /\ state'[j] = state[j]
    <3>1. /\ UNCHANGED <<votes, leaders, votesReceived>> /\ t > currentTerm[i]
          /\ currentTerm' = [currentTerm EXCEPT ![i] = t]
          /\ state' = [state EXCEPT ![i] = "follower"]
      BY <1>5 DEF StepDown, OutOfTerm, convertToFollowerIfOutOfTerm, electionVars
    <3>2. DOMAIN currentTerm = Server /\ DOMAIN state = Server
      BY <1>1, TypeParts DEF TypeOK
    <3> QED BY <3>1, <3>2
  <2>2. Quiet
    BY <1>1, <1>5, <2>1, TermQuiet
  <2> QED BY <1>1, <2>2, QuietKeeps
<1>6. ASSUME NEW c \in voteCalls, VoteStep(c)
      PROVE  ElectionInv'
  <2>1. c.from \in Server /\ c.to \in Server /\ c.term \in Nat /\ c.replyTerm \in Nat
    BY <1>1, <1>6, TypeParts DEF TypeOK, VoteCall
  <2>2. CASE RequestVote(c.to, c)
    BY <1>1, <2>2, RequestVoteQuiet, QuietKeeps
  <2>3. CASE VoteReplyOutOfTerm(c.from, c)
    BY <1>5, <2>1, <2>3 DEF VoteReplyOutOfTerm
  <2>4. CASE VoteReplyGranted(c.from, c)
    BY <1>1, <2>4, VoteReplyGrantedElection
  <2>5. CASE VoteReplyDenied(c.from, c) \/ LoseVoteCall(c)
    <3>1. /\ UNCHANGED <<votes, leaders, votesReceived, currentTerm, state>>
          /\ voteCalls' \subseteq voteCalls
      BY <2>5 DEF VoteReplyDenied, LoseVoteCall, electionVars
    <3>2. Quiet
      BY <1>1, <3>1, TermQuiet
    <3> QED BY <1>1, <3>2, QuietKeeps
  <2> QED BY <1>4, <1>6, <2>1, <2>2, <2>3, <2>4, <2>5 DEF VoteStep
<1>7. ASSUME NEW c \in appendCalls, AppendStep(c)
      PROVE  ElectionInv'
  <2>1. c.from \in Server /\ c.to \in Server /\ c.term \in Nat /\ c.replyTerm \in Nat
    BY <1>1, <1>7, TypeParts DEF TypeOK, AppendCall
  <2>2. CASE AppendEntries(c.to, c)
    <3>1. /\ UNCHANGED <<voteCalls, votes, leaders, votesReceived>>
          /\ convertToFollowerIfOutOfTerm(c.to, c.term)
      BY <2>2 DEF AppendEntries, electionVars
    <3>2. \A j \in Server : \/ currentTerm'[j] = currentTerm[j] /\ state'[j] = state[j]
                            \/ currentTerm'[j] > currentTerm[j] /\ state'[j] = "follower"
      BY <1>1, <2>1, <3>1, ConvertTerm
    <3>3. Quiet
      BY <1>1, <3>1, <3>2, TermQuiet
    <3> QED BY <1>1, <3>3, QuietKeeps
  <2>3. CASE AppendReplyOutOfTerm(c.from, c)
    BY <1>5, <2>1, <2>3 DEF AppendReplyOutOfTerm
  <2>4. CASE \/ AppendReplyNotLeader(c.from, c) \/ AppendReplySuccess(c.from, c)
             \/ AppendReplyFailure(c.from, c) \/ LoseAppendCall(c)
    <3>1. UNCHANGED <<voteCalls, votes, leaders, votesReceived, currentTerm, state>>
      BY <2>4 DEF AppendReplyNotLeader, AppendReplySuccess, AppendReplyFailure, AppendReply,
                  LoseAppendCall, electionVars
    <3>2. Quiet
      BY <1>1, <3>1, TermQuiet
    <3> QED BY <1>1, <3>2, QuietKeeps
  <2> QED BY <1>4, <1>7, <2>1, <2>2, <2>3, <2>4 DEF AppendStep
<1>8. CASE UNCHANGED vars
  <2>1. Quiet
    BY <1>1, <1>8, TermQuiet DEF vars
  <2> QED BY <1>1, <2>1, QuietKeeps
<1> QED BY <1>3, <1>6, <1>7, <1>8 DEF Next

\* Two majorities of voters share a peer, which voted only once.
LEMMA OneLeader == ElectionInv /\ OneVotePerTerm => ElectionSafety
<1> SUFFICES ASSUME ElectionInv, OneVotePerTerm, NEW l \in leaders, NEW m \in leaders, l[1] = m[1]
             PROVE  l[2] = m[2]
  BY DEF ElectionSafety
<1> DEFINE A == Voters(l[2], l[1])
           B == Voters(m[2], m[1])
<1>1. A \subseteq Server /\ B \subseteq Server
  BY DEF Voters
<1>2. /\ Cardinality(A) \in Nat /\ Cardinality(B) \in Nat /\ Cardinality(Server) \in Nat
  BY <1>1, VotersFinite, FS_CardinalityType, ServerAssumption
<1>3. IsMajority(Cardinality(A)) /\ IsMajority(Cardinality(B))
  BY DEF ElectionInv, CountSound
<1> HIDE DEF A, B
<1>4. Cardinality(A) + Cardinality(B) > Cardinality(Server)
  BY <1>2, <1>3, SMTT(30) DEF IsMajority
<1>5. A \cap B # {}
  BY <1>1, <1>4, FS_MajoritiesIntersect, ServerAssumption
<1>6. PICK v \in Server : <<v, l[1], l[2]>> \in votes /\ <<v, m[1], m[2]>> \in votes
  BY <1>5 DEF A, B, Voters
<1> QED BY <1>6 DEF OneVotePerTerm

\* Unless a vote reply reaches a candidate after the term it was cast for, no
\* two peers ever win the election of one term.
THEOREM ElectionSafetyHolds ==
    ASSUME "RequestVote" \notin LateReplies
    PROVE  Spec => []ElectionSafety
<1>1. Init => VoteInv /\ ElectionInv
  BY InitVote, InitElection
<1>2. VoteInv /\ ElectionInv /\ [Next]_vars => VoteInv' /\ ElectionInv'
  BY NextVoteInv, NextElection DEF VoteInv
<1>3. VoteInv /\ ElectionInv => ElectionSafety
  BY OneLeader DEF VoteInv
<1> QED BY <1>1, <1>2, <1>3, PTL DEF Spec

-----------------------------------------------------------------------------
(* Leaders and the calls they make *)

\* A leader has won its term, and so had the caller of every AppendEntries call.
LeaderCalls ==
    /\ \A i \in Server : state[i] = "leader" => <<currentTerm[i], i>> \in leaders
    /\ \A c \in appendCalls : <<c.term, c.from>> \in leaders /\ c.from # c.to

LeadersAppend ==
    \A i \in Server :
        state[i] = "leader" /\ state'[i] = "leader" /\ currentTerm'[i] = currentTerm[i]
            => Len(log'[i]) >= Len(log[i]) /\ SubSeq(log'[i], 1, Len(log[i])) = log[i]

\* Steps that make no call and no leader.
CallsFrom == \A c \in appendCalls' : \E d \in appendCalls : SameCall(c, d)

NoNewLeader ==
    /\ leaders' = leaders
    /\ \A i \in Server : state'[i] = "leader" => state[i] = "leader" /\ currentTerm'[i] = currentTerm[i]

\* Such a step leaves every call with a leader as its caller.
LEMMA LeaderCallsKept ==
    ASSUME LeaderCalls, CallsFrom, NoNewLeader
    PROVE  LeaderCalls'
BY DEF LeaderCalls, CallsFrom, NoNewLeader, SameCall

\* A log is its own prefix.
LEMMA WholeLog ==
    ASSUME NEW l \in Seq(Entry)
    PROVE  Len(l) >= Len(l) /\ SubSeq(l, 1, Len(l)) = l
BY SMTT(30)

\* A leader whose log stays as it is has only appended to it.
LEMMA LogsStay ==
    ASSUME TypeInv, \A i \in Server : state'[i] = "leader" => log'[i] = log[i]
    PROVE  LeadersAppend
<1>1. \A i \in Server : log[i] \in Seq(Entry)
  BY TypeParts DEF TypeOK
<1> QED BY <1>1, WholeLog DEF LeadersAppend

\* A log that is written over does not change who made a call.
LEMMA LogWriteFrom ==
    ASSUME TypeInv, NEW i, NEW l, NEW written, NEW seen, NEW c \in AfterLogWrite(i, l, written, seen)
    PROVE  \E d \in appendCalls : SameCall(c, d)
<1>1. CASE c \in appendCalls
  BY <1>1 DEF SameCall
<1>2. CASE c \notin appendCalls
  <2>1. PICK d \in Spawned(i) : c = WrittenOver(d, l, written, seen[d])
    BY <1>2 DEF AfterLogWrite
  <2>2. d \in appendCalls /\ d \in AppendCall
    BY TypeParts DEF Spawned, TypeOK
  <2>3. c.from = d.from /\ c.to = d.to /\ c.term = d.term
    BY <2>1, <2>2 DEF WrittenOver, AppendCall
  <2> QED BY <2>2, <2>3 DEF SameCall
<1> QED BY <1>1, <1>2

\* Nor does an answer.
LEMMA AppendEntriesFrom ==
    ASSUME TypeInv, NEW c \in appendCalls, AppendEntries(c.to, c)
    PROVE  CallsFrom
<1>1. c \in AppendCall
  BY TypeParts DEF TypeOK
<1>2. ASSUME NEW t, NEW h
      PROVE  SameCall([c EXCEPT !.phase = "reply", !.replyTerm = t, !.nextTryHint = h], c)
  BY <1>1 DEF SameCall, AppendCall
<1>3. ASSUME NEW t
      PROVE  SameCall([c EXCEPT !.phase = "reply", !.replyTerm = t, !.success = TRUE], c)
  BY <1>1 DEF SameCall, AppendCall
<1>4. ASSUME NEW calls, \A d \in calls : \E e \in appendCalls : SameCall(d, e),
             NEW r, SameCall(r, c), appendCalls' \in AfterAppendReply(calls, c, r)
      PROVE  CallsFrom
  <2>1. \A d \in appendCalls' : d = r \/ d = c \/ d \in calls
    BY <1>4, SMTT(30) DEF AfterAppendReply, AfterReply
  <2>2. SameCall(c, c)
    BY DEF SameCall
  <2> QED BY <1>4, <2>1, <2>2 DEF CallsFrom
<1>5. \A d \in appendCalls : \E e \in appendCalls : SameCall(d, e)
  BY DEF SameCall
<1>6. CASE RejectSmallerTerm(c.to, c)
  BY <1>2, <1>4, <1>5, <1>6 DEF RejectSmallerTerm
<1>7. CASE RejectMismatch(c.to, c)
  BY <1>2, <1>4, <1>5, <1>7 DEF RejectMismatch
<1>8. CASE AcceptEntries(c.to, c)
  <2>1. PICK written, seen : appendCalls' \in AfterAppendReply(
            AfterLogWrite(c.to, log'[c.to], written, seen), c,
            [c EXCEPT !.phase = "reply", !.replyTerm = c.term, !.success = TRUE])
    BY <1>8 DEF AcceptEntries
  <2>2. \A d \in AfterLogWrite(c.to, log'[c.to], written, seen) : \E e \in appendCalls : SameCall(d, e)
    BY LogWriteFrom
  <2> QED BY <1>3, <1>4, <2>1, <2>2
<1> QED BY <1>6, <1>7, <1>8 DEF AppendEntries

\* A leader of the term in which it makes calls makes them to others.
LEMMA SendLeaderCalls ==
    ASSUME LeaderCalls, NEW i \in Server, NEW next, SendAppendEntriesToPeers(i, next),
           leaders \subseteq leaders', <<currentTerm[i], i>> \in leaders', currentTerm' = currentTerm,
           \A j \in Server \ {i} : state'[j] = state[j]
    PROVE  LeaderCalls'
<1>1. ASSUME NEW c \in appendCalls'
      PROVE  <<c.term, c.from>> \in leaders' /\ c.from # c.to
  <2>1. CASE c \in appendCalls
    BY <2>1 DEF LeaderCalls
  <2>2. CASE c \notin appendCalls
    <3>1. PICK j \in Peers(i) : c = AppendEntriesCall(i, j, next[j])
      BY <2>2 DEF SendAppendEntriesToPeers
    <3>2. c.term = currentTerm[i] /\ c.from = i /\ c.to = j
      BY <3>1 DEF AppendEntriesCall
    <3> QED BY <3>1, <3>2 DEF Peers
  <2> QED BY <2>1, <2>2
<1>2. \A j \in Server : state'[j] = "leader" => <<currentTerm'[j], j>> \in leaders'
  BY DEF LeaderCalls
<1> QED BY <1>1, <1>2 DEF LeaderCalls

\* A restarted peer is no leader, and its old calls are still those of one.
LEMMA MakeLeaderCalls ==
    ASSUME TypeInv, LeaderCalls, NEW i \in Server, NEW saved, Make(i, saved)
    PROVE  LeaderCalls' /\ LeadersAppend
<1>1. /\ leaders' = leaders /\ appendCalls' = Orphaned(appendCalls, i) /\ state'[i] # "leader"
      /\ \A j \in Server \ {i} : /\ state'[j] = state[j] /\ currentTerm'[j] = currentTerm[j]
                                 /\ log'[j] = log[j]
  BY TypeParts DEF Make, readPersist, TypeOK
<1>2. CallsFrom
  <2>1. ASSUME NEW d \in appendCalls
        PROVE  SameCall(Orphan(d), d) /\ SameCall(d, d)
    BY TypeParts DEF Orphan, SameCall, TypeOK, AppendCall
  <2>2. ASSUME NEW c \in Orphaned(appendCalls, i)
        PROVE  \E d \in appendCalls : SameCall(c, d)
    <3>1. c \in appendCalls \/ \E d \in appendCalls : c = Orphan(d)
      BY <2>2, OrphanedOrigin, SMTT(30)
    <3> QED BY <2>1, <3>1
  <2> QED BY <1>1, <2>2 DEF CallsFrom
<1>3. NoNewLeader
  BY <1>1 DEF NoNewLeader
<1> QED BY <1>1, <1>2, <1>3, LeaderCallsKept, LogsStay

\* AppendEntries() writes to the log of no leader: it would have to be called by
\* another leader of the term.
LEMMA AppendEntriesLeader ==
    ASSUME TypeInv, LeaderCalls, ElectionSafety, NEW c \in appendCalls, AppendEntries(c.to, c)
    PROVE  LeaderCalls' /\ LeadersAppend
<1>1. /\ c.to \in Server /\ c.from \in Server /\ c.term \in Nat
      /\ \A j \in Server : log[j] \in Seq(Entry) /\ currentTerm[j] \in Nat
  BY TypeParts DEF TypeOK, AppendCall
<1>2. /\ leaders' = leaders /\ convertToFollowerIfOutOfTerm(c.to, c.term)
  BY DEF AppendEntries, electionVars
<1>3. \A j \in Server : \/ currentTerm'[j] = currentTerm[j] /\ state'[j] = state[j]
                        \/ j = c.to /\ currentTerm'[j] > currentTerm[j] /\ state'[j] = "follower"
  BY <1>1, <1>2, ConvertTerm
<1>4. NoNewLeader
  BY <1>2, <1>3 DEF NoNewLeader
<1>5. CASE AcceptEntries(c.to, c)
  <2>1. \A j \in Server \ {c.to} : log'[j] = log[j]
    BY <1>5, TypeParts DEF AcceptEntries, TypeOK
  <2>2. ASSUME state'[c.to] = "leader"
        PROVE  FALSE
    <3>1. state[c.to] = "leader" /\ currentTerm'[c.to] = currentTerm[c.to]
      BY <1>1, <1>3, <2>2
    <3>2. ~OutOfTerm(c.to, c.term)
      BY <1>1, <1>2, <2>2, TypeParts DEF convertToFollowerIfOutOfTerm, TypeOK
    <3>3. c.term = currentTerm[c.to]
      BY <1>1, <1>5, <3>2, SMTT(30) DEF AcceptEntries, OutOfTerm
    <3>4. <<c.term, c.to>> \in leaders /\ <<c.term, c.from>> \in leaders /\ c.from # c.to
      BY <1>1, <3>1, <3>3 DEF LeaderCalls
    <3> QED BY <3>4 DEF ElectionSafety
  <2> QED BY <1>4, <2>1, <2>2, LogsStay, AppendEntriesFrom, LeaderCallsKept
<1>6. CASE RejectSmallerTerm(c.to, c) \/ RejectMismatch(c.to, c)
  <2>1. log' = log
    BY <1>6 DEF RejectSmallerTerm, RejectMismatch, logVars
  <2> QED BY <1>4, <2>1, LogsStay, AppendEntriesFrom, LeaderCallsKept
<1> QED BY <1>5, <1>6 DEF AppendEntries

\* Start() adds one entry.
LEMMA StartLeader ==
    ASSUME TypeInv, LeaderCalls, NEW i \in Server, NEW command \in Command, Start(i, command)
    PROVE  LeaderCalls' /\ LeadersAppend
<1>1. PICK e : e = [command |-> command, term |-> currentTerm[i]]
  OBVIOUS
<1>2. log'[i] = Append(log[i], e) /\ \A j \in Server \ {i} : log'[j] = log[j]
  BY <1>1, TypeParts DEF Start, TypeOK
<1>3. e \in Entry /\ \A j \in Server : log[j] \in Seq(Entry)
  BY <1>1, TypeParts DEF Entry, TypeOK
<1>4. Len(log'[i]) >= Len(log[i]) /\ SubSeq(log'[i], 1, Len(log[i])) = log[i]
  BY <1>2, <1>3, SMTT(30)
<1>5. LeadersAppend
  BY <1>2, <1>3, <1>4, WholeLog DEF LeadersAppend
<1>6. PICK seen : appendCalls' = AfterLogWrite(i, log'[i], {Len(log'[i])}, seen)
  BY DEF Start
<1>7. CallsFrom
  BY <1>6, LogWriteFrom DEF CallsFrom
<1>8. NoNewLeader
  BY DEF Start, electionVars, NoNewLeader
<1> QED BY <1>5, <1>7, <1>8, LeaderCallsKept

\* Every step.
LEMMA NextLeader ==
    ASSUME TypeInv, LeaderCalls, ElectionSafety, [Next]_vars
    PROVE  LeaderCalls' /\ [LeadersAppend]_vars
<1>1. ASSUME log' = log, leaders' = leaders, appendCalls' \subseteq appendCalls, NoNewLeader
      PROVE  LeaderCalls' /\ LeadersAppend
  <2>1. CallsFrom
    BY <1>1 DEF CallsFrom, SameCall
  <2> QED BY <1>1, <2>1, LeaderCallsKept, LogsStay
<1>2. ASSUME NEW i \in Server, NEW t \in Nat, StepDown(i, t), appendCalls' \subseteq appendCalls
      PROVE  LeaderCalls' /\ LeadersAppend
  <2>1. log' = log /\ leaders' = leaders /\ convertToFollowerIfOutOfTerm(i, t)
    BY <1>2 DEF StepDown, electionVars
  <2>2. NoNewLeader
    BY <1>2, <2>1, ConvertTerm DEF NoNewLeader
  <2> QED BY <1>1, <1>2, <2>1, <2>2
<1>3. ASSUME NEW i \in Server, ServerStep(i)
      PROVE  LeaderCalls' /\ LeadersAppend
  <2>1. CASE ElectionTimeout(i)
    <3>1. log' = log /\ leaders' = leaders /\ appendCalls' = appendCalls
      BY <2>1 DEF ElectionTimeout
    <3>2. NoNewLeader
      BY <2>1, <3>1, TypeParts DEF ElectionTimeout, NoNewLeader, TypeOK
    <3> QED BY <1>1, <3>1, <3>2
  <2>2. CASE PeriodicAppendEntries(i)
    <3>1. /\ SendAppendEntriesToPeers(i, nextIndex[i]) /\ state[i] = "leader" /\ log' = log
          /\ leaders' = leaders /\ currentTerm' = currentTerm /\ state' = state
      BY <2>2 DEF PeriodicAppendEntries, electionVars, logVars
    <3>2. <<currentTerm[i], i>> \in leaders
      BY <3>1 DEF LeaderCalls
    <3> QED BY <3>1, <3>2, SendLeaderCalls, LogsStay
  <2>3. CASE Apply(i)
    BY <1>1, <2>3 DEF Apply, logVars, electionVars, NoNewLeader
  <2>4. CASE Restart(i)
    BY <2>4, MakeLeaderCalls DEF Restart
  <2>5. CASE \E command \in Command : Start(i, command)
    BY <2>5, StartLeader
  <2> QED BY <1>3, <2>1, <2>2, <2>3, <2>4, <2>5 DEF ServerStep
<1>4. ASSUME NEW c \in voteCalls, VoteStep(c)
      PROVE  LeaderCalls' /\ LeadersAppend
  <2>1. c.from \in Server /\ c.to \in Server /\ c.term \in Nat /\ c.replyTerm \in Nat
    BY TypeParts DEF TypeOK, VoteCall
  <2>2. CASE RequestVote(c.to, c)
    <3>1. /\ log' = log /\ leaders' = leaders /\ appendCalls' = appendCalls
          /\ convertToFollowerIfOutOfTerm(c.to, c.term)
      BY <2>2 DEF RequestVote
    <3>2. NoNewLeader
      BY <2>1, <3>1, ConvertTerm DEF NoNewLeader
    <3> QED BY <1>1, <3>1, <3>2
  <2>3. CASE VoteReplyOutOfTerm(c.from, c)
    BY <1>2, <2>1, <2>3 DEF VoteReplyOutOfTerm
  <2>4. CASE VoteReplyGranted(c.from, c)
    <3>1. log' = log /\ currentTerm' = currentTerm
      BY <2>4 DEF VoteReplyGranted, logVars
    <3>2. CASE UNCHANGED <<state, leaders, appendCalls>>
      BY <1>1, <3>1, <3>2 DEF NoNewLeader
    <3>3. CASE ~UNCHANGED <<state, leaders, appendCalls>>
      <4>1. /\ state' = [state EXCEPT ![c.from] = "leader"]
            /\ leaders' = leaders \cup {<<currentTerm[c.from], c.from>>}
            /\ SendAppendEntriesToPeers(c.from, nextIndex'[c.from])
        BY <2>4, <3>3 DEF VoteReplyGranted
      <4>2. \A j \in Server \ {c.from} : state'[j] = state[j]
        BY <2>1, <4>1, TypeParts DEF TypeOK
      <4>3. LeaderCalls'
        BY <2>1, <3>1, <4>1, <4>2, SendLeaderCalls
      <4> QED BY <3>1, <4>3, LogsStay
    <3> QED BY <3>2, <3>3
  <2>5. CASE VoteReplyDenied(c.from, c) \/ LoseVoteCall(c)
    BY <1>1, <2>5 DEF VoteReplyDenied, LoseVoteCall, logVars, electionVars, NoNewLeader
  <2>6. CASE RestartInHandler(c.to, c)
    BY <2>1, <2>6, MakeLeaderCalls DEF RestartInHandler
  <2> QED BY <1>4, <2>2, <2>3, <2>4, <2>5, <2>6 DEF VoteStep
<1>5. ASSUME NEW c \in appendCalls, AppendStep(c)
      PROVE  LeaderCalls' /\ LeadersAppend
  <2>1. c.from \in Server /\ c.to \in Server /\ c.term \in Nat /\ c.replyTerm \in Nat
    BY TypeParts DEF TypeOK, AppendCall
  <2>2. CASE AppendEntries(c.to, c)
    BY <2>2, AppendEntriesLeader
  <2>3. CASE AppendReplyOutOfTerm(c.from, c)
    BY <1>2, <2>1, <2>3 DEF AppendReplyOutOfTerm
  <2>4. CASE \/ AppendReplyNotLeader(c.from, c) \/ AppendReplySuccess(c.from, c)
             \/ AppendReplyFailure(c.from, c) \/ LoseAppendCall(c)
    BY <1>1, <2>4 DEF AppendReplyNotLeader, AppendReplySuccess, AppendReplyFailure, AppendReply,
                      LoseAppendCall, logVars, electionVars, NoNewLeader
  <2>5. CASE RestartInHandler(c.to, c)
    BY <2>1, <2>5, MakeLeaderCalls DEF RestartInHandler
  <2> QED BY <1>5, <2>2, <2>3, <2>4, <2>5 DEF AppendStep
<1>6. CASE UNCHANGED vars
  BY <1>1, <1>6 DEF vars, NoNewLeader
<1> QED BY <1>3, <1>4, <1>5, <1>6 DEF Next

\* Unless a vote reply outlives its term, a leader only ever appends to its log,
\* whatever happens to AppendEntries calls, their encoding and their replies.
THEOREM LeaderAppendOnlyHolds ==
    ASSUME "RequestVote" \notin LateReplies
    PROVE  Spec => LeaderAppendOnly
<1> DEFINE Inv == VoteInv /\ ElectionInv /\ LeaderCalls
<1>1. Init => Inv
  BY InitVote, InitElection DEF Init, LeaderCalls
<1>2. Inv /\ [Next]_vars => Inv' /\ [LeadersAppend]_vars
  <2> SUFFICES ASSUME Inv, [Next]_vars
               PROVE  Inv' /\ [LeadersAppend]_vars
    OBVIOUS
  <2>1. TypeInv /\ Durable /\ ElectionSafety
    BY OneLeader DEF VoteInv
  <2> QED BY <2>1, NextVoteInv, NextElection, NextLeader
<1> HIDE DEF Inv
<1>3. Spec => [][LeadersAppend]_vars
  BY <1>1, <1>2, PTL DEF Spec
<1> QED BY <1>3 DEF LeaderAppendOnly, LeadersAppend

=============================================================================
