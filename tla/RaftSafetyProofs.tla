-------------------------- MODULE RaftSafetyProofs --------------------------
(***************************************************************************)
(* What is committed stays committed, in module Raft: for any number of    *)
(* peers, with crashes and lost, repeated and reordered calls, when no     *)
(* reply outlives the term of its call and a call is encoded before the    *)
(* log it is taken from changes.  Raft.go guarantees neither (lines 387,   *)
(* 620 and 580), and module MCRaftLate has the behaviours in which it goes *)
(* wrong: the theorems say that nothing else does.                         *)
(***************************************************************************)
EXTENDS RaftLogProofs

\* The prover of a leaf that names none, and the seconds it has; a leaf that takes
\* arithmetic or sequences names SMT.
USE ZenonT(30)

-----------------------------------------------------------------------------
(* AppendEntries() *)

\* A call that is refused: the hint is within the log of the leader.
LEMMA RejectSafe ==
    ASSUME TypeInv, TypeInv', VoteInv, ElectionInv, LeaderInv, CallsStep, NoWin,
           NEW L \in History, NEW A \in Acks, NEW W \in SUBSET Nat, Logs(L), Safe(L, A, W),
           NEW c \in appendCalls, AppendEntries(c.to, c),
           RejectSmallerTerm(c.to, c) \/ RejectMismatch(c.to, c)
    PROVE  Logs(L)' /\ Safe(L, A, W)'
<1> DEFINE i == c.to
<1>1. /\ c \in AppendCall /\ i \in Server /\ c.term \in Nat /\ c.prevLogIndex \in Nat
      /\ Len(c.entries) \in Nat
  <2>1. c \in AppendCall
    BY TypeParts DEF TypeOK
  <2> QED BY <2>1, SMTT(30) DEF AppendCall
<1>2. log[i] \in Seq(Entry) /\ currentTerm[i] \in Nat /\ Len(log[i]) \in Nat
  <2>1. log[i] \in Seq(Entry) /\ currentTerm[i] \in Nat
    BY <1>1, TypeParts DEF TypeOK
  <2> QED BY <2>1, SMTT(30)
<1>3. /\ log' = log
      /\ UNCHANGED <<voteCalls, votes, matchIndex, nextIndex, commitIndex, delivered>>
  BY DEF AppendEntries, RejectSmallerTerm, RejectMismatch, logVars, electionVars, leaderVars
<1>4. GoodCall(L, A, c) /\ Carries(c, L[c.term]) /\ Len(L[c.term]) \in Nat
  BY <1>1, HistoryType DEF Safe, Logs
<1>5. PICK r : appendCalls' \in AfterAppendReply(appendCalls, c, r) /\ GoodCall(L, A, r)
  <2>1. ASSUME NEW r, NEW t, NEW h,
               r = [c EXCEPT !.phase = "reply", !.replyTerm = t, !.nextTryHint = h],
               t <= c.term => h \in 1..Len(L[c.term]) + 1
        PROVE  GoodCall(L, A, r)
    <3>1. /\ r.to = c.to /\ r.term = c.term /\ r.prevLogIndex = c.prevLogIndex
          /\ r.entries = c.entries /\ r.leaderCommit = c.leaderCommit
          /\ r.success = c.success /\ r.replyTerm = t /\ r.nextTryHint = h
      BY <1>1, <2>1 DEF AppendCall
    <3> QED BY <1>4, <2>1, <3>1 DEF GoodCall
  <2>2. CASE RejectSmallerTerm(i, c)
    <3> DEFINE h == Len(log[i]) + 1
               r == [c EXCEPT !.phase = "reply", !.replyTerm = currentTerm[i], !.nextTryHint = h]
    <3>1. appendCalls' \in AfterAppendReply(appendCalls, c, r) /\ c.term < currentTerm[i]
      BY <2>2 DEF RejectSmallerTerm
    <3>2. ~(currentTerm[i] <= c.term)
      BY <1>1, <1>2, <3>1, SMTT(30)
    <3>3. GoodCall(L, A, r)
      BY <2>1, <3>2
    <3> HIDE DEF r
    <3> QED BY <3>1, <3>3
  <2>3. CASE RejectMismatch(i, c)
    <3> DEFINE h == NextTryHint(log[i], c.prevLogIndex)
               r == [c EXCEPT !.phase = "reply", !.replyTerm = c.term, !.nextTryHint = h]
    <3>1. appendCalls' \in AfterAppendReply(appendCalls, c, r)
          /\ ~PrevMatches(log[i], c.prevLogIndex, c.prevLogTerm)
      BY <2>3 DEF RejectMismatch
    <3>2. c.prevLogIndex # 0
      <4>1. c.prevLogIndex = 0 => c.prevLogTerm = 0
        BY DEF TypeInv, FirstEntryMatches
      <4> QED BY <1>2, <3>1, <4>1, SMTT(30) DEF PrevMatches, TermAt
    <3>3. h \in 1..c.prevLogIndex
      BY <1>1, <1>2, <3>2, NextTryHintType
    <3>4. c.prevLogIndex <= Len(L[c.term])
      BY <1>1, <1>4, SMTT(30) DEF Carries
    <3>5. h \in 1..Len(L[c.term]) + 1
      <4> HIDE DEF h
      <4> QED BY <1>1, <1>4, <3>3, <3>4, SMTT(30)
    <3>6. GoodCall(L, A, r)
      BY <2>1, <3>5
    <3> HIDE DEF r
    <3> QED BY <3>1, <3>6
  <2> QED BY <2>2, <2>3
<1>6. AppendCallsGo(L, A)
  BY <1>5 DEF AppendCallsGo, AfterAppendReply, AfterReply
<1>7. Plain
  BY <1>3 DEF Plain
<1> QED BY <1>3, <1>6, <1>7, QuietSafe

\* Peer v has acknowledged p to the leader of term x.
Acked(A, v, x, p, B) ==
    /\ B[v][x] = IF p > A[v][x] THEN p ELSE A[v][x]
    /\ \A w \in Server, t \in Nat : w # v \/ t # x => B[w][t] = A[w][t]
    /\ \A w \in Server, t \in Nat : A[w][t] <= B[w][t]

\* One more acknowledgement can be added to those there are.
LEMMA NewAck ==
    ASSUME NEW A \in Acks, NEW v \in Server, NEW x \in Nat, NEW p \in Nat
    PROVE  \E B \in Acks : Acked(A, v, x, p, B)
<1> DEFINE m == IF p > A[v][x] THEN p ELSE A[v][x]
           B == [w \in Server |-> [t \in Nat |-> IF w = v /\ t = x THEN m ELSE A[w][t]]]
<1>1. \A w \in Server, t \in Nat : A[w][t] \in Nat
  BY AckType
<1>2. m \in Nat /\ A[v][x] <= m
  BY <1>1, SMTT(30)
<1>3. \A w \in Server, t \in Nat : B[w][t] = IF w = v /\ t = x THEN m ELSE A[w][t]
  OBVIOUS
<1> HIDE DEF m
<1>4. B \in Acks
  BY <1>1, <1>2 DEF Acks
<1> HIDE DEF B
<1>5. \A w \in Server, t \in Nat : A[w][t] <= B[w][t]
  BY <1>1, <1>2, <1>3, SMTT(30)
<1>6. B[v][x] = m /\ \A w \in Server, t \in Nat : w # v \/ t # x => B[w][t] = A[w][t]
  BY <1>3
<1>7. Acked(A, v, x, p, B)
  BY <1>5, <1>6 DEF Acked, m
<1> QED BY <1>4, <1>7

\* A peer that accepts a call keeps what leaders up to the caller all had.
LEMMA AcceptAdvance ==
    ASSUME TypeInv, TypeInv', LeaderInv, NoWin, ElectionSafety,
           NEW L \in History, NEW A \in Acks, NEW W \in SUBSET Nat, Logs(L), Safe(L, A, W),
           NEW c \in appendCalls, AppendEntries(c.to, c), AcceptEntries(c.to, c),
           NEW p \in Nat, p = c.prevLogIndex + Len(c.entries), NEW B \in Acks,
           Acked(A, c.to, c.term, p, B)
    PROVE  Advance(L, A, W, L, B, W) /\ c.term \in W
<1> DEFINE v == c.to
           x == c.term
<1>1. v \in Server /\ x \in Nat /\ c.from \in Server
  BY TypeParts DEF TypeOK, AppendCall
<1>2. /\ x >= currentTerm[v] /\ \A j \in Server \ {v} : log'[j] = log[j]
      /\ Agree(log'[v], L[x], p)
      /\ \A k \in Nat : Agree(L[x], log[v], k) => Agree(L[x], log'[v], k)
  BY AcceptLog
<1>3. state'[v] # "leader" /\ currentTerm'[v] = x
  BY <1>2, AcceptFollower DEF AppendEntries
<1>4. W = {t \in Nat : Won(t)'} /\ x \in W
  <2>1. \A t : Won(t)' <=> Won(t)
    BY DEF Won, NoWin
  <2>2. Won(x)
    BY <1>1 DEF Won, LeaderInv
  <2> QED BY <1>1, <2>1, <2>2 DEF Safe
<1>5. \A i \in Server : /\ currentTerm[i] \in Nat /\ currentTerm'[i] \in Nat
                        /\ currentTerm'[i] >= currentTerm[i] /\ log'[i] \in Seq(Entry)
  <2>1. \A i \in Server : currentTerm[i] \in Nat /\ currentTerm'[i] \in Nat /\ log'[i] \in Seq(Entry)
    BY TypeParts DEF TypeOK
  <2> QED BY <2>1, SMTT(30) DEF NoWin
<1> HIDE DEF v, x
<1>6. Later(L, A, W, L, B, W)
  <2>1. \A y \in W : Len(L[y]) \in Nat /\ Len(L[y]) + 1 .. Len(L[y]) = {}
    BY HistoryType, SMTT(30)
  <2> QED BY <2>1, GrowsSelf DEF Later, Acked
<1>7. ASSUME NEW w \in Server, NEW t \in Nat, B[w][t] # A[w][t]
      PROVE  t = currentTerm'[w] /\ Agree(L[t], log'[w], B[w][t])
  <2>1. w = v /\ t = x
    BY <1>7 DEF v, x, Acked
  <2>2. B[w][t] = p
    BY <1>7, <2>1 DEF v, x, Acked
  <2> QED BY <1>2, <1>3, <2>1, <2>2, AgreeSymmetric
<1>8. ASSUME NEW w \in Server, NEW t \in Nat, NEW k \in Nat, k <= A[w][t],
             Survives(L, W, k, t, currentTerm'[w] + 1), Agree(L[t], log[w], k)
      PROVE  Agree(L[t], log'[w], k)
  <2>1. CASE w # v
    BY <1>2, <1>8, <2>1
  <2>2. CASE w = v /\ k = 0
    <3>1. Len(L[t]) \in Nat /\ Len(log'[v]) \in Nat
      BY <1>1, <1>5, HistoryType, SMTT(30)
    <3> QED BY <2>2, <3>1, SMTT(30) DEF Agree
  <2>3. CASE w = v /\ k # 0
    <3>1. t <= x
      <4>1. A[v][t] \in Nat /\ A[v][t] > 0
        BY <1>1, <1>8, <2>3, AckType, SMTT(30)
      <4>2. t <= currentTerm[v]
        BY <1>1, <4>1 DEF Safe, AckInv
      <4> QED BY <1>1, <1>2, <1>5, <4>2, SMTT(30)
    <3>2. CASE t = x
      BY <1>2, <1>8, <2>3, <3>2
    <3>3. CASE t # x
      <4>1. t < x /\ x < x + 1
        BY <1>1, <3>1, <3>3, SMTT(30)
      <4>2. Agree(L[t], L[x], k)
        BY <1>3, <1>4, <1>8, <2>3, <4>1 DEF Survives
      <4>3. Agree(L[x], log[v], k)
        BY <1>8, <2>3, <4>2, AgreeSymmetric, AgreeTransitive
      <4>4. Agree(L[x], log'[v], k)
        BY <1>2, <4>3
      <4> QED BY <2>3, <4>2, <4>4, AgreeTransitive
    <3> QED BY <3>2, <3>3
  <2> QED BY <2>1, <2>2, <2>3
<1>9. ASSUME NEW i \in Server, NEW t \in Nat, Standing(i, t, W)', t <= currentTerm[i]
      PROVE  Standing(i, t, W) /\ log'[i] = log[i]
  <2>1. state'[i] = "candidate" /\ currentTerm'[i] = t /\ t \notin W
    BY <1>9 DEF Standing
  <2>2. i # v
    BY <1>3, <1>4, <2>1
  <2>3. ~(currentTerm'[i] > currentTerm[i])
    BY <1>5, <1>9, <2>1, SMTT(30)
  <2> QED BY <1>2, <2>1, <2>2, <2>3 DEF Standing, NoWin
<1>10. \A i \in Server : currentTerm'[i] >= currentTerm[i]
  BY <1>5
<1> QED BY <1>4, <1>6, <1>7, <1>8, <1>9, <1>10 DEF Advance, x

\* The commit index after a call was accepted.
LEMMA AcceptCommit ==
    ASSUME TypeInv, TypeInv', LeaderInv, ElectionSafety, NEW L \in History,
           NEW A \in Acks, NEW W \in SUBSET Nat, Logs(L), Safe(L, A, W),
           NEW c \in appendCalls, AppendEntries(c.to, c), AcceptEntries(c.to, c), c.term \in W,
           NEW B \in Acks, \A w \in Server, t \in Nat : A[w][t] <= B[w][t]
    PROVE  Holds(L, B, commitIndex'[c.to], currentTerm'[c.to], log'[c.to])
<1> DEFINE v == c.to
           x == c.term
           p == c.prevLogIndex + Len(c.entries)
           n == commitIndex[v]
<1>1. /\ c \in AppendCall /\ v \in Server /\ x \in Nat /\ p \in Nat /\ c.leaderCommit \in Nat
  <2>1. c \in AppendCall
    BY TypeParts DEF TypeOK
  <2>2. v \in Server /\ x \in Nat /\ c.prevLogIndex \in Nat /\ Len(c.entries) \in Nat
        /\ c.leaderCommit \in Nat
    BY <2>1, SMTT(30) DEF AppendCall
  <2> QED BY <2>1, <2>2, SMTT(30)
<1>2. /\ x >= currentTerm[v] /\ Agree(log'[v], L[x], p)
      /\ \A k \in Nat : Agree(L[x], log[v], k) => Agree(L[x], log'[v], k)
  BY AcceptLog
<1>3. currentTerm'[v] = x
  BY <1>2, AcceptFollower DEF AppendEntries
<1>4. /\ n \in Nat /\ currentTerm[v] \in Nat /\ log[v] \in Seq(Entry) /\ log'[v] \in Seq(Entry)
      /\ L[x] \in Seq(Entry) /\ x <= x /\ currentTerm[v] <= x
  <2>1. n \in Nat /\ currentTerm[v] \in Nat /\ log[v] \in Seq(Entry) /\ log'[v] \in Seq(Entry)
    BY <1>1, TypeParts DEF TypeOK
  <2> QED BY <1>1, <1>2, <2>1, HistoryType, SMTT(30)
<1>5. commitIndex'[v] = IF c.leaderCommit > n THEN Minimum(c.leaderCommit, p) ELSE n
  BY <1>1, TypeParts DEF AcceptEntries, TypeOK
<1>6. GoodCall(L, A, c) /\ Holds(L, A, n, currentTerm[v], log[v])
      /\ \A u \in W : Backed(L, A, W, currentTerm, u)
  BY <1>1 DEF Safe
<1> HIDE DEF v, x, p, n
<1>7. CASE c.leaderCommit > n
  <2>1. c.leaderCommit <= p /\ Holds(L, A, c.leaderCommit, x, L[x])
    BY <1>6 DEF GoodCall, p, x
  <2>2. commitIndex'[v] = c.leaderCommit
    BY <1>1, <1>5, <1>7, <2>1, SMTT(30) DEF Minimum
  <2>3. Agree(L[x], log'[v], c.leaderCommit)
    BY <1>1, <1>2, <1>4, <2>1, AgreeLess, AgreeSymmetric
  <2>4. Holds(L, B, c.leaderCommit, x, log'[v])
    BY <1>1, <1>4, <2>1, <2>3, GrowsSelf, HoldsLater
  <2> QED BY <1>3, <2>2, <2>4 DEF v
<1>8. CASE ~(c.leaderCommit > n)
  <2>1. x \in W
    BY DEF x
  <2>2. Agree(L[x], log[v], n)
    BY <1>4, <1>6, <2>1, HoldsLeader
  <2>3. Agree(log[v], log'[v], n)
    BY <1>2, <1>4, <2>2, AgreeSymmetric, AgreeTransitive
  <2>4. Holds(L, B, n, x, log'[v])
    BY <1>1, <1>4, <1>6, <2>3, GrowsSelf, HoldsLater
  <2> QED BY <1>3, <1>5, <1>8, <2>4 DEF v
<1> QED BY <1>7, <1>8

\* AppendEntries() that accepts: the reply acknowledges what the peer now has.
LEMMA AcceptSafe ==
    ASSUME TypeInv, TypeInv', VoteInv, ElectionInv, LeaderInv, CallsStep, NoWin, ElectionSafety,
           NEW L \in History, NEW A \in Acks, NEW W \in SUBSET Nat, Logs(L), Safe(L, A, W),
           NEW c \in appendCalls, AppendEntries(c.to, c), AcceptEntries(c.to, c)
    PROVE  \E B \in Acks : Logs(L)' /\ Safe(L, B, W)'
<1> DEFINE v == c.to
           x == c.term
<1>1. PICK p : p = c.prevLogIndex + Len(c.entries)
  OBVIOUS
<1>2. c \in AppendCall /\ v \in Server /\ x \in Nat /\ p \in Nat
  <2>1. c \in AppendCall
    BY TypeParts DEF TypeOK
  <2>2. v \in Server /\ x \in Nat /\ c.prevLogIndex \in Nat /\ Len(c.entries) \in Nat
    BY <2>1, SMTT(30) DEF AppendCall
  <2> QED BY <1>1, <2>1, <2>2, SMTT(30)
<1>3. PICK B \in Acks : Acked(A, v, x, p, B)
  BY <1>2, NewAck
<1>4. Advance(L, A, W, L, B, W) /\ x \in W
  BY <1>1, <1>2, <1>3, AcceptAdvance
<1>5. Logs(L)'
  BY AppendEntriesLogs
<1>6. /\ \A j \in Server \ {v} : log'[j] = log[j] /\ commitIndex'[j] = commitIndex[j]
      /\ UNCHANGED <<voteCalls, votes, matchIndex, nextIndex, delivered>>
  <2>1. \A j \in Server \ {v} : log'[j] = log[j]
    BY AcceptLog
  <2>2. \A j \in Server \ {v} : commitIndex'[j] = commitIndex[j]
    BY TypeParts DEF AcceptEntries, TypeOK
  <2> QED BY <2>1, <2>2 DEF AppendEntries, electionVars, leaderVars
<1>7. state'[v] # "leader"
  <2>1. c.term >= currentTerm[v]
    BY AcceptLog
  <2> QED BY <2>1, AcceptFollower DEF AppendEntries
<1>8. CommitsGo(L, B)
  <2>1. Holds(L, B, commitIndex'[v], currentTerm'[v], log'[v])
    BY <1>3, <1>4, AcceptCommit DEF Acked
  <2> QED BY <1>6, <2>1 DEF CommitsGo
<1>9. LeadersGo(B)
  BY <1>6, <1>7 DEF LeadersGo, NoWin
<1>10. AppendCallsGo(L, B)
  <2>1. PICK r : /\ appendCalls' \in AfterAppendReply(appendCalls, c, r)
                 /\ r = [c EXCEPT !.phase = "reply", !.replyTerm = c.term, !.success = TRUE]
    BY NothingSpawned DEF AcceptEntries
  <2>2. /\ r.to = v /\ r.term = x /\ r.prevLogIndex = c.prevLogIndex /\ r.entries = c.entries
        /\ r.leaderCommit = c.leaderCommit /\ r.success
    BY <1>2, <2>1 DEF AppendCall
  <2>3. GoodCall(L, B, c)
    <3>1. GoodCall(L, A, c)
      BY DEF Safe
    <3> QED BY <1>2, <1>3, <3>1, GrowsSelf, GoodCallLater DEF Acked
  <2>4. p <= B[v][x]
    <3>1. A[v][x] \in Nat
      BY <1>2, AckType
    <3> QED BY <1>2, <1>3, <3>1, SMTT(30) DEF Acked
  <2>5. GoodCall(L, B, r)
    BY <1>1, <2>2, <2>3, <2>4 DEF GoodCall
  <2> QED BY <2>1, <2>5 DEF AppendCallsGo, AfterAppendReply, AfterReply
<1>11. VoteCallsGo
  BY <1>6 DEF VoteCallsGo, SameCall
<1>12. VotesGo(L, B, W) /\ DeliveriesGo(L, B)
  BY <1>6 DEF VotesGo, DeliveriesGo
<1>13. Safe(L, B, W)'
  BY <1>4, <1>5, <1>8, <1>9, <1>10, <1>11, <1>12, SafeStep DEF VoteInv, ElectionInv
<1> QED BY <1>5, <1>13

-----------------------------------------------------------------------------
(* Winning an election, and Start() *)

\* Peer i is elected, and its log is the first one that a leader of its term has.
Elected(L, A, W, i, t, M, B, X) ==
    /\ i \in Server /\ t \in Nat /\ M \in History /\ B \in Acks /\ X \in SUBSET Nat
    /\ Wins(i) /\ votes' = votes
    /\ t = currentTerm[i] /\ ~Won(t) /\ L[t] = << >>
    /\ M = [L EXCEPT ![t] = log[i]] /\ Grows(L, M)
    /\ Acked(A, i, t, Len(log[i]), B)
    /\ X = W \cup {t}

\* The first acknowledgement of a term covers all of what is acknowledged.
LEMMA FirstAck ==
    ASSUME NEW L \in History, NEW A \in Acks, NEW i \in Server, NEW t \in Nat, NEW p \in Nat, NEW B,
           AckInv(L, A), L[t] = << >>, Acked(A, i, t, p, B)
    PROVE  B[i][t] = p
<1>1. A[i][t] \in Nat /\ A[i][t] <= Len(L[t])
  BY AckType DEF AckInv
<1> QED BY <1>1, SMTT(30) DEF Acked

\* The winner has what a majority may have helped to commit.
LEMMA WinAdvance ==
    ASSUME TypeInv, TypeInv', VoteInv, ElectionInv', LeaderInv,
           NEW L \in History, NEW A \in Acks, NEW W \in SUBSET Nat, Logs(L), Safe(L, A, W),
           NEW i, NEW t, NEW M, NEW B, NEW X, Elected(L, A, W, i, t, M, B, X)
    PROVE  Advance(L, A, W, M, B, X)
<1> /\ i \in Server /\ t \in Nat /\ M \in History /\ B \in Acks /\ X \in SUBSET Nat
    /\ Wins(i) /\ votes' = votes /\ Acked(A, i, t, Len(log[i]), B)
  BY DEF Elected
<1>1. /\ leaders' = leaders \cup {<<t, i>>} /\ state[i] = "candidate"
      /\ currentTerm' = currentTerm /\ log' = log
      /\ \A j \in Server : state'[j] = IF j = i THEN "leader" ELSE state[j]
  BY TypeParts DEF Wins, TypeOK, Elected
<1>2. log[i] \in Seq(Entry) /\ Len(log[i]) \in Nat
  <2>1. log[i] \in Seq(Entry)
    BY TypeParts DEF TypeOK
  <2> QED BY <2>1, SMTT(30)
<1>3. t = currentTerm[i] /\ t \notin W /\ Len(L[t]) = 0
  <2>1. t = currentTerm[i] /\ ~Won(t) /\ L[t] = << >>
    BY DEF Elected
  <2> QED BY <2>1 DEF Safe
<1>4. /\ M[t] = log[i] /\ (\A x \in Nat \ {t} : M[x] = L[x])
      /\ Grows(L, M) /\ X = W \cup {t}
  BY DEF Elected, History
<1>5. B[i][t] = Len(log[i])
  <2>1. AckInv(L, A) /\ L[t] = << >>
    BY DEF Safe, Elected
  <2> QED BY <1>2, <2>1, FirstAck
<1>6. Later(L, A, W, M, B, X)
  <2>1. ASSUME NEW x \in W
        PROVE  Len(L[x]) + 1 .. Len(M[x]) = {}
    <3>1. M[x] = L[x] /\ Len(L[x]) \in Nat
      BY <1>3, <1>4, HistoryType
    <3> QED BY <3>1, SMTT(30)
  <2> QED BY <1>4, <2>1 DEF Later, Acked
<1>7. X = {x \in Nat : Won(x)'}
  <2>1. \A x \in Nat : Won(x)' <=> x = t \/ Won(x)
    BY <1>1 DEF Won
  <2> QED BY <1>4, <2>1 DEF Safe
<1>8. Agree(log[i], log[i], Len(log[i]))
  BY <1>2, AgreeSelf, SMTT(30)
<1>9. ASSUME NEW v \in Server, NEW x \in Nat, B[v][x] # A[v][x]
      PROVE  x = currentTerm'[v] /\ Agree(M[x], log'[v], B[v][x])
  <2>1. v = i /\ x = t
    BY <1>9 DEF Acked
  <2> QED BY <1>1, <1>3, <1>4, <1>5, <1>8, <2>1
<1>10. Backed(M, B, X, currentTerm', t)
  <2> DEFINE Q == Voters(i, t)
  <2>1. Q \in Quorums
    <3>1. PICK l : l = <<t, i>>
      OBVIOUS
    <3>2. l \in leaders' /\ l[1] = t /\ l[2] = i
      BY <1>1, <3>1
    <3>3. IsMajority(Cardinality(Voters(l[2], l[1])'))
      BY <3>2 DEF ElectionInv, CountSound
    <3>4. Voters(l[2], l[1])' = Q
      BY <3>2 DEF Voters
    <3>5. IsMajority(Cardinality(Q))
      BY <3>3, <3>4
    <3>6. Q \in SUBSET Server
      BY DEF Voters
    <3> QED BY <3>5, <3>6 DEF Quorums
  <2>2. ASSUME NEW v \in Q
        PROVE  t <= currentTerm'[v] /\ Supports(M, B, X, v, t, M[t])
    <3>1. PICK w : w = <<v, t, i>>
      OBVIOUS
    <3>2. v \in Server /\ w \in votes /\ w[1] = v /\ w[2] = t /\ w[3] = i
      BY <3>1 DEF Voters
    <3>3. t <= currentTerm[v] /\ GoodVote(L, A, W, w)
      BY <3>2 DEF VoteInv, VoteRemembered, Safe
    <3>4. Standing(i, t, W)
      BY <1>1, <1>3 DEF Standing
    <3>5. Supports(L, A, W, v, t, log[i])
      BY <3>2, <3>3, <3>4 DEF GoodVote
    <3>6. \A x \in Nat : TermsUpTo(x, L[x]) /\ A[v][x] <= Len(L[x])
      BY <3>2 DEF Logs, Safe, AckInv
    <3>7. \A x \in Nat : x < t => B[v][x] = A[v][x]
      BY <3>2, SMTT(30) DEF Acked
    <3>8. Supports(M, B, X, v, t, log[i])
      BY <1>2, <1>6, <1>8, <3>2, <3>5, <3>6, <3>7, SupportsLater, SMTT(30)
    <3> QED BY <1>1, <1>4, <3>3, <3>8
  <2> HIDE DEF Q
  <2> QED BY <2>1, <2>2 DEF Backed
<1>11. ASSUME NEW j \in Server, NEW x \in Nat, Standing(j, x, X)'
       PROVE  Standing(j, x, W)
  BY <1>1, <1>4, <1>11 DEF Standing
<1>12. \A j \in Server : currentTerm'[j] >= currentTerm[j] /\ log'[j] = log[j]
  BY <1>1, TypeParts, SMTT(30) DEF TypeOK
<1>13. \A u \in X \ W : Backed(M, B, X, currentTerm', u)
  BY <1>4, <1>10
<1> QED BY <1>5, <1>6, <1>7, <1>9, <1>11, <1>12, <1>13 DEF Advance

\* VoteReplyGranted() that elects a leader: its calls and indexes are good.
LEMMA WinSafe ==
    ASSUME TypeInv, TypeInv', VoteInv, ElectionInv, ElectionInv', LeaderInv, ElectionSafety',
           ~LateEncoding, CallsStep,
           NEW L \in History, NEW A \in Acks, NEW W \in SUBSET Nat, Logs(L), Safe(L, A, W),
           NEW c \in voteCalls, VoteReplyGranted(c.from, c), Wins(c.from)
    PROVE  \E M \in History, B \in Acks, X \in SUBSET Nat : Logs(M)' /\ Safe(M, B, X)'
<1>1. PICK i \in Server : i = c.from
  BY TypeParts DEF TypeOK, VoteCall
<1>2. PICK t \in Nat : t = currentTerm[i]
  BY TypeParts DEF TypeOK
<1>3. log[i] \in Seq(Entry) /\ Len(log[i]) \in Nat /\ commitIndex[i] \in Nat
  <2>1. log[i] \in Seq(Entry) /\ commitIndex[i] \in Nat
    BY TypeParts DEF TypeOK
  <2> QED BY <2>1, SMTT(30)
<1>4. PICK M : M = [L EXCEPT ![t] = log[i]]
  OBVIOUS
<1>5. M \in History /\ Grows(L, M) /\ ~Won(t) /\ L[t] = << >> /\ Logs(M)'
  BY <1>1, <1>2, <1>4, WinLogs
<1>6. PICK B \in Acks : Acked(A, i, t, Len(log[i]), B)
  BY <1>3, NewAck
<1>7. PICK X \in SUBSET Nat : X = W \cup {t}
  OBVIOUS
<1>8. /\ state[i] = "candidate" /\ currentTerm' = currentTerm /\ log' = log
      /\ \A j \in Server : state'[j] = IF j = i THEN "leader" ELSE state[j]
  BY <1>1, TypeParts DEF Wins, TypeOK
<1>9. /\ nextIndex' = [nextIndex EXCEPT ![i] = [j \in Server |-> Len(log[i]) + 1]]
      /\ matchIndex' = [matchIndex EXCEPT ![i] = zeros]
      /\ SendAppendEntriesToPeers(i, nextIndex'[i])
      /\ voteCalls' \subseteq voteCalls
      /\ UNCHANGED <<votes, commitIndex, delivered>>
  <2>1. state' # state
    BY <1>8
  <2> QED BY <1>1, <2>1 DEF VoteReplyGranted, applyVars
<1>10. Advance(L, A, W, M, B, X) /\ B[i][t] = Len(log[i])
  <2>1. Elected(L, A, W, i, t, M, B, X)
    BY <1>1, <1>2, <1>4, <1>5, <1>6, <1>7, <1>9 DEF Elected
  <2>2. Advance(L, A, W, M, B, X)
    BY <2>1, WinAdvance
  <2>3. B[i][t] = Len(log[i])
    <3>1. AckInv(L, A)
      BY DEF Safe
    <3> QED BY <1>3, <1>5, <1>6, <3>1, FirstAck
  <2> QED BY <2>2, <2>3
<1>11. /\ nextIndex'[i] = [j \in Server |-> Len(log[i]) + 1]
       /\ matchIndex'[i] = zeros
       /\ \A j \in Server \ {i} : nextIndex'[j] = nextIndex[j] /\ matchIndex'[j] = matchIndex[j]
  BY <1>9, TypeParts, SMTT(30) DEF TypeOK
<1>12. GoodLeader(B, i)'
  <2>1. ASSUME NEW j \in Peers(i)
        PROVE  matchIndex'[i][j] <= B[j][t] /\ nextIndex'[i][j] \in 1..Len(log[i]) + 1
    <3>1. j \in Server
      BY DEF Peers
    <3>2. B[j][t] \in Nat /\ zeros[j] = 0
      BY <3>1, AckType DEF zeros
    <3>3. matchIndex'[i][j] = 0 /\ nextIndex'[i][j] = Len(log[i]) + 1
      BY <1>11, <3>1, <3>2
    <3>4. Len(log[i]) + 1 \in 1..Len(log[i]) + 1 /\ 0 <= B[j][t]
      BY <1>3, <3>2, SMTT(30)
    <3> QED BY <3>3, <3>4
  <2> QED BY <1>2, <1>8, <1>10, <2>1 DEF GoodLeader, Peers
<1>13. LeadersGo(B)
  BY <1>8, <1>11, <1>12 DEF LeadersGo
<1>14. AppendCallsGo(M, B)
  <2>1. nextIndex'[i] \in [Server -> Nat]
    BY <1>3, <1>11, SMTT(30)
  <2>2. M[currentTerm[i]] = log[i]
    BY <1>2, <1>4 DEF History
  <2>3. Holds(M, B, commitIndex[i], t, log[i])
    <3>1. Holds(L, A, commitIndex[i], t, log[i])
      BY <1>2 DEF Safe
    <3>2. commitIndex[i] <= Len(log[i])
      BY <1>3, <3>1, SMTT(30) DEF Holds, Agree
    <3>3. Agree(log[i], log[i], commitIndex[i]) /\ t <= t
      BY <1>2, <1>3, <3>2, AgreeSelf, SMTT(30)
    <3> QED BY <1>3, <1>5, <1>6, <3>1, <3>3, HoldsLater DEF Acked
  <2> QED BY <1>2, <1>9, <2>1, <2>2, <2>3, SendGood
<1>15. CommitsGo(M, B) /\ VotesGo(M, B, X) /\ DeliveriesGo(M, B)
  BY <1>8, <1>9 DEF CommitsGo, VotesGo, DeliveriesGo
<1>16. VoteCallsGo
  BY <1>9 DEF VoteCallsGo, SameCall
<1>17. Safe(M, B, X)'
  BY <1>5, <1>10, <1>13, <1>14, <1>15, <1>16, SafeStep DEF VoteInv, ElectionInv
<1> QED BY <1>5, <1>17

\* Leader i has one entry more, of its term, and acknowledges it.
Extended(L, A, i, t, M, B) ==
    /\ t = currentTerm[i]
    /\ M[t] = log'[i] /\ (\A x \in Nat \ {t} : M[x] = L[x]) /\ Grows(L, M)
    /\ Agree(log[i], log'[i], Len(log[i])) /\ Len(log'[i]) = Len(log[i]) + 1
    /\ log'[i][Len(log'[i])].term = t
    /\ Acked(A, i, t, Len(log'[i]), B)

\* What Start() does to the leader's log and state.
LEMMA StartKeeps ==
    ASSUME TypeInv, NEW i \in Server, NEW command \in Command, Start(i, command)
    PROVE  /\ state[i] = "leader" /\ UNCHANGED <<currentTerm, state, leaders>>
           /\ \A j \in Server \ {i} : log'[j] = log[j]
BY TypeParts DEF Start, electionVars, TypeOK

\* Start(): the leader has acknowledged its own entry.
LEMMA StartAdvance ==
    ASSUME TypeInv, TypeInv', LeaderInv,
           NEW L \in History, NEW A \in Acks, NEW W \in SUBSET Nat, NEW i \in Server, NEW t \in Nat,
           NEW M \in History, NEW B \in Acks, Extended(L, A, i, t, M, B),
           Logs(L), Safe(L, A, W), state[i] = "leader", UNCHANGED <<currentTerm, state, leaders>>,
           \A j \in Server \ {i} : log'[j] = log[j]
    PROVE  Advance(L, A, W, M, B, W) /\ B[i][t] = Len(log'[i])
<1>1. /\ state[i] = "leader" /\ UNCHANGED <<currentTerm, state, leaders>>
      /\ \A j \in Server \ {i} : log'[j] = log[j]
  OBVIOUS
<1> /\ t = currentTerm[i] /\ M[t] = log'[i] /\ \A x \in Nat \ {t} : M[x] = L[x]
    /\ Grows(L, M)
    /\ Agree(log[i], log'[i], Len(log[i])) /\ Len(log'[i]) = Len(log[i]) + 1
    /\ log'[i][Len(log'[i])].term = t
    /\ Acked(A, i, t, Len(log'[i]), B)
  BY DEF Extended
<1>2. log[i] \in Seq(Entry) /\ Len(log[i]) \in Nat /\ log'[i] \in Seq(Entry) /\ Len(log'[i]) \in Nat
  <2>1. log[i] \in Seq(Entry) /\ log'[i] \in Seq(Entry)
    BY TypeParts DEF TypeOK
  <2> QED BY <2>1, SMTT(30)
<1>3. L[t] = log[i] /\ A[i][t] = Len(log[i]) /\ M[t] = log'[i] /\ \A x \in Nat \ {t} : M[x] = L[x]
  BY <1>1 DEF Logs, Safe, GoodLeader, History
<1>4. B[i][t] = Len(log'[i])
  BY <1>2, <1>3, SMTT(30) DEF Acked
<1>5. Later(L, A, W, M, B, W)
  <2>1. ASSUME NEW x \in W, NEW k \in Len(L[x]) + 1 .. Len(M[x])
        PROVE  M[x][k].term = x
    <3>1. Len(L[x]) \in Nat
      BY HistoryType
    <3>2. CASE x = t
      <4>1. k = Len(log'[i])
        BY <1>2, <1>3, <3>2, SMTT(30)
      <4> QED BY <1>3, <3>2, <4>1
    <3>3. CASE x # t
      BY <1>3, <3>1, <3>3, SMTT(30)
    <3> QED BY <3>2, <3>3
  <2> QED BY <2>1 DEF Later, Acked
<1>6. W = {x \in Nat : Won(x)'}
  <2>1. \A x : Won(x)' <=> Won(x)
    BY <1>1 DEF Won
  <2> QED BY <2>1 DEF Safe
<1>7. ASSUME NEW v \in Server, NEW x \in Nat, B[v][x] # A[v][x]
      PROVE  x = currentTerm'[v] /\ Agree(M[x], log'[v], B[v][x])
  <2>1. v = i /\ x = t
    BY <1>7 DEF Acked
  <2>2. Agree(log'[i], log'[i], Len(log'[i]))
    BY <1>2, AgreeSelf, SMTT(30)
  <2> QED BY <1>1, <1>3, <1>4, <2>1, <2>2
<1>8. ASSUME NEW v \in Server, NEW x \in Nat, NEW k \in Nat, Agree(L[x], log[v], k)
      PROVE  Agree(L[x], log'[v], k)
  <2>1. CASE v # i
    BY <1>1, <1>8, <2>1
  <2>2. CASE v = i
    <3>1. k <= Len(log[i])
      BY <1>8, <2>2 DEF Agree
    <3>2. Agree(log[i], log'[i], k)
      BY <1>2, <3>1, AgreeLess
    <3> QED BY <1>8, <2>2, <3>2, AgreeTransitive
  <2> QED BY <2>1, <2>2
<1>9. ASSUME NEW j \in Server, NEW x \in Nat, Standing(j, x, W)'
      PROVE  Standing(j, x, W) /\ log'[j] = log[j]
  BY <1>1, <1>9 DEF Standing
<1>10. \A j \in Server : currentTerm'[j] >= currentTerm[j]
  BY <1>1, TypeParts, SMTT(30) DEF TypeOK
<1> QED BY <1>4, <1>5, <1>6, <1>7, <1>8, <1>9, <1>10 DEF Advance

\* Start(): commit indexes and indexes for the peers stay good.
LEMMA StartSafe ==
    ASSUME TypeInv, TypeInv', VoteInv, ElectionInv, LeaderInv, ElectionSafety, CallsStep,
           NEW L \in History, NEW A \in Acks, NEW W \in SUBSET Nat, Logs(L), Safe(L, A, W),
           NEW i \in Server, NEW command \in Command, Start(i, command)
    PROVE  \E M \in History, B \in Acks : Logs(M)' /\ Safe(M, B, W)'
<1>1. PICK t \in Nat : t = currentTerm[i]
  BY TypeParts DEF TypeOK
<1>2. PICK M : M = [L EXCEPT ![t] = log'[i]]
  OBVIOUS
<1>3. /\ M \in History /\ Grows(L, M)
      /\ Agree(log[i], log'[i], Len(log[i])) /\ Len(log'[i]) = Len(log[i]) + 1
      /\ log'[i][Len(log'[i])].term = t
      /\ Logs(M)'
  BY <1>1, <1>2, StartLogs
<1>4. /\ log[i] \in Seq(Entry) /\ Len(log[i]) \in Nat /\ log'[i] \in Seq(Entry)
      /\ Len(log'[i]) \in Nat /\ commitIndex[i] \in Nat
  <2>1. log[i] \in Seq(Entry) /\ log'[i] \in Seq(Entry) /\ commitIndex[i] \in Nat
    BY TypeParts DEF TypeOK
  <2> QED BY <2>1, SMTT(30)
<1>5. PICK B \in Acks : Acked(A, i, t, Len(log'[i]), B)
  BY <1>4, NewAck
<1>6. Advance(L, A, W, M, B, W) /\ B[i][t] = Len(log'[i])
  <2>1. M[t] = log'[i] /\ \A x \in Nat \ {t} : M[x] = L[x]
    BY <1>2 DEF History
  <2>2. Extended(L, A, i, t, M, B)
    BY <1>1, <1>3, <1>5, <2>1 DEF Extended
  <2>3. M \in History
    BY <1>3
  <2> QED BY <2>2, <2>3, StartAdvance, StartKeeps
<1>7. /\ state[i] = "leader" /\ UNCHANGED <<currentTerm, state>>
      /\ UNCHANGED <<voteCalls, votes, matchIndex, nextIndex, commitIndex, delivered>>
      /\ \A j \in Server \ {i} : log'[j] = log[j]
  BY TypeParts DEF Start, electionVars, leaderVars, applyVars, TypeOK
<1>8. GoodLeader(B, i)'
  <2>1. ASSUME NEW j \in Peers(i)
        PROVE  matchIndex[i][j] <= B[j][t] /\ nextIndex[i][j] \in 1..Len(log'[i]) + 1
    <3>1. j \in Server /\ GoodLeader(A, i)
      BY <1>7 DEF Peers, Safe
    <3>2. matchIndex[i][j] \in Nat /\ A[j][t] \in Nat /\ B[j][t] \in Nat
      <4>1. matchIndex[i][j] \in Nat
        BY <3>1, TypeParts, SMTT(30) DEF TypeOK
      <4> QED BY <3>1, <4>1, AckType
    <3>3. A[j][t] <= B[j][t]
      BY <1>5, <3>1 DEF Acked
    <3>4. matchIndex[i][j] <= A[j][t] /\ nextIndex[i][j] \in 1..Len(log[i]) + 1
      BY <1>1, <3>1 DEF GoodLeader
    <3>5. Len(log'[i]) = Len(log[i]) + 1
      BY <1>3
    <3>6. matchIndex[i][j] <= B[j][t]
      BY <3>2, <3>3, <3>4, SMTT(30)
    <3>7. nextIndex[i][j] \in 1..Len(log'[i]) + 1
      BY <1>4, <3>4, <3>5, SMTT(30)
    <3> QED BY <3>6, <3>7
  <2> QED BY <1>1, <1>6, <1>7, <2>1 DEF GoodLeader, Peers
<1>9. LeadersGo(B)
  BY <1>7, <1>8 DEF LeadersGo
<1>10. CommitsGo(M, B)
  <2>1. Holds(L, A, commitIndex[i], t, log[i])
    BY <1>1 DEF Safe
  <2>2. commitIndex[i] <= Len(log[i])
    BY <1>4, <2>1, SMTT(30) DEF Holds, Agree
  <2>3. Agree(log[i], log'[i], commitIndex[i]) /\ t <= t
    BY <1>3, <1>4, <2>2, AgreeLess, SMTT(30)
  <2>4. Holds(M, B, commitIndex[i], t, log'[i])
    BY <1>3, <1>4, <1>5, <2>1, <2>3, HoldsLater, SMTT(30) DEF Acked
  <2> QED BY <1>1, <1>7, <2>4 DEF CommitsGo
<1>11. AppendCallsGo(M, B)
  <2>1. appendCalls' = appendCalls
    BY NothingSpawned DEF Start
  <2> QED BY <2>1 DEF AppendCallsGo
<1>12. VoteCallsGo
  BY <1>7 DEF VoteCallsGo, SameCall
<1>13. VotesGo(M, B, W) /\ DeliveriesGo(M, B)
  BY <1>7 DEF VotesGo, DeliveriesGo
<1>14. Safe(M, B, W)'
  BY <1>3, <1>6, <1>9, <1>10, <1>11, <1>12, <1>13, SafeStep DEF VoteInv, ElectionInv
<1> QED BY <1>3, <1>14

-----------------------------------------------------------------------------
(* All steps *)

\* The steps of a peer on its own.
LEMMA ServerStepSafe ==
    ASSUME ~LateEncoding, VoteInv, VoteInv', ElectionInv, LeaderInv, ElectionSafety,
           NEW L \in History, NEW A \in Acks, NEW W \in SUBSET Nat, Logs(L), Safe(L, A, W),
           NEW i \in Server, ServerStep(i)
    PROVE  Safety'
<1>1. TypeInv /\ TypeInv' /\ Durable
  BY DEF VoteInv
<1>2. CallsStep /\ NoWin /\ (Plain \/ \E command \in Command : Start(i, command))
  BY <1>1, ServerStepKind
<1>3. ASSUME NEW command \in Command, Start(i, command)
      PROVE  Safety'
  <2>1. \E M \in History, B \in Acks : Logs(M)' /\ Safe(M, B, W)'
    BY <1>1, <1>2, <1>3, StartSafe
  <2> QED BY <2>1 DEF Safety
<1>4. CASE Plain /\ ~(\E command \in Command : Start(i, command))
  <2>1. Logs(L)' /\ Safe(L, A, W)'
    <3>1. CASE ElectionTimeout(i)
      BY <1>1, <1>4, <3>1, ElectionTimeoutSafe
    <3>2. CASE PeriodicAppendEntries(i)
      BY <1>1, <1>4, <3>2, PeriodicSafe
    <3>3. CASE Apply(i)
      BY <1>1, <1>4, <3>3, ApplySafe
    <3>4. CASE Restart(i)
      BY <1>1, <1>4, <3>4, MakeSafe DEF Restart
    <3> QED BY <1>4, <3>1, <3>2, <3>3, <3>4 DEF ServerStep
  <2> QED BY <2>1 DEF Safety
<1> QED BY <1>2, <1>3, <1>4

\* The steps of a vote call that elect nobody.
LEMMA VoteStepSafe ==
    ASSUME VoteInv, VoteInv', ElectionInv, Plain,
           NEW L \in History, NEW A \in Acks, NEW W \in SUBSET Nat, Logs(L), Safe(L, A, W),
           NEW c \in voteCalls, VoteStep(c)
    PROVE  Logs(L)' /\ Safe(L, A, W)'
<1>1. TypeInv /\ TypeInv' /\ c.from \in Server /\ c.to \in Server
  <2>1. TypeInv /\ TypeInv'
    BY DEF VoteInv
  <2> QED BY <2>1, TypeParts DEF TypeOK, VoteCall
<1>2. CASE RequestVote(c.to, c)
  BY <1>1, <1>2, RequestVoteSafe
<1>3. ASSUME voteCalls' = voteCalls \ {c}, appendCalls' = appendCalls,
             UNCHANGED <<votes, matchIndex, nextIndex, commitIndex, delivered>>
      PROVE  Logs(L)' /\ Safe(L, A, W)'
  <2>1. AppendCallsGo(L, A)
    BY <1>3 DEF AppendCallsGo
  <2>2. voteCalls' \subseteq voteCalls
    BY <1>3
  <2> QED BY <1>1, <1>3, <2>1, <2>2, QuietSafe
<1>4. CASE VoteReplyOutOfTerm(c.from, c) \/ VoteReplyDenied(c.from, c) \/ LoseVoteCall(c)
  BY <1>3, <1>4 DEF VoteReplyOutOfTerm, VoteReplyDenied, LoseVoteCall, StepDown, electionVars,
                    leaderVars, applyVars
<1>5. CASE VoteReplyGranted(c.from, c)
  <2>1. ~(state[c.from] # "leader" /\ state' = [state EXCEPT ![c.from] = "leader"])
    BY <1>1, TypeParts DEF Plain, NoWin, TypeOK
  <2>2. /\ voteCalls' = voteCalls \ {c} /\ appendCalls' = appendCalls
        /\ UNCHANGED <<votes, matchIndex, nextIndex, commitIndex, delivered>>
    BY <1>5, <2>1 DEF VoteReplyGranted, leaderVars, applyVars
  <2> QED BY <1>3, <2>2
<1>6. CASE RestartInHandler(c.to, c)
  BY <1>1, <1>6, MakeSafe DEF RestartInHandler
<1> QED BY <1>2, <1>4, <1>5, <1>6 DEF VoteStep

\* A vote call that elects a leader is one whose vote is counted.
LEMMA WinsByVote ==
    ASSUME TypeInv, NEW c \in voteCalls, VoteStep(c), Wins(c.from)
    PROVE  VoteReplyGranted(c.from, c)
<1>1. c.from \in Server /\ c.to \in Server
  BY TypeParts DEF TypeOK, VoteCall
<1>2. /\ state'[c.from] = "leader" /\ state[c.from] = "candidate"
      /\ state \in [Server -> {"follower", "candidate", "leader"}]
  BY <1>1, TypeParts DEF Wins, TypeOK
<1>3. ASSUME NEW i \in Server, NEW t, convertToFollowerIfOutOfTerm(i, t)
      PROVE  FALSE
  BY <1>1, <1>2, <1>3 DEF convertToFollowerIfOutOfTerm
<1>4. ~RequestVote(c.to, c) /\ ~VoteReplyOutOfTerm(c.from, c)
  BY <1>1, <1>3 DEF RequestVote, VoteReplyOutOfTerm, StepDown
<1>5. ~VoteReplyDenied(c.from, c) /\ ~LoseVoteCall(c)
  BY <1>2 DEF VoteReplyDenied, LoseVoteCall
<1>6. ~RestartInHandler(c.to, c)
  BY <1>1, <1>2 DEF RestartInHandler, Make
<1> QED BY <1>4, <1>5, <1>6 DEF VoteStep

\* The steps of an AppendEntries call.
LEMMA AppendStepSafe ==
    ASSUME LateReplies = {}, VoteInv, VoteInv', ElectionInv, LeaderInv, ElectionSafety,
           NEW L \in History, NEW A \in Acks, NEW W \in SUBSET Nat, Logs(L), Safe(L, A, W),
           NEW c \in appendCalls, AppendStep(c)
    PROVE  Safety'
<1>1. TypeInv /\ TypeInv' /\ c.from \in Server /\ c.to \in Server
  <2>1. TypeInv /\ TypeInv'
    BY DEF VoteInv
  <2> QED BY <2>1, TypeParts DEF TypeOK, AppendCall
<1>2. CallsStep /\ NoWin /\ (Plain \/ AppendEntries(c.to, c))
  BY <1>1, AppendStepKind
<1>3. CASE AppendEntries(c.to, c)
  <2>1. CASE AcceptEntries(c.to, c)
    <3>1. \E B \in Acks : Logs(L)' /\ Safe(L, B, W)'
      BY <1>1, <1>2, <1>3, <2>1, AcceptSafe
    <3> QED BY <3>1 DEF Safety
  <2>2. CASE RejectSmallerTerm(c.to, c) \/ RejectMismatch(c.to, c)
    <3>1. Logs(L)' /\ Safe(L, A, W)'
      BY <1>1, <1>2, <1>3, <2>2, RejectSafe
    <3> QED BY <3>1 DEF Safety
  <2> QED BY <1>3, <2>1, <2>2 DEF AppendEntries
<1>4. CASE Plain /\ ~AppendEntries(c.to, c)
  <2>1. Logs(L)' /\ Safe(L, A, W)'
    <3>1. CASE AppendReplyOutOfTerm(c.from, c) \/ AppendReplyNotLeader(c.from, c) \/ LoseAppendCall(c)
      <4>1. /\ voteCalls' = voteCalls /\ appendCalls' = appendCalls \ {c}
            /\ UNCHANGED <<votes, matchIndex, nextIndex, commitIndex, delivered>>
        BY <3>1 DEF AppendReplyOutOfTerm, AppendReplyNotLeader, AppendReply, LoseAppendCall, StepDown,
                    electionVars, leaderVars, applyVars
      <4>2. AppendCallsGo(L, A)
        BY <4>1 DEF AppendCallsGo
      <4>3. voteCalls' \subseteq voteCalls
        BY <4>1
      <4> QED BY <1>1, <1>4, <4>1, <4>2, <4>3, QuietSafe
    <3>2. CASE AppendReplySuccess(c.from, c) \/ AppendReplyFailure(c.from, c)
      BY <1>1, <1>4, <3>2, AppendReplySafe
    <3>3. CASE RestartInHandler(c.to, c)
      BY <1>1, <1>4, <3>3, MakeSafe DEF RestartInHandler
    <3> QED BY <1>4, <3>1, <3>2, <3>3 DEF AppendStep
  <2> QED BY <2>1 DEF Safety
<1> QED BY <1>2, <1>3, <1>4

\* At first nobody has a log, or has acknowledged anything.
LEMMA InitSafety == Init => SafetyInv
<1> SUFFICES ASSUME Init
             PROVE  SafetyInv
  OBVIOUS
<1>1. LeaderInv /\ \E L \in History : Logs(L)
  BY InitLog DEF LogInv
<1>2. PICK L \in History : Logs(L)
  BY <1>1
<1>3. PICK A : A = [v \in Server |-> [t \in Nat |-> 0]]
  OBVIOUS
<1>4. A \in Acks /\ \A v \in Server, t \in Nat : A[v][t] = 0
  BY <1>3 DEF Acks
<1>5. /\ voteCalls = {} /\ appendCalls = {} /\ votes = {} /\ leaders = {} /\ delivered = {}
      /\ \A i \in Server : state[i] = "follower" /\ commitIndex[i] = 0 /\ log[i] = << >>
  BY DEF Init
<1>6. {} = {t \in Nat : Won(t)}
  BY <1>5 DEF Won
<1>7. AckInv(L, A)
  BY <1>4, HistoryType, SMTT(30) DEF AckInv
<1>8. Stored(L, A, {})
  <2>1. ASSUME NEW t \in Nat
        PROVE  Agree(L[t], << >>, 0)
    <3>1. Len(L[t]) \in Nat /\ Len(<< >>) = 0 /\ 1..0 = {}
      BY HistoryType, SMTT(30)
    <3> QED BY <3>1, SMTT(30) DEF Agree
  <2>2. ASSUME NEW k \in Nat, k <= 0
        PROVE  k = 0
    BY <2>2, SMTT(30)
  <2> QED BY <1>4, <1>5, <2>1, <2>2 DEF Stored
<1>9. Safe(L, A, {})
  BY <1>5, <1>6, <1>7, <1>8 DEF Safe, VoteCallInv, Holds
<1>10. {} \in SUBSET Nat
  OBVIOUS
<1>11. Safety
  BY <1>2, <1>4, <1>9, <1>10 DEF Safety
<1> QED BY <1>1, <1>11 DEF SafetyInv

\* The safety invariant is inductive.
LEMMA NextSafety ==
    ASSUME LateReplies = {}, ~LateEncoding, VoteInv, ElectionInv, SafetyInv, VoteInv', ElectionInv',
           [Next]_vars
    PROVE  SafetyInv'
<1>1. /\ TypeInv /\ TypeInv' /\ Durable /\ LeaderInv /\ ElectionSafety /\ ElectionSafety'
      /\ "RequestVote" \notin LateReplies
  <2>1. ElectionSafety /\ ElectionSafety'
    BY OneLeader, PTL DEF VoteInv
  <2> QED BY <2>1 DEF VoteInv, SafetyInv
<1>2. PICK L \in History, A \in Acks, W \in SUBSET Nat : Logs(L) /\ Safe(L, A, W)
  BY DEF SafetyInv, Safety
<1>3. ASSUME NEW i \in Server, ServerStep(i)
      PROVE  SafetyInv'
  <2>1. CallsStep /\ NoWin
    BY <1>1, <1>3, ServerStepKind
  <2>2. LeaderInv'
    BY <1>1, <2>1, LeaderStep
  <2>3. Safety'
    BY <1>1, <1>2, <1>3, ServerStepSafe
  <2> QED BY <2>2, <2>3 DEF SafetyInv
<1>4. ASSUME NEW c \in voteCalls, VoteStep(c)
      PROVE  SafetyInv'
  <2>1. Plain \/ (CallsStep /\ Wins(c.from))
    BY <1>1, <1>4, VoteStepPlain
  <2>2. c.from \in Server
    BY <1>1, TypeParts DEF TypeOK, VoteCall
  <2>3. CASE Plain
    <3>1. LeaderInv'
      BY <1>1, <2>3, LeaderStep DEF Plain
    <3>2. Logs(L)' /\ Safe(L, A, W)'
      BY <1>2, <1>4, <2>3, VoteStepSafe
    <3>3. Safety'
      BY <3>2 DEF Safety
    <3> QED BY <3>1, <3>3 DEF SafetyInv
  <2>4. CASE CallsStep /\ Wins(c.from)
    <3>1. LeaderInv'
      BY <1>1, <2>2, <2>4, LeaderStep
    <3>2. VoteReplyGranted(c.from, c)
      BY <1>1, <1>4, <2>4, WinsByVote
    <3>3. \E M \in History, B \in Acks, X \in SUBSET Nat : Logs(M)' /\ Safe(M, B, X)'
      BY <1>1, <1>2, <2>4, <3>2, WinSafe
    <3>4. Safety'
      BY <3>3 DEF Safety
    <3> QED BY <3>1, <3>4 DEF SafetyInv
  <2> QED BY <2>1, <2>3, <2>4
<1>5. ASSUME NEW c \in appendCalls, AppendStep(c)
      PROVE  SafetyInv'
  <2>1. CallsStep /\ NoWin
    BY <1>1, <1>5, AppendStepKind
  <2>2. LeaderInv'
    BY <1>1, <2>1, LeaderStep
  <2>3. Safety'
    BY <1>1, <1>2, <1>5, AppendStepSafe
  <2> QED BY <2>2, <2>3 DEF SafetyInv
<1>6. CASE UNCHANGED vars
  <2>1. Plain /\ UNCHANGED <<voteCalls, appendCalls, votes, matchIndex, nextIndex, commitIndex, delivered>>
    BY <1>1, <1>6, CallsGo DEF vars, Plain, NoWin
  <2>2. LeaderInv'
    BY <1>1, <2>1, LeaderStep DEF Plain
  <2>3. AppendCallsGo(L, A) /\ voteCalls' \subseteq voteCalls
    BY <2>1 DEF AppendCallsGo
  <2>4. Logs(L)' /\ Safe(L, A, W)'
    BY <1>1, <1>2, <2>1, <2>3, QuietSafe
  <2>5. Safety'
    BY <2>4 DEF Safety
  <2> QED BY <2>2, <2>5 DEF SafetyInv
<1> QED BY <1>3, <1>4, <1>5, <1>6 DEF Next

-----------------------------------------------------------------------------
(* What follows *)

\* The index of a committed entry belongs to a term that was won.
LEMMA CommittedWon ==
    ASSUME NEW L \in History, NEW A \in Acks, NEW W \in SUBSET Nat, Logs(L), Safe(L, A, W),
           NEW k \in Nat, NEW t \in Nat, Committed(L, A, k, t)
    PROVE  t \in W
<1>1. k \in 1..Len(L[t])
  BY DEF Committed, Own
<1>2. L[t] # << >>
  BY <1>1, SMTT(30)
<1> QED BY <1>2 DEF Logs, Safe

\* Two leaders that committed agree on what both have committed.
LEMMA CommittedAgree ==
    ASSUME NEW L \in History, NEW A \in Acks, NEW W \in SUBSET Nat, Logs(L), Safe(L, A, W),
           NEW k \in Nat, NEW t \in Nat, Committed(L, A, k, t),
           NEW m \in Nat, NEW u \in Nat, Committed(L, A, m, u), t <= u, NEW n \in 1..k
    PROVE  L[t][n] = L[u][n]
<1>1. CASE t = u
  BY <1>1
<1>2. CASE t < u
  <2>1. u \in W
    BY CommittedWon
  <2>2. Agree(L[t], L[u], k)
    BY <1>2, <2>1, Completeness DEF Safe
  <2> QED BY <2>2 DEF Agree
<1> QED BY <1>1, <1>2, SMTT(30)

\* Nobody delivers two entries for one index.
LEMMA SafetyDelivered == SafetyInv => StateMachineSafety
<1> SUFFICES ASSUME SafetyInv, NEW d \in delivered, NEW e \in delivered, d[1] = e[1]
             PROVE  d[2] = e[2]
  BY DEF StateMachineSafety
<1>1. PICK L \in History, A \in Acks, W \in SUBSET Nat : Logs(L) /\ Safe(L, A, W)
  BY DEF SafetyInv, Safety
<1>2. GoodDelivery(L, A, d) /\ GoodDelivery(L, A, e)
  BY <1>1 DEF Safe
<1>3. PICK t, k \in Nat : Committed(L, A, k, t) /\ d[1] \in 1..k /\ L[t][d[1]] = d[2]
  BY <1>2 DEF GoodDelivery
<1>4. PICK u, m \in Nat : Committed(L, A, m, u) /\ e[1] \in 1..m /\ L[u][e[1]] = e[2]
  BY <1>2 DEF GoodDelivery
<1>5. CASE t <= u
  <2>1. L[t][d[1]] = L[u][d[1]]
    BY <1>1, <1>3, <1>4, <1>5, CommittedAgree, SMTT(30)
  <2> QED BY <1>3, <1>4, <2>1
<1>6. CASE u <= t
  <2>1. L[u][e[1]] = L[t][e[1]]
    BY <1>1, <1>3, <1>4, <1>6, CommittedAgree, SMTT(30)
  <2> QED BY <1>3, <1>4, <2>1
<1> QED BY <1>5, <1>6, SMTT(30)

\* Logs that agree up to n have the same first n entries.
LEMMA AgreePrefix ==
    ASSUME NEW l \in Seq(Entry), NEW m \in Seq(Entry), NEW n \in Nat, Agree(l, m, n)
    PROVE  n <= Len(l) /\ n <= Len(m) /\ SubSeq(m, 1, n) = SubSeq(l, 1, n)
<1>1. n <= Len(l) /\ n <= Len(m) /\ \A k \in 1..n : l[k] = m[k]
  BY DEF Agree
<1> QED BY <1>1, SMTT(30)

\* A leader holds what is committed in terms up to its own.
LEMMA SafetyComplete == VoteInv /\ SafetyInv => LeaderCompleteness
<1> SUFFICES ASSUME VoteInv, SafetyInv, NEW i \in Server, NEW j \in Server,
                    state[i] = "leader", currentTerm[j] <= currentTerm[i]
             PROVE  /\ commitIndex[j] <= Len(log[i])
                    /\ SubSeq(log[i], 1, commitIndex[j]) = SubSeq(log[j], 1, commitIndex[j])
  BY DEF LeaderCompleteness
<1>1. PICK L \in History, A \in Acks, W \in SUBSET Nat : Logs(L) /\ Safe(L, A, W)
  BY DEF SafetyInv, Safety
<1>2. /\ log[i] \in Seq(Entry) /\ log[j] \in Seq(Entry)
      /\ currentTerm[i] \in Nat /\ currentTerm[j] \in Nat /\ commitIndex[j] \in Nat
  BY TypeParts DEF VoteInv, TypeOK
<1>3. L[currentTerm[i]] = log[i] /\ currentTerm[i] \in W
  <2>1. Won(currentTerm[i])
    BY DEF SafetyInv, LeaderInv, Won
  <2> QED BY <1>1, <1>2, <2>1 DEF Logs, Safe
<1>4. Holds(L, A, commitIndex[j], currentTerm[j], log[j])
  BY <1>1 DEF Safe
<1>5. Agree(log[i], log[j], commitIndex[j])
  BY <1>1, <1>2, <1>3, <1>4, HoldsLeader DEF Safe
<1>6. Agree(log[j], log[i], commitIndex[j])
  BY <1>5, AgreeSymmetric
<1> QED BY <1>2, <1>6, AgreePrefix

\* What a leader counts on a follower is there.
LEMMA SafetyMatch == VoteInv /\ SafetyInv => MatchIndexSound
<1> SUFFICES ASSUME VoteInv, SafetyInv, NEW i \in Server, NEW j \in Server,
                    state[i] = "leader", i # j, currentTerm[j] <= currentTerm[i]
             PROVE  /\ matchIndex[i][j] <= Minimum(Len(log[i]), Len(log[j]))
                    /\ SubSeq(log[i], 1, matchIndex[i][j]) = SubSeq(log[j], 1, matchIndex[i][j])
  BY DEF MatchIndexSound
<1>1. PICK L \in History, A \in Acks, W \in SUBSET Nat : Logs(L) /\ Safe(L, A, W)
  BY DEF SafetyInv, Safety
<1>2. PICK m \in Nat : m = matchIndex[i][j]
  BY TypeParts, SMTT(30) DEF VoteInv, TypeOK
<1>3. PICK t \in Nat : t = currentTerm[i]
  BY TypeParts DEF VoteInv, TypeOK
<1>4. /\ log[i] \in Seq(Entry) /\ log[j] \in Seq(Entry) /\ currentTerm[j] \in Nat
      /\ L[t] = log[i] /\ GoodLeader(A, i)
  BY <1>1, <1>3, TypeParts DEF VoteInv, TypeOK, Logs, Safe
<1>5. m <= A[j][t]
  BY <1>2, <1>3, <1>4 DEF GoodLeader, Peers
<1>6. Survives(L, W, m, t, currentTerm[j] + 1)
  <2>1. \A x \in Nat : ~(t < x /\ x < currentTerm[j] + 1)
    BY <1>3, <1>4, SMTT(30)
  <2> QED BY <2>1 DEF Survives
<1>7. Agree(L[t], log[j], m)
  BY <1>1, <1>5, <1>6 DEF Safe, Stored
<1>8. Agree(log[j], log[i], m)
  BY <1>4, <1>7, AgreeSymmetric
<1>9. m <= Len(log[i]) /\ m <= Len(log[j]) /\ SubSeq(log[i], 1, m) = SubSeq(log[j], 1, m)
  BY <1>4, <1>8, AgreePrefix
<1> QED BY <1>2, <1>9 DEF Minimum

\* Every index is within its log.
LEMMA SafetyIndexes == VoteInv /\ SafetyInv => PeerIndexInLog
<1> SUFFICES ASSUME VoteInv, SafetyInv, NEW i \in Server
             PROVE  /\ commitIndex[i] <= Len(log[i])
                    /\ state[i] = "leader" => \A j \in Peers(i) : nextIndex[i][j] \in 1..Len(log[i]) + 1
  BY DEF PeerIndexInLog
<1>1. PICK L \in History, A \in Acks, W \in SUBSET Nat : Logs(L) /\ Safe(L, A, W)
  BY DEF SafetyInv, Safety
<1>2. Holds(L, A, commitIndex[i], currentTerm[i], log[i]) /\ (state[i] = "leader" => GoodLeader(A, i))
  BY <1>1 DEF Safe
<1>3. log[i] \in Seq(Entry)
  BY TypeParts DEF VoteInv, TypeOK
<1>4. Len(log[i]) \in Nat
  BY <1>3, SMTT(30)
<1>5. commitIndex[i] <= Len(log[i])
  BY <1>2, <1>4, SMTT(30) DEF Holds, Agree
<1> QED BY <1>2, <1>5 DEF GoodLeader

\* The invariants hold always.
LEMMA SafetyAlways ==
    ASSUME LateReplies = {}, ~LateEncoding
    PROVE  Spec => [](VoteInv /\ ElectionInv /\ SafetyInv)
<1>1. Init => VoteInv /\ ElectionInv /\ SafetyInv
  BY InitVote, InitElection, InitSafety
<1>2. VoteInv /\ ElectionInv /\ SafetyInv /\ [Next]_vars => VoteInv' /\ ElectionInv' /\ SafetyInv'
  <2> SUFFICES ASSUME VoteInv, ElectionInv, SafetyInv, [Next]_vars
               PROVE  VoteInv' /\ ElectionInv' /\ SafetyInv'
    OBVIOUS
  <2>1. VoteInv' /\ ElectionInv'
    BY NextVoteInv, NextElection DEF VoteInv
  <2> QED BY <2>1, NextSafety
<1> QED BY <1>1, <1>2, PTL DEF Spec

\* No two peers ever deliver different entries for one index on their applyCh,
\* whichever of them crash and whichever calls are lost, repeated or reordered.
\* Late replies and late encoding, which raft.go does not rule out, break it.
THEOREM StateMachineSafetyHolds ==
    ASSUME LateReplies = {}, ~LateEncoding
    PROVE  Spec => []StateMachineSafety
BY SafetyAlways, SafetyDelivered, PTL

\* A leader has every entry that a peer of its own or of an earlier term takes
\* for committed: RequestVote() elects nobody that lacks one.  Late replies and
\* late encoding break it.
THEOREM LeaderCompletenessHolds ==
    ASSUME LateReplies = {}, ~LateEncoding
    PROVE  Spec => []LeaderCompleteness
BY SafetyAlways, SafetyComplete, PTL

\* What a leader's matchIndex counts as stored on a follower of its term is
\* stored there.  Late replies and late encoding break it.
THEOREM MatchIndexSoundHolds ==
    ASSUME LateReplies = {}, ~LateEncoding
    PROVE  Spec => []MatchIndexSound
BY SafetyAlways, SafetyMatch, PTL

\* sendAppendEntriesToPeers() and applyCommittedRoutine() never index a log out
\* of its range.  Late replies break it.
THEOREM PeerIndexInLogHolds ==
    ASSUME LateReplies = {}, ~LateEncoding
    PROVE  Spec => []PeerIndexInLog
BY SafetyAlways, SafetyIndexes, PTL

-----------------------------------------------------------------------------
(* What a step may never do *)

CommitStays(i) ==
    \/ commitIndex'[i] >= commitIndex[i]
    \/ Restart(i)
    \/ \E c \in voteCalls \cup appendCalls : RestartInHandler(i, c)

CommitsStay == \A i \in Server : CommitStays(i)

\* A commit index moves only up, unless its peer restarts.
LEMMA CommitsStayStep ==
    ASSUME TypeInv, SafetyInv, Next
    PROVE  CommitsStay
<1>1. commitIndex \in [Server -> Nat] /\ \A i \in Server : commitIndex[i] \in Nat
  BY TypeParts DEF TypeOK
<1>2. ASSUME NEW i \in Server, NEW n \in Nat, commitIndex' = [commitIndex EXCEPT ![i] = n],
             n >= commitIndex[i] \/ CommitStays(i)
      PROVE  CommitsStay
  <2>1. CommitStays(i)
    BY <1>1, <1>2, SMTT(30) DEF CommitStays
  <2>2. \A j \in Server \ {i} : commitIndex'[j] = commitIndex[j]
    BY <1>1, <1>2
  <2>3. \A j \in Server \ {i} : commitIndex'[j] >= commitIndex[j]
    BY <1>1, <2>2, SMTT(30)
  <2> QED BY <2>1, <2>3 DEF CommitsStay, CommitStays
<1>3. ASSUME commitIndex' = commitIndex
      PROVE  CommitsStay
  <2>1. \A j \in Server : commitIndex'[j] >= commitIndex[j]
    BY <1>1, <1>3, SMTT(30)
  <2> QED BY <2>1 DEF CommitsStay, CommitStays
<1>4. ASSUME NEW i \in Server, NEW saved, Make(i, saved), CommitStays(i)
      PROVE  CommitsStay
  BY <1>2, <1>4 DEF Make
<1>5. ASSUME NEW i \in Server, ServerStep(i)
      PROVE  CommitsStay
  <2>1. CASE Restart(i)
    BY <1>4, <2>1 DEF Restart, CommitStays
  <2>2. CASE ElectionTimeout(i) \/ PeriodicAppendEntries(i) \/ Apply(i)
    BY <1>3, <2>2 DEF ElectionTimeout, PeriodicAppendEntries, Apply, applyVars
  <2>3. CASE \E command \in Command : Start(i, command)
    BY <1>3, <2>3 DEF Start, applyVars
  <2> QED BY <1>5, <2>1, <2>2, <2>3 DEF ServerStep
<1>6. ASSUME NEW c \in voteCalls, VoteStep(c)
      PROVE  CommitsStay
  <2>1. c.to \in Server
    BY TypeParts DEF TypeOK, VoteCall
  <2>2. CASE RestartInHandler(c.to, c)
    BY <1>4, <2>1, <2>2 DEF RestartInHandler, CommitStays
  <2>3. CASE ~RestartInHandler(c.to, c)
    BY <1>3, <1>6, <2>3 DEF VoteStep, RequestVote, VoteReplyOutOfTerm, VoteReplyDenied,
                            VoteReplyGranted, LoseVoteCall, StepDown, applyVars
  <2> QED BY <2>2, <2>3
<1>7. ASSUME NEW c \in appendCalls, AppendStep(c)
      PROVE  CommitsStay
  <2>1. /\ c.to \in Server /\ c.from \in Server /\ c.leaderCommit \in Nat
        /\ c.prevLogIndex + Len(c.entries) \in Nat
    <3>1. c \in AppendCall
      BY TypeParts DEF TypeOK
    <3> QED BY <3>1, SMTT(30) DEF AppendCall
  <2>2. CASE RestartInHandler(c.to, c)
    BY <1>4, <2>1, <2>2 DEF RestartInHandler, CommitStays
  <2>3. CASE AppendReplyOutOfTerm(c.from, c) \/ AppendReplyNotLeader(c.from, c)
                \/ AppendReplyFailure(c.from, c) \/ LoseAppendCall(c)
    BY <1>3, <2>3 DEF AppendReplyOutOfTerm, AppendReplyNotLeader, AppendReplyFailure,
                      LoseAppendCall, StepDown, applyVars
  <2>4. CASE AppendReplySuccess(c.from, c)
    <3>1. PICK n : n = tryCommit(c.from, matchIndex'[c.from])
      OBVIOUS
    <3>2. n = commitIndex[c.from] \/ n \in Committable(c.from, matchIndex'[c.from])
      BY <2>1, <3>1, TryCommitMember
    <3>3. Len(log[c.from]) \in Nat
      BY <2>1, TypeParts, SMTT(30) DEF TypeOK
    <3>4. n \in Nat /\ n >= commitIndex[c.from]
      BY <1>1, <2>1, <3>2, <3>3, SMTT(30) DEF Committable
    <3> QED BY <1>2, <2>1, <2>4, <3>1, <3>4 DEF AppendReplySuccess
  <2>5. CASE AppendEntries(c.to, c)
    <3>1. CASE AcceptEntries(c.to, c)
      <4>1. c.leaderCommit <= c.prevLogIndex + Len(c.entries)
        BY DEF SafetyInv, Safety, Safe, GoodCall
      <4>2. PICK n : n = IF c.leaderCommit > commitIndex[c.to]
                         THEN Minimum(c.leaderCommit, c.prevLogIndex + Len(c.entries))
                         ELSE commitIndex[c.to]
        OBVIOUS
      <4>3. commitIndex' = [commitIndex EXCEPT ![c.to] = n]
        BY <3>1, <4>2 DEF AcceptEntries
      <4>4. n \in Nat /\ n >= commitIndex[c.to]
        BY <1>1, <2>1, <4>1, <4>2, SMTT(30) DEF Minimum
      <4> QED BY <1>2, <2>1, <4>3, <4>4
    <3>2. CASE RejectSmallerTerm(c.to, c) \/ RejectMismatch(c.to, c)
      BY <1>3, <3>2 DEF RejectSmallerTerm, RejectMismatch
    <3> QED BY <2>5, <3>1, <3>2 DEF AppendEntries
  <2> QED BY <1>7, <2>2, <2>3, <2>4, <2>5 DEF AppendStep
<1> QED BY <1>5, <1>6, <1>7 DEF Next

\* A peer never takes back a commit, unless it restarts, whatever commit index
\* an AppendEntries call carries.
THEOREM CommitNeverGoesBackHolds ==
    ASSUME LateReplies = {}, ~LateEncoding
    PROVE  Spec => CommitNeverGoesBack
<1> DEFINE Inv == VoteInv /\ ElectionInv /\ SafetyInv
<1>1. Inv /\ [Next]_vars => [CommitsStay]_vars
  BY CommitsStayStep DEF VoteInv
<1>2. Spec => []Inv
  BY SafetyAlways
<1> HIDE DEF Inv
<1>3. Spec => [][CommitsStay]_vars
  BY <1>1, <1>2, PTL DEF Spec
<1> QED BY <1>3 DEF CommitNeverGoesBack, CommitsStay, CommitStays

=============================================================================
