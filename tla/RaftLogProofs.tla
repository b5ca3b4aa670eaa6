---------------------------- MODULE RaftLogProofs ----------------------------
(***************************************************************************)
(* Log matching of module Raft, for any number of peers, with crashes and  *)
(* lost, repeated and reordered calls, when no vote reply outlives its     *)
(* term and a call is encoded before the log it is taken from changes; and *)
(* the invariant by which what is committed stays committed, with the      *)
(* steps that keep it because they change no log and elect nobody: the     *)
(* ones of candidates and voters, crashes, and the replies to a leader.    *)
(*                                                                         *)
(* The invariant speaks of a history that Raft does not record: L[t] is    *)
(* the log that the leader of term t has, or had when it left office.      *)
(***************************************************************************)
EXTENDS RaftProofs

\* The prover of a leaf that names none, and the seconds it has; a leaf that takes
\* arithmetic or sequences names SMT.
USE ZenonT(30)

-----------------------------------------------------------------------------
(* The invariant *)

\* The logs l and m both have k entries, and the same ones.
Agree(l, m, k) == k <= Len(l) /\ k <= Len(m) /\ \A n \in 1..k : l[n] = m[n]

\* Up to each entry, l is what the leader that made the entry had.
Origin(L, l) == \A k \in 1..Len(l) : Agree(l, L[l[k].term], k)

TermsUpTo(t, l) == \A k \in 1..Len(l) : l[k].term <= t

\* The call c carries a piece of log l.
Carries(c, l) ==
    /\ c.prevLogIndex + Len(c.entries) <= Len(l)
    /\ c.prevLogTerm = TermAt(l, c.prevLogIndex)
    /\ \A n \in 1..Len(c.entries) : c.entries[n] = l[c.prevLogIndex + n]

Won(t) == \E s \in Server : <<t, s>> \in leaders

History == [Nat -> Seq(Entry)]

\* Every log comes from leaders, and so does every call.
Logs(L) ==
    /\ \A t \in Nat : Origin(L, L[t]) /\ TermsUpTo(t, L[t]) /\ (~Won(t) => L[t] = << >>)
    /\ \A i \in Server : Origin(L, log[i]) /\ TermsUpTo(currentTerm[i], log[i])
    /\ \A i \in Server : state[i] = "leader" => L[currentTerm[i]] = log[i]
    /\ \A c \in appendCalls : Carries(c, L[c.term])

\* Leaders won their term, candidates did not yet, and the callers of
\* AppendEntries() were leaders.
LeaderInv ==
    /\ \A i \in Server : state[i] = "leader" => <<currentTerm[i], i>> \in leaders
    /\ \A i \in Server : state[i] = "candidate" => <<currentTerm[i], i>> \notin leaders
    /\ \A i \in Server, t \in Nat : <<t, i>> \in leaders => t <= currentTerm[i] /\ Peers(i) # {}
    /\ \A c \in appendCalls : /\ <<c.term, c.from>> \in leaders
                              /\ c.from # c.to
                              /\ c.phase # "spawned"

LogInv == LeaderInv /\ \E L \in History : Logs(L)

-----------------------------------------------------------------------------
(* Logs that agree *)

\* The entries of a log have terms.
LEMMA EntryTerm ==
    ASSUME NEW l \in Seq(Entry), NEW k \in 1..Len(l)
    PROVE  l[k] \in Entry /\ l[k].term \in Nat
<1>1. l[k] \in Entry
  BY SMTT(30)
<1> QED BY <1>1 DEF Entry

\* Agreeing is an equivalence between logs, and holds for every shorter piece.
LEMMA AgreeSymmetric ==
    ASSUME NEW l, NEW m, NEW k, Agree(l, m, k)
    PROVE  Agree(m, l, k)
BY DEF Agree

\* Transitivity.
LEMMA AgreeTransitive ==
    ASSUME NEW l, NEW m, NEW n, NEW k, Agree(l, m, k), Agree(m, n, k)
    PROVE  Agree(l, n, k)
BY DEF Agree

\* Shorter pieces.
LEMMA AgreeLess ==
    ASSUME NEW l \in Seq(Entry), NEW m \in Seq(Entry), NEW k \in Nat, NEW n \in Nat,
           Agree(l, m, k), n <= k
    PROVE  Agree(l, m, n)
<1>1. Len(l) \in Nat /\ Len(m) \in Nat
  BY SMTT(30)
<1>2. n <= Len(l) /\ n <= Len(m)
  BY <1>1, SMTT(30) DEF Agree
<1>3. \A x \in 1..n : x \in 1..k
  BY SMTT(30)
<1> QED BY <1>2, <1>3 DEF Agree

\* Reflexivity.
LEMMA AgreeSelf ==
    ASSUME NEW l \in Seq(Entry), NEW k \in Nat, k <= Len(l)
    PROVE  Agree(l, l, k)
BY DEF Agree

\* Two logs with an entry of one term at one index agree up to there.
LEMMA OriginsAgree ==
    ASSUME NEW L, NEW l, NEW m, Origin(L, l), Origin(L, m),
           NEW k \in 1..Len(l), k \in 1..Len(m), l[k].term = m[k].term
    PROVE  Agree(l, m, k)
<1>1. Agree(l, L[l[k].term], k) /\ Agree(m, L[m[k].term], k)
  BY DEF Origin
<1> QED BY <1>1, AgreeSymmetric, AgreeTransitive, SMTT(30)

\* A log that starts like one that comes from leaders comes from leaders.
LEMMA PrefixOrigin ==
    ASSUME NEW L, NEW l \in Seq(Entry), NEW m \in Seq(Entry), Origin(L, m), Agree(l, m, Len(l))
    PROVE  Origin(L, l)
<1> SUFFICES ASSUME NEW k \in 1..Len(l)
             PROVE  Agree(l, L[l[k].term], k)
  BY DEF Origin
<1>1. k \in Nat /\ Len(l) \in Nat /\ k <= Len(l) /\ Len(m) \in Nat
  BY SMTT(30)
<1>2. Agree(l, m, k)
  BY <1>1, AgreeLess
<1>3. k \in 1..Len(m) /\ l[k] = m[k]
  BY <1>1, <1>2, SMTT(30) DEF Agree
<1>4. Agree(m, L[m[k].term], k)
  BY <1>3 DEF Origin
<1> QED BY <1>2, <1>3, <1>4, AgreeTransitive

\* M is a later history than L: the logs of leaders only grow.
Grows(L, M) == \A t \in Nat : Agree(L[t], M[t], Len(L[t]))

\* What agreed with the log of a leader still does when that log has grown.
LEMMA GrowsAgree ==
    ASSUME NEW L \in History, NEW M \in History, Grows(L, M),
           NEW t \in Nat, NEW l, NEW k \in Nat, Agree(l, L[t], k)
    PROVE  Agree(l, M[t], k)
<1>1. L[t] \in Seq(Entry) /\ M[t] \in Seq(Entry) /\ Len(L[t]) \in Nat
  BY SMTT(30) DEF History
<1>2. k <= Len(L[t]) /\ Agree(L[t], M[t], Len(L[t]))
  BY DEF Agree, Grows
<1>3. Agree(L[t], M[t], k)
  BY <1>1, <1>2, AgreeLess
<1> QED BY <1>3, AgreeTransitive

\* What came from leaders still does.
LEMMA GrowsOrigin ==
    ASSUME NEW L \in History, NEW M \in History, Grows(L, M), NEW l \in Seq(Entry), Origin(L, l)
    PROVE  Origin(M, l)
<1> SUFFICES ASSUME NEW k \in 1..Len(l)
             PROVE  Agree(l, M[l[k].term], k)
  BY DEF Origin
<1>1. k \in Nat
  BY SMTT(30)
<1>2. l[k].term \in Nat
  BY EntryTerm
<1>3. Agree(l, L[l[k].term], k)
  BY DEF Origin
<1> QED BY <1>1, <1>2, <1>3, GrowsAgree

\* A call carries a piece of the grown log too.
LEMMA GrowsCarries ==
    ASSUME NEW l \in Seq(Entry), NEW m \in Seq(Entry), Agree(l, m, Len(l)),
           NEW c \in AppendCall, Carries(c, l)
    PROVE  Carries(c, m)
<1> DEFINE p == c.prevLogIndex
           e == c.entries
<1>1. p \in Nat /\ Len(e) \in Nat /\ Len(l) \in Nat /\ Len(m) \in Nat
  BY SMTT(30) DEF AppendCall
<1>2. /\ p + Len(e) <= Len(l) /\ c.prevLogTerm = TermAt(l, p)
      /\ \A n \in 1..Len(e) : e[n] = l[p + n]
  BY DEF Carries
<1>3. Len(l) <= Len(m) /\ \A n \in 1..Len(l) : l[n] = m[n]
  BY DEF Agree
<1> HIDE DEF p, e
<1>4. p + Len(e) <= Len(m)
  BY <1>1, <1>2, <1>3, SMTT(30)
<1>5. TermAt(l, p) = TermAt(m, p)
  <2>1. p = 0 \/ p \in 1..Len(l)
    BY <1>1, <1>2, SMTT(30)
  <2> QED BY <1>3, <2>1 DEF TermAt
<1>6. \A n \in 1..Len(e) : e[n] = m[p + n]
  <2>1. \A n \in 1..Len(e) : p + n \in 1..Len(l)
    BY <1>1, <1>2, SMTT(30)
  <2> QED BY <1>2, <1>3, <2>1
<1> QED BY <1>2, <1>4, <1>5, <1>6 DEF Carries, p, e

-----------------------------------------------------------------------------
(* What a step does to leaders and calls *)

SameArgs(c, d) ==
    /\ c.from = d.from /\ c.to = d.to /\ c.term = d.term
    /\ c.prevLogIndex = d.prevLogIndex /\ c.prevLogTerm = d.prevLogTerm
    /\ c.entries = d.entries

\* Call c was there before the step, perhaps not answered yet.
Old(c) == c.phase # "spawned" /\ \E d \in appendCalls : SameArgs(c, d)

\* Call c is made in the step by a leader, and carries a piece of its log.
Made(c) ==
    /\ c.phase # "spawned"
    /\ c.from \in Server
    /\ c.from # c.to
    /\ <<c.term, c.from>> \in leaders'
    /\ state'[c.from] = "leader" /\ currentTerm'[c.from] = c.term
    /\ Carries(c, log'[c.from])

CallsStep == \A c \in appendCalls' : Old(c) \/ Made(c)

\* No election is won: peers stay what they are, or leave office.
NoWin ==
    /\ leaders' = leaders
    /\ \A j \in Server :
        \/ currentTerm'[j] = currentTerm[j] /\ state'[j] \in {state[j], "follower"}
        \/ currentTerm'[j] > currentTerm[j] /\ state'[j] # "leader"

\* Candidate i wins.
Wins(i) ==
    /\ leaders' = leaders \cup {<<currentTerm[i], i>>}
    /\ state[i] = "candidate"
    /\ Peers(i) # {}
    /\ state' = [state EXCEPT ![i] = "leader"]
    /\ UNCHANGED <<currentTerm, log>>

\* Leaders and calls stay sound.
LEMMA LeaderStep ==
    ASSUME TypeInv, TypeInv', LeaderInv, CallsStep, NoWin \/ \E i \in Server : Wins(i)
    PROVE  LeaderInv'
<1>1. \A i \in Server : currentTerm[i] \in Nat /\ currentTerm'[i] \in Nat
  BY TypeParts DEF TypeOK
<1>2. leaders \subseteq leaders'
  BY DEF NoWin, Wins
<1>3. \A c \in appendCalls' : <<c.term, c.from>> \in leaders' /\ c.from # c.to /\ c.phase # "spawned"
  <2> SUFFICES ASSUME NEW c \in appendCalls'
               PROVE  <<c.term, c.from>> \in leaders' /\ c.from # c.to /\ c.phase # "spawned"
    OBVIOUS
  <2>1. CASE Made(c)
    BY <2>1 DEF Made
  <2>2. CASE Old(c)
    BY <1>2, <2>2 DEF Old, SameArgs, LeaderInv
  <2> QED BY <2>1, <2>2 DEF CallsStep
<1>4. CASE NoWin
  <2>1. ASSUME NEW i \in Server
        PROVE  /\ state'[i] = "leader" => <<currentTerm'[i], i>> \in leaders'
               /\ state'[i] = "candidate" => <<currentTerm'[i], i>> \notin leaders'
               /\ \A t \in Nat : <<t, i>> \in leaders' => t <= currentTerm'[i] /\ Peers(i) # {}
    <3>1. /\ state[i] = "leader" => <<currentTerm[i], i>> \in leaders
          /\ state[i] = "candidate" => <<currentTerm[i], i>> \notin leaders
          /\ \A t \in Nat : <<t, i>> \in leaders => t <= currentTerm[i] /\ Peers(i) # {}
      BY DEF LeaderInv
    <3>2. leaders' = leaders
      BY <1>4 DEF NoWin
    <3>3. CASE currentTerm'[i] = currentTerm[i] /\ state'[i] \in {state[i], "follower"}
      BY <3>1, <3>2, <3>3
    <3>4. CASE currentTerm'[i] > currentTerm[i] /\ state'[i] # "leader"
      BY <1>1, <3>1, <3>2, <3>4, SMTT(30)
    <3> QED BY <1>4, <3>3, <3>4 DEF NoWin
  <2> QED BY <1>3, <2>1 DEF LeaderInv, Peers
<1>5. ASSUME NEW i \in Server, Wins(i)
      PROVE  LeaderInv'
  <2>1. ASSUME NEW j \in Server
        PROVE  /\ state'[j] = "leader" => <<currentTerm'[j], j>> \in leaders'
               /\ state'[j] = "candidate" => <<currentTerm'[j], j>> \notin leaders'
               /\ \A t \in Nat : <<t, j>> \in leaders' => t <= currentTerm'[j] /\ Peers(j) # {}
    <3>1. /\ state[j] = "leader" => <<currentTerm[j], j>> \in leaders
          /\ state[j] = "candidate" => <<currentTerm[j], j>> \notin leaders
          /\ \A t \in Nat : <<t, j>> \in leaders => t <= currentTerm[j] /\ Peers(j) # {}
      BY DEF LeaderInv
    <3>2. /\ state'[j] = IF j = i THEN "leader" ELSE state[j]
          /\ currentTerm'[j] = currentTerm[j]
          /\ leaders' = leaders \cup {<<currentTerm[i], i>>}
          /\ Peers(i) # {}
      BY <1>5, TypeParts DEF Wins, TypeOK
    <3> QED BY <1>1, <3>1, <3>2, SMTT(30)
  <2> QED BY <1>3, <2>1 DEF LeaderInv, Peers
<1> QED BY <1>4, <1>5

-----------------------------------------------------------------------------
(* What a step does to logs *)

\* What is carried depends on the arguments of a call only.
LEMMA CarriesSame ==
    ASSUME NEW c, NEW d, NEW l, SameArgs(c, d), Carries(d, l)
    PROVE  Carries(c, l)
BY DEF SameArgs, Carries

\* Whatever else a step does, the calls carry pieces of logs of leaders.
LEMMA CallsCarry ==
    ASSUME NEW L \in History, NEW M \in History, Grows(L, M), Logs(L), CallsStep, TypeInv,
           \A i \in Server : state'[i] = "leader" => M[currentTerm'[i]] = log'[i]
    PROVE  \A c \in appendCalls' : Carries(c, M[c.term])
<1> SUFFICES ASSUME NEW c \in appendCalls'
             PROVE  Carries(c, M[c.term])
  OBVIOUS
<1>1. CASE Made(c)
  <2>1. c.from \in Server /\ state'[c.from] = "leader" /\ currentTerm'[c.from] = c.term
        /\ Carries(c, log'[c.from])
    BY <1>1 DEF Made
  <2>2. M[currentTerm'[c.from]] = log'[c.from]
    BY <2>1
  <2>3. M[c.term] = log'[c.from]
    BY <2>1, <2>2
  <2> QED BY <2>1, <2>3
<1>2. CASE Old(c)
  <2>1. PICK d \in appendCalls : SameArgs(c, d)
    BY <1>2 DEF Old
  <2>2. d \in AppendCall /\ Carries(d, L[d.term]) /\ c.term = d.term
    BY <2>1, TypeParts DEF Logs, TypeOK, SameArgs
  <2>3. d.term \in Nat
    BY <2>2 DEF AppendCall
  <2>4. L[d.term] \in Seq(Entry) /\ M[d.term] \in Seq(Entry) /\ Agree(L[d.term], M[d.term], Len(L[d.term]))
    BY <2>3 DEF History, Grows
  <2>5. Carries(d, M[d.term])
    BY <2>2, <2>4, GrowsCarries
  <2> QED BY <2>1, <2>2, <2>5, CarriesSame
<1> QED BY <1>1, <1>2 DEF CallsStep

\* Peer i has a log that it had not before, or another term.
LEMMA LogsStep ==
    ASSUME NEW L \in History, NEW M \in History, Grows(L, M), Logs(L), CallsStep,
           TypeInv, TypeInv', leaders \subseteq leaders',
           \A t \in Nat : \/ M[t] = L[t]
                          \/ Won(t)' /\ Origin(M, M[t]) /\ TermsUpTo(t, M[t]),
           \A i \in Server :
                \/ log'[i] = log[i] /\ currentTerm'[i] >= currentTerm[i]
                \/ Origin(M, log'[i]) /\ TermsUpTo(currentTerm'[i], log'[i]),
           \A i \in Server : state'[i] = "leader" => M[currentTerm'[i]] = log'[i]
    PROVE  Logs(M)'
<1>1. ASSUME NEW t \in Nat
      PROVE  Origin(M, M[t]) /\ TermsUpTo(t, M[t]) /\ (~Won(t)' => M[t] = << >>)
  <2>1. CASE M[t] = L[t]
    <3>1. Origin(L, L[t]) /\ TermsUpTo(t, L[t]) /\ (~Won(t) => L[t] = << >>)
      BY DEF Logs
    <3>2. Origin(M, L[t])
      BY <3>1, GrowsOrigin DEF History
    <3>3. Won(t) => Won(t)'
      BY DEF Won
    <3> QED BY <2>1, <3>1, <3>2, <3>3
  <2> QED BY <2>1
<1>2. ASSUME NEW i \in Server
      PROVE  Origin(M, log'[i]) /\ TermsUpTo(currentTerm'[i], log'[i])
  <2>1. CASE log'[i] = log[i] /\ currentTerm'[i] >= currentTerm[i]
    <3>1. log[i] \in Seq(Entry) /\ currentTerm[i] \in Nat /\ currentTerm'[i] \in Nat
      BY TypeParts DEF TypeOK
    <3>2. Origin(L, log[i]) /\ TermsUpTo(currentTerm[i], log[i])
      BY DEF Logs
    <3>3. Origin(M, log[i])
      BY <3>1, <3>2, GrowsOrigin
    <3>4. TermsUpTo(currentTerm'[i], log[i])
      <4>1. \A k \in 1..Len(log[i]) : log[i][k].term \in Nat
        BY <3>1, EntryTerm
      <4> QED BY <2>1, <3>1, <3>2, <4>1, SMTT(30) DEF TermsUpTo
    <3> QED BY <2>1, <3>3, <3>4
  <2> QED BY <2>1
<1>3. \A c \in appendCalls' : Carries(c, M[c.term])
  BY CallsCarry
<1>4. (\A t \in Nat : Origin(M, M[t]) /\ TermsUpTo(t, M[t]) /\ (~Won(t) => M[t] = << >>))'
  BY <1>1 DEF Origin, TermsUpTo, Agree
<1>5. (\A i \in Server : Origin(M, log[i]) /\ TermsUpTo(currentTerm[i], log[i]))'
  BY <1>2 DEF Origin, TermsUpTo, Agree
<1>6. (\A c \in appendCalls : Carries(c, M[c.term]))'
  BY <1>3 DEF Carries, TermAt
<1> QED BY <1>4, <1>5, <1>6 DEF Logs

\* What every step but three does.
Plain == CallsStep /\ NoWin /\ \A i \in Server : log'[i] = log[i]

\* A history that stays the same grows.
LEMMA GrowsSelf ==
    ASSUME NEW L \in History
    PROVE  Grows(L, L)
<1>1. \A t \in Nat : L[t] \in Seq(Entry) /\ Len(L[t]) \in Nat /\ Len(L[t]) <= Len(L[t])
  BY SMTT(30) DEF History
<1> QED BY <1>1, AgreeSelf DEF Grows

\* A step that changes no log and elects nobody.
LEMMA PlainLogs ==
    ASSUME NEW L \in History, Logs(L), Plain, TypeInv, TypeInv'
    PROVE  Logs(L)'
<1>1. \A i \in Server : currentTerm[i] \in Nat /\ currentTerm'[i] \in Nat
  BY TypeParts DEF TypeOK
<1>2. \A i \in Server : log'[i] = log[i] /\ currentTerm'[i] >= currentTerm[i]
  BY <1>1, SMTT(30) DEF Plain, NoWin
<1>3. \A i \in Server : state'[i] = "leader" => L[currentTerm'[i]] = log'[i]
  BY DEF Plain, NoWin, Logs
<1>4. leaders \subseteq leaders' /\ CallsStep
  BY DEF Plain, NoWin
<1> QED BY <1>2, <1>3, <1>4, GrowsSelf, LogsStep

\* The winner of a term finds no entry of that term anywhere.
LEMMA WinLogs ==
    ASSUME NEW L \in History, Logs(L), CallsStep, NEW i \in Server, Wins(i),
           TypeInv, TypeInv', LeaderInv, ElectionSafety',
           NEW M, M = [L EXCEPT ![currentTerm[i]] = log[i]]
    PROVE  /\ M \in History /\ Grows(L, M) /\ ~Won(currentTerm[i]) /\ L[currentTerm[i]] = << >>
           /\ Logs(M)'
<1> DEFINE t == currentTerm[i]
<1>1. /\ t \in Nat /\ log[i] \in Seq(Entry)
      /\ \A j \in Server : currentTerm[j] \in Nat /\ log[j] \in Seq(Entry)
  BY TypeParts DEF TypeOK
<1>2. /\ leaders' = leaders \cup {<<t, i>>} /\ <<t, i>> \notin leaders
      /\ currentTerm' = currentTerm /\ log' = log
      /\ \A j \in Server : state'[j] = "leader" <=> (j = i \/ state[j] = "leader")
  BY TypeParts DEF Wins, LeaderInv, TypeOK
<1>3. M \in History /\ M[t] = log[i] /\ \A x \in Nat \ {t} : M[x] = L[x]
  BY <1>1 DEF History
<1>4. ~Won(t)
  <2> SUFFICES ASSUME NEW s \in Server, <<t, s>> \in leaders
               PROVE  FALSE
    BY DEF Won
  <2> DEFINE v == <<t, s>>
             w == <<t, i>>
  <2>1. v \in leaders' /\ w \in leaders'
    BY <1>2
  <2>2. v[1] = w[1] => v[2] = w[2]
    BY <2>1 DEF ElectionSafety
  <2> QED BY <1>2, <2>2
<1>5. L[t] = << >>
  BY <1>1, <1>4 DEF Logs
<1>6. Grows(L, M)
  <2> SUFFICES ASSUME NEW x \in Nat
               PROVE  Agree(L[x], M[x], Len(L[x]))
    BY DEF Grows
  <2>1. CASE x = t
    <3>1. Len(L[x]) = 0 /\ Len(M[x]) \in Nat
      BY <1>1, <1>3, <1>5, <2>1, SMTT(30)
    <3> QED BY <3>1, SMTT(30) DEF Agree
  <2>2. CASE x # t
    <3>1. L[x] \in Seq(Entry) /\ M[x] = L[x] /\ Len(L[x]) \in Nat
      BY <1>3, <2>2, SMTT(30) DEF History
    <3> QED BY <3>1, AgreeSelf, SMTT(30)
  <2> QED BY <2>1, <2>2
<1>7. Origin(M, log[i]) /\ TermsUpTo(t, log[i]) /\ Won(t)'
  <2>1. Origin(L, log[i]) /\ TermsUpTo(t, log[i])
    BY DEF Logs
  <2>2. Won(t)'
    BY <1>2 DEF Won
  <2> QED BY <1>1, <1>3, <1>6, <2>1, <2>2, GrowsOrigin
<1>8. \A x \in Nat : M[x] = L[x] \/ (Won(x)' /\ Origin(M, M[x]) /\ TermsUpTo(x, M[x]))
  BY <1>2, <1>3, <1>7 DEF Won
<1>9. ASSUME NEW j \in Server, state'[j] = "leader"
      PROVE  M[currentTerm'[j]] = log'[j]
  <2>1. CASE j = i
    BY <1>2, <1>3, <2>1
  <2>2. CASE j # i
    <3>1. state[j] = "leader"
      BY <1>2, <1>9, <2>2
    <3>2. <<currentTerm[j], j>> \in leaders /\ L[currentTerm[j]] = log[j]
      BY <3>1 DEF LeaderInv, Logs
    <3>3. currentTerm[j] # t
      BY <1>4, <3>2 DEF Won
    <3> QED BY <1>1, <1>2, <1>3, <3>2, <3>3
  <2> QED BY <2>1, <2>2
<1>10. \A j \in Server : log'[j] = log[j] /\ currentTerm'[j] >= currentTerm[j]
  BY <1>1, <1>2, SMTT(30)
<1>11. leaders \subseteq leaders'
  BY <1>2
<1>12. Logs(M)'
  BY <1>3, <1>6, <1>8, <1>9, <1>10, <1>11, LogsStep
<1> QED BY <1>3, <1>4, <1>5, <1>6, <1>12

\* Start() adds an entry to the log of the leader, and to no other.
LEMMA StartLogs ==
    ASSUME NEW L \in History, Logs(L), CallsStep, TypeInv, TypeInv', LeaderInv, ElectionSafety,
           NEW i \in Server, NEW command \in Command, Start(i, command),
           NEW M, M = [L EXCEPT ![currentTerm[i]] = log'[i]]
    PROVE  /\ M \in History /\ Grows(L, M)
           /\ Agree(log[i], log'[i], Len(log[i])) /\ Len(log'[i]) = Len(log[i]) + 1
           /\ log'[i][Len(log'[i])].term = currentTerm[i]
           /\ Logs(M)'
<1> DEFINE t == currentTerm[i]
           e == [command |-> command, term |-> t]
           old == log[i]
           new == log'[i]
<1>1. /\ t \in Nat /\ old \in Seq(Entry) /\ Len(old) \in Nat /\ new \in Seq(Entry) /\ Len(new) \in Nat
      /\ \A j \in Server : currentTerm[j] \in Nat
  BY TypeParts, SMTT(30) DEF TypeOK
<1>2. e \in Entry /\ e.term = t
  BY <1>1 DEF Entry
<1>3. /\ new = Append(old, e)
      /\ state' = state /\ currentTerm' = currentTerm /\ leaders' = leaders /\ state[i] = "leader"
      /\ \A j \in Server \ {i} : log'[j] = log[j]
  BY TypeParts DEF Start, electionVars, TypeOK
<1> HIDE DEF e
<1>4. Len(new) = Len(old) + 1 /\ new[Len(old) + 1] = e /\ \A k \in 1..Len(old) : new[k] = old[k]
  BY <1>1, <1>2, <1>3, SMTT(30)
<1>5. L[t] = old /\ <<t, i>> \in leaders
  BY <1>3 DEF Logs, LeaderInv
<1>6. M \in History /\ M[t] = new /\ \A x \in Nat \ {t} : M[x] = L[x]
  BY <1>1 DEF History
<1> HIDE DEF old, new, t
<1>7. Agree(old, new, Len(old))
  BY <1>1, <1>4, SMTT(30) DEF Agree
<1>8. Grows(L, M)
  <2> SUFFICES ASSUME NEW x \in Nat
               PROVE  Agree(L[x], M[x], Len(L[x]))
    BY DEF Grows
  <2>1. CASE x = t
    BY <1>5, <1>6, <1>7, <2>1
  <2>2. CASE x # t
    <3>1. M[x] = L[x]
      BY <1>6, <2>2
    <3>2. L[x] \in Seq(Entry)
      BY DEF History
    <3>3. Len(L[x]) \in Nat /\ Len(L[x]) <= Len(L[x])
      BY <3>2, SMTT(30)
    <3> QED BY <3>1, <3>2, <3>3, AgreeSelf
  <2> QED BY <2>1, <2>2
<1>9. Origin(M, new) /\ TermsUpTo(t, new)
  <2>1. Origin(L, old) /\ TermsUpTo(t, old)
    BY DEF Logs, old, t
  <2>2. Origin(M, old)
    BY <1>1, <1>6, <1>8, <2>1, GrowsOrigin
  <2> SUFFICES ASSUME NEW k \in 1..Len(new)
               PROVE  Agree(new, M[new[k].term], k) /\ new[k].term <= t
    BY DEF Origin, TermsUpTo
  <2>3. CASE k \in 1..Len(old)
    <3>1. new[k] = old[k] /\ Agree(old, M[old[k].term], k) /\ old[k].term <= t
      BY <1>4, <2>1, <2>2, <2>3 DEF Origin, TermsUpTo
    <3>2. Agree(new, old, k)
      <4>1. k \in Nat /\ k <= Len(old)
        BY <1>1, <2>3, SMTT(30)
      <4> QED BY <1>1, <1>7, <4>1, AgreeLess, AgreeSymmetric
    <3> QED BY <3>1, <3>2, AgreeTransitive
  <2>4. CASE k = Len(old) + 1
    <3>1. new[k].term = t /\ k = Len(new) /\ k \in Nat
      BY <1>1, <1>2, <1>4, <2>4
    <3>2. Agree(new, new, k)
      BY <1>1, <3>1, AgreeSelf, SMTT(30)
    <3> QED BY <1>1, <1>6, <3>1, <3>2, SMTT(30)
  <2>5. k \in 1..Len(old) \/ k = Len(old) + 1
    BY <1>1, <1>4, SMTT(30)
  <2> QED BY <2>3, <2>4, <2>5
<1>10. \A x \in Nat : M[x] = L[x] \/ (Won(x)' /\ Origin(M, M[x]) /\ TermsUpTo(x, M[x]))
  <2>1. \E s \in Server : <<t, s>> \in leaders'
    BY <1>3, <1>5
  <2> QED BY <1>6, <1>9, <2>1 DEF Won
<1>11. \A j \in Server : \/ log'[j] = log[j] /\ currentTerm'[j] >= currentTerm[j]
                         \/ Origin(M, log'[j]) /\ TermsUpTo(currentTerm'[j], log'[j])
  <2>1. log'[i] = new /\ currentTerm'[i] = t
    BY <1>3 DEF new, t
  <2>2. \A j \in Server : currentTerm'[j] >= currentTerm[j]
    BY <1>1, <1>3, SMTT(30)
  <2> QED BY <1>3, <1>9, <2>1, <2>2
<1>12. ASSUME NEW j \in Server, state'[j] = "leader"
       PROVE  M[currentTerm'[j]] = log'[j]
  <2>1. CASE j = i
    BY <1>3, <1>6, <2>1 DEF new, t
  <2>2. CASE j # i
    <3>1. <<currentTerm[j], j>> \in leaders /\ L[currentTerm[j]] = log[j]
      BY <1>3, <1>12 DEF LeaderInv, Logs
    <3>2. currentTerm[j] # t
      <4> DEFINE v == <<t, i>>
                 w == <<currentTerm[j], j>>
      <4>1. v[1] = w[1] => v[2] = w[2]
        BY <1>5, <3>1 DEF ElectionSafety
      <4> QED BY <2>2, <4>1
    <3> QED BY <1>1, <1>3, <1>6, <2>2, <3>1, <3>2
  <2> QED BY <2>1, <2>2
<1>13. leaders \subseteq leaders'
  BY <1>3
<1>14. Logs(M)'
  BY <1>6, <1>8, <1>10, <1>11, <1>12, <1>13, LogsStep
<1>15. new[Len(new)].term = t
  BY <1>2, <1>4
<1> QED BY <1>4, <1>6, <1>7, <1>8, <1>14, <1>15 DEF old, new, t

\* The length of a log put together from two pieces.
LEMMA ConcatLength ==
    ASSUME NEW s \in Seq(Entry), NEW e \in Seq(Entry)
    PROVE  Len(s \o e) = Len(s) + Len(e)
<1> DEFINE E == Entry
<1>1. s \in Seq(E) /\ e \in Seq(E)
  OBVIOUS
<1> HIDE DEF E
<1> QED BY <1>1, SMTT(30)

\* A log that has the entry before the ones a call carries agrees up to there
\* with the log that the call was taken from.
LEMMA PrevAgrees ==
    ASSUME NEW L, NEW l \in Seq(Entry), NEW g \in Seq(Entry), Origin(L, l), Origin(L, g),
           NEW c \in AppendCall, Carries(c, g), PrevMatches(l, c.prevLogIndex, c.prevLogTerm)
    PROVE  Agree(l, g, c.prevLogIndex)
<1> DEFINE p == c.prevLogIndex
<1>1. p \in Nat /\ Len(c.entries) \in Nat /\ Len(l) \in Nat /\ Len(g) \in Nat
  BY SMTT(30) DEF AppendCall
<1>2. p <= Len(l) /\ p + Len(c.entries) <= Len(g) /\ TermAt(l, p) = TermAt(g, p)
  BY DEF Carries, PrevMatches
<1>3. p <= Len(g)
  BY <1>1, <1>2, SMTT(30)
<1> HIDE DEF p
<1>4. CASE p = 0
  BY <1>1, <1>4, SMTT(30) DEF Agree, p
<1>5. CASE p # 0
  <2>1. p \in 1..Len(l) /\ p \in 1..Len(g) /\ l[p].term = g[p].term
    BY <1>1, <1>2, <1>3, <1>5, SMTT(30) DEF TermAt
  <2>2. Agree(l, g, p)
    BY <2>1, OriginsAgree
  <2> QED BY <2>2 DEF p
<1> QED BY <1>4, <1>5

\* The log after a call was accepted: it has all that the call carries, and
\* nothing is lost that agreed with the log the call was taken from.
LEMMA OverwriteAgrees ==
    ASSUME NEW l \in Seq(Entry), NEW g \in Seq(Entry), NEW c \in AppendCall, Carries(c, g),
           Agree(l, g, c.prevLogIndex), NEW new, new = Overwrite(l, c.prevLogIndex, c.entries)
    PROVE  /\ new \in Seq(Entry)
           /\ Agree(new, g, c.prevLogIndex + Len(c.entries))
           /\ new = l \/ Agree(new, g, Len(new))
           /\ \A k \in Nat : Agree(g, l, k) => Agree(g, new, k)
<1> DEFINE p == c.prevLogIndex
           s == SubSeq(l, 1, p)
           e == c.entries
<1>1. p \in Nat /\ e \in Seq(Entry) /\ Len(e) \in Nat /\ Len(l) \in Nat /\ Len(g) \in Nat
  BY SMTT(30) DEF AppendCall
<1>2. /\ p + Len(e) <= Len(g) /\ \A n \in 1..Len(e) : e[n] = g[p + n]
      /\ p <= Len(l) /\ \A k \in 1..p : l[k] = g[k]
  BY DEF Carries, Agree
<1>3. s \in Seq(Entry) /\ Len(s) = p /\ \A k \in 1..p : s[k] = l[k]
  BY <1>1, <1>2, SMTT(30)
<1>4. new = IF \A n \in 1..Len(e) : p + n <= Len(l) /\ l[p + n] = e[n] THEN l ELSE s \o e
  BY DEF Overwrite
<1> HIDE DEF s, e, p
<1>5. CASE \A n \in 1..Len(e) : p + n <= Len(l) /\ l[p + n] = e[n]
  <2>1. new = l
    BY <1>4, <1>5
  <2>2. p + Len(e) <= Len(l)
    <3>1. CASE Len(e) = 0
      BY <1>1, <1>2, <3>1, SMTT(30)
    <3>2. CASE Len(e) # 0
      <4>1. Len(e) \in 1..Len(e)
        BY <1>1, <3>2, SMTT(30)
      <4> QED BY <1>5, <4>1
    <3> QED BY <3>1, <3>2
  <2>3. ASSUME NEW k \in 1..p + Len(e)
        PROVE  l[k] = g[k]
    <3>1. CASE k \in 1..p
      BY <1>2, <3>1
    <3>2. CASE k \notin 1..p
      <4>1. k - p \in 1..Len(e) /\ p + (k - p) = k
        BY <1>1, <3>2, SMTT(30)
      <4>2. l[p + (k - p)] = e[k - p] /\ e[k - p] = g[p + (k - p)]
        BY <1>2, <1>5, <4>1
      <4> QED BY <4>1, <4>2
    <3> QED BY <3>1, <3>2
  <2>4. Agree(new, g, p + Len(e))
    BY <1>1, <1>2, <2>1, <2>2, <2>3 DEF Agree
  <2> QED BY <2>1, <2>4 DEF p, e
<1>6. CASE ~(\A n \in 1..Len(e) : p + n <= Len(l) /\ l[p + n] = e[n])
  <2>1. new = s \o e
    BY <1>4, <1>6
  <2>2. new \in Seq(Entry)
    BY <1>1, <1>3, <2>1, SMTT(30)
  <2>3. Len(new) = p + Len(e)
    BY <1>1, <1>3, <2>1, ConcatLength
  <2>4. ASSUME NEW k \in 1..Len(new)
        PROVE  new[k] = g[k]
    <3>1. CASE k \in 1..p
      <4>1. new[k] = s[k]
        BY <1>1, <1>3, <2>1, <3>1, SMTT(30)
      <4> QED BY <1>2, <1>3, <3>1, <4>1
    <3>2. CASE k \notin 1..p
      <4>1. k - p \in 1..Len(e) /\ p + (k - p) = k
        BY <1>1, <2>3, <3>2, SMTT(30)
      <4>2. new[k] = e[k - p]
        BY <1>1, <1>3, <2>1, <2>3, <3>2, SMTT(30)
      <4>3. e[k - p] = g[p + (k - p)]
        BY <1>2, <4>1
      <4> QED BY <4>1, <4>2, <4>3
    <3> QED BY <3>1, <3>2
  <2>5. Agree(new, g, Len(new))
    BY <1>1, <1>2, <2>3, <2>4, SMTT(30) DEF Agree
  <2>6. ASSUME NEW k \in Nat, Agree(g, l, k)
        PROVE  Agree(g, new, k)
    <3>1. PICK n \in 1..Len(e) : p + n > Len(l) \/ l[p + n] # e[n]
      BY <1>1, <1>6, SMTT(30)
    <3>2. k <= Len(l) /\ \A x \in 1..k : g[x] = l[x]
      BY <2>6 DEF Agree
    <3>3. ~(p + n <= k)
      <4> SUFFICES ASSUME p + n <= k
                   PROVE  FALSE
        OBVIOUS
      <4>1. p + n \in 1..k /\ p + n <= Len(l)
        BY <1>1, <3>2, SMTT(30)
      <4>2. l[p + n] = e[n]
        BY <1>2, <3>2, <4>1
      <4> QED BY <1>1, <3>1, <4>1, <4>2, SMTT(30)
    <3>4. k <= Len(new)
      BY <1>1, <2>3, <3>3, SMTT(30)
    <3>5. Agree(new, g, k)
      <4>1. Len(new) \in Nat
        BY <1>1, <2>3, SMTT(30)
      <4> QED BY <2>2, <2>5, <3>4, <4>1, AgreeLess
    <3> QED BY <3>5, AgreeSymmetric
  <2> QED BY <2>2, <2>3, <2>5, <2>6 DEF p, e
<1> QED BY <1>5, <1>6

\* A peer that is no leader has a new log.
LEMMA AppendedLogs ==
    ASSUME NEW L \in History, Logs(L), CallsStep, NoWin, TypeInv, TypeInv', NEW i \in Server,
           state'[i] # "leader", \A j \in Server \ {i} : log'[j] = log[j],
           \A j \in Server : currentTerm'[j] >= currentTerm[j],
           Origin(L, log'[i]), TermsUpTo(currentTerm'[i], log'[i])
    PROVE  Logs(L)'
<1>1. \A j \in Server : \/ log'[j] = log[j] /\ currentTerm'[j] >= currentTerm[j]
                        \/ Origin(L, log'[j]) /\ TermsUpTo(currentTerm'[j], log'[j])
  OBVIOUS
<1>2. ASSUME NEW j \in Server, state'[j] = "leader"
      PROVE  L[currentTerm'[j]] = log'[j]
  <2>1. j # i /\ state[j] = "leader" /\ currentTerm'[j] = currentTerm[j]
    BY <1>2 DEF NoWin
  <2> QED BY <2>1 DEF Logs
<1>3. leaders \subseteq leaders'
  BY DEF NoWin
<1> QED BY <1>1, <1>2, <1>3, GrowsSelf, LogsStep

\* A peer that accepts a call is no leader: the caller won the term of the call.
LEMMA AcceptFollower ==
    ASSUME TypeInv, LeaderInv, ElectionSafety, NEW c \in appendCalls,
           convertToFollowerIfOutOfTerm(c.to, c.term), c.term >= currentTerm[c.to]
    PROVE  state'[c.to] # "leader" /\ currentTerm'[c.to] = c.term
<1> DEFINE i == c.to
<1>1. i \in Server /\ c.from \in Server /\ c.term \in Nat /\ currentTerm[i] \in Nat
  BY TypeParts DEF TypeOK, AppendCall
<1>2. CASE OutOfTerm(i, c.term)
  BY <1>1, <1>2, TypeParts DEF convertToFollowerIfOutOfTerm, TypeOK
<1>3. CASE ~OutOfTerm(i, c.term)
  <2>1. UNCHANGED <<currentTerm, state>> /\ c.term = currentTerm[i]
    BY <1>1, <1>3, SMTT(30) DEF convertToFollowerIfOutOfTerm, OutOfTerm
  <2> SUFFICES ASSUME state[i] = "leader"
               PROVE  FALSE
    BY <2>1
  <2> DEFINE v == <<c.term, c.from>>
             w == <<currentTerm[i], i>>
  <2>2. v \in leaders /\ w \in leaders /\ c.from # i
    BY <1>1 DEF LeaderInv
  <2>3. v[1] = w[1] => v[2] = w[2]
    BY <2>2 DEF ElectionSafety
  <2> QED BY <2>1, <2>2, <2>3
<1> QED BY <1>2, <1>3

\* The log of a peer that accepts a call.
LEMMA AcceptLog ==
    ASSUME NEW L \in History, Logs(L), TypeInv, NEW c \in appendCalls, AcceptEntries(c.to, c)
    PROVE  /\ c.term >= currentTerm[c.to]
           /\ \A j \in Server \ {c.to} : log'[j] = log[j]
           /\ Agree(log'[c.to], L[c.term], c.prevLogIndex + Len(c.entries))
           /\ log'[c.to] = log[c.to] \/ Agree(log'[c.to], L[c.term], Len(log'[c.to]))
           /\ \A k \in Nat : Agree(L[c.term], log[c.to], k) => Agree(L[c.term], log'[c.to], k)
<1> DEFINE i == c.to
<1>1. /\ c \in AppendCall /\ i \in Server /\ c.term \in Nat
      /\ log \in [Server -> Seq(Entry)] /\ log[i] \in Seq(Entry)
  BY TypeParts DEF TypeOK, AppendCall
<1>2. /\ c.term >= currentTerm[i]
      /\ PrevMatches(log[i], c.prevLogIndex, c.prevLogTerm)
      /\ log' = [log EXCEPT ![i] = Overwrite(log[i], c.prevLogIndex, c.entries)]
  BY DEF AcceptEntries
<1>3. PICK new : new = Overwrite(log[i], c.prevLogIndex, c.entries)
  OBVIOUS
<1>4. log'[i] = new /\ \A j \in Server \ {i} : log'[j] = log[j]
  BY <1>1, <1>2, <1>3
<1>5. PICK g : g = L[c.term]
  OBVIOUS
<1>6. g \in Seq(Entry) /\ Carries(c, g) /\ Origin(L, g) /\ Origin(L, log[i])
  BY <1>1, <1>5 DEF Logs, History
<1>7. Agree(log[i], g, c.prevLogIndex)
  BY <1>1, <1>2, <1>6, PrevAgrees
<1>8. /\ Agree(new, g, c.prevLogIndex + Len(c.entries))
      /\ new = log[i] \/ Agree(new, g, Len(new))
      /\ \A k \in Nat : Agree(g, log[i], k) => Agree(g, new, k)
  BY <1>1, <1>3, <1>6, <1>7, OverwriteAgrees, SMTT(30)
<1> QED BY <1>2, <1>4, <1>5, <1>8

\* AppendEntries() leaves the log alone, or makes it a piece of a leader's log.
LEMMA AppendEntriesLogs ==
    ASSUME NEW L \in History, Logs(L), CallsStep, NoWin, TypeInv, TypeInv', LeaderInv,
           ElectionSafety, NEW c \in appendCalls, AppendEntries(c.to, c)
    PROVE  Logs(L)'
<1> DEFINE i == c.to
<1>1. CASE log' = log
  <2>1. Plain
    BY <1>1 DEF Plain
  <2> QED BY <2>1, PlainLogs
<1>2. CASE log' # log
  <2>1. AcceptEntries(i, c) /\ i \in Server /\ c.term \in Nat
    BY <1>2, TypeParts DEF AppendEntries, RejectSmallerTerm, RejectMismatch, logVars,
                       TypeOK, AppendCall
  <2>2. /\ c.term >= currentTerm[i]
        /\ \A j \in Server \ {i} : log'[j] = log[j]
        /\ log'[i] = log[i] \/ Agree(log'[i], L[c.term], Len(log'[i]))
    BY <2>1, AcceptLog
  <2>3. state'[i] # "leader" /\ currentTerm'[i] = c.term
    BY <2>2, AcceptFollower DEF AppendEntries
  <2>4. \A j \in Server : currentTerm[j] \in Nat /\ currentTerm'[j] \in Nat /\ log'[j] \in Seq(Entry)
    BY TypeParts DEF TypeOK
  <2>5. \A j \in Server : currentTerm'[j] >= currentTerm[j]
    BY <2>4, SMTT(30) DEF NoWin
  <2>6. CASE Agree(log'[i], L[c.term], Len(log'[i]))
    <3>1. L[c.term] \in Seq(Entry) /\ Origin(L, L[c.term]) /\ TermsUpTo(c.term, L[c.term])
      BY <2>1 DEF Logs, History
    <3>2. Origin(L, log'[i])
      BY <2>1, <2>4, <2>6, <3>1, PrefixOrigin
    <3>3. TermsUpTo(c.term, log'[i])
      <4>1. Len(log'[i]) \in Nat /\ Len(L[c.term]) \in Nat
        BY <2>1, <2>4, <3>1, SMTT(30)
      <4>2. \A k \in 1..Len(log'[i]) : k \in 1..Len(L[c.term]) /\ log'[i][k] = L[c.term][k]
        BY <2>6, <4>1, SMTT(30) DEF Agree
      <4> QED BY <3>1, <4>2 DEF TermsUpTo
    <3> QED BY <2>1, <2>2, <2>3, <2>5, <3>2, <3>3, AppendedLogs
  <2>7. CASE log'[i] = log[i]
    <3>1. Plain
      BY <2>1, <2>2, <2>7 DEF Plain
    <3> QED BY <3>1, PlainLogs
  <2> QED BY <2>2, <2>6, <2>7
<1> QED BY <1>1, <1>2

-----------------------------------------------------------------------------
(* Every step *)

\* Calls that were there stay as they are, or go.
LEMMA CallsGo ==
    ASSUME LeaderInv, appendCalls' \subseteq appendCalls
    PROVE  CallsStep
BY DEF CallsStep, Old, SameArgs, LeaderInv

\* No call waits to be encoded, so writing to a log leaves the calls alone.
LEMMA NothingSpawned ==
    ASSUME LeaderInv, NEW i, NEW l, NEW written, NEW seen
    PROVE  AfterLogWrite(i, l, written, seen) = appendCalls
<1>1. Spawned(i) = {}
  BY DEF LeaderInv, Spawned
<1> QED BY <1>1 DEF AfterLogWrite

\* A handler answers a call, and others like it may remain.
LEMMA AppendEntriesCalls ==
    ASSUME TypeInv, LeaderInv, NEW c \in appendCalls, AppendEntries(c.to, c)
    PROVE  CallsStep
<1>1. c \in AppendCall
  BY TypeParts DEF TypeOK
<1>2. PICK r : /\ appendCalls' \in AfterAppendReply(appendCalls, c, r)
               /\ SameArgs(r, c) /\ r.phase = "reply"
  <2>1. ASSUME NEW t, NEW h
        PROVE  LET r == [c EXCEPT !.phase = "reply", !.replyTerm = t, !.nextTryHint = h]
               IN  SameArgs(r, c) /\ r.phase = "reply"
    BY <1>1 DEF SameArgs, AppendCall
  <2>2. ASSUME NEW t
        PROVE  LET r == [c EXCEPT !.phase = "reply", !.replyTerm = t, !.success = TRUE]
               IN  SameArgs(r, c) /\ r.phase = "reply"
    BY <1>1 DEF SameArgs, AppendCall
  <2>3. CASE RejectSmallerTerm(c.to, c)
    <3>1. appendCalls' \in AfterAppendReply(appendCalls, c,
              [c EXCEPT !.phase = "reply", !.replyTerm = currentTerm[c.to],
                        !.nextTryHint = Len(log[c.to]) + 1])
      BY <2>3 DEF RejectSmallerTerm
    <3> QED BY <2>1, <3>1
  <2>4. CASE RejectMismatch(c.to, c)
    <3>1. appendCalls' \in AfterAppendReply(appendCalls, c,
              [c EXCEPT !.phase = "reply", !.replyTerm = c.term,
                        !.nextTryHint = NextTryHint(log[c.to], c.prevLogIndex)])
      BY <2>4 DEF RejectMismatch
    <3> QED BY <2>1, <3>1
  <2>5. CASE AcceptEntries(c.to, c)
    <3>1. appendCalls' \in AfterAppendReply(appendCalls, c,
              [c EXCEPT !.phase = "reply", !.replyTerm = c.term, !.success = TRUE])
      BY <2>5, NothingSpawned DEF AcceptEntries
    <3> QED BY <2>2, <3>1
  <2> QED BY <2>3, <2>4, <2>5 DEF AppendEntries
<1>3. \A d \in appendCalls' : d = r \/ d \in appendCalls
  BY <1>2 DEF AfterAppendReply, AfterReply
<1> QED BY <1>2, <1>3 DEF CallsStep, Old, SameArgs, LeaderInv

\* A leader makes calls that carry pieces of its log.
LEMMA SendCalls ==
    ASSUME TypeInv, LeaderInv, ~LateEncoding, NEW i \in Server, NEW next \in [Server -> Nat],
           SendAppendEntriesToPeers(i, next), <<currentTerm[i], i>> \in leaders',
           state'[i] = "leader", currentTerm' = currentTerm, log' = log
    PROVE  CallsStep
<1> SUFFICES ASSUME NEW c \in appendCalls', c \notin appendCalls
             PROVE  Made(c)
  BY DEF CallsStep, Old, SameArgs, LeaderInv
<1>1. PICK j \in Peers(i) : c = AppendEntriesCall(i, j, next[j])
  BY DEF SendAppendEntriesToPeers
<1>2. j \in Server /\ j # i /\ next[j] \in Nat /\ next[j] - 1 \in 0..Len(log[i])
  BY DEF Peers, SendAppendEntriesToPeers
<1> DEFINE l == log[i]
           n == next[j]
<1>3. l \in Seq(Entry) /\ Len(l) \in Nat /\ n \in Nat /\ n - 1 \in 0..Len(l)
  BY <1>2, TypeParts, SMTT(30) DEF TypeOK
<1>4. /\ c.from = i /\ c.to = j /\ c.term = currentTerm[i] /\ c.phase = "request"
      /\ c.prevLogIndex = n - 1 /\ c.prevLogTerm = TermAt(l, n - 1)
      /\ c.entries = SubSeq(l, n, Len(l))
  BY <1>1 DEF AppendEntriesCall
<1> HIDE DEF l, n
<1>5. /\ Len(SubSeq(l, n, Len(l))) = Len(l) - (n - 1)
      /\ \A k \in 1..Len(l) - (n - 1) : SubSeq(l, n, Len(l))[k] = l[n - 1 + k]
  BY <1>3, SMTT(30)
<1>6. Carries(c, l)
  <2> DEFINE e == SubSeq(l, n, Len(l))
             p == n - 1
  <2>1. p \in Int /\ Len(e) = Len(l) - p /\ \A k \in 1..Len(e) : e[k] = l[p + k]
    BY <1>3, <1>5, SMTT(30)
  <2> HIDE DEF e, p
  <2>2. p + Len(e) <= Len(l)
    BY <1>3, <2>1, SMTT(30)
  <2>3. c.prevLogIndex = p /\ c.prevLogTerm = TermAt(l, p) /\ c.entries = e
    BY <1>4 DEF e, p
  <2> QED BY <2>1, <2>2, <2>3 DEF Carries
<1>7. c.from \in Server /\ c.from # c.to /\ c.phase # "spawned"
  BY <1>2, <1>4
<1>8. /\ <<c.term, c.from>> \in leaders' /\ state'[c.from] = "leader"
      /\ currentTerm'[c.from] = c.term /\ log'[c.from] = l
  BY <1>4 DEF l
<1> QED BY <1>6, <1>7, <1>8 DEF Made

\* The calls of a peer that crashed carry what they did.
LEMMA OrphanCalls ==
    ASSUME TypeInv, LeaderInv, NEW i, appendCalls' = Orphaned(appendCalls, i)
    PROVE  CallsStep
<1>1. ASSUME NEW d \in appendCalls
      PROVE  SameArgs(Orphan(d), d) /\ Orphan(d).phase = "orphan"
  BY TypeParts DEF Orphan, SameArgs, TypeOK, AppendCall
<1>2. ASSUME NEW c \in appendCalls'
      PROVE  Old(c)
  <2>1. CASE c \in appendCalls
    BY <2>1 DEF Old, SameArgs, LeaderInv
  <2>2. CASE \E d \in appendCalls : c = Orphan(d)
    BY <1>1, <2>2 DEF Old
  <2>3. c \in Orphaned(appendCalls, i)
    OBVIOUS
  <2> QED BY <2>1, <2>2, <2>3, OrphanedOrigin, SMTT(30)
<1> QED BY <1>2 DEF CallsStep

\* A crash and restart is plain, since the log comes back from the persister.
LEMMA MakePlain ==
    ASSUME TypeInv, LeaderInv, NEW i \in Server, NEW saved, Make(i, saved), saved.log = log[i],
           saved.currentTerm \in Nat, saved.currentTerm >= currentTerm[i]
    PROVE  Plain
<1>1. CallsStep
  BY OrphanCalls DEF Make
<1>2. /\ leaders' = leaders /\ log'[i] = log[i] /\ currentTerm'[i] = saved.currentTerm
      /\ state'[i] = "follower"
      /\ \A j \in Server \ {i} : /\ currentTerm'[j] = currentTerm[j] /\ state'[j] = state[j]
                                 /\ log'[j] = log[j]
  BY TypeParts, SMTT(30) DEF Make, readPersist, TypeOK
<1>3. currentTerm[i] \in Nat
  BY TypeParts DEF TypeOK
<1>4. NoWin
  BY <1>2, <1>3, SMTT(30) DEF NoWin
<1> QED BY <1>1, <1>2, <1>4 DEF Plain

\* The steps of a peer on its own.
LEMMA ServerStepKind ==
    ASSUME ~LateEncoding, TypeInv, Durable, LeaderInv, NEW i \in Server, ServerStep(i)
    PROVE  CallsStep /\ NoWin /\ (Plain \/ \E command \in Command : Start(i, command))
<1>1. CASE ElectionTimeout(i)
  <2>1. /\ appendCalls' = appendCalls /\ leaders' = leaders /\ log' = log
        /\ currentTerm'[i] = currentTerm[i] + 1 /\ currentTerm[i] \in Nat /\ state'[i] = "candidate"
        /\ \A j \in Server \ {i} : currentTerm'[j] = currentTerm[j] /\ state'[j] = state[j]
    BY <1>1, TypeParts, SMTT(30) DEF ElectionTimeout, TypeOK
  <2>2. NoWin
    BY <2>1, SMTT(30) DEF NoWin
  <2> QED BY <2>1, <2>2, CallsGo DEF Plain
<1>2. CASE PeriodicAppendEntries(i)
  <2>1. UNCHANGED <<leaders, log, currentTerm, state>> /\ state[i] = "leader"
    BY <1>2 DEF PeriodicAppendEntries, electionVars, logVars
  <2>2. <<currentTerm[i], i>> \in leaders' /\ nextIndex[i] \in [Server -> Nat]
    BY <2>1, TypeParts DEF LeaderInv, TypeOK
  <2>3. CallsStep
    BY <1>2, <2>1, <2>2, SendCalls DEF PeriodicAppendEntries
  <2> QED BY <2>1, <2>3 DEF Plain, NoWin
<1>3. CASE Apply(i)
  <2>1. UNCHANGED <<appendCalls, leaders, log, currentTerm, state>>
    BY <1>3 DEF Apply, electionVars, logVars
  <2> QED BY <2>1, CallsGo DEF Plain, NoWin
<1>4. CASE Restart(i)
  <2>1. persister[i] = [currentTerm |-> currentTerm[i], votedFor |-> votedFor[i], log |-> log[i]]
    BY DEF Durable
  <2>2. persister[i].log = log[i] /\ persister[i].currentTerm = currentTerm[i] /\ currentTerm[i] \in Nat
    BY <2>1, TypeParts, SMTT(30) DEF TypeOK
  <2>3. Plain
    BY <1>4, <2>2, MakePlain, SMTT(30) DEF Restart
  <2> QED BY <2>3 DEF Plain
<1>5. ASSUME NEW command \in Command, Start(i, command)
      PROVE  CallsStep /\ NoWin
  <2>1. UNCHANGED <<leaders, currentTerm, state>>
    BY <1>5 DEF Start, electionVars
  <2>2. appendCalls' = appendCalls
    BY <1>5, NothingSpawned DEF Start
  <2> QED BY <2>1, <2>2, CallsGo DEF NoWin
<1> QED BY <1>1, <1>2, <1>3, <1>4, <1>5 DEF ServerStep

\* A reply with a later term, and a crash that a request was the last to see.
LEMMA StepDownPlain ==
    ASSUME TypeInv, LeaderInv, NEW i \in Server, NEW t \in Nat, StepDown(i, t),
           appendCalls' \subseteq appendCalls
    PROVE  Plain
<1>1. leaders' = leaders /\ log' = log /\ convertToFollowerIfOutOfTerm(i, t)
  BY DEF StepDown, electionVars
<1>2. NoWin
  BY <1>1, ConvertTerm DEF NoWin
<1> QED BY <1>1, <1>2, CallsGo DEF Plain

\* A crash inside a handler changes the term and no log.
LEMMA RestartInHandlerPlain ==
    ASSUME TypeInv, LeaderInv, NEW i \in Server, NEW c, c.term \in Nat, RestartInHandler(i, c)
    PROVE  Plain
<1> DEFINE saved == [currentTerm |-> c.term, votedFor |-> noPeer, log |-> log[i]]
<1>1. /\ Make(i, saved) /\ saved.currentTerm = c.term /\ saved.log = log[i]
      /\ c.term > currentTerm[i] /\ currentTerm[i] \in Nat
  BY TypeParts DEF RestartInHandler, OutOfTerm, TypeOK
<1> HIDE DEF saved
<1> QED BY <1>1, MakePlain, SMTT(30)

\* The steps of a vote call: only a vote that is counted can elect anybody, and
\* whom it elects is a candidate of its own term.
LEMMA VoteStepPlain ==
    ASSUME "RequestVote" \notin LateReplies, ~LateEncoding, TypeInv, ElectionInv, LeaderInv,
           NEW c \in voteCalls, VoteStep(c)
    PROVE  Plain \/ (CallsStep /\ Wins(c.from))
<1>1. c.from \in Server /\ c.to \in Server /\ c.term \in Nat /\ c.replyTerm \in Nat
  BY TypeParts DEF TypeOK, VoteCall
<1>2. CASE RequestVote(c.to, c)
  <2>1. /\ leaders' = leaders /\ log' = log /\ appendCalls' = appendCalls
        /\ convertToFollowerIfOutOfTerm(c.to, c.term)
    BY <1>2 DEF RequestVote
  <2>2. NoWin
    BY <1>1, <2>1, ConvertTerm DEF NoWin
  <2> QED BY <2>1, <2>2, CallsGo DEF Plain
<1>3. CASE VoteReplyOutOfTerm(c.from, c)
  BY <1>1, <1>3, StepDownPlain DEF VoteReplyOutOfTerm
<1>4. CASE VoteReplyDenied(c.from, c) \/ LoseVoteCall(c)
  <2>1. UNCHANGED <<appendCalls, leaders, log, currentTerm, state>>
    BY <1>4 DEF VoteReplyDenied, LoseVoteCall, electionVars, logVars
  <2> QED BY <2>1, CallsGo DEF Plain, NoWin
<1>5. CASE VoteReplyGranted(c.from, c)
  <2> DEFINE i == c.from
  <2>1. c.phase = "reply" /\ c.term = currentTerm[i] /\ UNCHANGED <<currentTerm, log>>
    BY <1>5 DEF VoteReplyGranted, ReplyArrives, logVars
  <2>2. CASE state[i] # "leader" /\ IsMajority(votesReceived[i] + 1)
    <3>1. state[i] = "candidate"
      <4>1. state[i] # "follower"
        BY <2>1 DEF ElectionInv, CallsSound
      <4> QED BY <1>1, <2>2, <4>1, TypeParts DEF TypeOK
    <3>2. /\ state' = [state EXCEPT ![i] = "leader"]
          /\ leaders' = leaders \cup {<<currentTerm[i], i>>}
          /\ nextIndex'[i] = [j \in Server |-> Len(log[i]) + 1]
          /\ SendAppendEntriesToPeers(i, nextIndex'[i])
      BY <1>1, <1>5, <2>2, TypeParts DEF VoteReplyGranted, TypeOK
    <3>3. nextIndex'[i] \in [Server -> Nat]
      <4>1. Len(log[i]) \in Nat
        BY <1>1, TypeParts, SMTT(30) DEF TypeOK
      <4> QED BY <3>2, <4>1, SMTT(30)
    <3>4. CallsStep
      <4>1. state'[i] = "leader"
        BY <1>1, <3>2, TypeParts DEF TypeOK
      <4> QED BY <1>1, <2>1, <3>2, <3>3, <4>1, SendCalls
    <3>5. Peers(i) # {}
      <4>1. c.from # c.to
        BY DEF ElectionInv, CallsSound
      <4> QED BY <1>1, <4>1 DEF Peers
    <3> QED BY <2>1, <3>1, <3>2, <3>4, <3>5 DEF Wins
  <2>3. CASE ~(state[i] # "leader" /\ IsMajority(votesReceived[i] + 1))
    <3>1. UNCHANGED <<appendCalls, leaders, log, currentTerm, state>>
      BY <1>5, <2>1, <2>3 DEF VoteReplyGranted
    <3> QED BY <3>1, CallsGo DEF Plain, NoWin
  <2> QED BY <2>2, <2>3
<1>6. CASE RestartInHandler(c.to, c)
  BY <1>1, <1>6, RestartInHandlerPlain
<1> QED BY <1>2, <1>3, <1>4, <1>5, <1>6 DEF VoteStep

\* The steps of an AppendEntries call: only its handler changes a log.
LEMMA AppendStepKind ==
    ASSUME TypeInv, LeaderInv, NEW c \in appendCalls, AppendStep(c)
    PROVE  CallsStep /\ NoWin /\ (Plain \/ AppendEntries(c.to, c))
<1>1. c.from \in Server /\ c.to \in Server /\ c.term \in Nat /\ c.replyTerm \in Nat
  BY TypeParts DEF TypeOK, AppendCall
<1>2. CASE AppendEntries(c.to, c)
  <2>1. leaders' = leaders /\ convertToFollowerIfOutOfTerm(c.to, c.term)
    BY <1>2 DEF AppendEntries, electionVars
  <2>2. NoWin
    BY <1>1, <2>1, ConvertTerm DEF NoWin
  <2> QED BY <1>2, <2>2, AppendEntriesCalls
<1>3. CASE AppendReplyOutOfTerm(c.from, c)
  <2>1. Plain
    BY <1>1, <1>3, StepDownPlain DEF AppendReplyOutOfTerm
  <2> QED BY <2>1 DEF Plain
<1>4. CASE \/ AppendReplyNotLeader(c.from, c) \/ AppendReplySuccess(c.from, c)
           \/ AppendReplyFailure(c.from, c) \/ LoseAppendCall(c)
  <2>1. UNCHANGED <<leaders, log, currentTerm, state>> /\ appendCalls' \subseteq appendCalls
    BY <1>4 DEF AppendReplyNotLeader, AppendReplySuccess, AppendReplyFailure, AppendReply,
                LoseAppendCall, electionVars, logVars
  <2> QED BY <2>1, CallsGo DEF Plain, NoWin
<1>5. CASE RestartInHandler(c.to, c)
  <2>1. Plain
    BY <1>1, <1>5, RestartInHandlerPlain
  <2> QED BY <2>1 DEF Plain
<1> QED BY <1>2, <1>3, <1>4, <1>5 DEF AppendStep

\* Nobody has a log at first.
LEMMA InitLog == Init => LogInv
<1> SUFFICES ASSUME Init
             PROVE  LogInv
  OBVIOUS
<1>1. LeaderInv
  BY DEF Init, LeaderInv
<1>2. << >> \in Seq(Entry) /\ Len(<< >>) = 0
  BY SMTT(30)
<1>3. PICK L : L = [t \in Nat |-> << >>]
  OBVIOUS
<1>4. L \in History /\ \A t \in Nat : L[t] = << >>
  BY <1>2, <1>3 DEF History
<1>5. Logs(L)
  <2>1. \A i \in Server : log[i] = << >> /\ state[i] = "follower"
    BY DEF Init
  <2>2. appendCalls = {}
    BY DEF Init
  <2>3. 1..0 = {}
    BY SMTT(30)
  <2>4. Origin(L, << >>) /\ \A t : TermsUpTo(t, << >>)
    BY <1>2, <2>3 DEF Origin, TermsUpTo
  <2> QED BY <1>4, <2>1, <2>2, <2>4 DEF Logs
<1> QED BY <1>1, <1>4, <1>5 DEF LogInv

\* The log invariant is inductive.
LEMMA NextLog ==
    ASSUME "RequestVote" \notin LateReplies, ~LateEncoding, VoteInv, ElectionInv, LogInv,
           VoteInv', ElectionInv', [Next]_vars
    PROVE  LogInv'
<1>1. TypeInv /\ TypeInv' /\ Durable /\ LeaderInv /\ ElectionSafety /\ ElectionSafety'
  <2>1. ElectionSafety /\ ElectionSafety'
    BY OneLeader, PTL DEF VoteInv
  <2> QED BY <2>1 DEF VoteInv, LogInv
<1>2. PICK L \in History : Logs(L)
  BY DEF LogInv
<1>3. ASSUME Plain
      PROVE  LogInv'
  <2>1. LeaderInv'
    BY <1>1, <1>3, LeaderStep DEF Plain
  <2>2. Logs(L)'
    BY <1>1, <1>2, <1>3, PlainLogs
  <2> QED BY <2>1, <2>2 DEF LogInv
<1>4. ASSUME NEW i \in Server, ServerStep(i)
      PROVE  LogInv'
  <2>1. CallsStep /\ NoWin /\ (Plain \/ \E command \in Command : Start(i, command))
    BY <1>1, <1>4, ServerStepKind
  <2>2. LeaderInv'
    BY <1>1, <2>1, LeaderStep
  <2>3. ASSUME NEW command \in Command, Start(i, command)
        PROVE  LogInv'
    <3>1. PICK M : M = [L EXCEPT ![currentTerm[i]] = log'[i]]
      OBVIOUS
    <3>2. M \in History /\ Logs(M)'
      BY <1>1, <1>2, <2>1, <2>3, <3>1, StartLogs
    <3> QED BY <2>2, <3>2 DEF LogInv
  <2> QED BY <1>3, <2>1, <2>3
<1>5. ASSUME NEW c \in voteCalls, VoteStep(c)
      PROVE  LogInv'
  <2>1. Plain \/ (CallsStep /\ Wins(c.from))
    BY <1>1, <1>5, VoteStepPlain
  <2>2. c.from \in Server
    BY <1>1, TypeParts DEF TypeOK, VoteCall
  <2>3. CASE CallsStep /\ Wins(c.from)
    <3>1. LeaderInv'
      BY <1>1, <2>2, <2>3, LeaderStep
    <3>2. PICK M : M = [L EXCEPT ![currentTerm[c.from]] = log[c.from]]
      OBVIOUS
    <3>3. M \in History /\ Logs(M)'
      BY <1>1, <1>2, <2>2, <2>3, <3>2, WinLogs
    <3> QED BY <3>1, <3>3 DEF LogInv
  <2> QED BY <1>3, <2>1, <2>3
<1>6. ASSUME NEW c \in appendCalls, AppendStep(c)
      PROVE  LogInv'
  <2>1. CallsStep /\ NoWin /\ (Plain \/ AppendEntries(c.to, c))
    BY <1>1, <1>6, AppendStepKind
  <2>2. LeaderInv'
    BY <1>1, <2>1, LeaderStep
  <2>3. CASE AppendEntries(c.to, c)
    <3>1. Logs(L)'
      BY <1>1, <1>2, <2>1, <2>3, AppendEntriesLogs
    <3> QED BY <2>2, <3>1 DEF LogInv
  <2> QED BY <1>3, <2>1, <2>3
<1>7. CASE UNCHANGED vars
  <2>1. Plain
    BY <1>1, <1>7, CallsGo DEF vars, Plain, NoWin
  <2> QED BY <1>3, <2>1
<1> QED BY <1>4, <1>5, <1>6, <1>7 DEF Next

\* Logs that come from leaders match.
LEMMA LogsMatch == TypeInv /\ LogInv => LogMatching
<1> SUFFICES ASSUME TypeInv, LogInv, NEW i \in Server, NEW j \in Server,
                    NEW k \in 1..Minimum(Len(log[i]), Len(log[j])),
                    log[i][k].term = log[j][k].term
             PROVE  SubSeq(log[i], 1, k) = SubSeq(log[j], 1, k)
  BY DEF LogMatching
<1>1. /\ log[i] \in Seq(Entry) /\ log[j] \in Seq(Entry)
      /\ Len(log[i]) \in Nat /\ Len(log[j]) \in Nat
  <2>1. log \in [Server -> Seq(Entry)]
    BY TypeParts DEF TypeOK
  <2> QED BY <2>1, SMTT(30)
<1>2. k \in 1..Len(log[i]) /\ k <= Len(log[j])
  BY <1>1, SMTT(30) DEF Minimum
<1>3. PICK L \in History : Logs(L)
  BY DEF LogInv
<1>4. Agree(log[i], log[j], k)
  <2>1. k \in 1..Len(log[j])
    BY <1>1, <1>2, SMTT(30)
  <2> QED BY <1>2, <1>3, <2>1, OriginsAgree DEF Logs
<1>5. \A n \in 1..k : log[i][n] = log[j][n]
  BY <1>4 DEF Agree
<1> QED BY <1>1, <1>2, <1>5, SMTT(30)

\* Two logs that hold an entry of one term at one index are equal up to there,
\* whatever calls AppendEntries() is lost, repeated or late and wherever peers
\* crash.  The assumptions are the guarantees that the code lacks: with two
\* leaders of a term (late votes, line 387 of raft.go) or entries encoded after
\* rf.mu was released (line 580) it is false.
THEOREM LogMatchingHolds ==
    ASSUME "RequestVote" \notin LateReplies, ~LateEncoding
    PROVE  Spec => []LogMatching
<1>1. Init => VoteInv /\ ElectionInv /\ LogInv
  BY InitVote, InitElection, InitLog
<1>2. VoteInv /\ ElectionInv /\ LogInv /\ [Next]_vars => VoteInv' /\ ElectionInv' /\ LogInv'
  <2> SUFFICES ASSUME VoteInv, ElectionInv, LogInv, [Next]_vars
               PROVE  VoteInv' /\ ElectionInv' /\ LogInv'
    OBVIOUS
  <2>1. VoteInv' /\ ElectionInv'
    BY NextVoteInv, NextElection DEF VoteInv
  <2> QED BY <2>1, NextLog
<1>3. VoteInv /\ LogInv => LogMatching
  BY LogsMatch DEF VoteInv
<1> QED BY <1>1, <1>2, <1>3, PTL DEF Spec

-----------------------------------------------------------------------------
(***************************************************************************)
(* The invariant by which what is committed stays committed in module      *)
(* Raft, and what is enough for a step to keep it.                         *)
(*                                                                         *)
(* To the history L two more are added: A[v][t] is the largest index up to *)
(* which peer v told the leader of term t that it has its log, and W is    *)
(* the set of terms that were won.                                         *)
(***************************************************************************)

-----------------------------------------------------------------------------
(* Histories *)

Acks == [Server -> [Nat -> Nat]]

Quorums == {Q \in SUBSET Server : IsMajority(Cardinality(Q))}

\* Entry k of the leader of term t was made by that leader.
Own(L, t, k) == k \in 1..Len(L[t]) /\ L[t][k].term = t

\* The leaders of the terms between t and u all had what that of t had up to k.
Survives(L, W, k, t, u) == \A x \in W : t < x /\ x < u => Agree(L[t], L[x], k)

\* Log l has all that peer v may have helped to commit before term u.
Supports(L, A, W, v, u, l) ==
    \A t, k \in Nat :
        t < u /\ k <= A[v][t] /\ Own(L, t, k) /\ Survives(L, W, k, t, u) => Agree(L[t], l, k)

\* Peers with the terms ct, a majority, elected the leader of term u.
Backed(L, A, W, ct, u) ==
    \E Q \in Quorums : \A v \in Q : u <= ct[v] /\ Supports(L, A, W, v, u, L[u])

\* A majority acknowledged entry k of term t to the leader that made it.
Committed(L, A, k, t) == Own(L, t, k) /\ \E Q \in Quorums : \A v \in Q : k <= A[v][t]

\* The first n entries of log l are committed by leaders of terms up to t.
Holds(L, A, n, t, l) ==
    n = 0 \/ \E s, k \in Nat : s <= t /\ n <= k /\ Committed(L, A, k, s) /\ Agree(L[s], l, n)

GoodCall(L, A, c) ==
    /\ c.success => c.prevLogIndex + Len(c.entries) <= A[c.to][c.term]
    /\ c.phase = "reply" /\ ~c.success /\ c.replyTerm <= c.term
          => c.nextTryHint \in 1..Len(L[c.term]) + 1
    /\ c.leaderCommit <= c.prevLogIndex + Len(c.entries)
    /\ Holds(L, A, c.leaderCommit, c.term, L[c.term])

GoodDelivery(L, A, d) ==
    \E s, k \in Nat : Committed(L, A, k, s) /\ d[1] \in 1..k /\ L[s][d[1]] = d[2]

-----------------------------------------------------------------------------
(* The invariant *)

\* Acknowledgements are for entries the leader has, in terms the peer has seen.
AckInv(L, A) ==
    \A v \in Server, t \in Nat : A[v][t] <= Len(L[t]) /\ (A[v][t] > 0 => t <= currentTerm[v])

\* What a peer acknowledged it has, unless a later leader had not.
Stored(L, A, W) ==
    \A v \in Server : \A t, k \in Nat :
        k <= A[v][t] /\ Survives(L, W, k, t, currentTerm[v] + 1) => Agree(L[t], log[v], k)

\* Peer i is a candidate of term t, which nobody won yet.
Standing(i, t, W) == state[i] = "candidate" /\ currentTerm[i] = t /\ t \notin W

\* The calls of candidates describe their logs.
VoteCallInv(W) ==
    \A c \in voteCalls : Standing(c.from, c.term, W) =>
        c.lastLogIndex = Len(log[c.from]) /\ c.lastLogTerm = LastTerm(log[c.from])

GoodVote(L, A, W, w) ==
    /\ w[2] <= currentTerm[w[3]]
    /\ Standing(w[3], w[2], W) => Supports(L, A, W, w[1], w[2], log[w[3]])

\* What leader i believes of its peers is what they acknowledged.
GoodLeader(A, i) ==
    /\ A[i][currentTerm[i]] = Len(log[i])
    /\ \A j \in Peers(i) : /\ matchIndex[i][j] <= A[j][currentTerm[i]]
                           /\ nextIndex[i][j] \in 1..Len(log[i]) + 1

Safe(L, A, W) ==
    /\ W = {t \in Nat : Won(t)}
    /\ AckInv(L, A)
    /\ Stored(L, A, W)
    /\ VoteCallInv(W)
    /\ \A w \in votes : GoodVote(L, A, W, w)
    /\ \A u \in W : Backed(L, A, W, currentTerm, u)
    /\ \A i \in Server : state[i] = "leader" => GoodLeader(A, i)
    /\ \A c \in appendCalls : GoodCall(L, A, c)
    /\ \A i \in Server : Holds(L, A, commitIndex[i], currentTerm[i], log[i])
    /\ \A d \in delivered : GoodDelivery(L, A, d)

\* There are such histories.
Safety == \E L \in History, A \in Acks, W \in SUBSET Nat : Logs(L) /\ Safe(L, A, W)

SafetyInv == LeaderInv /\ Safety

-----------------------------------------------------------------------------
(* Majorities and committed entries *)

\* The logs of leaders are logs.
LEMMA HistoryType ==
    ASSUME NEW L \in History, NEW t \in Nat
    PROVE  L[t] \in Seq(Entry) /\ Len(L[t]) \in Nat
<1>1. L[t] \in Seq(Entry)
  BY DEF History
<1> QED BY <1>1, SMTT(30)

\* Acknowledgements are indices.
LEMMA AckType ==
    ASSUME NEW A \in Acks, NEW v \in Server, NEW t \in Nat
    PROVE  A[v][t] \in Nat
BY DEF Acks

\* Two majorities share a peer.
LEMMA QuorumsMeet ==
    ASSUME NEW Q \in Quorums, NEW R \in Quorums
    PROVE  \E v \in Server : v \in Q /\ v \in R
<1>1. Q \subseteq Server /\ R \subseteq Server
  BY DEF Quorums
<1>2. Cardinality(Q) \in Nat /\ Cardinality(R) \in Nat /\ Cardinality(Server) \in Nat
  BY <1>1, VotersFinite, FS_CardinalityType, ServerAssumption
<1>3. Cardinality(Q) + Cardinality(R) > Cardinality(Server)
  BY <1>2, SMTT(30) DEF Quorums, IsMajority
<1>4. Q \cap R # {}
  BY <1>1, <1>3, FS_MajoritiesIntersect, ServerAssumption
<1> QED BY <1>1, <1>4

\* A non-empty set of terms has a first one.
LEMMA FirstTerm ==
    ASSUME NEW S \in SUBSET Nat, S # {}
    PROVE  \E x \in S : \A y \in S : x <= y
<1>1. PICK x \in S : \A y \in S : ~(<<y, x>> \in OpToRel(<, Nat))
  BY NatLessThanWellFounded, WFMin
<1>2. \A y \in S : ~(y < x)
  BY <1>1 DEF OpToRel
<1>3. \A y \in S : x <= y
  BY <1>2, SMTT(30)
<1> QED BY <1>3

\* What survives up to a term survives up to every earlier one.
LEMMA SurvivesLess ==
    ASSUME NEW L, NEW W \in SUBSET Nat, NEW k, NEW t \in Nat, NEW u \in Nat, NEW x \in Nat,
           Survives(L, W, k, t, u), x <= u
    PROVE  Survives(L, W, k, t, x)
BY SMTT(30) DEF Survives

\* The leader of a later term has what is committed: the first one that had not
\* would have been elected by a majority, and so by a peer that helped to commit.
LEMMA Completeness ==
    ASSUME NEW L \in History, NEW A, NEW W \in SUBSET Nat, NEW ct,
           \A u \in W : Backed(L, A, W, ct, u),
           NEW t \in Nat, NEW k \in Nat, Committed(L, A, k, t), NEW u \in W, t < u
    PROVE  Agree(L[t], L[u], k)
<1> DEFINE Bad == {x \in W : t < x /\ ~Agree(L[t], L[x], k)}
<1> SUFFICES ASSUME Bad # {}
             PROVE  FALSE
  OBVIOUS
<1>1. PICK x \in Bad : \A y \in Bad : x <= y
  BY FirstTerm
<1>2. x \in W /\ x \in Nat /\ t < x /\ ~Agree(L[t], L[x], k)
  BY <1>1
<1>3. Survives(L, W, k, t, x)
  <2> SUFFICES ASSUME NEW y \in W, t < y, y < x
               PROVE  Agree(L[t], L[y], k)
    BY DEF Survives
  <2>1. y \notin Bad
    BY <1>1, <1>2, SMTT(30)
  <2> QED BY <2>1
<1>4. PICK Q \in Quorums : \A v \in Q : k <= A[v][t]
  BY DEF Committed
<1>5. PICK R \in Quorums : \A v \in R : Supports(L, A, W, v, x, L[x])
  BY <1>2 DEF Backed
<1>6. PICK v \in Server : v \in Q /\ v \in R
  BY QuorumsMeet
<1>7. k <= A[v][t] /\ Supports(L, A, W, v, x, L[x]) /\ Own(L, t, k)
  BY <1>4, <1>5, <1>6 DEF Committed
<1> QED BY <1>2, <1>3, <1>7 DEF Supports

\* Whoever holds committed entries agrees on them with the leaders of later
\* terms, and with the one of its own.
LEMMA HoldsLeader ==
    ASSUME NEW L \in History, NEW A, NEW W \in SUBSET Nat, NEW ct,
           \A u \in W : Backed(L, A, W, ct, u),
           NEW n \in Nat, NEW t \in Nat, NEW l \in Seq(Entry), Holds(L, A, n, t, l),
           NEW u \in W, t <= u
    PROVE  Agree(L[u], l, n)
<1>1. u \in Nat /\ L[u] \in Seq(Entry) /\ Len(L[u]) \in Nat /\ Len(l) \in Nat
  BY HistoryType, SMTT(30)
<1>2. CASE n = 0
  BY <1>1, <1>2, SMTT(30) DEF Agree
<1>3. CASE n # 0
  <2>1. PICK s, k \in Nat : s <= t /\ n <= k /\ Committed(L, A, k, s) /\ Agree(L[s], l, n)
    BY <1>3 DEF Holds
  <2>2. CASE s = u
    BY <2>1, <2>2
  <2>3. CASE s # u
    <3>1. s < u
      BY <1>1, <2>1, <2>3, SMTT(30)
    <3>2. Agree(L[s], L[u], k)
      BY <2>1, <3>1, Completeness
    <3>3. Agree(L[s], L[u], n)
      BY <1>1, <2>1, <3>2, AgreeLess, HistoryType
    <3> QED BY <2>1, <3>3, AgreeSymmetric, AgreeTransitive
  <2> QED BY <2>2, <2>3
<1> QED BY <1>2, <1>3

\* RequestVote(): a candidate whose log is at least as up to date as the one of
\* its voter has all that the voter has and that later leaders had.
LEMMA UpToDateAgrees ==
    ASSUME NEW L \in History, NEW W \in SUBSET Nat,
           \A x \in Nat : TermsUpTo(x, L[x]) /\ (x \notin W => L[x] = << >>),
           NEW l \in Seq(Entry), Origin(L, l), NEW m \in Seq(Entry), Origin(L, m),
           NEW u \in Nat, u \notin W, TermsUpTo(u, l), UpToDate(LastTerm(l), Len(l), m),
           NEW t \in Nat, NEW k \in Nat, t < u, Own(L, t, k), Survives(L, W, k, t, u),
           Agree(L[t], m, k)
    PROVE  Agree(L[t], l, k)
<1> DEFINE n == Len(l)
           y == LastTerm(m)
           x == LastTerm(l)
<1>1. /\ n \in Nat /\ Len(m) \in Nat /\ L[t] \in Seq(Entry) /\ Len(L[t]) \in Nat
      /\ x \in Nat /\ y \in Nat
  <2>1. n \in 0..n /\ Len(m) \in 0..Len(m) /\ Len(m) \in Nat
    BY SMTT(30)
  <2>2. x \in Nat /\ y \in Nat
    BY <2>1, TermAtType DEF LastTerm
  <2> QED BY <2>1, <2>2, HistoryType, SMTT(30)
<1>2. k \in 1..Len(m) /\ m[k] = L[t][k] /\ m[k].term = t
  BY <1>1, SMTT(30) DEF Own, Agree
<1>3. Len(m) \in 1..Len(m) /\ y = m[Len(m)].term
  BY <1>1, <1>2, SMTT(30) DEF LastTerm, TermAt
<1>4. Agree(m, L[y], Len(m)) /\ TermsUpTo(y, L[y]) /\ L[y] \in Seq(Entry) /\ Len(L[y]) \in Nat
  <2>1. Agree(m, L[y], Len(m))
    BY <1>3 DEF Origin
  <2> QED BY <1>1, <2>1, HistoryType
<1>5. t <= y
  <2>1. k \in 1..Len(L[y]) /\ L[y][k] = m[k]
    BY <1>1, <1>2, <1>4, SMTT(30) DEF Agree
  <2> QED BY <1>2, <1>4, <2>1 DEF TermsUpTo
<1>6. x > y \/ (x = y /\ n >= Len(m))
  BY DEF UpToDate
<1>7. n # 0
  <2>1. n = 0 => x = 0
    BY DEF LastTerm, TermAt
  <2> QED BY <1>1, <1>2, <1>6, <2>1, SMTT(30)
<1>8. n \in 1..n /\ x = l[n].term
  BY <1>1, <1>7, SMTT(30) DEF LastTerm, TermAt
<1>9. Agree(l, L[x], n) /\ x <= u /\ L[x] \in Seq(Entry) /\ Len(L[x]) \in Nat
  <2>1. Agree(l, L[x], n) /\ x <= u
    BY <1>8 DEF Origin, TermsUpTo
  <2> QED BY <1>1, <2>1, HistoryType
<1>10. x \in W /\ x < u
  <2>1. L[x] # << >>
    <3>1. Len(L[x]) # 0
      BY <1>1, <1>7, <1>9, SMTT(30) DEF Agree
    <3> QED BY <3>1, SMTT(30)
  <2>2. x \in W
    BY <1>1, <2>1
  <2> QED BY <1>1, <1>9, <2>2, SMTT(30)
<1> HIDE DEF n, x, y
<1>11. CASE x = y
  <2>1. n >= Len(m) /\ k <= n
    BY <1>1, <1>2, <1>6, <1>11, SMTT(30)
  <2>2. Agree(l, L[x], k) /\ Agree(m, L[x], k)
    BY <1>1, <1>2, <1>4, <1>9, <1>11, <2>1, AgreeLess, SMTT(30)
  <2> QED BY <2>2, AgreeSymmetric, AgreeTransitive
<1>12. CASE x # y
  <2>1. t < x
    BY <1>1, <1>5, <1>6, <1>12, SMTT(30)
  <2>2. Agree(L[t], L[x], k)
    BY <1>10, <2>1 DEF Survives
  <2>3. k <= n
    <3> SUFFICES ASSUME n < k
                 PROVE  FALSE
      BY <1>1, SMTT(30)
    <3>1. n \in 1..k /\ n \in 1..Len(L[t])
      BY <1>1, <1>8, <2>2, SMTT(30) DEF Agree
    <3>2. L[t][n] = l[n]
      BY <1>8, <1>9, <2>2, <3>1 DEF Agree
    <3>3. x <= t
      BY <1>8, <3>1, <3>2 DEF TermsUpTo
    <3> QED BY <1>1, <2>1, <3>3, SMTT(30)
  <2>4. Agree(l, L[x], k)
    BY <1>1, <1>9, <2>3, AgreeLess
  <2> QED BY <2>2, <2>4, AgreeSymmetric, AgreeTransitive
<1> QED BY <1>11, <1>12

-----------------------------------------------------------------------------
(* Later histories *)

\* A leader in office adds entries of its own term, and peers acknowledge more.
Later(L, A, W, M, B, X) ==
    /\ Grows(L, M)
    /\ W \subseteq X
    /\ \A x \in W : \A k \in Len(L[x]) + 1 .. Len(M[x]) : M[x][k].term = x
    /\ \A v \in Server, t \in Nat : A[v][t] <= B[v][t]

\* A history is no earlier than itself.
LEMMA LaterSelf ==
    ASSUME NEW L \in History, NEW A \in Acks, NEW W \in SUBSET Nat
    PROVE  Later(L, A, W, L, A, W)
<1>1. \A x \in W : Len(L[x]) \in Nat /\ Len(L[x]) + 1 .. Len(L[x]) = {}
  BY SMTT(30) DEF History
<1>2. \A v \in Server, t \in Nat : A[v][t] <= A[v][t]
  BY SMTT(30) DEF Acks
<1> QED BY <1>1, <1>2, GrowsSelf DEF Later

\* What the leader of term t made stays in its log.
LEMMA OwnLater ==
    ASSUME NEW L \in History, NEW M \in History, Grows(L, M), NEW t \in Nat, NEW k \in Nat,
           k <= Len(L[t])
    PROVE  Own(L, t, k) <=> Own(M, t, k)
<1>1. Len(L[t]) \in Nat /\ Len(M[t]) \in Nat
  BY HistoryType
<1>2. Agree(L[t], M[t], Len(L[t]))
  BY DEF Grows
<1> QED BY <1>1, <1>2, SMTT(30) DEF Own, Agree

\* What survives in a later history survived before.
LEMMA SurvivesBack ==
    ASSUME NEW L \in History, NEW A, NEW W \in SUBSET Nat,
           NEW M \in History, NEW B, NEW X \in SUBSET Nat, Later(L, A, W, M, B, X),
           NEW t \in Nat, NEW u \in Nat, NEW k \in Nat, k <= Len(L[t]), TermsUpTo(t, L[t]),
           Survives(M, X, k, t, u)
    PROVE  Survives(L, W, k, t, u)
<1> SUFFICES ASSUME NEW x \in W, t < x, x < u
             PROVE  Agree(L[t], L[x], k)
  BY DEF Survives
<1>1. /\ x \in Nat /\ x \in X
      /\ L[t] \in Seq(Entry) /\ M[t] \in Seq(Entry) /\ L[x] \in Seq(Entry) /\ M[x] \in Seq(Entry)
      /\ Len(L[t]) \in Nat /\ Len(M[t]) \in Nat /\ Len(L[x]) \in Nat /\ Len(M[x]) \in Nat
  <2>1. x \in Nat /\ x \in X
    BY DEF Later
  <2> QED BY <2>1, HistoryType
<1>2. Agree(L[t], M[t], Len(L[t])) /\ Agree(L[x], M[x], Len(L[x]))
  BY <1>1 DEF Later, Grows
<1>3. Agree(L[t], M[x], k)
  <2>1. Agree(M[t], M[x], k)
    BY <1>1 DEF Survives
  <2>2. Agree(L[t], M[t], k)
    BY <1>1, <1>2, AgreeLess
  <2> QED BY <2>1, <2>2, AgreeTransitive
<1>4. k <= Len(L[x])
  <2> SUFFICES ASSUME Len(L[x]) < k
               PROVE  FALSE
    BY <1>1, SMTT(30)
  <2> DEFINE n == Len(L[x]) + 1
  <2>1. n \in 1..k /\ n \in n..Len(M[x]) /\ n \in 1..Len(L[t])
    BY <1>1, <1>3, SMTT(30) DEF Agree
  <2>2. M[x][n].term = x /\ L[t][n] = M[x][n]
    BY <1>3, <2>1 DEF Later, Agree
  <2>3. L[t][n].term <= t
    BY <2>1 DEF TermsUpTo
  <2> QED BY <1>1, <2>2, <2>3, SMTT(30)
<1>5. Agree(L[x], M[x], k)
  BY <1>1, <1>2, <1>4, AgreeLess
<1> QED BY <1>3, <1>5, AgreeSymmetric, AgreeTransitive

\* What a peer helped to commit stays in a log that only grows.
LEMMA SupportsLater ==
    ASSUME NEW L \in History, NEW A \in Acks, NEW W \in SUBSET Nat,
           NEW M \in History, NEW B \in Acks, NEW X \in SUBSET Nat, Later(L, A, W, M, B, X),
           NEW v \in Server, NEW u \in Nat,
           \A t \in Nat : TermsUpTo(t, L[t]) /\ A[v][t] <= Len(L[t]),
           \A t \in Nat : t < u => B[v][t] = A[v][t],
           NEW l \in Seq(Entry), NEW m \in Seq(Entry), Agree(l, m, Len(l)),
           Supports(L, A, W, v, u, l)
    PROVE  Supports(M, B, X, v, u, m)
<1> SUFFICES ASSUME NEW t \in Nat, NEW k \in Nat, t < u, k <= B[v][t], Own(M, t, k),
                    Survives(M, X, k, t, u)
             PROVE  Agree(M[t], m, k)
  BY DEF Supports
<1>1. Len(L[t]) \in Nat /\ A[v][t] \in Nat /\ B[v][t] = A[v][t] /\ Grows(L, M)
  BY HistoryType DEF Acks, Later
<1>2. k <= A[v][t] /\ k <= Len(L[t])
  BY <1>1, SMTT(30)
<1>3. Own(L, t, k) /\ Survives(L, W, k, t, u)
  BY <1>1, <1>2, OwnLater, SurvivesBack
<1>4. Agree(L[t], l, k)
  BY <1>2, <1>3 DEF Supports
<1>5. Agree(l, M[t], k)
  BY <1>1, <1>4, AgreeSymmetric, GrowsAgree
<1>6. Agree(l, m, k)
  <2>1. Len(l) \in Nat /\ k <= Len(l)
    BY <1>4, SMTT(30) DEF Agree
  <2> QED BY <2>1, AgreeLess
<1> QED BY <1>5, <1>6, AgreeSymmetric, AgreeTransitive

\* What is committed stays committed.
LEMMA CommittedLater ==
    ASSUME NEW L \in History, NEW A \in Acks, NEW M \in History, NEW B \in Acks, Grows(L, M),
           \A v \in Server, t \in Nat : A[v][t] <= B[v][t],
           NEW t \in Nat, NEW k \in Nat, Committed(L, A, k, t)
    PROVE  Committed(M, B, k, t)
<1>1. Own(M, t, k)
  <2>1. Own(L, t, k) /\ k <= Len(L[t])
    BY SMTT(30) DEF Committed, Own
  <2> QED BY <2>1, OwnLater
<1>2. PICK Q \in Quorums : \A v \in Q : k <= A[v][t]
  BY DEF Committed
<1>3. ASSUME NEW v \in Q
      PROVE  k <= B[v][t]
  <2>1. v \in Server
    BY DEF Quorums
  <2>2. A[v][t] \in Nat /\ B[v][t] \in Nat /\ A[v][t] <= B[v][t]
    BY <2>1 DEF Acks
  <2> QED BY <1>2, <2>2, SMTT(30)
<1> QED BY <1>1, <1>3 DEF Committed

\* Committed entries of a log stay committed while they stay in it.
LEMMA HoldsLater ==
    ASSUME NEW L \in History, NEW A \in Acks, NEW M \in History, NEW B \in Acks, Grows(L, M),
           \A v \in Server, t \in Nat : A[v][t] <= B[v][t],
           NEW n \in Nat, NEW t \in Nat, NEW u \in Nat, t <= u, NEW l, NEW m,
           Agree(l, m, n), Holds(L, A, n, t, l)
    PROVE  Holds(M, B, n, u, m)
<1>1. CASE n = 0
  BY <1>1 DEF Holds
<1>2. CASE n # 0
  <2>1. PICK s, k \in Nat : s <= t /\ n <= k /\ Committed(L, A, k, s) /\ Agree(L[s], l, n)
    BY <1>2 DEF Holds
  <2>2. Committed(M, B, k, s)
    BY <2>1, CommittedLater
  <2>3. Agree(l, M[s], n)
    BY <2>1, AgreeSymmetric, GrowsAgree
  <2>4. Agree(M[s], m, n)
    BY <2>3, AgreeSymmetric, AgreeTransitive
  <2>5. s <= u
    BY <2>1, SMTT(30)
  <2> QED BY <2>1, <2>2, <2>4, <2>5 DEF Holds
<1> QED BY <1>1, <1>2

\* Calls and deliveries stay good.
LEMMA GoodCallLater ==
    ASSUME NEW L \in History, NEW A \in Acks, NEW M \in History, NEW B \in Acks, Grows(L, M),
           \A v \in Server, t \in Nat : A[v][t] <= B[v][t],
           NEW c \in AppendCall, GoodCall(L, A, c)
    PROVE  GoodCall(M, B, c)
<1>1. /\ c.to \in Server /\ c.term \in Nat /\ c.prevLogIndex \in Nat /\ Len(c.entries) \in Nat
      /\ c.leaderCommit \in Nat /\ c.nextTryHint \in Nat
  BY SMTT(30) DEF AppendCall
<1>2. /\ A[c.to][c.term] \in Nat /\ B[c.to][c.term] \in Nat /\ A[c.to][c.term] <= B[c.to][c.term]
  BY <1>1 DEF Acks
<1>3. /\ L[c.term] \in Seq(Entry) /\ Len(L[c.term]) \in Nat /\ Len(M[c.term]) \in Nat
      /\ M[c.term] \in Seq(Entry)
  BY <1>1, HistoryType
<1>4. Agree(L[c.term], M[c.term], Len(L[c.term])) /\ Len(L[c.term]) <= Len(M[c.term])
  BY <1>1 DEF Grows, Agree
<1>5. c.success => c.prevLogIndex + Len(c.entries) <= B[c.to][c.term]
  BY <1>1, <1>2, SMTT(30) DEF GoodCall
<1>6. c.phase = "reply" /\ ~c.success /\ c.replyTerm <= c.term
          => c.nextTryHint \in 1..Len(M[c.term]) + 1
  BY <1>1, <1>3, <1>4, SMTT(30) DEF GoodCall
<1>7. Holds(M, B, c.leaderCommit, c.term, M[c.term])
  <2>1. Holds(L, A, c.leaderCommit, c.term, L[c.term])
    BY DEF GoodCall
  <2>2. CASE c.leaderCommit = 0
    BY <2>2 DEF Holds
  <2>3. CASE c.leaderCommit # 0
    <3>1. c.leaderCommit <= Len(L[c.term])
      BY <2>1, <2>3 DEF Holds, Agree
    <3>2. Agree(L[c.term], M[c.term], c.leaderCommit)
      BY <1>1, <1>3, <1>4, <3>1, AgreeLess
    <3> QED BY <1>1, <2>1, <3>2, HoldsLater, SMTT(30)
  <2> QED BY <2>2, <2>3
<1> QED BY <1>5, <1>6, <1>7 DEF GoodCall

\* The same for deliveries.
LEMMA GoodDeliveryLater ==
    ASSUME NEW L \in History, NEW A \in Acks, NEW M \in History, NEW B \in Acks, Grows(L, M),
           \A v \in Server, t \in Nat : A[v][t] <= B[v][t],
           NEW d, d[1] \in Nat, GoodDelivery(L, A, d)
    PROVE  GoodDelivery(M, B, d)
<1>1. PICK s, k \in Nat : Committed(L, A, k, s) /\ d[1] \in 1..k /\ L[s][d[1]] = d[2]
  BY DEF GoodDelivery
<1>2. Committed(M, B, k, s)
  BY <1>1, CommittedLater
<1>3. Len(L[s]) \in Nat /\ k <= Len(L[s]) /\ Agree(L[s], M[s], Len(L[s]))
  BY <1>1, HistoryType, SMTT(30) DEF Committed, Own, Grows
<1>4. M[s][d[1]] = d[2]
  BY <1>1, <1>3, SMTT(30) DEF Agree
<1> QED BY <1>1, <1>2, <1>4 DEF GoodDelivery

-----------------------------------------------------------------------------
(* What a step does to the history *)

Advance(L, A, W, M, B, X) ==
    /\ Later(L, A, W, M, B, X)
    /\ X = {t \in Nat : Won(t)'}
    /\ \A i \in Server : currentTerm'[i] >= currentTerm[i]
    \* What is acknowledged in the step is stored.
    /\ \A v \in Server, t \in Nat :
        \/ B[v][t] = A[v][t]
        \/ t = currentTerm'[v] /\ Agree(M[t], log'[v], B[v][t])
    \* What was acknowledged before, and the leaders since had, is kept.
    /\ \A v \in Server : \A t, k \in Nat :
        k <= A[v][t] /\ Survives(L, W, k, t, currentTerm'[v] + 1) /\ Agree(L[t], log[v], k)
            => Agree(L[t], log'[v], k)
    \* Who wins has the votes of a majority.
    /\ \A u \in X \ W : Backed(M, B, X, currentTerm', u)
    \* The log of a candidate does not change.
    /\ \A i \in Server, t \in Nat :
        Standing(i, t, X)' /\ t <= currentTerm[i] => Standing(i, t, W) /\ log'[i] = log[i]

\* The history part of the invariant.
LEMMA AckStep ==
    ASSUME TypeInv, TypeInv', NEW L \in History, NEW A \in Acks, NEW W \in SUBSET Nat,
           NEW M \in History, NEW B \in Acks, NEW X \in SUBSET Nat,
           AckInv(L, A), Advance(L, A, W, M, B, X)
    PROVE  AckInv(M, B)'
<1> SUFFICES ASSUME NEW v \in Server, NEW t \in Nat
             PROVE  B[v][t] <= Len(M[t]) /\ (B[v][t] > 0 => t <= currentTerm'[v])
  BY DEF AckInv
<1>1. /\ A[v][t] \in Nat /\ B[v][t] \in Nat /\ currentTerm[v] \in Nat /\ currentTerm'[v] \in Nat
  <2>1. currentTerm[v] \in Nat /\ currentTerm'[v] \in Nat
    BY TypeParts DEF TypeOK
  <2> QED BY <2>1, AckType
<1>2. Len(L[t]) \in Nat /\ Len(M[t]) \in Nat /\ Len(L[t]) <= Len(M[t])
  BY HistoryType DEF Advance, Later, Grows, Agree
<1>3. CASE B[v][t] = A[v][t]
  BY <1>1, <1>2, <1>3, SMTT(30) DEF AckInv, Advance
<1>4. CASE t = currentTerm'[v] /\ Agree(M[t], log'[v], B[v][t])
  BY <1>1, <1>4, SMTT(30) DEF Agree
<1> QED BY <1>3, <1>4 DEF Advance

\* A peer still has what it acknowledged: it drops an entry only for the log of a
\* leader that did not have it.
LEMMA StoredStep ==
    ASSUME TypeInv, TypeInv', NEW L \in History, NEW A \in Acks, NEW W \in SUBSET Nat,
           NEW M \in History, NEW B \in Acks, NEW X \in SUBSET Nat,
           AckInv(L, A), Stored(L, A, W), \A t \in Nat : TermsUpTo(t, L[t]),
           Advance(L, A, W, M, B, X)
    PROVE  Stored(M, B, X)'
<1> SUFFICES ASSUME NEW v \in Server, NEW t \in Nat, NEW k \in Nat, k <= B[v][t],
                    Survives(M, X, k, t, currentTerm'[v] + 1)
             PROVE  Agree(M[t], log'[v], k)
  BY DEF Stored
<1>1. /\ A[v][t] \in Nat /\ B[v][t] \in Nat /\ currentTerm[v] \in Nat /\ currentTerm'[v] \in Nat
      /\ log'[v] \in Seq(Entry) /\ currentTerm'[v] >= currentTerm[v]
      /\ currentTerm[v] + 1 \in Nat /\ currentTerm'[v] + 1 \in Nat
  <2>1. /\ currentTerm[v] \in Nat /\ currentTerm'[v] \in Nat /\ log'[v] \in Seq(Entry)
        /\ currentTerm'[v] >= currentTerm[v]
    BY TypeParts DEF TypeOK, Advance
  <2>2. A[v][t] \in Nat /\ B[v][t] \in Nat
    BY AckType
  <2> QED BY <2>1, <2>2, SMTT(30)
<1>2. M[t] \in Seq(Entry) /\ Len(L[t]) \in Nat /\ Grows(L, M) /\ Later(L, A, W, M, B, X)
  BY HistoryType DEF Advance, Later
<1>3. CASE k <= A[v][t]
  <2>1. k <= Len(L[t])
    BY <1>1, <1>2, <1>3, SMTT(30) DEF AckInv
  <2>2. Survives(L, W, k, t, currentTerm'[v] + 1)
    BY <1>1, <1>2, <2>1, SurvivesBack
  <2>3. Survives(L, W, k, t, currentTerm[v] + 1)
    BY <1>1, <2>2, SurvivesLess, SMTT(30)
  <2>4. Agree(L[t], log[v], k)
    BY <1>3, <2>3 DEF Stored
  <2>5. Agree(L[t], log'[v], k)
    BY <1>3, <2>2, <2>4 DEF Advance
  <2> QED BY <1>2, <2>5, AgreeSymmetric, GrowsAgree
<1>4. CASE ~(k <= A[v][t])
  <2>1. Agree(M[t], log'[v], B[v][t])
    BY <1>4 DEF Advance
  <2> QED BY <1>1, <1>2, <2>1, AgreeLess
<1> QED BY <1>3, <1>4

\* A peer that has seen term u acknowledges nothing any more in earlier terms.
LEMMA SupportsStep ==
    ASSUME TypeInv, TypeInv', NEW L \in History, NEW A \in Acks, NEW W \in SUBSET Nat,
           NEW M \in History, NEW B \in Acks, NEW X \in SUBSET Nat,
           AckInv(L, A), \A t \in Nat : TermsUpTo(t, L[t]), Advance(L, A, W, M, B, X),
           NEW v \in Server, NEW u \in Nat, u <= currentTerm[v],
           NEW l \in Seq(Entry), NEW m \in Seq(Entry), Agree(l, m, Len(l)),
           Supports(L, A, W, v, u, l)
    PROVE  u <= currentTerm'[v] /\ Supports(M, B, X, v, u, m)
<1>1. currentTerm[v] \in Nat /\ currentTerm'[v] \in Nat /\ currentTerm'[v] >= currentTerm[v]
  BY TypeParts DEF TypeOK, Advance
<1>2. ASSUME NEW t \in Nat, t < u
      PROVE  B[v][t] = A[v][t]
  <2>1. t # currentTerm'[v]
    BY <1>1, <1>2, SMTT(30)
  <2> QED BY <2>1 DEF Advance
<1>3. Later(L, A, W, M, B, X) /\ \A t \in Nat : A[v][t] <= Len(L[t])
  BY DEF Advance, AckInv
<1>4. Supports(M, B, X, v, u, m)
  BY <1>2, <1>3, SupportsLater
<1> QED BY <1>1, <1>4, SMTT(30)

\* Leaders stay elected by a majority that supports their logs.
LEMMA BackedStep ==
    ASSUME TypeInv, TypeInv', NEW L \in History, NEW A \in Acks, NEW W \in SUBSET Nat,
           NEW M \in History, NEW B \in Acks, NEW X \in SUBSET Nat,
           AckInv(L, A), \A t \in Nat : TermsUpTo(t, L[t]), Advance(L, A, W, M, B, X),
           \A u \in W : Backed(L, A, W, currentTerm, u)
    PROVE  \A u \in X : Backed(M, B, X, currentTerm', u)
<1> SUFFICES ASSUME NEW u \in W
             PROVE  Backed(M, B, X, currentTerm', u)
  BY DEF Advance
<1>1. PICK Q \in Quorums : \A v \in Q : u <= currentTerm[v] /\ Supports(L, A, W, v, u, L[u])
  BY DEF Backed
<1>2. /\ u \in Nat /\ L[u] \in Seq(Entry) /\ M[u] \in Seq(Entry)
      /\ Agree(L[u], M[u], Len(L[u]))
  BY HistoryType DEF Advance, Later, Grows
<1>3. ASSUME NEW v \in Q
      PROVE  u <= currentTerm'[v] /\ Supports(M, B, X, v, u, M[u])
  <2>1. v \in Server
    BY DEF Quorums
  <2> QED BY <1>1, <1>2, <2>1, SupportsStep
<1> QED BY <1>3 DEF Backed

\* A vote for a candidate that still stands supports its log.
LEMMA VotesStep ==
    ASSUME TypeInv, TypeInv', NEW L \in History, NEW A \in Acks, NEW W \in SUBSET Nat,
           NEW M \in History, NEW B \in Acks, NEW X \in SUBSET Nat, VoteRemembered,
           AckInv(L, A), \A t \in Nat : TermsUpTo(t, L[t]), Advance(L, A, W, M, B, X),
           NEW w \in votes, GoodVote(L, A, W, w)
    PROVE  GoodVote(M, B, X, w)'
<1>1. w[1] \in Server /\ w[2] \in Nat /\ w[3] \in Server /\ w[2] <= currentTerm[w[1]]
  BY TypeParts DEF TypeOK, VoteRemembered
<1>2. /\ currentTerm[w[3]] \in Nat /\ currentTerm'[w[3]] \in Nat /\ log[w[3]] \in Seq(Entry)
      /\ currentTerm'[w[3]] >= currentTerm[w[3]] /\ w[2] <= currentTerm[w[3]]
  BY <1>1, TypeParts DEF TypeOK, Advance, GoodVote
<1>3. w[2] <= currentTerm'[w[3]]
  BY <1>1, <1>2, SMTT(30)
<1>4. ASSUME Standing(w[3], w[2], X)'
      PROVE  Supports(M, B, X, w[1], w[2], log'[w[3]])
  <2>1. Standing(w[3], w[2], W) /\ log'[w[3]] = log[w[3]]
    BY <1>1, <1>2, <1>4 DEF Advance
  <2>2. Supports(L, A, W, w[1], w[2], log[w[3]])
    BY <2>1 DEF GoodVote
  <2>3. Len(log[w[3]]) \in Nat /\ Len(log[w[3]]) <= Len(log[w[3]])
    BY <1>2, SMTT(30)
  <2>4. Agree(log[w[3]], log'[w[3]], Len(log[w[3]]))
    BY <1>2, <2>1, <2>3, AgreeSelf
  <2> QED BY <1>1, <1>2, <2>1, <2>2, <2>4, SupportsStep, SMTT(30)
<1> QED BY <1>3, <1>4 DEF GoodVote

-----------------------------------------------------------------------------
(* What a step does to the rest: each piece of state is kept, or is good *)

VotesGo(M, B, X) == \A w \in votes' : w \in votes \/ GoodVote(M, B, X, w)'

VoteCallsGo ==
    \A c \in voteCalls' :
        \/ c.lastLogIndex = Len(log'[c.from]) /\ c.lastLogTerm = LastTerm(log'[c.from])
        \/ \E d \in voteCalls :
            SameCall(c, d) /\ c.lastLogIndex = d.lastLogIndex /\ c.lastLogTerm = d.lastLogTerm

LeadersGo(B) ==
    \A i \in Server : state'[i] = "leader" =>
        \/ GoodLeader(B, i)'
        \/ /\ state[i] = "leader" /\ currentTerm'[i] = currentTerm[i] /\ log'[i] = log[i]
           /\ matchIndex'[i] = matchIndex[i] /\ nextIndex'[i] = nextIndex[i]

AppendCallsGo(M, B) == \A c \in appendCalls' : c \in appendCalls \/ GoodCall(M, B, c)

CommitsGo(M, B) ==
    \A i \in Server :
        \/ commitIndex'[i] = commitIndex[i] /\ log'[i] = log[i]
        \/ Holds(M, B, commitIndex'[i], currentTerm'[i], log'[i])

DeliveriesGo(M, B) == \A d \in delivered' : d \in delivered \/ GoodDelivery(M, B, d)

\* The calls of candidates still describe their logs.
LEMMA VoteCallsStep ==
    ASSUME TypeInv, TypeInv', CallsSound, NEW W, NEW X, VoteCallInv(W), VoteCallsGo,
           \A i \in Server, t \in Nat :
              Standing(i, t, X)' /\ t <= currentTerm[i] => Standing(i, t, W) /\ log'[i] = log[i]
    PROVE  VoteCallInv(X)'
<1> SUFFICES ASSUME NEW c \in voteCalls', Standing(c.from, c.term, X)'
             PROVE  c.lastLogIndex = Len(log'[c.from]) /\ c.lastLogTerm = LastTerm(log'[c.from])
  BY DEF VoteCallInv, LastTerm, TermAt
<1>1. ASSUME NEW d \in voteCalls, SameCall(c, d),
             c.lastLogIndex = d.lastLogIndex, c.lastLogTerm = d.lastLogTerm
      PROVE  c.lastLogIndex = Len(log'[c.from]) /\ c.lastLogTerm = LastTerm(log'[c.from])
  <2>1. d.from \in Server /\ d.term \in Nat /\ d.term <= currentTerm[d.from]
    BY TypeParts DEF TypeOK, VoteCall, CallsSound
  <2>2. c.from = d.from /\ c.term = d.term
    BY <1>1 DEF SameCall
  <2>3. Standing(d.from, d.term, W) /\ log'[d.from] = log[d.from]
    BY <2>1, <2>2
  <2>4. d.lastLogIndex = Len(log[d.from]) /\ d.lastLogTerm = LastTerm(log[d.from])
    BY <2>3 DEF VoteCallInv
  <2> QED BY <1>1, <2>2, <2>3, <2>4
<1> QED BY <1>1 DEF VoteCallsGo

\* A leader that stays one knows no more than before of its peers.
LEMMA LeadersStep ==
    ASSUME TypeInv, TypeInv', NEW M \in History, NEW A \in Acks, NEW B \in Acks,
           \A v \in Server, t \in Nat : A[v][t] <= B[v][t], AckInv(M, B)', LeadersGo(B),
           \A i \in Server : state[i] = "leader" => GoodLeader(A, i),
           \A i \in Server : state'[i] = "leader" => M[currentTerm'[i]] = log'[i],
           NEW i \in Server, state'[i] = "leader"
    PROVE  GoodLeader(B, i)'
<1> SUFFICES ASSUME state[i] = "leader", currentTerm'[i] = currentTerm[i], log'[i] = log[i],
                    matchIndex'[i] = matchIndex[i], nextIndex'[i] = nextIndex[i]
             PROVE  GoodLeader(B, i)'
  BY DEF LeadersGo
<1> DEFINE t == currentTerm[i]
<1>1. /\ t \in Nat /\ Len(log[i]) \in Nat
      /\ \A j \in Server : A[j][t] \in Nat /\ B[j][t] \in Nat /\ A[j][t] <= B[j][t]
  <2>1. t \in Nat /\ log[i] \in Seq(Entry)
    BY TypeParts DEF TypeOK
  <2> QED BY <2>1, AckType, SMTT(30)
<1>2. B[i][t] <= Len(log[i])
  <2>1. M[t] = log[i]
    OBVIOUS
  <2> QED BY <1>1, <2>1 DEF AckInv
<1>3. GoodLeader(A, i)
  OBVIOUS
<1>4. B[i][t] = Len(log[i])
  BY <1>1, <1>2, <1>3, SMTT(30) DEF GoodLeader
<1>5. ASSUME NEW j \in Peers(i)
      PROVE  matchIndex[i][j] <= B[j][t] /\ nextIndex[i][j] \in 1..Len(log[i]) + 1
  <2>1. j \in Server
    BY DEF Peers
  <2>2. matchIndex[i][j] \in Nat
    BY <2>1, TypeParts, SMTT(30) DEF TypeOK
  <2> QED BY <1>1, <1>3, <2>1, <2>2, SMTT(30) DEF GoodLeader
<1> QED BY <1>4, <1>5 DEF GoodLeader, Peers

\* All of the invariant.
LEMMA SafeStep ==
    ASSUME TypeInv, TypeInv', VoteRemembered, CallsSound,
           NEW L \in History, NEW A \in Acks, NEW W \in SUBSET Nat,
           NEW M \in History, NEW B \in Acks, NEW X \in SUBSET Nat,
           Logs(L), Logs(M)', Safe(L, A, W), Advance(L, A, W, M, B, X),
           VotesGo(M, B, X), VoteCallsGo, LeadersGo(B), AppendCallsGo(M, B),
           CommitsGo(M, B), DeliveriesGo(M, B)
    PROVE  Safe(M, B, X)'
<1>1. /\ AckInv(L, A) /\ Stored(L, A, W) /\ VoteCallInv(W)
      /\ \A w \in votes : GoodVote(L, A, W, w)
      /\ \A u \in W : Backed(L, A, W, currentTerm, u)
      /\ \A i \in Server : state[i] = "leader" => GoodLeader(A, i)
      /\ \A c \in appendCalls : GoodCall(L, A, c)
      /\ \A i \in Server : Holds(L, A, commitIndex[i], currentTerm[i], log[i])
      /\ \A d \in delivered : GoodDelivery(L, A, d)
  BY DEF Safe
<1>2. \A t \in Nat : TermsUpTo(t, L[t])
  BY DEF Logs
<1>3. /\ Grows(L, M) /\ \A v \in Server, t \in Nat : A[v][t] <= B[v][t]
      /\ \A i \in Server : currentTerm'[i] >= currentTerm[i]
      /\ \A i \in Server, t \in Nat :
            Standing(i, t, X)' /\ t <= currentTerm[i] => Standing(i, t, W) /\ log'[i] = log[i]
      /\ X = {t \in Nat : Won(t)'}
  BY DEF Advance, Later
<1>4. AckInv(M, B)' /\ Stored(M, B, X)'
  BY <1>1, <1>2, AckStep, StoredStep
<1>5. VoteCallInv(X)'
  BY <1>1, <1>3, VoteCallsStep
<1>6. \A w \in votes' : GoodVote(M, B, X, w)'
  BY <1>1, <1>2, VotesStep DEF VotesGo
<1>7. \A u \in X : Backed(M, B, X, currentTerm', u)
  BY <1>1, <1>2, BackedStep
<1>8. \A i \in Server : state'[i] = "leader" => GoodLeader(B, i)'
  <2>1. \A i \in Server : state'[i] = "leader" => M[currentTerm'[i]] = log'[i]
    BY DEF Logs
  <2> QED BY <1>1, <1>3, <1>4, <2>1, LeadersStep
<1>9. \A c \in appendCalls' : GoodCall(M, B, c)
  <2>1. \A c \in appendCalls : c \in AppendCall
    BY TypeParts DEF TypeOK
  <2>2. \A c \in appendCalls : GoodCall(M, B, c)
    BY <1>1, <1>3, <2>1, GoodCallLater
  <2> QED BY <2>2 DEF AppendCallsGo
<1>10. ASSUME NEW i \in Server
       PROVE  Holds(M, B, commitIndex'[i], currentTerm'[i], log'[i])
  <2> SUFFICES ASSUME commitIndex'[i] = commitIndex[i], log'[i] = log[i]
               PROVE  Holds(M, B, commitIndex[i], currentTerm'[i], log[i])
    BY DEF CommitsGo
  <2>1. commitIndex[i] \in Nat /\ currentTerm[i] \in Nat /\ currentTerm'[i] \in Nat
        /\ log[i] \in Seq(Entry)
    BY TypeParts DEF TypeOK
  <2>2. CASE commitIndex[i] = 0
    BY <2>2 DEF Holds
  <2>3. CASE commitIndex[i] # 0
    <3>1. commitIndex[i] <= Len(log[i])
      BY <1>1, <2>3 DEF Holds, Agree
    <3>2. Agree(log[i], log[i], commitIndex[i])
      BY <2>1, <3>1, AgreeSelf
    <3> QED BY <1>1, <1>3, <2>1, <3>2, HoldsLater
  <2> QED BY <2>2, <2>3
<1>11. \A d \in delivered' : GoodDelivery(M, B, d)
  <2>1. \A d \in delivered : d[1] \in Nat
    BY TypeParts DEF TypeOK
  <2>2. \A d \in delivered : GoodDelivery(M, B, d)
    BY <1>1, <1>3, <2>1, GoodDeliveryLater
  <2> QED BY <2>2 DEF DeliveriesGo
<1> QED BY <1>3, <1>4, <1>5, <1>6, <1>7, <1>8, <1>9, <1>10, <1>11 DEF Safe

-----------------------------------------------------------------------------
(* Steps that change no log and elect nobody *)

\* The histories stay as they are.
LEMMA PlainAdvance ==
    ASSUME TypeInv, TypeInv', NEW L \in History, NEW A \in Acks, NEW W \in SUBSET Nat,
           Safe(L, A, W), Plain
    PROVE  Advance(L, A, W, L, A, W)
<1>1. \A i \in Server : currentTerm[i] \in Nat /\ currentTerm'[i] \in Nat
  BY TypeParts DEF TypeOK
<1>2. W = {t \in Nat : Won(t)'}
  <2>1. \A t : Won(t)' <=> Won(t)
    BY DEF Won, Plain, NoWin
  <2> QED BY <2>1 DEF Safe
<1>3. \A i \in Server : currentTerm'[i] >= currentTerm[i] /\ log'[i] = log[i]
  BY <1>1, SMTT(30) DEF Plain, NoWin
<1>4. ASSUME NEW i \in Server, NEW t \in Nat, Standing(i, t, W)', t <= currentTerm[i]
      PROVE  Standing(i, t, W)
  <2>1. state'[i] = "candidate" /\ currentTerm'[i] = t /\ t \notin W
    BY <1>4 DEF Standing
  <2>2. ~(currentTerm'[i] > currentTerm[i])
    BY <1>1, <1>4, <2>1, SMTT(30)
  <2> QED BY <2>1, <2>2 DEF Standing, Plain, NoWin
<1> QED BY <1>2, <1>3, <1>4, LaterSelf DEF Advance

IndexesKept ==
    \A i \in Server :
        state'[i] = "leader" => matchIndex'[i] = matchIndex[i] /\ nextIndex'[i] = nextIndex[i]

CommitsKept == \A i \in Server : commitIndex'[i] \in {0, commitIndex[i]}

\* What is left to show of such a step.
LEMMA PlainSafe ==
    ASSUME TypeInv, TypeInv', VoteInv, ElectionInv,
           NEW L \in History, NEW A \in Acks, NEW W \in SUBSET Nat, Logs(L), Safe(L, A, W),
           Plain, VotesGo(L, A, W), VoteCallsGo, IndexesKept \/ LeadersGo(A),
           AppendCallsGo(L, A), CommitsKept \/ CommitsGo(L, A), DeliveriesGo(L, A)
    PROVE  Logs(L)' /\ Safe(L, A, W)'
<1>1. Logs(L)'
  BY PlainLogs
<1>2. Advance(L, A, W, L, A, W)
  BY PlainAdvance
<1>3. LeadersGo(A)
  BY DEF IndexesKept, LeadersGo, Plain, NoWin
<1>4. CommitsGo(L, A)
  BY DEF CommitsKept, CommitsGo, Plain, Holds
<1> QED BY <1>1, <1>2, <1>3, <1>4, SafeStep DEF VoteInv, ElectionInv

\* electionTimoutRoutine(): a peer that votes for itself has what it stores.
LEMMA ElectionTimeoutSafe ==
    ASSUME TypeInv, TypeInv', VoteInv, ElectionInv, Plain,
           NEW L \in History, NEW A \in Acks, NEW W \in SUBSET Nat, Logs(L), Safe(L, A, W),
           NEW i \in Server, ElectionTimeout(i)
    PROVE  Logs(L)' /\ Safe(L, A, W)'
<1> DEFINE u == currentTerm[i] + 1
<1>1. /\ currentTerm'[i] = u /\ u \in Nat /\ log' = log
      /\ votes' = votes \cup {<<i, u, i>>}
      /\ voteCalls' = voteCalls \cup {RequestVoteCall(i, j, u) : j \in Peers(i)}
      /\ UNCHANGED <<appendCalls, matchIndex, nextIndex, commitIndex, delivered>>
  BY TypeParts DEF ElectionTimeout, TypeOK, leaderVars, applyVars
<1>2. Supports(L, A, W, i, u, log'[i])
  BY <1>1 DEF Supports, Safe, Stored
<1>3. VotesGo(L, A, W)
  <2> SUFFICES ASSUME NEW w, w = <<i, u, i>>
               PROVE  GoodVote(L, A, W, w)'
    BY <1>1 DEF VotesGo
  <2>1. w[1] = i /\ w[2] = u /\ w[3] = i
    OBVIOUS
  <2>2. w[2] <= currentTerm'[w[3]] /\ Supports(L, A, W, w[1], w[2], log'[w[3]])
    BY <1>1, <1>2, <2>1, SMTT(30)
  <2> QED BY <2>2 DEF GoodVote
<1>4. VoteCallsGo
  <2> SUFFICES ASSUME NEW c \in voteCalls', c \notin voteCalls
               PROVE  /\ c.lastLogIndex = Len(log'[c.from])
                      /\ c.lastLogTerm = LastTerm(log'[c.from])
    BY DEF VoteCallsGo, SameCall
  <2>1. PICK j \in Peers(i) : c = RequestVoteCall(i, j, u)
    BY <1>1
  <2> QED BY <1>1, <2>1 DEF RequestVoteCall
<1>5. IndexesKept /\ AppendCallsGo(L, A) /\ CommitsKept /\ DeliveriesGo(L, A)
  BY <1>1 DEF IndexesKept, AppendCallsGo, CommitsKept, DeliveriesGo
<1> QED BY <1>3, <1>4, <1>5, PlainSafe

\* RequestVote(): the candidate has what the voter stores.
LEMMA GrantSupports ==
    ASSUME TypeInv, ElectionInv,
           NEW L \in History, NEW A \in Acks, NEW W \in SUBSET Nat, Logs(L), Safe(L, A, W),
           NEW c \in voteCalls, Grants(c.to, c), Standing(c.from, c.term, W)
    PROVE  Supports(L, A, W, c.to, c.term, log[c.from])
<1> DEFINE v == c.to
           i == c.from
           u == c.term
<1>1. /\ v \in Server /\ i \in Server /\ u \in Nat
  BY TypeParts DEF TypeOK, VoteCall
<1>2. currentTerm[v] \in Nat /\ log[v] \in Seq(Entry) /\ log[i] \in Seq(Entry)
  BY <1>1, TypeParts DEF TypeOK
<1>3. u >= currentTerm[v] /\ u \notin W /\ UpToDate(LastTerm(log[i]), Len(log[i]), log[v])
  BY DEF Grants, Standing, Safe, VoteCallInv
<1>4. /\ Origin(L, log[v]) /\ Origin(L, log[i]) /\ TermsUpTo(u, log[i])
      /\ \A x \in Nat : TermsUpTo(x, L[x]) /\ (x \notin W => L[x] = << >>)
  BY <1>1 DEF Logs, Safe, Standing
<1> SUFFICES ASSUME NEW t \in Nat, NEW k \in Nat, t < u, k <= A[v][t], Own(L, t, k),
                    Survives(L, W, k, t, u)
             PROVE  Agree(L[t], log[i], k)
  BY DEF Supports
<1> HIDE DEF v, i, u
<1>5. Survives(L, W, k, t, currentTerm[v] + 1)
  BY <1>1, <1>2, <1>3, SMTT(30) DEF Survives
<1>6. Agree(L[t], log[v], k)
  BY <1>1, <1>5 DEF Safe, Stored
<1> QED BY <1>1, <1>2, <1>3, <1>4, <1>6, UpToDateAgrees

\* RequestVote(), whether or not the vote is granted.
LEMMA RequestVoteSafe ==
    ASSUME TypeInv, TypeInv', VoteInv, ElectionInv, Plain,
           NEW L \in History, NEW A \in Acks, NEW W \in SUBSET Nat, Logs(L), Safe(L, A, W),
           NEW c \in voteCalls, RequestVote(c.to, c)
    PROVE  Logs(L)' /\ Safe(L, A, W)'
<1>1. /\ c \in VoteCall /\ c.to \in Server /\ c.from \in Server /\ c.term \in Nat
      /\ c.from # c.to /\ c.term <= currentTerm[c.from]
  BY TypeParts DEF TypeOK, VoteCall, ElectionInv, CallsSound
<1>2. /\ log' = log /\ convertToFollowerIfOutOfTerm(c.to, c.term)
      /\ UNCHANGED <<appendCalls, matchIndex, nextIndex, commitIndex, delivered>>
      /\ votes' = IF Grants(c.to, c) THEN votes \cup {<<c.to, c.term, c.from>>} ELSE votes
  BY DEF RequestVote, leaderVars, applyVars
<1>3. currentTerm'[c.from] = currentTerm[c.from] /\ state'[c.from] = state[c.from]
  BY <1>1, <1>2, ConvertTerm
<1>4. VotesGo(L, A, W)
  <2> SUFFICES ASSUME NEW w, w = <<c.to, c.term, c.from>>, Grants(c.to, c)
               PROVE  GoodVote(L, A, W, w)'
    BY <1>2 DEF VotesGo
  <2>1. w[1] = c.to /\ w[2] = c.term /\ w[3] = c.from
    OBVIOUS
  <2>2. Standing(c.from, c.term, W)' => Standing(c.from, c.term, W)
    BY <1>3 DEF Standing
  <2>3. Standing(c.from, c.term, W)' => Supports(L, A, W, c.to, c.term, log'[c.from])
    BY <1>2, <2>2, GrantSupports
  <2> QED BY <1>1, <1>3, <2>1, <2>3 DEF GoodVote
<1>5. VoteCallsGo
  <2>1. PICK r : /\ voteCalls' = AfterReply(voteCalls, c, r) /\ SameCall(r, c)
                 /\ r.lastLogIndex = c.lastLogIndex /\ r.lastLogTerm = c.lastLogTerm
    <3> DEFINE r == [c EXCEPT !.phase = "reply", !.replyTerm = currentTerm'[c.to],
                              !.voteGranted = Grants(c.to, c)]
    <3>1. voteCalls' = AfterReply(voteCalls, c, r)
      BY DEF RequestVote
    <3>2. SameCall(r, c) /\ r.lastLogIndex = c.lastLogIndex /\ r.lastLogTerm = c.lastLogTerm
      BY <1>1 DEF SameCall, VoteCall
    <3> HIDE DEF r
    <3> QED BY <3>1, <3>2
  <2>2. \A d \in voteCalls' : d = r \/ d \in voteCalls
    BY <2>1 DEF AfterReply
  <2> QED BY <2>1, <2>2 DEF VoteCallsGo, SameCall
<1>6. IndexesKept /\ AppendCallsGo(L, A) /\ CommitsKept /\ DeliveriesGo(L, A)
  BY <1>2 DEF IndexesKept, AppendCallsGo, CommitsKept, DeliveriesGo
<1> QED BY <1>4, <1>5, <1>6, PlainSafe

\* Nothing happens but that calls are made or go.
LEMMA QuietSafe ==
    ASSUME TypeInv, TypeInv', VoteInv, ElectionInv, Plain,
           NEW L \in History, NEW A \in Acks, NEW W \in SUBSET Nat, Logs(L), Safe(L, A, W),
           voteCalls' \subseteq voteCalls, AppendCallsGo(L, A),
           UNCHANGED <<votes, matchIndex, nextIndex, commitIndex, delivered>>
    PROVE  Logs(L)' /\ Safe(L, A, W)'
<1>1. VotesGo(L, A, W) /\ IndexesKept /\ CommitsKept /\ DeliveriesGo(L, A)
  BY DEF VotesGo, IndexesKept, CommitsKept, DeliveriesGo
<1>2. VoteCallsGo
  BY DEF VoteCallsGo, SameCall
<1> QED BY <1>1, <1>2, PlainSafe

\* A crash changes no argument of a call.
LEMMA OrphanVoteCalls ==
    ASSUME TypeInv, NEW i, voteCalls' = Orphaned(voteCalls, i)
    PROVE  VoteCallsGo
<1>1. ASSUME NEW d \in voteCalls
      PROVE  /\ SameCall(Orphan(d), d)
             /\ Orphan(d).lastLogIndex = d.lastLogIndex /\ Orphan(d).lastLogTerm = d.lastLogTerm
  BY TypeParts DEF Orphan, SameCall, TypeOK, VoteCall
<1>2. ASSUME NEW c \in voteCalls'
      PROVE  c \in voteCalls \/ \E d \in voteCalls : c = Orphan(d)
  <2>1. c \in Orphaned(voteCalls, i)
    OBVIOUS
  <2> QED BY <2>1, OrphanedOrigin, SMTT(30)
<1>3. ASSUME NEW c \in voteCalls'
      PROVE  \E d \in voteCalls : /\ SameCall(c, d) /\ c.lastLogIndex = d.lastLogIndex
                                  /\ c.lastLogTerm = d.lastLogTerm
  <2>1. CASE c \in voteCalls
    BY <2>1 DEF SameCall
  <2>2. CASE \E d \in voteCalls : c = Orphan(d)
    BY <1>1, <2>2
  <2> QED BY <1>2, <2>1, <2>2
<1> QED BY <1>3 DEF VoteCallsGo

\* The same for the AppendEntries calls of a peer that crashed.
LEMMA OrphanAppendCalls ==
    ASSUME TypeInv, NEW L, NEW A, \A c \in appendCalls : GoodCall(L, A, c),
           NEW i, appendCalls' = Orphaned(appendCalls, i)
    PROVE  AppendCallsGo(L, A)
<1>1. ASSUME NEW d \in appendCalls
      PROVE  GoodCall(L, A, Orphan(d))
  <2>1. PICK r : r = Orphan(d)
    OBVIOUS
  <2>2. /\ r.phase = "orphan" /\ r.success = d.success /\ r.to = d.to /\ r.term = d.term
        /\ r.prevLogIndex = d.prevLogIndex /\ r.entries = d.entries
        /\ r.leaderCommit = d.leaderCommit
    BY <2>1, TypeParts DEF Orphan, TypeOK, AppendCall
  <2>3. GoodCall(L, A, d)
    OBVIOUS
  <2>4. GoodCall(L, A, r)
    BY <2>2, <2>3 DEF GoodCall
  <2> QED BY <2>1, <2>4
<1>2. ASSUME NEW c \in appendCalls'
      PROVE  c \in appendCalls \/ \E d \in appendCalls : c = Orphan(d)
  <2>1. c \in Orphaned(appendCalls, i)
    OBVIOUS
  <2> QED BY <2>1, OrphanedOrigin, SMTT(30)
<1> QED BY <1>1, <1>2 DEF AppendCallsGo

\* Make(): commitIndex starts again at zero.
LEMMA MakeSafe ==
    ASSUME TypeInv, TypeInv', VoteInv, ElectionInv, Plain,
           NEW L \in History, NEW A \in Acks, NEW W \in SUBSET Nat, Logs(L), Safe(L, A, W),
           NEW i \in Server, NEW saved, Make(i, saved)
    PROVE  Logs(L)' /\ Safe(L, A, W)'
<1>1. /\ state' = [state EXCEPT ![i] = "follower"]
      /\ commitIndex' = [commitIndex EXCEPT ![i] = 0]
      /\ nextIndex' = [nextIndex EXCEPT ![i] = zeros]
      /\ matchIndex' = [matchIndex EXCEPT ![i] = zeros]
      /\ UNCHANGED <<votes, delivered>>
  BY DEF Make
<1>2. IndexesKept /\ CommitsKept
  BY <1>1, TypeParts, SMTT(30) DEF IndexesKept, CommitsKept, TypeOK
<1>3. VoteCallsGo /\ AppendCallsGo(L, A)
  BY OrphanVoteCalls, OrphanAppendCalls DEF Make, Safe
<1>4. VotesGo(L, A, W) /\ DeliveriesGo(L, A)
  BY <1>1 DEF VotesGo, DeliveriesGo
<1> QED BY <1>2, <1>3, <1>4, PlainSafe

\* sendAppendEntriesToPeers(): the commit index that a leader sends is covered
\* by what it sends.
LEMMA SendGood ==
    ASSUME TypeInv, ~LateEncoding, NEW i \in Server, NEW next \in [Server -> Nat],
           SendAppendEntriesToPeers(i, next), NEW M, NEW B, M[currentTerm[i]] = log[i],
           Holds(M, B, commitIndex[i], currentTerm[i], log[i])
    PROVE  AppendCallsGo(M, B)
<1> SUFFICES ASSUME NEW c \in appendCalls', c \notin appendCalls
             PROVE  GoodCall(M, B, c)
  BY DEF AppendCallsGo
<1>1. PICK j \in Peers(i) : c = AppendEntriesCall(i, j, next[j])
  BY DEF SendAppendEntriesToPeers
<1>2. j \in Server /\ next[j] \in Nat /\ next[j] - 1 \in 0..Len(log[i])
  BY DEF Peers, SendAppendEntriesToPeers
<1> DEFINE l == log[i]
           n == next[j]
<1>3. l \in Seq(Entry) /\ Len(l) \in Nat /\ n \in Nat /\ n - 1 \in 0..Len(l)
      /\ commitIndex[i] \in Nat
  BY <1>2, TypeParts, SMTT(30) DEF TypeOK
<1>4. /\ c.term = currentTerm[i] /\ c.phase = "request" /\ ~c.success
      /\ c.prevLogIndex = n - 1 /\ c.entries = SubSeq(l, n, Len(l))
      /\ c.leaderCommit = commitIndex[i]
  BY <1>1 DEF AppendEntriesCall
<1>5. commitIndex[i] <= Len(l)
  BY <1>3, SMTT(30) DEF Holds, Agree
<1> HIDE DEF l, n
<1>6. Len(SubSeq(l, n, Len(l))) = Len(l) - (n - 1)
  BY <1>3, SMTT(30)
<1>7. c.leaderCommit <= c.prevLogIndex + Len(c.entries)
  BY <1>3, <1>4, <1>5, <1>6, SMTT(30)
<1> QED BY <1>4, <1>7 DEF GoodCall, l

\* periodicAppendEntriesRoutine(): the calls of a leader are good.
LEMMA PeriodicSafe ==
    ASSUME TypeInv, TypeInv', VoteInv, ElectionInv, Plain, ~LateEncoding,
           NEW L \in History, NEW A \in Acks, NEW W \in SUBSET Nat, Logs(L), Safe(L, A, W),
           NEW i \in Server, PeriodicAppendEntries(i)
    PROVE  Logs(L)' /\ Safe(L, A, W)'
<1>1. /\ state[i] = "leader" /\ SendAppendEntriesToPeers(i, nextIndex[i]) /\ voteCalls' = voteCalls
      /\ UNCHANGED <<votes, matchIndex, nextIndex, commitIndex, delivered>>
  BY DEF PeriodicAppendEntries, electionVars, leaderVars, applyVars
<1>2. nextIndex[i] \in [Server -> Nat] /\ L[currentTerm[i]] = log[i]
  BY <1>1, TypeParts DEF TypeOK, Logs
<1>3. Holds(L, A, commitIndex[i], currentTerm[i], log[i])
  BY DEF Safe
<1>4. AppendCallsGo(L, A)
  BY <1>1, <1>2, <1>3, SendGood
<1> QED BY <1>1, <1>4, QuietSafe

\* applyCommittedRoutine(): what is delivered is committed.
LEMMA ApplySafe ==
    ASSUME TypeInv, TypeInv', VoteInv, ElectionInv, Plain,
           NEW L \in History, NEW A \in Acks, NEW W \in SUBSET Nat, Logs(L), Safe(L, A, W),
           NEW i \in Server, Apply(i)
    PROVE  Logs(L)' /\ Safe(L, A, W)'
<1> DEFINE n == lastApplied[i] + 1
<1>1. /\ delivered' = delivered \cup {<<n, log[i][n]>>}
      /\ UNCHANGED <<votes, voteCalls, appendCalls, matchIndex, nextIndex, commitIndex>>
      /\ commitIndex[i] > lastApplied[i]
  BY DEF Apply, electionVars, leaderVars
<1>2. commitIndex[i] \in Nat /\ n \in 1..commitIndex[i]
  BY <1>1, TypeParts, SMTT(30) DEF TypeOK
<1>3. PICK s, k \in Nat : /\ commitIndex[i] <= k /\ Committed(L, A, k, s)
                          /\ Agree(L[s], log[i], commitIndex[i])
  <2>1. commitIndex[i] # 0
    BY <1>2, SMTT(30)
  <2>2. Holds(L, A, commitIndex[i], currentTerm[i], log[i])
    BY DEF Safe
  <2> QED BY <2>1, <2>2 DEF Holds
<1> HIDE DEF n
<1>4. n \in 1..k /\ L[s][n] = log[i][n]
  BY <1>2, <1>3, SMTT(30) DEF Agree
<1>5. DeliveriesGo(L, A)
  <2> SUFFICES ASSUME NEW d, d = <<n, log[i][n]>>
               PROVE  GoodDelivery(L, A, d)
    BY <1>1 DEF DeliveriesGo
  <2>1. d[1] = n /\ d[2] = log[i][n]
    OBVIOUS
  <2> QED BY <1>3, <1>4, <2>1 DEF GoodDelivery
<1>6. VoteCallsGo
  BY <1>1 DEF VoteCallsGo, SameCall
<1>7. VotesGo(L, A, W) /\ IndexesKept /\ AppendCallsGo(L, A) /\ CommitsKept
  BY <1>1 DEF VotesGo, IndexesKept, AppendCallsGo, CommitsKept
<1> QED BY <1>5, <1>6, <1>7, PlainSafe

-----------------------------------------------------------------------------
(* What a leader does with the replies of its followers *)

\* tryCommit() returns the commit index, or one that may be committed.
LEMMA TryCommitMember ==
    ASSUME TypeInv, NEW i \in Server, NEW match
    PROVE  tryCommit(i, match) = commitIndex[i] \/ tryCommit(i, match) \in Committable(i, match)
<1>1. commitIndex[i] \in Nat /\ Len(log[i]) \in Nat
  BY TypeParts, SMTT(30) DEF TypeOK
<1>2. CASE Committable(i, match) # {}
  <2>1. Committable(i, match) \in SUBSET (0..Len(log[i]))
    BY <1>1, SMTT(30) DEF Committable
  <2>2. \E N \in Committable(i, match) : \A M \in Committable(i, match) : M <= N
    BY <1>1, <1>2, <2>1, LargestExists
  <2> QED BY <1>2, <2>2 DEF tryCommit
<1> QED BY <1>2 DEF tryCommit

\* A majority is more than the leader alone when there are other peers.
LEMMA MajorityHasPeer ==
    ASSUME NEW i \in Server, Peers(i) # {}, NEW Q \in SUBSET Server, i \in Q,
           IsMajority(Cardinality(Q))
    PROVE  \E j \in Q : j # i
<1> SUFFICES ASSUME Q = {i}
             PROVE  FALSE
  OBVIOUS
<1>1. PICK j \in Server : j # i
  BY DEF Peers
<1>2. Cardinality({i}) = 1
  BY FS_Singleton
<1>3. Cardinality({i, j}) = 2
  <2>1. IsFiniteSet({i}) /\ {i, j} = {i} \cup {j} /\ j \notin {i}
    BY <1>1, FS_Singleton
  <2>2. Cardinality({i} \cup {j}) = Cardinality({i}) + 1
    BY <2>1, FS_AddElement
  <2> QED BY <1>2, <2>1, <2>2, SMTT(30)
<1>4. Cardinality({i, j}) <= Cardinality(Server) /\ Cardinality(Server) \in Nat
  BY FS_Subset, FS_CardinalityType, ServerAssumption
<1> QED BY <1>2, <1>3, <1>4, SMTT(30) DEF IsMajority

\* tryCommit(): what a leader commits is committed.
LEMMA TryCommitHolds ==
    ASSUME TypeInv, LeaderInv, NEW L \in History, NEW A \in Acks, NEW W \in SUBSET Nat,
           Logs(L), Safe(L, A, W), NEW i \in Server, state[i] = "leader",
           NEW match \in [Server -> Nat], \A j \in Peers(i) : match[j] <= A[j][currentTerm[i]]
    PROVE  Holds(L, A, tryCommit(i, match), currentTerm[i], log[i])
<1> DEFINE t == currentTerm[i]
<1>1. /\ t \in Nat /\ log[i] \in Seq(Entry) /\ Len(log[i]) \in Nat /\ commitIndex[i] \in Nat
      /\ L[t] = log[i]
  BY TypeParts, SMTT(30) DEF TypeOK, Logs
<1>2. Holds(L, A, commitIndex[i], t, log[i]) /\ A[i][t] = Len(log[i]) /\ Peers(i) # {}
  BY <1>1 DEF Safe, GoodLeader, LeaderInv
<1>3. ASSUME NEW N \in Committable(i, match)
      PROVE  Holds(L, A, N, t, log[i])
  <2> DEFINE Q == ReplicatedOn(i, match, N)
  <2>1. N \in commitIndex[i] + 1 .. Len(log[i]) /\ IsMajority(Cardinality(Q))
    BY DEF Committable
  <2>2. N \in Nat /\ N \in 1..Len(log[i])
    BY <1>1, <2>1, SMTT(30)
  <2>3. Q \in SUBSET Server /\ i \in Q
    BY DEF ReplicatedOn, Peers
  <2>4. PICK j \in Q : j # i
    BY <1>2, <2>1, <2>3, MajorityHasPeer
  <2>5. log[i][N].term = t
    BY <2>4 DEF ReplicatedOn
  <2>6. ASSUME NEW v \in Q
        PROVE  N <= A[v][t]
    <3>1. CASE v = i
      BY <1>2, <2>2, <3>1, SMTT(30)
    <3>2. CASE v # i
      <4>1. v \in Peers(i) /\ match[v] >= N
        BY <3>2 DEF ReplicatedOn
      <4>2. v \in Server /\ match[v] \in Nat
        BY <4>1 DEF Peers
      <4>3. A[v][t] \in Nat
        BY <1>1, <4>2, AckType
      <4>4. match[v] <= A[v][t]
        BY <4>1
      <4> QED BY <2>2, <4>1, <4>2, <4>3, <4>4, SMTT(30)
    <3> QED BY <3>1, <3>2
  <2>7. Committed(L, A, N, t)
    <3>1. Q \in Quorums
      BY <2>1, <2>3 DEF Quorums
    <3>2. Own(L, t, N)
      BY <1>1, <2>2, <2>5 DEF Own
    <3> HIDE DEF Q
    <3> QED BY <2>6, <3>1, <3>2 DEF Committed
  <2>8. Agree(L[t], log[i], N)
    BY <1>1, <2>2, AgreeSelf, SMTT(30)
  <2>9. t <= t /\ N <= N
    BY <1>1, <2>2, SMTT(30)
  <2> QED BY <1>1, <2>2, <2>7, <2>8, <2>9 DEF Holds
<1> QED BY <1>2, <1>3, TryCommitMember

\* What a leader keeps of its peers, after it changes what it keeps of one.
LEMMA PeerUpdate ==
    ASSUME NEW f \in [Server -> [Server -> Nat]], NEW i \in Server, NEW k \in Server, NEW n \in Nat,
           NEW g, g = [f EXCEPT ![i][k] = n]
    PROVE  /\ g[i] \in [Server -> Nat]
           /\ \A j \in Server : g[i][j] = IF j = k THEN n ELSE f[i][j]
           /\ \A j \in Server \ {i} : g[j] = f[j]
BY SMTT(30)

\* Leader i has new indexes for its peer c.to, and perhaps a new commit index.
LEMMA AppendReplySafe ==
    ASSUME TypeInv, TypeInv', VoteInv, ElectionInv, LeaderInv, Plain,
           NEW L \in History, NEW A \in Acks, NEW W \in SUBSET Nat, Logs(L), Safe(L, A, W),
           LateReplies = {}, NEW c \in appendCalls,
           AppendReplySuccess(c.from, c) \/ AppendReplyFailure(c.from, c)
    PROVE  Logs(L)' /\ Safe(L, A, W)'
<1> DEFINE i == c.from
           t == currentTerm[i]
           p == c.prevLogIndex + Len(c.entries)
<1>1. /\ c \in AppendCall /\ i \in Server /\ c.to \in Server /\ c.to # i
      /\ t \in Nat /\ Len(log[i]) \in Nat /\ p \in Nat /\ c.nextTryHint \in Nat
      /\ matchIndex[i] \in [Server -> Nat] /\ nextIndex[i] \in [Server -> Nat]
  <2>1. c \in AppendCall /\ i \in Server /\ c.to \in Server /\ c.to # i
    BY TypeParts DEF TypeOK, AppendCall, LeaderInv
  <2>2. c.prevLogIndex \in Nat /\ Len(c.entries) \in Nat /\ c.nextTryHint \in Nat
    BY <2>1, SMTT(30) DEF AppendCall
  <2>3. /\ t \in Nat /\ log[i] \in Seq(Entry)
        /\ matchIndex[i] \in [Server -> Nat] /\ nextIndex[i] \in [Server -> Nat]
    BY <2>1, TypeParts DEF TypeOK
  <2>4. Len(log[i]) \in Nat
    BY <2>3, SMTT(30)
  <2> QED BY <2>1, <2>2, <2>3, <2>4, SMTT(30)
<1>2. /\ c.phase = "reply" /\ c.term = t /\ ~OutOfTerm(i, c.replyTerm) /\ state[i] = "leader"
      /\ appendCalls' \subseteq appendCalls
      /\ UNCHANGED <<currentTerm, state, log, votes, voteCalls, delivered>>
  BY DEF AppendReplySuccess, AppendReplyFailure, AppendReply, ReplyArrives, logVars, electionVars
<1>3. /\ L[t] = log[i] /\ GoodLeader(A, i) /\ GoodCall(L, A, c)
      /\ Holds(L, A, commitIndex[i], t, log[i])
  BY <1>1, <1>2 DEF Logs, Safe
<1>4. CASE AppendReplySuccess(i, c)
  <2>1. /\ nextIndex' = [nextIndex EXCEPT ![i][c.to] = p + 1]
        /\ matchIndex' = [matchIndex EXCEPT ![i][c.to] = p]
        /\ commitIndex' = [commitIndex EXCEPT ![i] = tryCommit(i, matchIndex'[i])]
        /\ c.success
    BY <1>4 DEF AppendReplySuccess
  <2>2. /\ matchIndex'[i] \in [Server -> Nat]
        /\ \A j \in Server : /\ matchIndex'[i][j] = IF j = c.to THEN p ELSE matchIndex[i][j]
                             /\ nextIndex'[i][j] = IF j = c.to THEN p + 1 ELSE nextIndex[i][j]
        /\ \A j \in Server \ {i} : /\ matchIndex'[j] = matchIndex[j]
                                   /\ nextIndex'[j] = nextIndex[j]
                                   /\ commitIndex'[j] = commitIndex[j]
        /\ commitIndex'[i] = tryCommit(i, matchIndex'[i])
    <3>1. /\ matchIndex \in [Server -> [Server -> Nat]] /\ nextIndex \in [Server -> [Server -> Nat]]
          /\ commitIndex \in [Server -> Nat]
      BY TypeParts DEF TypeOK
    <3>2. \A j \in Server : commitIndex'[j] = IF j = i THEN tryCommit(i, matchIndex'[i]) ELSE commitIndex[j]
      BY <2>1, <3>1
    <3>3. p + 1 \in Nat
      BY <1>1, SMTT(30)
    <3>4. /\ matchIndex'[i] \in [Server -> Nat]
          /\ \A j \in Server : matchIndex'[i][j] = IF j = c.to THEN p ELSE matchIndex[i][j]
          /\ \A j \in Server \ {i} : matchIndex'[j] = matchIndex[j]
      <4> HIDE DEF p
      <4> QED BY <1>1, <2>1, <3>1, PeerUpdate
    <3>5. /\ \A j \in Server : nextIndex'[i][j] = IF j = c.to THEN p + 1 ELSE nextIndex[i][j]
          /\ \A j \in Server \ {i} : nextIndex'[j] = nextIndex[j]
      <4> HIDE DEF p
      <4> QED BY <1>1, <2>1, <3>1, <3>3, PeerUpdate
    <3> QED BY <1>1, <3>2, <3>4, <3>5
  <2>3. p <= A[c.to][t] /\ p <= Len(log[i])
    <3>1. p <= A[c.to][t]
      BY <1>2, <1>3, <2>1 DEF GoodCall
    <3>2. A[c.to][t] \in Nat /\ A[c.to][t] <= Len(log[i])
      BY <1>1, <1>3, AckType DEF Safe, AckInv
    <3> QED BY <1>1, <3>1, <3>2, SMTT(30)
  <2>4. \A j \in Peers(i) : /\ matchIndex'[i][j] <= A[j][t]
                            /\ nextIndex'[i][j] \in 1..Len(log[i]) + 1
    <3> SUFFICES ASSUME NEW j \in Peers(i)
                 PROVE  /\ matchIndex'[i][j] <= A[j][t]
                        /\ nextIndex'[i][j] \in 1..Len(log[i]) + 1
      OBVIOUS
    <3>1. /\ matchIndex'[i][j] = IF j = c.to THEN p ELSE matchIndex[i][j]
          /\ nextIndex'[i][j] = IF j = c.to THEN p + 1 ELSE nextIndex[i][j]
      BY <2>2 DEF Peers
    <3>2. matchIndex[i][j] <= A[j][t] /\ nextIndex[i][j] \in 1..Len(log[i]) + 1
      BY <1>3 DEF GoodLeader
    <3>3. p + 1 \in 1..Len(log[i]) + 1
      BY <1>1, <2>3, SMTT(30)
    <3> QED BY <2>3, <3>1, <3>2, <3>3
  <2>5. GoodLeader(A, i)'
    BY <1>2, <1>3, <2>4 DEF GoodLeader, Peers
  <2>6. Holds(L, A, commitIndex'[i], currentTerm'[i], log'[i])
    BY <1>1, <1>2, <2>2, <2>4, TryCommitHolds
  <2>7. LeadersGo(A) /\ CommitsGo(L, A)
    BY <1>2, <2>2, <2>5, <2>6 DEF LeadersGo, CommitsGo
  <2>8. VoteCallsGo
    BY <1>2 DEF VoteCallsGo, SameCall
  <2>9. VotesGo(L, A, W) /\ AppendCallsGo(L, A) /\ DeliveriesGo(L, A)
    BY <1>2 DEF VotesGo, AppendCallsGo, DeliveriesGo
  <2> QED BY <2>7, <2>8, <2>9, PlainSafe
<1>5. CASE AppendReplyFailure(i, c)
  <2>1. /\ nextIndex' = [nextIndex EXCEPT ![i][c.to] = c.nextTryHint]
        /\ matchIndex' = matchIndex /\ commitIndex' = commitIndex /\ ~c.success
    BY <1>5 DEF AppendReplyFailure
  <2>2. /\ \A j \in Server : nextIndex'[i][j] = IF j = c.to THEN c.nextTryHint ELSE nextIndex[i][j]
        /\ \A j \in Server \ {i} : nextIndex'[j] = nextIndex[j]
    <3>1. nextIndex \in [Server -> [Server -> Nat]]
      BY TypeParts DEF TypeOK
    <3> QED BY <1>1, <2>1, <3>1, PeerUpdate
  <2>3. c.nextTryHint \in 1..Len(log[i]) + 1
    <3>1. c.replyTerm \in Nat
      BY <1>1 DEF AppendCall
    <3>2. c.replyTerm <= c.term
      BY <1>1, <1>2, <3>1, SMTT(30) DEF OutOfTerm
    <3> QED BY <1>2, <1>3, <2>1, <3>2 DEF GoodCall
  <2>4. \A j \in Peers(i) : nextIndex'[i][j] \in 1..Len(log[i]) + 1
    BY <1>3, <2>2, <2>3 DEF GoodLeader, Peers
  <2>5. GoodLeader(A, i)'
    BY <1>2, <1>3, <2>1, <2>4 DEF GoodLeader, Peers
  <2>6. LeadersGo(A) /\ CommitsKept
    BY <1>2, <2>1, <2>2, <2>5 DEF LeadersGo, CommitsKept
  <2>7. VoteCallsGo
    BY <1>2 DEF VoteCallsGo, SameCall
  <2>8. VotesGo(L, A, W) /\ AppendCallsGo(L, A) /\ DeliveriesGo(L, A)
    BY <1>2 DEF VotesGo, AppendCallsGo, DeliveriesGo
  <2> QED BY <2>6, <2>7, <2>8, PlainSafe
<1> QED BY <1>4, <1>5

=============================================================================
