------------------------------- MODULE MCRaft -------------------------------
(* Instances of Raft for TLC. *)
EXTENDS Raft, TLC

\* The permutations of the peers that keep every bound as it is.
Symmetry == {p \in Permutations(Server) : /\ {p[i] : i \in MayTimeout} = MayTimeout
                                          /\ {p[i] : i \in MayCrash} = MayCrash}

\* Values of MaxCalls.  With three calls in flight the answer of one follower is
\* on its way while the other follower has two calls that may overtake each other.
TwoCalls == [term \in 1..MaxTerm |-> 2]

FiveCalls == [term \in 1..MaxTerm |-> 5]

ThreeThenTwoCalls == [term \in 1..MaxTerm |-> IF term = 1 THEN 3 ELSE 2]

\* What the future of a behaviour without crashes depends on, but for what is
\* applied.  Left out are the persister, the fields that no code reads in the
\* peer's present state and replies nobody waits for.
Live ==
    <<currentTerm, votedFor, log, state, commitIndex,
      [i \in Server |-> IF state[i] = "candidate" THEN votesReceived[i] ELSE 0],
      [i \in Server |-> IF state[i] = "leader" THEN <<nextIndex[i], matchIndex[i]>> ELSE <<>>],
      {c \in voteCalls : Awaited("RequestVote", c)},
      {c \in appendCalls : Awaited("AppendEntries", c)}>>

\* Live and what else the properties of a run are about.
CrashView == <<Live, persister, votes, leaders, lastApplied, delivered>>

ReplicationView == <<Live, lastApplied, delivered>>

=============================================================================
