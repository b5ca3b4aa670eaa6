----------------------------- MODULE MCRaftLate -----------------------------
(***************************************************************************)
(* Five peers and some of the behaviours of Raft, enough to show what a    *)
(* call may do that takes its time while others lead: a course says term   *)
(* by term who stands for election, whom its calls reach and which of them *)
(* take their time.  All other calls are lost or answered at once, and     *)
(* committed entries are applied at once.  Every step is a step of Raft,   *)
(* so what goes wrong here goes wrong in Raft; nothing follows for Raft    *)
(* from what does not.                                                     *)
(***************************************************************************)
EXTENDS MCRaft

CONSTANTS s1, s2, s3, s4, s5,
          Course                \* the course, a sequence with a Reign for every term

\* The candidate of a term, those who get its RequestVote calls, those who get
\* its AppendEntries calls, and those among them to whom these may take long.
Reign(candidate, voters, followers, slow) ==
    [candidate |-> candidate, voters |-> voters, followers |-> followers, slow |-> slow]

\* s1 sends two entries to s3, and before they are encoded its log is written
\* over by s2, the leader of the next term.  Then s1 may lead again; two terms
\* are enough to break LogMatching, the third breaks StateMachineSafety.
EncodingCourse ==
    <<Reign(s1, {s2, s3}, {s3}, {s3}),
      Reign(s2, {s4, s5}, {s1, s4}, {}),
      Reign(s1, {s4, s5}, {s3}, {})>>

\* s1 stores two entries on s3, and before it hears of it both logs are written
\* over by s2; then s1 leads again, and s2 after it.
ReplyCourse ==
    <<Reign(s1, {s2, s3}, {s3}, {s3}),
      Reign(s2, {s4, s5}, {s1, s3}, {}),
      Reign(s1, {s2, s4}, {s4}, {}),
      Reign(s2, {s3, s5}, {s3, s5}, {})>>

CutVotes == {c \in voteCalls : c.to \notin Course[c.term].voters}

CutAppends == {c \in appendCalls : c.to \notin Course[c.term].followers}

PromptAppends == {c \in appendCalls : c.to \notin Course[c.term].slow}

Due == {i \in Server : commitIndex[i] > lastApplied[i]}

\* A prompt call is executed and its reply handled.
AnswerVote(c) ==
    \/ RequestVote(c.to, c)
    \/ VoteReplyOutOfTerm(c.from, c)
    \/ VoteReplyDenied(c.from, c)
    \/ VoteReplyGranted(c.from, c)

AnswerAppend(c) ==
    /\ \/ AppendEntries(c.to, c)
       \/ AppendReplyOutOfTerm(c.from, c)
       \/ AppendReplyNotLeader(c.from, c)
       \/ AppendReplySuccess(c.from, c)
       \/ AppendReplyFailure(c.from, c)
    /\ c \notin appendCalls'

\* The first that is there of: calls that are cut off, prompt calls, entries to
\* apply, anything else.
LateNext ==
    IF CutVotes # {} THEN LoseVoteCall(CHOOSE c \in CutVotes : TRUE)
    ELSE IF CutAppends # {} THEN LoseAppendCall(CHOOSE c \in CutAppends : TRUE)
    ELSE IF voteCalls # {} THEN AnswerVote(CHOOSE c \in voteCalls : TRUE)
    ELSE IF PromptAppends # {} THEN AnswerAppend(CHOOSE c \in PromptAppends : TRUE)
    ELSE IF Due # {} THEN Apply(CHOOSE i \in Due : TRUE)
    ELSE /\ Next
         /\ \A i \in Server : state'[i] = "candidate" => Course[currentTerm'[i]].candidate = i

LateSpec == Init /\ [][LateNext]_vars

=============================================================================
