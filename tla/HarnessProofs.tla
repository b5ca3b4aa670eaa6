--------------------------- MODULE HarnessProofs ---------------------------
(***************************************************************************)
(* What the harness promises the labs, for any number of servers, calls    *)
(* and restarts: a positive reply means a saved update, and the ends of a  *)
(* crashed instance stay disabled.                                         *)
(***************************************************************************)
EXTENDS Harness, TLAPS

\* The time, in seconds, that the provers have for a leaf which names none.
USE SMTT(30), ZenonT(30)

\* Ends lead to servers, and belong to instances that were started.
EndsInv ==
    \A e \in ends : /\ e.to \in Name
                    /\ e.owner[1] \in Peer => e.owner[2] <= starts[e.owner[1]]

\* The instance behind a name writes to the persister saved[i]: it is given
\* it before AddServer() and loses it after DeleteServer().
ServerInv ==
    \A i \in Name :
        /\ servers[i] # NoServer => attached[i] = starts[i]
        /\ pc[i] \in {"deleted", "down", "starting"} => servers[i] = NoServer
        /\ pc[i] = "starting" => attached[i] = starts[i]

\* What is known of one call: the update of a handler that returned is saved
\* unless its instance has been deleted, and a deleted instance never comes
\* back, since an instance that is being started has no calls yet.
OneCallInv(n, c) ==
    /\ c.phase # "unused" => c.end.to \in Name
    /\ c.phase = "unused" => c.handler = "none"
    /\ c.phase \in {"unused", "sending", "sent"} => c.instance = NoServer
    /\ c.phase \in {"accepted", "waiting", "replied"} => c.instance # NoServer
    /\ c.handler # "none" => c.instance # NoServer
    /\ c.instance # NoServer =>
           /\ c.instance <= starts[c.end.to]
           /\ pc[c.end.to] = "starting" => c.instance < starts[c.end.to]
    /\ c.handler = "returned" =>
           n \in saved[c.end.to] \/ servers[c.end.to] # c.instance
    /\ c.phase = "replied" => c.handler = "returned"
    /\ c.phase \in {"answering", "ok"} => n \in saved[c.end.to]

CallInv == \A n \in CallID : OneCallInv(n, calls[n])

\* Beside CrashedAreSilent: raft/config.go knows which servers are up.
SilentInv ==
    /\ CrashedAreSilent
    /\ \A i \in Peer : lab = "raft" /\ connected[i] => pc[i] = "up"

IInv == TypeOK /\ EndsInv /\ ServerInv /\ CallInv /\ SilentInv

\* make_config() leaves a state that satisfies the invariant.
LEMMA HarnessInit == Init => IInv
<1> SUFFICES ASSUME Init PROVE IInv
    OBVIOUS
<1> USE HarnessSize, NoServerAssumption
<1>1. ASSUME NEW i \in Name, NEW j \in Name
      PROVE  LET e == EndOf(i, 1, j, FALSE)
             IN  /\ e \in End /\ e.to \in Name
                 /\ e.owner[1] \in Name /\ e.owner[2] = 1
    <2>1. i \in 0..N + 1 /\ j \in 0..N + 1 /\ 1 \in 0..MaxStarts
        BY DEF Name, Peer, Master
    <2>2. <<i, 1>> \in (0..N + 1) \X (0..MaxStarts)
        BY <2>1
    <2> QED
        BY <2>1, <2>2 DEF EndOf, End
<1>2. \A e \in ends : /\ e \in End /\ e.to \in Name
                      /\ e.owner[1] \in Name /\ e.owner[2] = 1
    <2>1. SUFFICES ASSUME NEW e \in ends
                   PROVE  \E i \in Name, j \in Name : e = EndOf(i, 1, j, FALSE)
        BY <1>1, Zenon
    <2>2. Reach(lab) \subseteq Name
        BY DEF Reach, Name
    <2>3. Peer \subseteq Name /\ Master \in Name
        BY DEF Name
    <2>4. \/ \E i \in Peer : e \in Given(i, 1, lab)
          \/ e = EndOf(Master, 1, Master, FALSE)
        BY Zenon DEF Init
    <2> QED
        BY <2>2, <2>3, <2>4, Zenon DEF Given
<1>3. NoCall \in CallRecord
    BY DEF NoCall, NoEnd, CallRecord, End
<1>4. TypeOK
    <2>1. ends \subseteq End /\ enabled \subseteq ends
        BY <1>2, Zenon DEF Init
    <2>2. calls \in [CallID -> CallRecord]
        BY <1>3 DEF Init
    <2>3. /\ servers \in [Name -> 1..MaxStarts \cup {NoServer}]
          /\ \A i \in Name : servers[i] \in {NoServer, starts[i]}
        BY DEF Init
    <2>4. /\ starts \in [Name -> 1..MaxStarts] /\ attached \in [Name -> 0..MaxStarts]
          /\ saved \in [Name -> SUBSET CallID] /\ connected \in [Peer -> BOOLEAN]
        BY DEF Init
    <2>5. pc \in [Name -> {"up", "isolated", "deleted", "down", "starting"}]
        BY DEF Init
    <2>6. lab \in Labs /\ reliable \in BOOLEAN /\ done \in BOOLEAN /\ listening \in BOOLEAN
        BY Zenon DEF Init
    <2> QED
        BY <2>1, <2>2, <2>3, <2>4, <2>5, <2>6, Zenon DEF TypeOK
<1>5. EndsInv
    <2>1. \A i \in Peer : starts[i] = 1
        BY DEF Init, Name
    <2> QED
        BY <1>2, <2>1 DEF EndsInv
<1>6. ServerInv
    BY DEF ServerInv, Init
<1>7. CallInv
    BY DEF CallInv, OneCallInv, Init, NoCall
<1>8. SilentInv
    BY <1>2, Zenon DEF SilentInv, CrashedAreSilent, Live, Init, Name
<1> QED
    BY <1>4, <1>5, <1>6, <1>7, <1>8 DEF IInv

\* A step that only moves one call keeps what does not mention calls.
LEMMA CallOnly ==
    ASSUME IInv, NEW n \in CallID, NEW rec \in CallRecord, Set(n, rec),
           OneCallInv(n, rec), UNCHANGED <<ends, enabled, servers>>,
           reliable' \in BOOLEAN, done' \in BOOLEAN, listening' \in BOOLEAN,
           UNCHANGED harnessVars
    PROVE  IInv'
<1>1. TypeOK'
    BY DEF IInv, TypeOK, Set, harnessVars
<1>2. calls'[n] = rec /\ \A m \in CallID \ {n} : calls'[m] = calls[m]
    BY DEF IInv, TypeOK, Set
<1>3. CallInv'
    BY <1>2 DEF IInv, CallInv, OneCallInv, harnessVars
<1>4. EndsInv' /\ ServerInv'
    BY DEF IInv, EndsInv, ServerInv, harnessVars
<1>5. SilentInv'
    BY DEF IInv, SilentInv, CrashedAreSilent, Live, harnessVars
<1> QED
    BY <1>1, <1>3, <1>4, <1>5 DEF IInv

\* Making a call keeps the invariant.
LEMMA MakeCallInv ==
    ASSUME IInv, NEW n \in CallID, NEW e \in ends, MakeCall(n, e)
    PROVE  IInv'
<1> DEFINE rec == [NoCall EXCEPT !.phase = "sending", !.end = e]
<1>1. rec \in CallRecord
    BY Zenon DEF IInv, TypeOK, NoCall, CallRecord
<1>2. OneCallInv(n, rec)
    BY DEF IInv, EndsInv, OneCallInv, NoCall
<1>3. Set(n, rec)
    BY DEF MakeCall, Call
<1> QED
    BY <1>1, <1>2, <1>3, CallOnly DEF MakeCall, Call, IInv, TypeOK

\* A step of the network's goroutines keeps the invariant: FinalCheck() lets
\* a reply through only if the instance is still the one behind the name.
LEMMA NetworkRunsInv ==
    ASSUME IInv, NEW n \in CallID, NetworkRuns(n)
    PROVE  IInv'
<1> DEFINE c == calls[n]
<1>1. c \in CallRecord /\ OneCallInv(n, c)
    BY DEF IInv, TypeOK, CallInv
<1>2. UNCHANGED harnessVars
    BY DEF NetworkRuns
<1>3. UNCHANGED <<ends, enabled, servers, reliable, done, listening>>
    BY Zenon DEF NetworkRuns, NetworkStep, Sent, Destroyed, readEndnameInfo, dispatch,
           TakeReply, PollDead, FinalCheck, Answer
<1>4. reliable' \in BOOLEAN /\ done' \in BOOLEAN /\ listening' \in BOOLEAN
    BY <1>3 DEF IInv, TypeOK
<1>5. SUFFICES \E rec \in CallRecord : Set(n, rec) /\ OneCallInv(n, rec)
    BY <1>2, <1>3, <1>4, CallOnly
<1>6. CASE readEndnameInfo(n) /\ c.end \in enabled /\ servers[c.end.to] # NoServer
    <2> DEFINE rec == [c EXCEPT !.phase = "accepted", !.instance = servers[c.end.to],
                                !.dropping = ~reliable]
    <2>1. c.end.to \in Name
        BY <1>1, <1>6 DEF readEndnameInfo, OneCallInv
    <2>2. /\ servers[c.end.to] \in 1..MaxStarts /\ servers[c.end.to] = starts[c.end.to]
          /\ pc[c.end.to] # "starting"
        BY <1>6, <2>1 DEF IInv, TypeOK, ServerInv
    <2>3. rec \in CallRecord
        BY <1>1, <2>2, Zenon DEF CallRecord
    <2>4. /\ rec.phase = "accepted" /\ rec.end = c.end
          /\ rec.instance = servers[c.end.to] /\ rec.handler = c.handler
        BY <1>1, Zenon DEF CallRecord
    <2>5. c.handler = "none"
        BY <1>1, <1>6 DEF OneCallInv, readEndnameInfo
    <2> HIDE DEF rec
    <2>6. OneCallInv(n, rec)
        BY <1>6, <2>1, <2>2, <2>4, <2>5, HarnessSize DEF OneCallInv
    <2> QED
        BY <1>6, <2>3, <2>6 DEF readEndnameInfo, rec
<1>7. ASSUME NEW p, p \in {"sent", "failed", "timing out", "replied", "abandoned",
                           "answering", "ok"},
             SetPhase(n, p), c.phase # "unused", p = "sent" => c.phase = "sending",
             p = "replied" => c.phase = "waiting" /\ c.handler = "returned",
             p \in {"answering", "ok"} => n \in saved[c.end.to]
      PROVE  \E rec \in CallRecord : Set(n, rec) /\ OneCallInv(n, rec)
    <2> DEFINE rec == [c EXCEPT !.phase = p]
    <2>1. rec \in CallRecord
        BY <1>1, <1>7, Zenon DEF CallRecord
    <2>2. OneCallInv(n, rec)
        BY <1>1, <1>7, Zenon DEF OneCallInv, CallRecord
    <2> QED
        BY <1>7, <2>1, <2>2, Zenon DEF SetPhase
<1>8. CASE readEndnameInfo(n) /\ ~(c.end \in enabled /\ servers[c.end.to] # NoServer)
    BY <1>7, <1>8, Zenon DEF readEndnameInfo
<1>9. CASE Sent(n) \/ Destroyed(n)
    BY <1>7, <1>9, Zenon DEF Sent, Destroyed
<1>10. CASE dispatch(n)
    <2> DEFINE rec == [c EXCEPT !.phase = "waiting", !.handler = "running"]
    <2>1. CASE Set(n, rec)
        <3>1. rec \in CallRecord
            BY <1>1, Zenon DEF CallRecord
        <3>2. OneCallInv(n, rec)
            BY <1>1, <1>10, Zenon DEF OneCallInv, CallRecord, dispatch
        <3> QED
            BY <2>1, <3>1, <3>2
    <2>2. CASE SetPhase(n, "failed")
        BY <1>7, <1>10, <2>2, Zenon DEF dispatch
    <2> QED
        BY <1>10, <2>1, <2>2 DEF dispatch
<1>11. CASE TakeReply(n) \/ PollDead(n)
    BY <1>7, <1>11, Zenon DEF TakeReply, PollDead
<1>12. CASE FinalCheck(n)
    <2>1. CASE c.phase = "replied" /\ ~isServerDead(n) /\ SetPhase(n, "answering")
        <3>1. n \in saved[c.end.to]
            BY <1>1, <2>1 DEF isServerDead, OneCallInv
        <3> QED
            BY <1>7, <2>1, <3>1, Zenon
    <2>2. CASE SetPhase(n, "failed")
        BY <1>7, <1>12, <2>2, Zenon DEF FinalCheck
    <2> QED
        BY <1>12, <2>1, <2>2 DEF FinalCheck
<1>13. CASE Answer(n)
    <2>1. CASE c.phase = "answering" /\ SetPhase(n, "ok")
        BY <1>1, <1>7, <2>1, Zenon DEF OneCallInv
    <2>2. CASE c.phase = "timing out" /\ SetPhase(n, "failed")
        BY <1>7, <2>2, Zenon
    <2> QED
        BY <1>13, <2>1, <2>2, Zenon DEF Answer
<1> QED
    BY <1>6, <1>8, <1>9, <1>10, <1>11, <1>12, <1>13 DEF NetworkRuns, NetworkStep

\* The handler keeps the invariant: it saves in saved[i] exactly if its
\* instance still has that persister.
LEMMA HandleInv ==
    ASSUME IInv, NEW n \in CallID, Handle(n)
    PROVE  IInv'
<1> DEFINE c == calls[n]
           t == c.end.to
           rec == [c EXCEPT !.handler = "returned"]
<1>1. c \in CallRecord /\ OneCallInv(n, c) /\ c.handler = "running"
    BY DEF IInv, TypeOK, CallInv, Handle, HandlerReturns
<1>2. t \in Name /\ c.instance # NoServer
    BY <1>1 DEF OneCallInv
<1>3. /\ rec \in CallRecord /\ rec.phase = c.phase /\ rec.end = c.end
      /\ rec.instance = c.instance /\ rec.handler = "returned"
    BY <1>1, Zenon DEF CallRecord
<1>4. calls'[n] = rec /\ \A m \in CallID \ {n} : calls'[m] = calls[m]
    BY DEF IInv, TypeOK, Handle, HandlerReturns, Set
<1>5. /\ UNCHANGED <<ends, enabled, servers, reliable, done, listening>>
      /\ UNCHANGED <<lab, starts, pc, connected, attached>>
    BY DEF Handle, HandlerReturns
<1>6. /\ saved' \in [Name -> SUBSET CallID]
      /\ \A i \in Name : saved[i] \subseteq saved'[i]
      /\ attached[t] = c.instance => n \in saved'[t]
    BY <1>2 DEF IInv, TypeOK, Handle
<1> HIDE DEF rec
<1>7. calls' \in [CallID -> CallRecord]
    BY <1>3 DEF IInv, TypeOK, Handle, HandlerReturns, Set, rec
<1>8. TypeOK'
    BY <1>5, <1>6, <1>7 DEF IInv, TypeOK
<1>9. EndsInv' /\ ServerInv'
    BY <1>5 DEF IInv, EndsInv, ServerInv
<1>10. SilentInv'
    BY <1>5 DEF IInv, SilentInv, CrashedAreSilent, Live
<1>11. n \in saved'[t] \/ servers[t] # c.instance
    <2>1. CASE servers[t] = c.instance
        <3>1. attached[t] = starts[t] /\ servers[t] = starts[t]
            BY <1>2, <2>1 DEF IInv, ServerInv, TypeOK
        <3> QED
            BY <1>6, <2>1, <3>1
    <2> QED
        BY <2>1
<1>12. OneCallInv(n, calls[n])'
    BY <1>1, <1>2, <1>3, <1>4, <1>5, <1>6, <1>11 DEF OneCallInv
<1>13. ASSUME NEW m \in CallID \ {n} PROVE OneCallInv(m, calls[m])'
    <2>1. OneCallInv(m, calls[m])
        BY DEF IInv, CallInv
    <2>2. calls[m].end.to \in Name \/ calls[m].phase = "unused"
        BY <2>1 DEF OneCallInv
    <2> QED
        BY <1>4, <1>5, <1>6, <2>1, <2>2 DEF OneCallInv
<1> QED
    BY <1>8, <1>9, <1>10, <1>12, <1>13 DEF IInv, CallInv

\* A step of the tests leaves calls alone, so it keeps what is known of them
\* if no instance that has calls comes back.
LEMMA TestStep ==
    ASSUME IInv, TypeOK', EndsInv', ServerInv', SilentInv',
           UNCHANGED <<calls, saved>>,
           \A i \in Name :
               /\ starts[i] <= starts'[i]
               /\ pc'[i] = "starting" => pc[i] = "starting" \/ starts'[i] > starts[i]
               /\ \/ servers'[i] \in {servers[i], NoServer}
                  \/ pc[i] = "starting" /\ servers'[i] = starts[i]
    PROVE  IInv'
<1> SUFFICES ASSUME NEW n \in CallID PROVE OneCallInv(n, calls[n])'
    BY DEF IInv, CallInv
<1> DEFINE c == calls[n]
           t == c.end.to
<1>1. OneCallInv(n, c) /\ c \in CallRecord
    BY DEF IInv, CallInv, TypeOK
<1>2. t \in Name \/ c.phase = "unused"
    BY <1>1 DEF OneCallInv
<1>3. CASE c.phase = "unused"
    BY <1>1, <1>3 DEF OneCallInv
<1>4. CASE t \in Name
    <2>1. starts[t] \in Nat /\ starts'[t] \in Nat
        BY <1>4, HarnessSize DEF IInv, TypeOK
    <2>2. c.instance # NoServer => c.instance \in Nat
        <3>1. c.instance \in 1..MaxStarts \cup {NoServer}
            BY <1>1, Zenon DEF CallRecord
        <3> QED
            BY <3>1, HarnessSize
    <2>3. c.instance # NoServer =>
              /\ c.instance <= starts'[t]
              /\ pc'[t] = "starting" => c.instance < starts'[t]
        BY <1>1, <1>4, <2>1, <2>2 DEF OneCallInv
    <2>4. c.handler = "returned" => n \in saved[t] \/ servers'[t] # c.instance
        BY <1>1, <1>4, <2>1, <2>2 DEF OneCallInv
    <2> QED
        BY <1>1, <2>3, <2>4 DEF OneCallInv
<1> QED
    BY <1>2, <1>3, <1>4

\* Shutting down a server keeps the invariant, step by step.
LEMMA CrashInv ==
    ASSUME IInv, NEW i \in Peer, Crash(i)
    PROVE  IInv'
<1>1. i \in Name /\ Peer \subseteq Name
    BY DEF Name
<1>2. UNCHANGED <<lab, ends, reliable, done, listening, calls, starts, saved>>
    BY DEF Crash, crash1, ShutdownKVServer, ShutdownShardServer, DeleteOld,
           SupersedePersister, Advance
<1>3. PICK to \in {"isolated", "deleted", "down"} :
          /\ pc' = [pc EXCEPT ![i] = to]
          /\ pc[i] \in {"up", "isolated", "deleted"}
          /\ to = "isolated" <=> pc[i] = "up"
          /\ to = "deleted" <=> pc[i] = "isolated"
          /\ to = "down" <=> pc[i] = "deleted"
    BY DEF Crash, crash1, ShutdownKVServer, ShutdownShardServer, DeleteOld,
           SupersedePersister, Advance
<1>4. /\ servers' = IF to = "deleted" THEN [servers EXCEPT ![i] = NoServer] ELSE servers
      /\ attached' = IF to = "down" THEN [attached EXCEPT ![i] = 0] ELSE attached
      /\ enabled' \subseteq enabled
      /\ to = "isolated" => enabled' \cap Outgoing(i) = {}
      /\ connected' \in {connected, [connected EXCEPT ![i] = FALSE]}
      /\ to = "isolated" /\ lab = "raft" => connected' = [connected EXCEPT ![i] = FALSE]
    <2>1. CASE crash1(i)
        BY <1>3, <2>1 DEF crash1, Advance, Disable
    <2>2. CASE ShutdownKVServer(i)
        BY <1>3, <2>2 DEF ShutdownKVServer, Advance, Disable
    <2>3. CASE ShutdownShardServer(i)
        BY <1>3, <2>3 DEF ShutdownShardServer, Advance, Disable
    <2>4. CASE DeleteOld(i)
        BY <1>3, <2>4 DEF DeleteOld, Advance, DeleteServer
    <2>5. CASE SupersedePersister(i)
        BY <1>3, <2>5 DEF SupersedePersister, Advance
    <2> QED
        BY <2>1, <2>2, <2>3, <2>4, <2>5 DEF Crash
<1>5. TypeOK'
    <2>1. enabled' \subseteq ends'
        BY <1>2, <1>4 DEF IInv, TypeOK
    <2>2. servers' \in [Name -> 1..MaxStarts \cup {NoServer}]
        BY <1>1, <1>4 DEF IInv, TypeOK
    <2>3. \A j \in Name : servers'[j] \in {NoServer, starts'[j]}
        BY <1>1, <1>2, <1>4 DEF IInv, TypeOK
    <2>4. pc' \in [Name -> {"up", "isolated", "deleted", "down", "starting"}]
        BY <1>1, <1>3 DEF IInv, TypeOK
    <2>5. connected' \in [Peer -> BOOLEAN]
        <3>1. connected \in [Peer -> BOOLEAN]
            BY DEF IInv, TypeOK
        <3>2. [connected EXCEPT ![i] = FALSE] \in [Peer -> BOOLEAN]
            BY <3>1, Zenon
        <3> QED
            BY <1>4, <3>1, <3>2, Zenon
    <2>6. attached' \in [Name -> 0..MaxStarts]
        BY <1>1, <1>4, HarnessSize DEF IInv, TypeOK
    <2> QED
        BY <1>2, <2>1, <2>2, <2>3, <2>4, <2>5, <2>6 DEF IInv, TypeOK
<1>6. EndsInv'
    BY <1>2 DEF IInv, EndsInv
<1>7. ServerInv'
    BY <1>1, <1>2, <1>3, <1>4 DEF IInv, ServerInv, TypeOK
<1>8. SilentInv'
    <2>1. CrashedAreSilent'
        <3> SUFFICES ASSUME NEW e \in enabled', e.owner[1] \in Peer, ~e.made
                     PROVE  Live(e.owner[1], e.owner[2])'
            BY DEF CrashedAreSilent
        <3>1. Live(e.owner[1], e.owner[2]) /\ e \in ends /\ e \in End
            BY <1>4 DEF IInv, SilentInv, CrashedAreSilent, TypeOK
        <3>2. CASE e.owner[1] # i
            BY <1>1, <1>2, <1>3, <3>1, <3>2 DEF Live, IInv, TypeOK
        <3>3. CASE e.owner[1] = i
            <4>1. pc[i] = "up" /\ e.owner[2] = starts[i]
                BY <1>3, <3>1, <3>3 DEF Live
            <4>2. e.owner = <<i, starts[i]>>
                BY <3>1, <3>3, <4>1 DEF End
            <4>3. e \in Outgoing(i)
                BY <3>1, <4>2 DEF Outgoing
            <4> QED
                BY <1>3, <1>4, <4>1, <4>3
        <3> QED
            BY <3>2, <3>3
    <2>2. (\A j \in Peer : lab = "raft" /\ connected[j] => pc[j] = "up")'
        BY <1>1, <1>2, <1>3, <1>4 DEF IInv, SilentInv, TypeOK
    <2> QED
        BY <2>1, <2>2 DEF SilentInv
<1>9. \A j \in Name :
          /\ starts[j] <= starts'[j]
          /\ pc'[j] = "starting" => pc[j] = "starting" \/ starts'[j] > starts[j]
          /\ servers'[j] \in {servers[j], NoServer}
    BY <1>1, <1>2, <1>3, <1>4 DEF IInv, TypeOK
<1> QED
    BY <1>2, <1>5, <1>6, <1>7, <1>8, <1>9, TestStep

\* The fields of an end are in range.
LEMMA EndFields ==
    ASSUME NEW i \in 0..N + 1, NEW k \in 0..MaxStarts, NEW j \in Name
    PROVE  <<i, k>> \in (0..N + 1) \X (0..MaxStarts) /\ j \in 0..N + 1
BY HarnessSize DEF Name, Peer, Master

\* The ends of a new instance are well formed and its own.
LEMMA GivenEnds ==
    ASSUME NEW i \in Peer, NEW k \in 0..MaxStarts, NEW l, NEW e \in Given(i, k, l)
    PROVE  /\ e \in End /\ e.to \in Name
           /\ e.owner[1] = i /\ e.owner[2] = k
<1>1. i \in 0..N + 1
    BY HarnessSize DEF Peer
<1>2. Reach(l) \subseteq Name
    BY DEF Reach, Name
<1>3. PICK j \in Reach(l) : e = EndOf(i, k, j, FALSE)
    BY Zenon DEF Given
<1>4. j \in Name
    BY <1>2
<1> QED
    BY <1>1, <1>3, <1>4, EndFields DEF EndOf, End

\* Starting a server keeps the invariant: the instance is new, so no call
\* has reached it, and the ends of the old one stay disabled.
LEMMA StartInv ==
    ASSUME IInv, NEW i \in Peer, Start(i)
    PROVE  IInv'
<1>1. i \in Name /\ Peer \subseteq Name
    BY DEF Name
<1>2. UNCHANGED <<lab, reliable, done, listening, calls, connected, saved>>
    BY DEF Start, start1, StartKVServer, StartShardServer, Started, AddNew, Advance
<1>3. starts[i] \in 1..MaxStarts
    BY <1>1 DEF IInv, TypeOK
<1>4. CASE Started(i) /\ enabled' \subseteq enabled \cup Fresh(i)
    <2>1. /\ pc[i] = "down" /\ pc' = [pc EXCEPT ![i] = "starting"]
          /\ starts[i] < MaxStarts /\ starts' = [starts EXCEPT ![i] = starts[i] + 1]
          /\ attached' = [attached EXCEPT ![i] = starts[i] + 1]
          /\ servers' = servers
          /\ ends' = ends \cup Fresh(i) /\ enabled' \subseteq enabled \cup Fresh(i)
        BY <1>4 DEF Started, Advance, MakeEnd
    <2>2. starts[i] + 1 \in 1..MaxStarts /\ starts[i] + 1 \in 0..MaxStarts
        BY <1>3, <2>1, HarnessSize
    <2>3. \A e \in Fresh(i) : /\ e \in End /\ e.to \in Name
                              /\ e.owner[1] = i /\ e.owner[2] = starts[i] + 1
        BY <2>2, GivenEnds DEF Fresh
    <2>4. servers[i] = NoServer
        BY <1>1, <2>1 DEF IInv, ServerInv
    <2>5. \A j \in Name : starts[j] \in Nat /\ starts[j] <= starts'[j]
        BY <1>1, <1>3, <2>1, HarnessSize DEF IInv, TypeOK
    <2>6. TypeOK'
        <3>1. ends' \subseteq End
            BY <2>1, <2>3 DEF IInv, TypeOK
        <3>2. starts' \in [Name -> 1..MaxStarts] /\ attached' \in [Name -> 0..MaxStarts]
            BY <1>1, <2>1, <2>2 DEF IInv, TypeOK
        <3>3. pc' \in [Name -> {"up", "isolated", "deleted", "down", "starting"}]
            BY <1>1, <2>1 DEF IInv, TypeOK
        <3>4. \A j \in Name : servers'[j] \in {NoServer, starts'[j]}
            BY <1>1, <2>1, <2>4 DEF IInv, TypeOK
        <3>5. enabled' \subseteq ends'
            <4>1. enabled \subseteq ends
                BY DEF IInv, TypeOK
            <4> QED
                BY <2>1, <4>1
        <3> QED
            BY <1>2, <2>1, <3>1, <3>2, <3>3, <3>4, <3>5 DEF IInv, TypeOK
    <2>7. EndsInv'
        <3> SUFFICES ASSUME NEW e \in ends'
                     PROVE  /\ e.to \in Name
                            /\ e.owner[1] \in Peer => e.owner[2] <= starts'[e.owner[1]]
            BY DEF EndsInv
        <3>1. CASE e \in ends
            <4>1. e.owner[2] \in Nat
                BY <3>1, HarnessSize DEF IInv, TypeOK, End
            <4>2. e.to \in Name
                BY <3>1 DEF IInv, EndsInv
            <4>3. ASSUME e.owner[1] \in Peer PROVE e.owner[2] <= starts[e.owner[1]]
                BY <3>1, <4>3 DEF IInv, EndsInv
            <4>4. ASSUME e.owner[1] \in Peer PROVE starts'[e.owner[1]] \in Nat
                BY <1>1, <2>6, <4>4, HarnessSize DEF TypeOK
            <4> QED
                BY <1>1, <2>5, <4>1, <4>2, <4>3, <4>4
        <3>2. CASE e \in Fresh(i)
            BY <1>1, <1>3, <2>1, <2>3, <3>2 DEF IInv, TypeOK
        <3> QED
            BY <2>1, <3>1, <3>2
    <2>8. ServerInv'
        BY <1>1, <2>1, <2>4 DEF IInv, ServerInv, TypeOK
    <2>9. SilentInv'
        <3>1. CrashedAreSilent'
            <4> SUFFICES ASSUME NEW e \in enabled', e.owner[1] \in Peer, ~e.made
                         PROVE  Live(e.owner[1], e.owner[2])'
                BY DEF CrashedAreSilent
            <4>1. CASE e \in enabled
                <5>1. Live(e.owner[1], e.owner[2])
                    BY <4>1 DEF IInv, SilentInv, CrashedAreSilent
                <5>2. e.owner[1] # i
                    BY <2>1, <5>1 DEF Live
                <5> QED
                    BY <1>1, <2>1, <5>1, <5>2 DEF Live, IInv, TypeOK
            <4>2. CASE e \in Fresh(i)
                BY <1>1, <2>1, <2>3, <4>2 DEF Live, IInv, TypeOK
            <4> QED
                BY <2>1, <4>1, <4>2
        <3>2. (\A j \in Peer : lab = "raft" /\ connected[j] => pc[j] = "up")'
            BY <1>1, <1>2, <2>1 DEF IInv, SilentInv, TypeOK
        <3> QED
            BY <3>1, <3>2 DEF SilentInv
    <2>10. \A j \in Name :
              /\ pc'[j] = "starting" => pc[j] = "starting" \/ starts'[j] > starts[j]
              /\ servers'[j] \in {servers[j], NoServer}
        BY <1>1, <1>3, <2>1 DEF IInv, TypeOK
    <2> QED
        BY <1>2, <2>5, <2>6, <2>7, <2>8, <2>9, <2>10, TestStep
<1>5. CASE AddNew(i)
    <2>1. /\ pc[i] = "starting" /\ pc' = [pc EXCEPT ![i] = "up"]
          /\ servers' = [servers EXCEPT ![i] = starts[i]]
          /\ UNCHANGED <<ends, enabled, starts, attached>>
        BY <1>5 DEF AddNew, Advance, AddServer
    <2>2. TypeOK'
        <3>1. pc' \in [Name -> {"up", "isolated", "deleted", "down", "starting"}]
            BY <1>1, <2>1 DEF IInv, TypeOK
        <3>2. /\ servers' \in [Name -> 1..MaxStarts \cup {NoServer}]
              /\ \A j \in Name : servers'[j] \in {NoServer, starts'[j]}
            BY <1>1, <1>3, <2>1 DEF IInv, TypeOK
        <3> QED
            BY <1>2, <2>1, <3>1, <3>2 DEF IInv, TypeOK
    <2>3. EndsInv'
        BY <2>1 DEF IInv, EndsInv
    <2>4. ServerInv'
        BY <1>1, <2>1 DEF IInv, ServerInv, TypeOK
    <2>5. SilentInv'
        <3>1. \A j \in Peer : \A k : Live(j, k) => Live(j, k)'
            BY <1>1, <2>1 DEF Live, IInv, TypeOK
        <3>2. CrashedAreSilent'
            BY <2>1, <3>1 DEF IInv, SilentInv, CrashedAreSilent
        <3>3. (\A j \in Peer : lab = "raft" /\ connected[j] => pc[j] = "up")'
            BY <1>1, <1>2, <2>1 DEF IInv, SilentInv, TypeOK
        <3> QED
            BY <3>2, <3>3 DEF SilentInv
    <2>6. \A j \in Name :
              /\ starts[j] <= starts'[j]
              /\ pc'[j] = "starting" => pc[j] = "starting"
              /\ \/ servers'[j] \in {servers[j], NoServer}
                 \/ pc[j] = "starting" /\ servers'[j] = starts[j]
        BY <1>1, <2>1 DEF IInv, TypeOK
    <2> QED
        BY <1>2, <2>2, <2>3, <2>4, <2>5, <2>6, TestStep
<1> QED
    BY <1>4, <1>5 DEF Start, start1, StartKVServer, StartShardServer, Enable

\* Changing which ends are enabled, and making ends, keeps the invariant if
\* the ends are well formed and those enabled belong to instances that live.
LEMMA RewireInv ==
    ASSUME IInv,
           UNCHANGED <<lab, servers, reliable, done, listening, calls,
                       starts, pc, attached, saved>>,
           connected' \in [Peer -> BOOLEAN],
           \A i \in Peer : lab = "raft" /\ connected'[i] => pc[i] = "up",
           ends \subseteq ends', enabled' \subseteq ends',
           \A e \in ends' \ ends :
               /\ e \in End /\ e.to \in Name
               /\ e.owner[1] \in Peer => e.owner[2] <= starts[e.owner[1]],
           \A e \in enabled' \ enabled :
               e.owner[1] \in Peer /\ ~e.made => Live(e.owner[1], e.owner[2])
    PROVE  IInv'
<1>1. TypeOK'
    BY DEF IInv, TypeOK
<1>2. EndsInv'
    BY DEF IInv, EndsInv
<1>3. ServerInv'
    BY DEF IInv, ServerInv
<1>4. SilentInv'
    BY DEF IInv, SilentInv, CrashedAreSilent, Live
<1>5. \A i \in Name :
          /\ starts[i] <= starts'[i]
          /\ pc'[i] = "starting" => pc[i] = "starting"
          /\ servers'[i] = servers[i]
    BY DEF IInv, TypeOK
<1> QED
    BY <1>1, <1>2, <1>3, <1>4, <1>5, TestStep

\* Connecting, disconnecting and partitioning servers keeps the invariant.
LEMMA ConnectionsInv ==
    ASSUME IInv, (\E i \in Peer : connect(i) \/ disconnect(i))
                   \/ (\E p \in SUBSET Peer : partition(p))
    PROVE  IInv'
<1>1. Rewire
    BY Zenon DEF connect, disconnect, partition
<1>2. \A i \in Peer : Outgoing(i) \subseteq ends /\ Incoming(i) \subseteq ends
    BY Zenon DEF Outgoing, Incoming
<1>3. /\ connected \in [Peer -> BOOLEAN] /\ enabled \subseteq ends
      /\ \A i \in Peer : lab = "raft" /\ connected[i] => pc[i] = "up"
    BY DEF IInv, TypeOK, SilentInv
<1>4. \A i \in Peer : \A e \in Outgoing(i) : pc[i] = "up" => Live(e.owner[1], e.owner[2])
    BY DEF Outgoing, Live
<1>5. CASE \E i \in Peer : connect(i)
    <2>1. PICK i \in Peer : connect(i)
        BY <1>5
    <2>2. connected' \in [Peer -> BOOLEAN]
        BY <1>3, <2>1, Zenon DEF connect
    <2>3. \A j \in Peer : lab = "raft" /\ connected'[j] => pc[j] = "up"
        BY <1>3, <2>1 DEF connect
    <2>4. enabled' \subseteq ends
        BY <1>2, <1>3, <2>1 DEF connect, Enable
    <2>5. ASSUME NEW e \in enabled' \ enabled, e.owner[1] \in Peer
          PROVE  Live(e.owner[1], e.owner[2])
        <3>1. e \in Outgoing(i) \/ (e \in Incoming(i) /\ connected'[e.owner[1]])
            BY <2>1, <2>5 DEF connect, Enable
        <3>2. CASE e \in Outgoing(i)
            BY <1>4, <2>1, <3>2 DEF connect
        <3>3. CASE e \in Incoming(i) /\ connected'[e.owner[1]]
            <4>1. e.owner[2] = starts[e.owner[1]]
                BY <3>3 DEF Incoming, EndOf
            <4>2. pc[e.owner[1]] = "up"
                BY <2>1, <2>3, <2>5, <3>3 DEF connect
            <4> QED
                BY <4>1, <4>2 DEF Live
        <3> QED
            BY <3>1, <3>2, <3>3
    <2> QED
        BY <1>1, <2>2, <2>3, <2>4, <2>5, RewireInv DEF Rewire
<1>6. CASE \E i \in Peer : disconnect(i)
    <2>1. PICK i \in Peer : disconnect(i)
        BY <1>6
    <2>2. connected' \in [Peer -> BOOLEAN]
        BY <1>3, <2>1, Zenon DEF disconnect
    <2>3. \A j \in Peer : lab = "raft" /\ connected'[j] => pc[j] = "up"
        BY <1>3, <2>1 DEF disconnect
    <2>4. enabled' \subseteq enabled
        BY <2>1 DEF disconnect, Disable
    <2> QED
        BY <1>1, <1>3, <2>2, <2>3, <2>4, RewireInv DEF Rewire
<1>7. CASE \E p \in SUBSET Peer : partition(p)
    <2>1. PICK p \in SUBSET Peer : partition(p)
        BY <1>7
    <2>2. /\ connected' = connected /\ \A i \in Peer : pc[i] = "up"
          /\ enabled' \subseteq enabled \cup UNION {Outgoing(i) : i \in Peer}
        BY <2>1 DEF partition
    <2>3. \A e \in enabled' \ enabled : Live(e.owner[1], e.owner[2])
        BY <1>4, <2>2
    <2>4. enabled' \subseteq ends
        BY <1>2, <1>3, <2>2, SMTT(30)
    <2> QED
        BY <1>1, <1>3, <2>2, <2>3, <2>4, RewireInv DEF Rewire
<1> QED
    BY <1>5, <1>6, <1>7

\* Making clerks and their ends, and the ends of make_end(), keeps the
\* invariant.
LEMMA ClerksInv ==
    ASSUME IInv,
           \/ \E to \in SUBSET Peer :
                  makeClient(to) \/ ConnectClient(to) \/ DisconnectClient(to)
           \/ makeShardClient
           \/ \E i \in Peer, k \in 1..MaxStarts : make_end(i, k)
    PROVE  IInv'
<1>1. NewEnds
    BY Zenon DEF makeClient, ConnectClient, DisconnectClient, makeShardClient, make_end
<1>2. /\ connected \in [Peer -> BOOLEAN] /\ enabled \subseteq ends
      /\ \A i \in Peer : lab = "raft" /\ connected[i] => pc[i] = "up"
    BY DEF IInv, TypeOK, SilentInv
<1>3. \A j \in Name : LET e == ClerkEnd(j)
                     IN  e \in End /\ e.to \in Name /\ e.owner[1] \notin Peer
    <2>1. 0 \in 0..N + 1 /\ 0 \in 0..MaxStarts /\ 0 \notin Peer
        BY HarnessSize DEF Peer
    <2> QED
        BY <2>1, EndFields DEF ClerkEnd, EndOf, End
<1>4. Peer \subseteq Name
    BY DEF Name
<1>5. SUFFICES /\ ends \subseteq ends' /\ enabled' \subseteq ends'
               /\ \A e \in ends' \ ends :
                      /\ e \in End /\ e.to \in Name
                      /\ e.owner[1] \in Peer => e.owner[2] <= starts[e.owner[1]]
               /\ \A e \in enabled' \ enabled :
                      e.owner[1] \in Peer /\ ~e.made => Live(e.owner[1], e.owner[2])
    BY <1>1, <1>2, RewireInv DEF NewEnds
<1>6. ASSUME NEW to \in SUBSET Peer, makeClient(to)
      PROVE  /\ ends' = ends \cup {ClerkEnd(j) : j \in Peer}
             /\ enabled' = enabled \cup {ClerkEnd(j) : j \in to}
    BY <1>6 DEF makeClient, MakeEnd, Enable
<1>7. CASE \E to \in SUBSET Peer : makeClient(to)
    BY <1>2, <1>3, <1>4, <1>6, <1>7
<1>8. CASE \E to \in SUBSET Peer : ConnectClient(to)
    <2>1. PICK to \in SUBSET Peer : ConnectClient(to)
        BY <1>8
    <2>2. ends' = ends /\ enabled' = enabled \cup {ClerkEnd(j) : j \in to}
        BY <2>1 DEF ConnectClient, Enable
    <2>3. {ClerkEnd(j) : j \in to} \subseteq ends
        BY <2>1 DEF ConnectClient
    <2> QED
        BY <1>2, <1>3, <1>4, <2>2, <2>3
<1>9. CASE \E to \in SUBSET Peer : DisconnectClient(to)
    BY <1>2, <1>9 DEF DisconnectClient, Disable
<1>10. CASE makeShardClient
    BY <1>2, <1>3, <1>10 DEF makeShardClient, MakeEnd, Enable
<1>11. CASE \E i \in Peer, k \in 1..MaxStarts : make_end(i, k)
    <2>1. PICK i \in Peer, k \in 1..MaxStarts : make_end(i, k)
        BY <1>11
    <2> DEFINE e == EndOf(i, k, i, TRUE)
    <2>2. /\ ends' = ends \cup {e} /\ enabled' = enabled \cup {e}
          /\ k \in 1..starts[i]
        BY <2>1 DEF make_end, MakeEnd, Enable
    <2>3. i \in 0..N + 1 /\ k \in 0..MaxStarts /\ i \in Name
        BY HarnessSize DEF Peer, Name
    <2>4. /\ e \in End /\ e.to = i /\ e.made = TRUE
          /\ e.owner[1] = i /\ e.owner[2] = k
        BY <2>3, EndFields DEF EndOf, End
    <2>5. k <= starts[i]
        BY <2>2, <2>3, HarnessSize DEF IInv, TypeOK
    <2> HIDE DEF e
    <2> QED
        BY <1>2, <2>2, <2>3, <2>4, <2>5
<1> QED
    BY <1>7, <1>8, <1>9, <1>10, <1>11

\* Every step keeps the invariant.
LEMMA HarnessNext ==
    ASSUME IInv, [Next]_vars
    PROVE  IInv'
<1>1. CASE \E i \in MayCrash : Crash(i) \/ Start(i)
    BY <1>1, CrashInv, StartInv, MayCrashAssumption DEF Peer
<1>2. CASE \E i \in Peer : connect(i) \/ disconnect(i)
    BY <1>2, ConnectionsInv
<1>3. CASE \E to \in SUBSET Peer : partition(to)
    BY <1>3, ConnectionsInv
<1>4. CASE \E to \in SUBSET Peer : makeClient(to) \/ ConnectClient(to) \/ DisconnectClient(to)
    BY <1>4, ClerksInv
<1>5. CASE makeShardClient
    BY <1>5, ClerksInv
<1>6. CASE \E i \in Peer, k \in 1..MaxStarts : make_end(i, k)
    BY <1>6, ClerksInv
<1>7. CASE \E n \in CallID : (\E e \in ends : MakeCall(n, e)) \/ Handle(n) \/ NetworkRuns(n)
    BY <1>7, MakeCallInv, HandleInv, NetworkRunsInv
<1>8. CASE Settings \/ UNCHANGED vars
    <2>1. /\ UNCHANGED <<ends, enabled, servers, calls>> /\ UNCHANGED harnessVars
          /\ reliable' \in BOOLEAN /\ done' \in BOOLEAN /\ listening' \in BOOLEAN
        BY <1>8, Zenon DEF Settings, Reliable, Cleanup, StopListening, vars, netVars, harnessVars,
                    IInv, TypeOK
    <2>2. TypeOK' /\ EndsInv' /\ ServerInv'
        BY <2>1 DEF IInv, TypeOK, EndsInv, ServerInv, harnessVars
    <2>3. SilentInv'
        BY <2>1 DEF IInv, SilentInv, CrashedAreSilent, Live, harnessVars
    <2>4. CallInv'
        BY <2>1 DEF IInv, CallInv, OneCallInv, harnessVars
    <2> QED
        BY <2>2, <2>3, <2>4 DEF IInv
<1> QED
    BY <1>1, <1>2, <1>3, <1>4, <1>5, <1>6, <1>7, <1>8 DEF Next

\* The state of the network and of the harness is well typed, and the server
\* behind a name is always the last instance started under it.
THEOREM HarnessTypeCorrect == Spec => []TypeOK
<1>1. IInv => TypeOK
    BY DEF IInv
<1> QED
    BY HarnessInit, HarnessNext, <1>1, PTL DEF Spec

\* A positive reply means that the update is in the persister the next
\* instance of the server is given: what processReq() and the configs say
\* their order of DeleteServer() and Copy() is for.
THEOREM AckedIsSavedHolds == Spec => []AckedIsSaved
<1>1. IInv => AckedIsSaved
    BY DEF IInv, CallInv, OneCallInv, AckedIsSaved
<1> QED
    BY HarnessInit, HarnessNext, <1>1, PTL DEF Spec

\* The ends handed to an instance that was shut down are never enabled.
THEOREM CrashedAreSilentHolds == Spec => []CrashedAreSilent
<1>1. IInv => CrashedAreSilent
    BY DEF IInv, SilentInv
<1> QED
    BY HarnessInit, HarnessNext, <1>1, PTL DEF Spec

=============================================================================
