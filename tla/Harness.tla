------------------------------ MODULE Harness ------------------------------
(***************************************************************************)
(* The configs that drive the labs over the network of Labrpc: they wire   *)
(* servers and clerks, cut and heal connections, and crash and restart     *)
(* servers by giving the same name a new instance and a copy of the old    *)
(* persister.  raft/config.go, kvraft/config.go (shardmaster/config.go is  *)
(* the same code) and shardkv/config.go do it in three ways; `lab' says    *)
(* which of them drives.                                                   *)
(*                                                                         *)
(* Killed instances are never stopped: they run on, call on the ends they  *)
(* have, and write to the persister they were given.  A handler is         *)
(* abstracted to what matters to its caller: it saves the call's update in *)
(* the persister of its instance and returns.                              *)
(***************************************************************************)
EXTENDS Labrpc

CONSTANTS
    N,          \* number of servers of a group
    Labs,       \* the configs that are considered
    MayCrash,   \* bound: the servers that are shut down
    MaxStarts   \* bound: how often a server is started

ASSUME HarnessSize == N \in Nat \ {0} /\ MaxStarts \in Nat \ {0} /\ MaxCalls \in Nat
ASSUME MayCrashAssumption == MayCrash \subseteq 1..N
ASSUME NoServerAssumption == NoServer \notin Nat

VARIABLES
    lab,        \* the config that drives
    starts,     \* per server: the number of its last instance
    pc,         \* per server: how far its shutdown or start has come
    connected,  \* raft/config.go: whether server i is on the net
    attached,   \* the instance that was given the persister saved[i], or 0
    saved       \* per server: the updates in saved[i]

harnessVars == <<lab, starts, pc, connected, attached, saved>>
vars == <<netVars, harnessVars>>

Peer == 1..N
Master == N + 1             \* shardkv: the servers of the shardmaster, as one
Name == Peer \cup {Master}

\* An end of instance k of i to server j; made: it came from make_end().
EndOf(i, k, j, made) == [owner |-> <<i, k>>, to |-> j, made |-> made]
ClerkEnd(j) == EndOf(0, 0, j, FALSE)

\* Whom an instance is given ends to.
Reach(l) == IF l = "shardkv" THEN Name ELSE Peer

\* The ends instance k of i is given when it starts.
Given(i, k, l) == {EndOf(i, k, j, FALSE) : j \in Reach(l)}

\* The ends named in endnames[i] (and mendnames[i]).
Outgoing(i) == {e \in ends : e.owner = <<i, starts[i]>> /\ ~e.made}
\* The ends named endnames[j][i], for every j.
Incoming(i) ==
    {e \in ends : \E j \in Peer : e = EndOf(j, starts[j], i, FALSE)}

\* What make_config() leaves: every server started once and connected.
Init ==
    /\ lab \in Labs
    /\ starts = [i \in Name |-> 1]
    /\ pc = [i \in Name |-> "up"]
    /\ connected = [i \in Peer |-> TRUE]
    /\ attached = [i \in Name |-> 1]
    /\ saved = [i \in Name |-> {}]
    /\ ends = (UNION {Given(i, 1, lab) : i \in Peer})
                \cup (IF lab = "shardkv" THEN {EndOf(Master, 1, Master, FALSE)} ELSE {})
    /\ enabled = ends
    /\ servers = [i \in Name |-> IF i \in Reach(lab) THEN 1 ELSE NoServer]
    /\ reliable \in BOOLEAN
    /\ done = FALSE
    /\ listening = TRUE
    /\ calls = [n \in CallID |-> NoCall]

-----------------------------------------------------------------------------
(* Crashing a server: crash1() and ShutdownServer().  One test goroutine   *)
(* drives the servers, so one shutdown or start is under way at a time;    *)
(* the goroutines of the network run between its calls to the network.     *)

Alone(i) == \A j \in Peer \ {i} : pc[j] \in {"up", "down"}

Advance(i, from, to) ==
    /\ pc[i] = from
    /\ Alone(i)
    /\ ~done
    /\ pc' = [pc EXCEPT ![i] = to]
    /\ UNCHANGED <<lab, reliable, done, listening, calls>>

\* Mutant: only the connections from the other servers are cut.
crash1Incoming(i) ==
    /\ lab = "raft"
    /\ Advance(i, "up", "isolated")
    /\ Disable(Incoming(i))
    /\ connected' = [connected EXCEPT ![i] = FALSE]
    /\ UNCHANGED <<ends, servers, starts, attached, saved>>

\* raft: disconnect(i)
crash1(i) ==
    /\ lab = "raft"
    /\ Advance(i, "up", "isolated")
    /\ Disable(Outgoing(i) \cup Incoming(i))
    /\ connected' = [connected EXCEPT ![i] = FALSE]
    /\ UNCHANGED <<ends, servers, starts, attached, saved>>

\* kvraft: disconnectUnlocked(i, All())
ShutdownKVServer(i) ==
    /\ lab = "kvraft"
    /\ Advance(i, "up", "isolated")
    /\ Disable(Outgoing(i) \cup Incoming(i))
    /\ UNCHANGED <<ends, servers, starts, connected, attached, saved>>

\* shardkv: "prevent this server from sending"
ShutdownShardServer(i) ==
    /\ lab = "shardkv"
    /\ Advance(i, "up", "isolated")
    /\ Disable(Outgoing(i))
    /\ UNCHANGED <<ends, servers, starts, connected, attached, saved>>

DeleteOld(i) ==
    /\ Advance(i, "isolated", "deleted")
    /\ DeleteServer(i)
    /\ UNCHANGED <<ends, enabled, starts, connected, attached, saved>>

\* saved[i] becomes a copy, which no instance has; Kill() changes nothing
\* that the instance looks at.
SupersedePersister(i) ==
    /\ Advance(i, "deleted", "down")
    /\ attached' = [attached EXCEPT ![i] = 0]
    /\ UNCHANGED <<ends, enabled, servers, starts, connected, saved>>

-----------------------------------------------------------------------------
(* Starting a server: fresh ends, a copy of the persister, the new instance *)

Fresh(i) == Given(i, starts[i] + 1, lab)

Started(i) ==
    /\ starts[i] < MaxStarts
    /\ Advance(i, "down", "starting")
    /\ MakeEnd(Fresh(i))
    /\ starts' = [starts EXCEPT ![i] = @ + 1]
    /\ attached' = [attached EXCEPT ![i] = starts[i] + 1]
    /\ UNCHANGED <<servers, connected, saved>>

start1(i) == lab = "raft" /\ Started(i) /\ UNCHANGED enabled
StartKVServer(i) == lab = "kvraft" /\ Started(i) /\ UNCHANGED enabled
StartShardServer(i) == lab = "shardkv" /\ Started(i) /\ Enable(Fresh(i))

AddNew(i) ==
    /\ Advance(i, "starting", "up")
    /\ AddServer(i, starts[i])
    /\ UNCHANGED <<ends, enabled, starts, connected, attached, saved>>

-----------------------------------------------------------------------------
(* Connections.  The tests connect a server only while it is up. *)

Rewire == UNCHANGED <<lab, ends, servers, reliable, done, listening, calls,
                      starts, pc, attached, saved>>

connect(i) ==
    /\ lab = "raft"
    /\ ~connected[i] /\ pc[i] = "up"
    /\ connected' = [connected EXCEPT ![i] = TRUE]
    /\ Enable({e \in Outgoing(i) : connected'[e.to]}
                \cup {e \in Incoming(i) : connected'[e.owner[1]]})
    /\ Rewire

disconnect(i) ==
    /\ lab = "raft"
    /\ connected[i] /\ pc[i] = "up"
    /\ connected' = [connected EXCEPT ![i] = FALSE]
    /\ Disable(Outgoing(i) \cup Incoming(i))
    /\ Rewire

\* partition(p1, All() \ p1); ConnectAll() is the partition with one side.
partition(p1) ==
    LET Within == {e \in UNION {Outgoing(i) : i \in Peer} : e.owner[1] \in p1 <=> e.to \in p1}
        Across == (UNION {Outgoing(i) : i \in Peer}) \ Within
    IN  /\ lab = "kvraft"
        /\ \A i \in Peer : pc[i] = "up"
        /\ enabled' = (enabled \ Across) \cup Within
        /\ enabled' # enabled
        /\ UNCHANGED connected
        /\ Rewire

-----------------------------------------------------------------------------
(* Clerks, and the ends that shard servers and their clerks make *)

NewEnds == UNCHANGED <<lab, servers, reliable, done, listening, calls,
                       starts, pc, connected, attached, saved>>

makeClient(to) ==
    /\ lab = "kvraft"
    /\ ClerkEnd(1) \notin ends
    /\ MakeEnd({ClerkEnd(j) : j \in Peer})
    /\ Enable({ClerkEnd(j) : j \in to})
    /\ NewEnds

ConnectClient(to) ==
    /\ lab = "kvraft"
    /\ {ClerkEnd(j) : j \in to} \subseteq ends
    /\ ~({ClerkEnd(j) : j \in to} \subseteq enabled)
    /\ Enable({ClerkEnd(j) : j \in to})
    /\ NewEnds /\ UNCHANGED ends

DisconnectClient(from) ==
    /\ lab = "kvraft"
    /\ \E j \in from : ClerkEnd(j) \in enabled
    /\ Disable({ClerkEnd(j) : j \in from})
    /\ NewEnds /\ UNCHANGED ends

\* A shardkv clerk: ends to the masters, and make_end() for the servers.
makeShardClient ==
    /\ lab = "shardkv"
    /\ ClerkEnd(Master) \notin ends
    /\ MakeEnd({ClerkEnd(j) : j \in Name})
    /\ Enable({ClerkEnd(j) : j \in Name})
    /\ NewEnds

\* The closure StartServer() hands to instance k of i, for a server of
\* another group (here the one of the same number).
make_end(i, k) ==
    LET e == EndOf(i, k, i, TRUE) IN
    /\ lab = "shardkv"
    /\ k \in 1..starts[i]
    /\ e \notin ends
    /\ MakeEnd({e})
    /\ Enable({e})
    /\ NewEnds

-----------------------------------------------------------------------------
(* Calls *)

\* Instances, crashed ones too, and clerks call on the ends they were given.
MakeCall(n, e) == Call(n, e) /\ UNCHANGED harnessVars

\* The handler saves in the persister its instance was given.  Once saved[i]
\* is a copy, that is an object nobody will read again.
Handle(n) ==
    LET c == calls[n] IN
    /\ HandlerReturns(n)
    /\ saved' = IF attached[c.end.to] = c.instance
                THEN [saved EXCEPT ![c.end.to] = @ \cup {n}]
                ELSE saved
    /\ UNCHANGED <<lab, starts, pc, connected, attached>>

NetworkRuns(n) == NetworkStep(n) /\ UNCHANGED harnessVars

\* SetUnreliable(), cleanup(), and the network's goroutine that sees it.
Settings ==
    /\ \/ \E yes \in BOOLEAN : Reliable(yes)
       \/ Cleanup
       \/ StopListening
    /\ UNCHANGED harnessVars

Crash(i) == crash1(i) \/ ShutdownKVServer(i) \/ ShutdownShardServer(i)
                \/ DeleteOld(i) \/ SupersedePersister(i)
Start(i) == start1(i) \/ StartKVServer(i) \/ StartShardServer(i) \/ AddNew(i)

Next ==
    \/ \E i \in MayCrash : Crash(i) \/ Start(i)
    \/ \E i \in Peer : connect(i) \/ disconnect(i)
    \/ \E to \in SUBSET Peer : partition(to) \/ makeClient(to)
                                  \/ ConnectClient(to) \/ DisconnectClient(to)
    \/ makeShardClient
    \/ \E i \in Peer, k \in 1..MaxStarts : make_end(i, k)
    \/ \E n \in CallID : \/ \E e \in ends : MakeCall(n, e)
                         \/ Handle(n)
                         \/ NetworkRuns(n)
    \/ Settings

Spec == Init /\ [][Next]_vars

\* The goroutines of the network are scheduled.  Nothing is assumed of the
\* handlers, nor of the tests.
FairSpec ==
    /\ Spec
    /\ \A n \in CallID : WF_vars(NetworkRuns(n))

-----------------------------------------------------------------------------
(* Properties *)

End == [owner : (0..N + 1) \X (0..MaxStarts), to : 0..N + 1, made : BOOLEAN]
CallRecord ==
    [phase : {"unused", "sending", "sent", "accepted", "waiting", "replied",
              "abandoned", "answering", "timing out", "ok", "failed"},
     end : End, instance : 1..MaxStarts \cup {NoServer},
     dropping : BOOLEAN, handler : {"none", "running", "returned"}]

\* The type invariant: enabled ends exist, and the server behind a name is
\* the last instance started under it.
TypeOK ==
    /\ ends \subseteq End /\ enabled \subseteq ends
    /\ servers \in [Name -> 1..MaxStarts \cup {NoServer}]
    /\ \A i \in Name : servers[i] \in {NoServer, starts[i]}
    /\ reliable \in BOOLEAN /\ done \in BOOLEAN /\ listening \in BOOLEAN
    /\ calls \in [CallID -> CallRecord]
    /\ lab \in Labs
    /\ starts \in [Name -> 1..MaxStarts]
    /\ pc \in [Name -> {"up", "isolated", "deleted", "down", "starting"}]
    /\ connected \in [Peer -> BOOLEAN]
    /\ attached \in [Name -> 0..MaxStarts]
    /\ saved \in [Name -> SUBSET CallID]

\* A caller that got a positive reply finds its update in the persister the
\* server's next instance will be given, whatever crashes and restarts the
\* reply raced with (processReq() looks at the server again before replying,
\* and config.go deletes the server before it copies the persister).
AckedIsSaved ==
    \A n \in CallID : calls[n].phase = "ok" => n \in saved[calls[n].end.to]

\* Instance k of server i has not been shut down.
Live(i, k) == k = starts[i] /\ pc[i] \in {"up", "starting"}

\* "so that old crashed instance's ClientEnds can't send": no end that was
\* handed to a server when it started is enabled after it was shut down,
\* however the servers are reconnected and partitioned afterwards.  The ends
\* it may have made for itself with make_end() are not disabled.
CrashedAreSilent ==
    \A e \in enabled : e.owner[1] \in Peer /\ ~e.made => Live(e.owner[1], e.owner[2])

\* The one thing Call() may wait for: a handler of a server that is not dead.
AwaitsHandler(n) ==
    LET c == calls[n] IN
    /\ c.phase = "waiting" /\ c.handler = "running"
    /\ c.end \in enabled /\ servers[c.end.to] = c.instance

\* "Call() is guaranteed to return (perhaps after a delay) *except* if the
\* handler function on the server side does not return": and even then it
\* returns once the server is deleted or the end is disabled for good (the
\* poll may miss an end that is enabled again within its 100 ms).
CallReturns ==
    \A n \in CallID :
        <>[]~AwaitsHandler(n) => (calls[n].phase # "unused" ~> Returned(n))

=============================================================================
