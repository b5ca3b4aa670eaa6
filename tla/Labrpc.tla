------------------------------- MODULE Labrpc -------------------------------
(***************************************************************************)
(* The simulated network of labrpc/labrpc.go: client ends, servers, and    *)
(* the life of every ClientEnd.Call().                                     *)
(*                                                                         *)
(* Every method of Network holds rn.mu; one action is what a goroutine     *)
(* does from one release of rn.mu, or one channel operation, to the next.  *)
(* A server is its name and the number of its start: two instances of one  *)
(* server are two *Server values.  Delays are left out: any step may take  *)
(* as long as it likes.                                                    *)
(***************************************************************************)
EXTENDS Integers, FiniteSets

CONSTANTS
    MaxCalls,   \* bound: how many calls are made
    NoServer    \* servers[name] is nil

VARIABLES
    ends,       \* the ends made so far, each connected to the server of one name
    enabled,    \* those that are enabled
    servers,    \* the instance behind every name
    reliable,   \* no request or reply is dropped
    done,       \* Cleanup() has closed rn.done
    listening,  \* the goroutine that takes requests from endCh
    calls       \* what has become of every call

netVars == <<ends, enabled, servers, reliable, done, listening, calls>>

CallID == 1..MaxCalls

NoEnd == [owner |-> <<0, 0>>, to |-> 0, made |-> FALSE]

\* phase: where Call() and processReq() are; instance and dropping: what
\* readEndnameInfo() returned; handler: the goroutine that runs dispatch().
NoCall == [phase |-> "unused", end |-> NoEnd, instance |-> NoServer,
           dropping |-> FALSE, handler |-> "none"]

Set(n, rec) == calls' = [calls EXCEPT ![n] = rec]
SetPhase(n, p) == Set(n, [calls[n] EXCEPT !.phase = p])

-----------------------------------------------------------------------------
(* ClientEnd.Call() and the goroutine of MakeNetwork() *)

Call(n, e) ==
    /\ calls[n].phase = "unused"
    /\ \A m \in CallID : m < n => calls[m].phase # "unused"
    /\ Set(n, [NoCall EXCEPT !.phase = "sending", !.end = e])
    /\ UNCHANGED <<ends, enabled, servers, reliable, done, listening>>

\* The select of Call(): the request is taken, or the network is gone.
Sent(n) ==
    /\ calls[n].phase = "sending"
    /\ listening
    /\ SetPhase(n, "sent")
    /\ UNCHANGED <<ends, enabled, servers, reliable, done, listening>>

Destroyed(n) ==
    /\ calls[n].phase = "sending"
    /\ done
    /\ SetPhase(n, "failed")
    /\ UNCHANGED <<ends, enabled, servers, reliable, done, listening>>

Cleanup ==
    /\ ~done
    /\ done' = TRUE
    /\ UNCHANGED <<ends, enabled, servers, reliable, listening, calls>>

StopListening ==
    /\ done /\ listening
    /\ listening' = FALSE
    /\ UNCHANGED <<ends, enabled, servers, reliable, done, calls>>

Reliable(yes) ==
    /\ reliable # yes
    /\ reliable' = yes
    /\ UNCHANGED <<ends, enabled, servers, done, listening, calls>>

-----------------------------------------------------------------------------
(* processReq() *)

\* Mutant: the server is looked up by its name only.
isServerDeadByName(n) ==
    LET c == calls[n] IN c.end \notin enabled \/ servers[c.end.to] = NoServer

isServerDead(n) ==
    LET c == calls[n] IN c.end \notin enabled \/ servers[c.end.to] # c.instance

\* readEndnameInfo(): reliable is looked at once, here.
readEndnameInfo(n) ==
    LET c == calls[n] IN
    /\ c.phase = "sent"
    /\ IF c.end \in enabled /\ servers[c.end.to] # NoServer
       THEN Set(n, [c EXCEPT !.phase = "accepted", !.instance = servers[c.end.to],
                             !.dropping = ~reliable])
       ELSE SetPhase(n, "timing out")
    /\ UNCHANGED <<ends, enabled, servers, reliable, done, listening>>

\* The request is dropped, or a goroutine is made for the handler.
dispatch(n) ==
    /\ calls[n].phase = "accepted"
    /\ \/ Set(n, [calls[n] EXCEPT !.phase = "waiting", !.handler = "running"])
       \/ calls[n].dropping /\ SetPhase(n, "failed")
    /\ UNCHANGED <<ends, enabled, servers, reliable, done, listening>>

\* The handler returns, whether or not anybody still waits for it.
HandlerReturns(n) ==
    /\ calls[n].handler = "running"
    /\ Set(n, [calls[n] EXCEPT !.handler = "returned"])
    /\ UNCHANGED <<ends, enabled, servers, reliable, done, listening>>

\* The loop: a reply from ech, or every 100 ms a look at the server.
TakeReply(n) ==
    /\ calls[n].phase = "waiting"
    /\ calls[n].handler = "returned"
    /\ SetPhase(n, "replied")
    /\ UNCHANGED <<ends, enabled, servers, reliable, done, listening>>

PollDead(n) ==
    /\ calls[n].phase = "waiting"
    /\ isServerDead(n)
    /\ SetPhase(n, "abandoned")
    /\ UNCHANGED <<ends, enabled, servers, reliable, done, listening>>

\* Mutant: the server is not looked at again.
FinalCheckSkipped(n) ==
    /\ calls[n].phase \in {"replied", "abandoned"}
    /\ \/ calls[n].phase = "replied" /\ SetPhase(n, "answering")
       \/ calls[n].phase = "abandoned" /\ SetPhase(n, "failed")
    /\ UNCHANGED <<ends, enabled, servers, reliable, done, listening>>

\* The second look at the server, and what the caller is told.
FinalCheck(n) ==
    /\ calls[n].phase \in {"replied", "abandoned"}
    /\ \/ /\ calls[n].phase = "replied" /\ ~isServerDead(n)
          /\ SetPhase(n, "answering")
       \/ /\ \/ calls[n].phase = "abandoned"
             \/ isServerDead(n)
             \/ calls[n].dropping
          /\ SetPhase(n, "failed")
    /\ UNCHANGED <<ends, enabled, servers, reliable, done, listening>>

\* The reply or the failure arrives, after a delay if there is one.
Answer(n) ==
    /\ calls[n].phase \in {"answering", "timing out"}
    /\ SetPhase(n, IF calls[n].phase = "answering" THEN "ok" ELSE "failed")
    /\ UNCHANGED <<ends, enabled, servers, reliable, done, listening>>

\* What the goroutines of the network do for a call, the handler apart.
NetworkStep(n) ==
    \/ Sent(n) \/ Destroyed(n)
    \/ readEndnameInfo(n) \/ dispatch(n)
    \/ TakeReply(n) \/ PollDead(n) \/ FinalCheck(n) \/ Answer(n)

Returned(n) == calls[n].phase \in {"ok", "failed"}

-----------------------------------------------------------------------------
(* What the test harness does to the network: the effect on its fields *)

MakeEnd(new) == ends' = ends \cup new
Enable(on) == enabled' = enabled \cup on
Disable(off) == enabled' = enabled \ off
AddServer(name, instance) == servers' = [servers EXCEPT ![name] = instance]

\* Mutant: the server stays in the table.
DeleteServerForgotten(name) == UNCHANGED servers

DeleteServer(name) == servers' = [servers EXCEPT ![name] = NoServer]

=============================================================================
