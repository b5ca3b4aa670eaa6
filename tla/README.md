# A TLA+ model of the MIT 6.824 labs in this repository

The repository holds the distributed-systems labs of MIT 6.824 in Go: MapReduce
(lab 1), Raft (lab 2), a key/value store replicated with Raft (lab 3), and the
untouched skeletons of the sharded store (lab 4), with the simulated network,
the encoder and the linearizability checker that their tests run on, and the
examples of the lectures. This
directory models them in TLA+. TLC checks the models on small instances; the
TLA+ proof system proves some of their properties for every size.

## The system and what is modelled

| part | source | module | status |
| --- | --- | --- | --- |
| Raft peers: elections, replication, commitment, persistence, restarts | `src/raft/raft.go`, `util.go`, `persister.go`, `config.go` | `Raft` | modelled |
| hand-over of committed entries inside a server (`notifyApplyCh`, `applyCh`, the two locks) | `src/raft/raft.go`, `src/kvraft/server.go` | `RaftApply` | modelled |
| key/value servers and clerks | `src/kvraft/` | `KVRaft`, refining `KVStore` | modelled |
| simulated network | `src/labrpc/labrpc.go` | `Labrpc`; calls in flight also in `Raft` | modelled but for delays, statistics and reflection |
| configs that start, crash and connect servers and clerks | `config.go` of `src/raft/`, `src/kvraft/`, `src/shardkv/` | `Harness`, on top of `Labrpc` | modelled but for what only drives and reports a test |
| MapReduce master and worker | `src/mr/`, `src/main/mrmaster.go` | `MapReduce` | modelled |
| linearizability checker, and the data it draws | `src/porcupine/`, `src/models/` | `Porcupine` | `checkOperations()` and `computeVisualizationData()` |
| web crawlers of lecture 2 | `Lectures/lec2/` | `Crawler` | modelled |
| shard master, sharded store | `src/shardmaster/`, `src/shardkv/` | | not modelled: see the end |
| `labgob`, `mrapps/`, other programs of `main/`, other lecture examples | | | not modelled: see the end |

(Go packages are under `src/` of the repository, lectures beside it.) A Raft peer calls other peers through `labrpc`, saves its state with
its `Persister`, and hands committed entries to the service above it, the
key/value server. Clerks call the servers through `labrpc`. MapReduce is
independent of the rest: its master and workers talk over a Unix socket and
share a directory.

`PROJECT.json` maps every definition to the lines it models and lists the
components, the runs, the hazards (places where the code could go wrong in a way
that tests hardly reach), the findings and the theorems.

## Raft

### State and actions

`rf.mu` protects every field of a peer, so a critical section is one action: an
RPC handler, the handling of a reply, one pass of a periodic routine. A variable
is a function from peers to the field of the same name. Between critical
sections a goroutine holds nothing but the arguments and the reply of its call;
a call is therefore a record in `voteCalls` or `appendCalls` whose `phase` tells
how far it is.

| action | code |
| --- | --- |
| `ElectionTimeout` | a pass of `electionTimoutRoutine()` whose timer has run out |
| `RequestVote` | the handler |
| `VoteReplyOutOfTerm`, `VoteReplyDenied`, `VoteReplyGranted` | `sendRequestVoteAndHandleReply()` after `Call()` returned true |
| `PeriodicAppendEntries` | a pass of `periodicAppendEntriesRoutine()` |
| `AppendEntries` = `RejectSmallerTerm`, `RejectMismatch` or `AcceptEntries` | the handler |
| `AppendReplyOutOfTerm`, `...NotLeader`, `...Success`, `...Failure` | the goroutine of `sendAppendEntriesToPeers()` after `Call()` returned true |
| `Start` | `Start()` on a leader |
| `Apply` | one entry of `applyCommittedRoutine()`; its channels are the subject of `RaftApply` |
| `Restart`, `RestartInHandler` | `crash1()`, `start1()`, `Make()` and `readPersist()`; the second between the two `persist()` calls of a handler |
| `LoseVoteCall`, `LoseAppendCall` | `Call()` returned false |

What is abstracted:

- *Time.* Timers may fire at any moment. The safety properties do not depend on
  timing, save for the two bounds below.
- *The network.* A request may be lost, delayed or overtaken; so may a reply. A
  call whose caller has restarted is an `orphan`: it is still executed, but
  nobody waits for the answer. `labrpc` does not duplicate calls; equal calls of
  one leader are one record that may be answered any number of times.
- *Late replies.* `LateReplies` names the kinds of call whose reply may arrive
  after the caller has moved to another term. The code does not check for this,
  and `raft_late_vote` and `raft_late_reply` show the consequences; the other
  runs exclude the kind that breaks what they check, as real timing mostly does.
- *The slice in `args.Entries`.* `sendAppendEntriesToPeers()` passes a slice of
  `rf.log` that `labrpc` encodes after the lock was released. With `LateEncoding`
  a call starts in phase `spawned`, and a write to the caller's log may be seen by its
  encoder in any of the cells it writes, and in either field of a cell (`WrittenOver`):
  the encoder may run before, after or in the middle of the write. What it carries
  is then settled, unless it saw all of the write, when a later one may be seen as well.
- *The dummy entry* at `rf.log[0]` is left out; indices are those of the code.

`votes`, `leaders` and `delivered` are histories that no action reads.

### Properties

`ElectionSafety`, `OneVotePerTerm`, `LogMatching`, `LeaderCompleteness` and
`StateMachineSafety` are the guarantees of the Raft paper, stated on this code's
state. `MatchIndexSound` says that what a leader counts towards a commit is really
stored on the follower. `PeerIndexInLog` says that no slice index of the code is
out of range (the code would panic). `LeaderAppendOnly`, `CommitNeverGoesBack` and
`TermNeverGoesBack` are action properties: leaders do not rewrite their log, commits are
not taken back short of a restart, and terms and votes survive a restart.

### Runs

The instances have three peers, the smallest cluster in which two majorities
differ, but for the last two. `Symmetry` permutes the peers that the bounds do not tell
apart.

| run | bounds | shows |
| --- | --- | --- |
| `raft_crash` | 2 terms, logs of 1, 3 calls in the first term and 2 in the second, two peers time out and crash, late AppendEntries replies | `TypeOK`, `ElectionSafety`, `OneVotePerTerm`, `StateMachineSafety`, `MatchIndexSound`, `TermNeverGoesBack`, `LeaderAppendOnly`, `CommitNeverGoesBack` |
| `raft_replication` | 4 terms, logs of 2, 2 calls | `LogMatching`, `LeaderCompleteness`, `PeerIndexInLog` (the scenario of Figure 8 of the Raft paper included) |
| `raft_late_vote` | late vote replies | `OneLeaderReported` is violated |
| `raft_late_reply` | 5 peers, 4 terms, logs of 2, late AppendEntries replies, the course `ReplyCourse` | `StateMachineSafety` is violated |
| `raft_late_encoding` | 5 peers, 2 terms, logs of 2, late encoding, the course `EncodingCourse` | `LogMatching` is violated |

Two peers that may time out suffice for rival leaders; the third is the one
whose vote decides. `MaxCalls` limits, by the term of the caller, the calls that are in
flight at once: two let a request and a reply cross, three let an old request or reply be
overtaken by a newer one, five let a vote of an old election wait while a new one is held.
The late AppendEntries replies of `raft_crash` do no harm: with two terms nobody has led
between two leaderships of a peer, so what a follower acknowledged is still there. What they
can do takes a follower whose log is cut in between and a majority that does without it, so
three terms and five peers, which is out of reach for all behaviours at once. `MCRaftLate`
therefore follows a course: for each term, who stands for election, whom its calls reach, and whose answers
may take long; other calls are lost or answered at once. Every step is a step of `Raft`, so a
violation is one of `Raft`, and its absence would show nothing; the two runs on it
are violations. On `ReplyCourse` TLC also finds `MatchIndexSound`, `LeaderCompleteness` and
`PeerIndexInLog` violated, and on `EncodingCourse`, with `MaxTerm = 3`, `MatchIndexSound`,
`LeaderCompleteness` and `StateMachineSafety`.

`CHECK_DEADLOCK FALSE` stands where the bounds let a behaviour end: no crash is
possible, no term is left, and all calls are lost.

Runs with a `VIEW` identify states that differ only in what no action can read:
`votesReceived` of a peer that is not candidate, `nextIndex` and `matchIndex` of
one that is not leader, replies that cannot arrive any more, and, where the
properties do not look at them, the histories and `lastApplied` (which only
`Apply` reads); without crashes also the persister, which only a restart reads. A peer
that is not candidate can count a vote only through a late reply; the run with late vote
replies uses no view.

### Proofs

`RaftProofs` proves `TypeOK`, for any number of peers, any commands and every
value of the bounds. The inductive invariant `TypeInv` adds that a call whose entries
start the log names the term of the dummy entry, so that every log matches it: the
backward search for a hint never starts at index 0.

Four more results of `RaftProofs` rest on it.

- `OneVotePerTermHolds` and `TermNeverGoesBackHolds`: the invariant `VoteInv`
  says that the persister holds the current term, vote and log (`Durable`), and
  that every vote ever cast in a peer's present term is the one in `votedFor`
  (`VoteRemembered`). Every step either leaves terms and votes alone, or raises
  one peer's term, or casts one vote (`VoteStepKind`), and each kind keeps the
  invariant.
- `ElectionSafetyHolds`, assuming that vote replies do not outlive their term
  (`"RequestVote" \notin LateReplies`): `ElectionInv` counts. The votes a
  candidate has received plus the granted replies on their way are at most the
  voters recorded in `votes` for it (`CountSound`), there is one call per peer
  and term (`OneCallPerPeer`), so a winner has a majority of voters, and two
  majorities share a peer, which `OneVotePerTerm` forbids. Steps that do not
  touch the count are summarised as `Quiet`. The assumption is needed: without
  it `raft_late_vote` shows two leaders of one term.
- `LeaderAppendOnlyHolds`, under the same assumption only, so with late AppendEntries
  replies and late encoding: a log is rewritten by `AcceptEntries` alone, and a peer
  that accepts a call leads no longer, or the call is of the term it leads. By `LeaderCalls`
  every AppendEntries call comes from a winner of its term, so it would be
  its own; but a peer does not call itself, whatever the call then carries.

`RaftLogProofs` proves `LogMatching` under the same assumption and without late
encoding (`~LateEncoding`); late AppendEntries replies are allowed. Logs alone do not
say enough: that two logs are equal follows from both being pieces of a leader's
log, and that leader may have crashed since. The invariant `LogInv` therefore says
that there is a history `L`, where `L[t]` is the log of the leader of term `t` or
what it was when that leader left office, such that every log, up to each of its
entries, is the log in `L` of the term of that entry (`Origin`), and every call carries
a piece of its leader's log (`Carries`). A step proves it again with the same history,
with one that has a first log for a new leader, or with one entry more.

`RaftSafetyProofs` proves `StateMachineSafety`, `LeaderCompleteness`, `MatchIndexSound`,
`PeerIndexInLog` and `CommitNeverGoesBack`, assuming that no reply outlives its term
(`LateReplies = {}`) and no late encoding. Its invariant `SafetyInv`, in the second
part of `RaftLogProofs`, adds to `L` the history `A`, where `A[v][t]` is the largest index
that peer `v` has acknowledged to the leader of term `t`, and the set `W` of the terms
that were won:

- an entry is `Committed` when a majority acknowledged it to the leader that made it,
  in that leader's term: the code's `tryCommit()` counts entries of the current term
  only, and the scenario of Figure 8 of the Raft paper is excluded here;
- `Stored`: a peer has what it acknowledged, unless a leader of a later term had not.
  The exception is what an induction needs: a follower's log is cut back when a new
  leader disagrees, and only afterwards does it turn out that the entry cut was never
  committed;
- `Backed`: each winner was elected by a majority that, with the same exception, had
  acknowledged nothing that the winner's log has not (`Supports`; a vote is given only
  to a log that is up to date, `UpToDateAgrees`). The lemma `Completeness` takes the first
  leader that lacks a committed entry, so that the exception is void, and finds
  a peer in both majorities;
- `Holds`: the commit index of a peer, and `leaderCommit` of a call, are covered by a
  committed entry of some term that has passed, and `leaderCommit` is not beyond the
  entries the call brings; so `AcceptEntries` commits only what it has matched;
- `GoodLeader`, `GoodCall`: `matchIndex`, and the replies that raise it, claim no more than
  was acknowledged, and `nextIndex` stays within the leader's log.

`RaftLogProofs` ends with the steps that change no log and elect nobody, the replies to a
leader among them. `RaftSafetyProofs` does `AppendEntries()`, the elections and `Start()`,
puts the steps together and derives the properties.

The assumptions are not for convenience, and the code does not guarantee them: nothing in
`raft.go` compares the term of a reply with that of its call, and `args.Entries` is encoded
outside `rf.mu`. Each is needed. With late vote replies two peers lead one term
(`raft_late_vote`). With late AppendEntries replies `matchIndex` of a leader elected again
counts entries that the follower has lost, and a commit is overwritten (`raft_late_reply`). With late
encoding a follower stores a log that no leader had (`raft_late_encoding`). What the theorems add is that
these are the only gaps: whatever else is lost, repeated, reordered or restarted, and however
many peers there are, `raft.go` keeps what it commits.

The proofs assume of the constants that the set of peers is finite, that `noPeer`
is not a peer, and the types of the bounds.

## Inside a server: RaftApply

`RaftApply` looks at one server between its locks and channels. Goroutines that
raise `commitIndex` (`Enter`, `Raise`) release `rf.mu` and then wait at the
unbuffered `notifyApplyCh` (`Notified`); `applyCommittedRoutine()` takes one entry
under `rf.mu` (`LockToApply`, `TakeCommitted`) and sends it over the unbuffered
`applyCh` (`SendApplyMsg`); `readApplyChRoutine()` applies it under `kv.mu`
(`LockToExecute`, `Execute`); requests hold `kv.mu` while they call into Raft and
wait for `rf.mu` (`LockKV`, `CallRaft`, `GotState`, `Started`, `Checked`).

The run `raft_apply` (two committing goroutines, two requests, three entries, two
checks of a request instead of three) shows that entries are applied once and in
order (`AppliedInOrder`), that everything committed is applied
(`EventuallyApplied`), and that RPC handlers and requests return
(`HandlersReturn`). Deadlock is checked. *Fairness:* each goroutine is strongly
fair, since a Go mutex is handed to whoever has waited for a millisecond and a
channel serves its waiters in turn; nothing is assumed of new RPCs and requests.

*Proofs.* `RaftApplyProofs` proves `TypeOK` and `AppliedInOrder` for any number of
committing goroutines, requests, entries and checks. The invariant `Inv` adds where
each routine can be (`PcInv`), that a goroutine between a lock and its unlock is the
one that holds the lock (`LockInv`), and what the pipeline holds (`PipeInv`): the
entry that the reader has is the one after those applied, and the one that the applier
sends is the one after that. The counts alone would not be inductive, since `Execute`
appends whatever index was received. `LocksInOrderHolds` is the safety side of
`HandlersReturn`: nobody waits for anything while it holds `rf.mu`, and whoever holds
`kv.mu` waits for nothing but `rf.mu`, so there is no circle of waiting goroutines. The
proofs assume that goroutines are told apart (`GoroutineAssumption`), that
`MaxIndex` is a natural number and that a handler checks at least once
(`BoundAssumption`).

## The key/value service: KVStore, KVRaft

`KVStore` is what the callers of a clerk may rely on: a store in which each
operation takes effect once, at an instant between its call and its return.
`KVRaft` is the code. A clerk invokes an operation under a new ID and calls one
server after the other (`Invoke`, `TryNext`, `CallFails`, `Receive`). A handler is
three actions, from one release of `kv.mu` to the next: `Enter` (the checks at the
start, an answer from `execRecord` included), `StartOp` (`rf.Start()`), and `Check`
(after each sleep: the term has changed, the operation was applied, or nothing
yet). `readApplyChRoutine` executes one entry, and `StartKVServer` is a restart
with an empty database. Handlers of calls the clerk has given up go on.

Of Raft the service sees `GetState()`, `Start()` and `applyCh`, and `KVRaft` has as much of
`raft.go` as shows there: a peer has a term and may believe itself leader (`Elect`,
`LearnTerm`), an entry given to `Start()` in a term may be committed later or never
(`Commit`), and there is one committed log that all servers receive in order. An
election is one step, at the moment the winner's timer runs out; a candidate that loses, or
hears late that it won, is one that no clerk asks before it hears of a later term. That Raft
provides such a log is the subject of `StateMachineSafety`. `states` is a history: the
database and the records after each entry.

`Linearizable` is `KVStore!Spec` under this mapping: the store is the database
after the last committed entry, and an operation has its result once its ID has
a record there. `OpReturns` says that every operation returns, provided that from
some time on one server stays leader of the latest term.

The run `kvraft` has two clerks with one operation each (one appends, one puts or
gets), two servers, two terms with different leaders, and one fault: a restart, a
failed call, or a check that comes too late. One append tells executing an
operation twice from executing it once; two terms are what a retry at a new
leader needs. *Fairness:* the goroutines of servers and clerks run on, calls reach
their servers, and a leader that stays commits what it was given. Elections,
crashes and failing calls are not fair.

*Proofs.* `ServiceLinearizable` (`KVRaftProofs`) proves `Spec => Linearizable` for any
number of servers, clerks, keys, operations, elections and faults. The
inductive invariant `Inv` is needed because the result of an operation
lies in the future of the server that answers: a server holds the state after
the prefix of the log it has applied (`ReplicaInv`); records are never changed
(`HistoryInv`); a reply on its way is the record of the operation in the *latest*
state (`CallInv`); IDs that were not drawn yet occur nowhere (`IssuedInv`); an
operation that returned has a record, so a late entry of it changes nothing
(`FinishedInv`). A step then maps to `Invoke`, `Execute` (the first commit of an ID),
`Return`, or a stutter.

## The network and the configs: Labrpc, Harness

`Labrpc` is the network: an action is what a goroutine does from one release of
`rn.mu`, or one channel operation, to the next. A call goes through `Call`, `Sent`
or `Destroyed`, `readEndnameInfo`, `dispatch`, `TakeReply` or `PollDead`, `FinalCheck`
and `Answer`; `HandlerReturns` is the handler's goroutine. `Harness` composes it with
the three configs, one of which (`lab`) drives a behaviour: it crashes servers in
the steps of its own `ShutdownServer()` or `crash1()`, in between which the network
runs, starts them again under a new set of ends, connects, partitions, and makes
clerks. It connects and partitions servers only while they are up, as the tests do; a
test that enabled the ends of a server that is down would let an old instance speak. Crashed instances are never stopped; they call on the ends they have and
save in the persister they were given. A handler is reduced to what its caller
depends on: it saves the update and returns.

| property | says |
| --- | --- |
| `AckedIsSaved` | the update of a call that was answered is in the persister the next instance gets |
| `CrashedAreSilent` | ends given to an instance at its start are disabled once it was shut down |
| `CallReturns` | `Call()` returns unless it waits for ever for a handler of a live, connected server |

The run `harness` has two servers, one of which is crashed and restarted once, and
one call; calls share nothing but the state of the network, so a second one would
meet the same races. *Fairness:* only the network's goroutines are fair, neither the
handlers nor the test.

*Proofs.* `HarnessProofs` proves `TypeOK`, `AckedIsSaved` and `CrashedAreSilent` for any
number of servers, calls and restarts. The invariant `IInv` adds that ends belong to
instances that were started (`EndsInv`); that the instance behind a name is the one
attached to the persister that will be copied (`ServerInv`: the configs delete the
server before they copy, and attach before they add); that the update of a handler
that returned is saved or its instance has been deleted, and deleted instances do
not come back (`CallInv`); and that a server of `raft/config.go` marked connected is up.

## The linearizability checker: Porcupine

`Porcupine` is `checkOperations()` with the model of `models/kv.go`: a goroutine per
key searches (`checkSingle`, one turn of its loop at a time, as `Linearize` or
`Backtrack`), `checkParallel()` collects the results (`Receive`, `Timeout`, `Drain`,
`Finish`), and `Visualize` is `computeVisualizationData()`. The list surgery of `lift()` and
`unlift()`, the bitsets and their hash are modelled as they are, with words of
`Width = 2` bits so that three operations take two words and hashes collide.

The run `porcupine` starts from every history of up to three operations out of seven
on two keys, in every order of calls and returns, with and without details and a time
limit. `VerdictCorrect` compares the verdict with a definition by all permutations of
the whole history; `ListIsRest` says that the list and the bitset agree with the stack
at every turn; `LongestCorrect` compares the longest prefixes with all partial
linearizations; `PictureSound` says that the prefixes drawn are those with which the
goroutines ended, not ones read while they were at work, that they never make the model
step fail, and that each operation is shown in the longest prefix it is in; `CheckEnds` is
liveness.
*Fairness:* goroutines are scheduled; the time limit need not be reached. Times are
taken to be distinct, and histories not to be empty (`checkParallel()` would wait for
ever). Nothing is proved here: the definitions are recursive searches over data.

## The crawlers of lecture 2: Crawler

`Crawler` runs one of `Serial()`, `ConcurrentMutex()`, `ConcurrentChannel()` and `Crawl()` on
a web chosen at the start. A call is named by the path of pages that led to it.
`Enter`, `Fetch`, `SerialCall` and `Wait` are the parts of a call; `CrawlEnter` is one step
because `Crawl()` holds its lock over `Fetch()`; `worker` and `master` meet at the
unbuffered channel. The run `crawler` takes every web of three pages, missing pages and
links of a page to itself included: no page is fetched twice or beyond the depth
(`FetchedOnce`), when the crawler returns all pages were fetched and no goroutine is left
(`CompleteOnReturn`), and it returns (`Returns`, assuming only that some goroutine that can
run does). `CompleteOnReturn` is claimed of `Crawl()` for depths not smaller than the
number of pages, as in its `main()`: a page is marked at whatever depth it is first
reached, so with a smaller depth, and four pages, pages within the depth can be missed.
(The comment at `my_crawler.go:24`, left from the exercise, says that this implementation
neither fetches in parallel nor avoids fetching twice; it does both, and the model
follows the code.)

*Proofs.* `CrawlerProofs` proves `TypeOK`, `FetchedOnce` and `CompleteOnReturn` for every
finite web, whatever its cycles and missing pages; `PageAssumption` (finitely many
pages, the first one among them) is all that is assumed. The invariant says of the three
crawlers that make calls (`TreeInv`) that there is a set of calls, one for each marked
page, that marked them: a call below another was made by one that marked its page and
has fetched it, and whoever is not done has all of its callers waiting. So the pages on
the way to a call are distinct, calls are not nested deeper than there are pages
(`NewIsShort`), a call that `Crawl()` cuts off at a depth of the number of pages is for a
page already marked (`TooDeepIsMarked`), and when the first call has returned
every call has, the marked pages are closed under links (`ClosedHasAll`), and each was
fetched. A call that returns at once because its page is taken does not wait for the
taker, so "my part of the web is fetched" is not an invariant of a call; it is true
only of the whole. Of `ConcurrentChannel()` (`ChannelInv`) it says that there is one worker
for each marked page, that a worker that `master()` has heard of has all links marked,
and that `n` is the number of goroutines that it has not heard of.

## MapReduce

The master's handlers run under `m.mutex` and workers wait for the answer, so
`GiveTask()` and `TaskDone()` are atomic: `GiveMap`, `GiveReduce`, `GiveWait` and
`GiveExit` are the four answers of the first, `MapTaskDone` and `ReduceTaskDone`
the two branches of the second, with the renames they do. A worker's
`handleReduceTask()` is three steps, opening the inputs, creating the output and
writing it line by line, because two workers may be in it for one task.
`MapExpires` and `ReduceExpires` are the end of a task's 10 seconds; it comes
for tasks of workers that died, and for the tasks in `SlowTasks` at any moment. `Crash` and
`StartAgain` are the dying workers of `mrapps/crash.go` and the loops of
`test-mr.sh` that replace them. `MasterExit` is `main()` of `mrmaster.go`; then
every call of a worker fails and ends it (`CallFails`).

A file is the set of its lines. `temp[r]` is the file named `mr-out-r-*`: the star
is literal, since the file is made by `os.Create()`, so all workers of a reduce
task share it. Files of map tasks come from `ioutil.TempFile()`, are never shared,
and appear in the model (`inter`) when they are renamed. The contents computed by
`mapf` and `reducef` are left out.

| run | bounds | shows |
| --- | --- | --- |
| `mapreduce` | 2 workers, one may die; 3 map tasks and 2 reduce tasks, outputs of 2 lines; all tasks but one reduce task may be slow | `TypeOK`, `ReduceFindsInput`, `FastOutputsComplete`, `InstalledOnce`, `JobFinishes` |
| `mapreduce_shared_output` | 2 workers, 1 and 1 slow tasks | `ExitMeansFinished` is violated |

`FastOutputsComplete` is what remains of `ExitMeansFinished`: when a worker is told
to exit, the output of every reduce task that was not slow has all its lines,
whichever workers died over it. More workers than tasks of a phase make some
wait; fewer make one worker do several. Both runs allow the system to stop: it
does when everybody has exited.

*Fairness.* Each worker's loop, the clock (`MapExpires`, `ReduceExpires`) and the
master's poll of `Done()` are weakly fair: they are separate processes that the
operating system keeps running. Crashes and replacements are not fair, and
`JobFinishes` assumes that crashes end (`CrashesEnd`): a worker that takes a task
and dies for ever could keep every task from the others.

*Proofs.* `MapReduceProofs` proves `TypeOK`, `ReduceFindsInput`, `InstalledOnce` and
`FastOutputsComplete` for any number of workers, tasks and lines, with slow and dying
workers. The invariant `Inv` adds that a worker's step fits the job it has (`JobInv`),
that a completed map task has all of its files in place, that `mapDone` implies all map
tasks completed, and that only completed reduce tasks have an output (`PhaseInv`). For
`FastOutputsComplete` a second invariant, `FastInv`, says that reduce tasks share no files,
late writers included (`ApartInv`); that a task that is not slow has one worker at a time,
whose file has the lines it wrote (`HolderInv`); that such a task, once completed,
has a complete output; and that nobody exits before all tasks are completed (`ExitInv`).

## Findings

- `raft_late_vote`: `sendRequestVoteAndHandleReply()` does not compare the term
  it asked for with the current one, so a vote of an earlier election counts in a
  later one, and two peers lead one term. It takes a reply delayed by more than an
  election timeout (400 to 500 ms); `labrpc` delays replies by up to 2.2 s when
  long reordering is on.
- `raft_late_reply`: nor does the goroutine that handles the replies to AppendEntries. A
  success of an earlier term sets `matchIndex` of a leader that was elected again, for
  entries that another leader has overwritten on the follower since. The leader commits
  what is not on a majority, and two peers apply different entries for one index. A
  rejection of an earlier term sets `nextIndex` past the end of the log in the same way.
- `raft_late_encoding`: `args.Entries` shares its cells with `rf.log`, and is encoded
  without the lock. A leader that is deposed meanwhile sends, in its old term, an old entry
  followed by one of the new leader's; the follower stores a log that no leader ever had.
- `mapreduce_shared_output`: two workers of one reduce task write one temporary
  file. The second one empties it after the first has written it and before the
  master renames it; workers are then told that the job is finished while the
  output lacks lines. It takes a worker slower than 10 seconds.

## How the proofs are checked

`tlapm M.tla` checks the proofs of a module `M`; there are eight with theorems, the ones
whose names end in `Proofs`. A module begins with the prover of the steps that name none
and the seconds it has. In `MapReduceProofs` and `HarnessProofs` it is SMT, then Zenon; in
the six others it is Zenon, and the steps that take arithmetic or sequences cite SMT. In
a long module that division matters: what tlapm does before it calls the SMT solver
gets slower from step to step, and is cut off after five seconds. Nearly all steps take less
than one second, and the margin is for slow machines. The longest, `RaftLogProofs` and
`RaftSafetyProofs`, take about a quarter of an hour each with two threads.

## What is only model-checked

- *Raft with late replies or late encoding*, beyond the results that the section on
  Raft's proofs gives without these assumptions. `raft_crash` has late AppendEntries
  replies, in two terms; `raft_late_reply` shows what they do in four.
- *All of `Porcupine`.* What its search, its folds over sequences and its hash compute for
  every input takes induction over data, and the exclusive-or of `Bitwise` is a recursive
  operator, which the proof system does not reason about.
- *Liveness* (`JobFinishes`, `EventuallyApplied`, `HandlersReturn`, `OpReturns`, `CallReturns`,
  `CheckEnds`, `Returns`) is beyond the proof system.

## Not modelled

- *Shard master and sharded store.* The handlers of both servers are empty. The
  clerk of the shard master takes the zero reply of the first server it reaches for
  an answer, and that of the sharded store, which so gets a configuration without
  groups, asks for ever: there is no behaviour to state a property of. Their configs are modelled in `Harness`
  (`shardmaster/config.go` repeats `kvraft/config.go`).
- *`make_end()` in `CrashedAreSilent`.* A shardkv server may make ends for itself that
  `ShutdownServer()` does not disable; the action is there, but the property is about the
  ends of `cfg.endnames` only, since the server in the repository makes none.
- *`checkEvents()`*, and models without a partition function: they differ from what is
  modelled in how the entries of a history are made.
- *The composition of `KVRaft` with `Raft`.* The service is checked over the log that the
  `Raft` runs establish; the product of the two modules is out of TLC's reach.
- *Liveness of elections.* It rests on random timeouts; the models have no clock.
- *Snapshots.* The persister can hold one; no code in the repository makes one.
- *`labgob`* is a wrapper of `encoding/gob` that warns about field names; `mrapps/` are pure
  functions on text, or sleep and exit in ways that `MapReduce` has as nondeterminism;
  `mrsequential.go` and `mrworker.go` load plugins and call what is modelled; `lockc.go`,
  `lockd.go`, `pbc.go`, `pbd.go`, `viewd.go` and `diskvd.go` are front ends of absent packages; the
  HTML of the visualisation is layout; the remaining lecture snippets show one idiom
  each in a few lines.
