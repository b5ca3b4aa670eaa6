----------------------------- MODULE MapReduce -----------------------------
(***************************************************************************)
(* The MapReduce master (mr/master.go), its workers (mr/worker.go) and the *)
(* files they share.                                                       *)
(*                                                                         *)
(* A handler of the master runs under m.mutex and its caller waits for the *)
(* answer, so an RPC is one action.  A worker is slow or dead at will.     *)
(*                                                                         *)
(* What mapf and reducef compute is left out.  Each of the NReduce outputs *)
(* is Pieces lines, written one at a time at the writer's own offset; a    *)
(* file is the set of the lines it has, and complete when it has them all. *)
(* Temporary files of map tasks have unique names and are reported only    *)
(* when they are closed: they exist for the model once they are renamed.   *)
(***************************************************************************)
EXTENDS Integers, FiniteSets, Sequences

CONSTANTS
    Worker,           \* the worker processes
    NMap, NReduce,    \* the number of map and reduce tasks
    Pieces,           \* bound: the lines of one reduce output
    MayCrash,         \* bound: the workers that may die
    SlowTasks         \* bound: the jobs that may take a live worker over 10 seconds

ASSUME TaskAssumption == NMap \in Nat /\ NReduce \in Nat /\ Pieces \in Nat \ {0}
ASSUME WorkerAssumption == MayCrash \subseteq Worker

VARIABLES
    mapTasks, reduceTasks,    \* the state of every task, and whether its 10 s are over
    mapDone, reduceDone,
    masterUp,                 \* mrmaster has not returned from main()
    pc, job,                  \* what a worker is doing, and the task it was given
    fd, pos,                  \* the output it has open, and the lines it wrote
    inter,                    \* the intermediate files mr-m-r in place
    files,                    \* the output files created, as the lines they hold
    temp, out                 \* the file named mr-out-r-*, and mr-out-r (0: none)

masterVars == <<mapTasks, reduceTasks, mapDone, reduceDone, masterUp>>
fileVars == <<inter, files, temp, out>>
vars == <<mapTasks, reduceTasks, mapDone, reduceDone, masterUp, pc, job, fd, pos,
          inter, files, temp, out>>

MapTask == 1..NMap
ReduceTask == 1..NReduce

Task == [state : {"Idle", "InProgress", "Completed"}, expired : BOOLEAN]
Job == [type : {"None", "Map", "Reduce"}, number : Nat]
NoJob == [type |-> "None", number |-> 0]

idleTask == [state |-> "Idle", expired |-> FALSE]
givenTask == [state |-> "InProgress", expired |-> FALSE]

AllCompleted(tasks) == \A i \in DOMAIN tasks : tasks[i].state = "Completed"

\* Mutant: a task is given to one worker only, however long ago.
taskAvailableOnce(task) == task.state = "Idle"

taskAvailable(task) ==
    task.state = "Idle" \/ (task.state = "InProgress" /\ task.expired)

\* The task that GiveTask()'s loop hands out.
FirstAvailable(tasks) ==
    {i \in DOMAIN tasks : /\ taskAvailable(tasks[i])
                          /\ \A j \in DOMAIN tasks : j < i => ~taskAvailable(tasks[j])}

-----------------------------------------------------------------------------
(* The master *)

\* MakeMaster(), and workers that have just started.
Init ==
    /\ mapTasks = [i \in MapTask |-> idleTask]
    /\ reduceTasks = [i \in ReduceTask |-> idleTask]
    /\ mapDone = FALSE
    /\ reduceDone = FALSE
    /\ masterUp = TRUE
    /\ pc = [w \in Worker |-> "asking"]
    /\ job = [w \in Worker |-> NoJob]
    /\ fd = [w \in Worker |-> 0]
    /\ pos = [w \in Worker |-> 0]
    /\ inter = {}
    /\ files = <<>>
    /\ temp = [r \in ReduceTask |-> 0]
    /\ out = [r \in ReduceTask |-> 0]

\* Worker w calls GiveTask() and is told to do this.
Told(w, do, type, i) ==
    /\ masterUp
    /\ pc[w] = "asking"
    /\ pc' = [pc EXCEPT ![w] = do]
    /\ job' = [job EXCEPT ![w] = [type |-> type, number |-> i]]
    /\ UNCHANGED <<masterUp, fd, pos, fileVars>>

\* Mutant: the map phase is over once all map tasks are given away.
MapsOverEarly == mapDone \/ \A i \in MapTask : mapTasks[i].state # "Idle"

\* The map phase is over once all map tasks are found completed.
MapsOver == mapDone \/ AllCompleted(mapTasks)

GiveMap(w) ==
    /\ ~MapsOver
    /\ \E i \in FirstAvailable(mapTasks) :
        /\ mapTasks' = [mapTasks EXCEPT ![i] = givenTask]
        /\ Told(w, "mapping", "Map", i)
    /\ UNCHANGED <<reduceTasks, mapDone, reduceDone>>

GiveReduce(w) ==
    /\ MapsOver
    /\ \E i \in FirstAvailable(reduceTasks) :
        /\ reduceTasks' = [reduceTasks EXCEPT ![i] = givenTask]
        /\ Told(w, "reading", "Reduce", i)
    /\ mapDone' = TRUE
    /\ UNCHANGED <<mapTasks, reduceDone>>

\* The worker sleeps for a second and asks again.
GiveWait(w) ==
    /\ \/ ~MapsOver /\ FirstAvailable(mapTasks) = {}
       \/ MapsOver /\ FirstAvailable(reduceTasks) = {} /\ ~AllCompleted(reduceTasks)
    /\ Told(w, "asking", "None", 0)
    /\ mapDone' = MapsOver
    /\ UNCHANGED <<mapTasks, reduceTasks, reduceDone>>

GiveExit(w) ==
    /\ MapsOver
    /\ AllCompleted(reduceTasks)
    /\ Told(w, "exited", "None", 0)
    /\ mapDone' = TRUE
    /\ reduceDone' = TRUE
    /\ UNCHANGED <<mapTasks, reduceTasks>>

GiveTask(w) == GiveMap(w) \/ GiveReduce(w) \/ GiveWait(w) \/ GiveExit(w)

Reports(w, type) ==
    /\ masterUp
    /\ pc[w] = "reporting"
    /\ job[w].type = type
    /\ pc' = [pc EXCEPT ![w] = "asking"]
    /\ job' = [job EXCEPT ![w] = NoJob]
    /\ UNCHANGED <<mapDone, reduceDone, masterUp, fd, pos, files>>

\* TaskDone(): the first report of a task counts and has its files renamed.
MapTaskDone(w) ==
    /\ Reports(w, "Map")
    /\ LET i == job[w].number IN
       IF mapTasks[i].state = "Completed"
       THEN UNCHANGED <<mapTasks, inter>>
       ELSE /\ mapTasks' = [mapTasks EXCEPT ![i].state = "Completed"]
            /\ inter' = inter \cup {<<i, r>> : r \in ReduceTask}
    /\ UNCHANGED <<reduceTasks, temp, out>>

\* Mutant: every report of a reduce task has its file renamed.
ReduceTaskDoneAgain(w) ==
    /\ Reports(w, "Reduce")
    /\ LET i == job[w].number IN
       /\ reduceTasks' = [reduceTasks EXCEPT ![i].state = "Completed"]
       /\ out' = [out EXCEPT ![i] = IF temp[i] = 0 THEN @ ELSE temp[i]]
       /\ temp' = [temp EXCEPT ![i] = 0]
    /\ UNCHANGED <<mapTasks, inter>>

ReduceTaskDone(w) ==
    /\ Reports(w, "Reduce")
    /\ LET i == job[w].number IN
       IF reduceTasks[i].state = "Completed"
       THEN UNCHANGED <<reduceTasks, temp, out>>
       ELSE /\ reduceTasks' = [reduceTasks EXCEPT ![i].state = "Completed"]
            /\ out' = [out EXCEPT ![i] = IF temp[i] = 0 THEN @ ELSE temp[i]]
            /\ temp' = [temp EXCEPT ![i] = 0]
    /\ UNCHANGED <<mapTasks, inter>>

\* Done(), and main() in mrmaster.go, which polls it.
Done == mapDone /\ reduceDone

MasterExit ==
    /\ masterUp
    /\ Done
    /\ masterUp' = FALSE
    /\ UNCHANGED <<mapTasks, reduceTasks, mapDone, reduceDone, pc, job, fd, pos, fileVars>>

\* Ten seconds have passed since the task was given to a worker.
Held(type, i) == \E w \in Worker : job[w] = [type |-> type, number |-> i]

MapExpires(i) ==
    /\ mapTasks[i] = givenTask
    /\ [type |-> "Map", number |-> i] \in SlowTasks \/ ~Held("Map", i)
    /\ mapTasks' = [mapTasks EXCEPT ![i].expired = TRUE]
    /\ UNCHANGED <<reduceTasks, mapDone, reduceDone, masterUp, pc, job, fd, pos, fileVars>>

ReduceExpires(i) ==
    /\ reduceTasks[i] = givenTask
    /\ [type |-> "Reduce", number |-> i] \in SlowTasks \/ ~Held("Reduce", i)
    /\ reduceTasks' = [reduceTasks EXCEPT ![i].expired = TRUE]
    /\ UNCHANGED <<mapTasks, mapDone, reduceDone, masterUp, pc, job, fd, pos, fileVars>>

-----------------------------------------------------------------------------
(* The workers *)

handleMapTask(w) ==
    /\ pc[w] = "mapping"
    /\ pc' = [pc EXCEPT ![w] = "reporting"]
    /\ UNCHANGED <<masterVars, job, fd, pos, fileVars>>

\* handleReduceTask() opens every mr-m-r; it ends the worker if one is missing.
ReadIntermediate(w) ==
    /\ pc[w] = "reading"
    /\ IF \A m \in MapTask : <<m, job[w].number>> \in inter
       THEN /\ pc' = [pc EXCEPT ![w] = "creating"]
            /\ UNCHANGED job
       ELSE /\ pc' = [pc EXCEPT ![w] = "exited"]
            /\ job' = [job EXCEPT ![w] = NoJob]
    /\ UNCHANGED <<masterVars, fd, pos, fileVars>>

\* os.Create("mr-out-r-*") empties the file of that very name if it exists.
CreateOutput(w) ==
    /\ pc[w] = "creating"
    /\ pc' = [pc EXCEPT ![w] = "writing"]
    /\ pos' = [pos EXCEPT ![w] = 0]
    /\ LET r == job[w].number IN
       IF temp[r] = 0
       THEN /\ files' = Append(files, {})
            /\ temp' = [temp EXCEPT ![r] = Len(files) + 1]
       ELSE /\ files' = [files EXCEPT ![temp[r]] = {}]
            /\ UNCHANGED temp
    /\ fd' = [fd EXCEPT ![w] = temp'[job[w].number]]
    /\ UNCHANGED <<masterVars, job, inter, out>>

\* Mutants: the loop over the lines ends one too early or one too late.
WriteOutputShort(w) ==
    /\ pc[w] = "writing"
    /\ files' = [files EXCEPT ![fd[w]] = @ \cup {pos[w] + 1}]
    /\ IF pos[w] + 2 < Pieces
       THEN /\ pos' = [pos EXCEPT ![w] = @ + 1]
            /\ UNCHANGED <<pc, fd>>
       ELSE /\ pos' = [pos EXCEPT ![w] = 0]
            /\ pc' = [pc EXCEPT ![w] = "reporting"]
            /\ fd' = [fd EXCEPT ![w] = 0]
    /\ UNCHANGED <<masterVars, job, inter, temp, out>>

WriteOutputLong(w) ==
    /\ pc[w] = "writing"
    /\ files' = [files EXCEPT ![fd[w]] = @ \cup {pos[w] + 1}]
    /\ IF pos[w] < Pieces
       THEN /\ pos' = [pos EXCEPT ![w] = @ + 1]
            /\ UNCHANGED <<pc, fd>>
       ELSE /\ pos' = [pos EXCEPT ![w] = 0]
            /\ pc' = [pc EXCEPT ![w] = "reporting"]
            /\ fd' = [fd EXCEPT ![w] = 0]
    /\ UNCHANGED <<masterVars, job, inter, temp, out>>

WriteOutput(w) ==
    /\ pc[w] = "writing"
    /\ files' = [files EXCEPT ![fd[w]] = @ \cup {pos[w] + 1}]
    /\ IF pos[w] + 1 < Pieces
       THEN /\ pos' = [pos EXCEPT ![w] = @ + 1]
            /\ UNCHANGED <<pc, fd>>
       ELSE /\ pos' = [pos EXCEPT ![w] = 0]
            /\ pc' = [pc EXCEPT ![w] = "reporting"]
            /\ fd' = [fd EXCEPT ![w] = 0]
    /\ UNCHANGED <<masterVars, job, inter, temp, out>>

\* Nobody listens on the master's socket: call() ends the worker.
CallFails(w) ==
    /\ ~masterUp
    /\ pc[w] \in {"asking", "reporting"}
    /\ pc' = [pc EXCEPT ![w] = "exited"]
    /\ job' = [job EXCEPT ![w] = NoJob]
    /\ UNCHANGED <<masterVars, fd, pos, fileVars>>

WorkerLoop(w) ==
    \/ GiveTask(w)
    \/ handleMapTask(w)
    \/ MapTaskDone(w)
    \/ ReadIntermediate(w)
    \/ CreateOutput(w)
    \/ WriteOutput(w)
    \/ ReduceTaskDone(w)
    \/ CallFails(w)

\* A worker dies (mrapps/crash.go makes it exit); another process takes its place.
Crash(w) ==
    /\ w \in MayCrash
    /\ pc[w] \notin {"exited", "crashed"}
    /\ pc' = [pc EXCEPT ![w] = "crashed"]
    /\ job' = [job EXCEPT ![w] = NoJob]
    /\ fd' = [fd EXCEPT ![w] = 0]
    /\ pos' = [pos EXCEPT ![w] = 0]
    /\ UNCHANGED <<masterVars, fileVars>>

StartAgain(w) ==
    /\ pc[w] = "crashed"
    /\ pc' = [pc EXCEPT ![w] = "asking"]
    /\ UNCHANGED <<masterVars, job, fd, pos, fileVars>>

Next ==
    \/ \E w \in Worker : WorkerLoop(w) \/ Crash(w) \/ StartAgain(w)
    \/ \E i \in MapTask : MapExpires(i)
    \/ \E i \in ReduceTask : ReduceExpires(i)
    \/ MasterExit

\* Every worker goes on with its loop, and time passes.
Fairness ==
    /\ \A w \in Worker : WF_vars(WorkerLoop(w))
    /\ \A i \in MapTask : WF_vars(MapExpires(i))
    /\ \A i \in ReduceTask : WF_vars(ReduceExpires(i))
    /\ WF_vars(MasterExit)

Spec == Init /\ [][Next]_vars /\ Fairness

-----------------------------------------------------------------------------
(* Properties *)

\* The master's tables, the workers and the files keep their types, and every
\* open or named file exists.
TypeOK ==
    /\ mapTasks \in [MapTask -> Task]
    /\ reduceTasks \in [ReduceTask -> Task]
    /\ mapDone \in BOOLEAN /\ reduceDone \in BOOLEAN /\ masterUp \in BOOLEAN
    /\ pc \in [Worker -> {"asking", "mapping", "reading", "creating", "writing",
                          "reporting", "exited", "crashed"}]
    /\ job \in [Worker -> Job]
    /\ fd \in [Worker -> 0..Len(files)]
    /\ pos \in [Worker -> 0..Pieces - 1]
    /\ inter \subseteq MapTask \X ReduceTask
    /\ files \in Seq(SUBSET (1..Pieces))
    /\ temp \in [ReduceTask -> 0..Len(files)]
    /\ out \in [ReduceTask -> 0..Len(files)]

\* A worker with a reduce task finds every intermediate file of it in place:
\* handleReduceTask() never ends the worker, whichever map tasks were run twice
\* and whichever worker died in one.
ReduceFindsInput ==
    \A w \in Worker : job[w].type = "Reduce" =>
        \A m \in MapTask : <<m, job[w].number>> \in inter

Complete(r) == out[r] # 0 /\ files[out[r]] = 1..Pieces

\* "workers are required to exit when a job is completely finished, and not
\* before": once a worker or the master has exited, every mr-out-r has all of
\* its lines, and they stay.
ExitMeansFinished ==
    (~masterUp \/ \E w \in Worker : pc[w] = "exited") => \A r \in ReduceTask : Complete(r)

\* The same of every output whose task never takes a live worker over 10 s:
\* workers that die in a task, or are slow in others, cost it no line.
FastOutputsComplete ==
    (~masterUp \/ \E w \in Worker : pc[w] = "exited") =>
        \A r \in ReduceTask : [type |-> "Reduce", number |-> r] \notin SlowTasks => Complete(r)

\* An output is put in place once: a late report of a task that was given to
\* two workers replaces nothing, and nothing that was completed is undone.
InstalledOnce ==
    [][/\ \A r \in ReduceTask : out[r] # 0 => out'[r] = out[r]
       /\ \A r \in ReduceTask : reduceTasks[r].state = "Completed" =>
                                    reduceTasks'[r].state = "Completed"]_vars

\* From some time on no worker dies; the dead ones need not come back.
CrashesEnd ==
    <>[][\A w \in Worker : pc'[w] = "crashed" => pc[w] = "crashed"]_vars

\* If workers do not die for ever and one never does, the job is finished and
\* the surviving workers learn of it, although tasks are lost with the workers
\* that had them, and although Done() turns true only when somebody asks for
\* one task more than there are.
JobFinishes ==
    CrashesEnd => <>(~masterUp /\ \A w \in Worker \ MayCrash : pc[w] = "exited")

=============================================================================
