------------------------- MODULE MapReduceProofs -------------------------
(***************************************************************************)
(* Proofs about MapReduce: for any number of workers and of tasks, reduce  *)
(* tasks find their input, an output is installed once, and outputs of     *)
(* tasks that are not slow are complete when workers are told to exit.     *)
(***************************************************************************)
EXTENDS MapReduce, TLAPS

\* The time, in seconds, that the provers have for a leaf which names none.
USE SMTT(30), ZenonT(30)

\* What a worker does fits the task it was given.
JobInv ==
    \A w \in Worker :
        /\ job[w].type = "Map" => job[w].number \in MapTask
        /\ job[w].type = "Reduce" => mapDone /\ job[w].number \in ReduceTask
        /\ pc[w] \in {"reading", "creating", "writing"} => job[w].type = "Reduce"
        /\ pc[w] = "writing" => fd[w] \in 1..Len(files)
        /\ job[w].type = "Reduce" => pc[w] \in {"reading", "creating", "writing", "reporting"}

\* A map task is completed only with all of its files in place, the map phase
\* is over only when all are, and only completed reduce tasks have an output.
PhaseInv ==
    /\ mapDone => AllCompleted(mapTasks)
    /\ \A m \in MapTask : mapTasks[m].state = "Completed" =>
                              \A r \in ReduceTask : <<m, r>> \in inter
    /\ \A r \in ReduceTask : out[r] # 0 => reduceTasks[r].state = "Completed"

Inv == TypeOK /\ JobInv /\ PhaseInv

ReduceJob(r) == [type |-> "Reduce", number |-> r]

Fast(r) == ReduceJob(r) \notin SlowTasks

\* File f is, or may become, the output of reduce task r.
Uses(r, f) ==
    /\ f # 0
    /\ \/ f = temp[r]
       \/ f = out[r]
       \/ \E w \in Worker : job[w] = ReduceJob(r) /\ pc[w] = "writing" /\ fd[w] = f

\* Reduce tasks share no files.
ApartInv ==
    \A r, s \in ReduceTask : \A f \in Nat : Uses(r, f) /\ Uses(s, f) => r = s

\* Worker w is the only one on reduce task r, and what it wrote is there.
HolderInv(w, r) ==
    /\ reduceTasks[r] = givenTask
    /\ \A x \in Worker : job[x] = ReduceJob(r) => x = w
    /\ pc[w] = "writing" => temp[r] # 0 /\ fd[w] = temp[r] /\ 1..pos[w] \subseteq files[temp[r]]
    /\ pc[w] = "reporting" => temp[r] # 0 /\ files[temp[r]] = 1..Pieces

\* A reduce task that is not slow is done by one worker at a time, and once it
\* is completed its output is.
FastTask(r) ==
    /\ \A w \in Worker : job[w] = ReduceJob(r) => HolderInv(w, r)
    /\ reduceTasks[r].state = "Completed" => Complete(r)

\* Nobody exits, and the master does not end, before all tasks are completed.
ExitInv ==
    reduceDone \/ ~masterUp \/ (\E w \in Worker : pc[w] = "exited") => AllCompleted(reduceTasks)

FastInv == ApartInv /\ ExitInv /\ \A r \in ReduceTask : Fast(r) => FastTask(r)

\* MakeMaster() establishes the invariant.
LEMMA InitInv == Init => Inv
<1> SUFFICES ASSUME Init PROVE Inv
    OBVIOUS
<1> USE DEF Init, NoJob, idleTask
<1>1. TypeOK
    <2>1. files \in Seq(SUBSET (1..Pieces)) /\ Len(files) = 0
        OBVIOUS
    <2>2. 0 \in 0..Pieces - 1
        BY TaskAssumption
    <2>3. mapTasks \in [MapTask -> Task] /\ reduceTasks \in [ReduceTask -> Task]
        BY DEF Task
    <2>4. job \in [Worker -> Job] /\ pos \in [Worker -> 0..Pieces - 1]
        BY <2>2 DEF Job
    <2>5. /\ fd \in [Worker -> 0..Len(files)]
          /\ temp \in [ReduceTask -> 0..Len(files)]
          /\ out \in [ReduceTask -> 0..Len(files)]
        BY <2>1
    <2>6. inter \subseteq MapTask \X ReduceTask
        OBVIOUS
    <2> QED
        BY <2>1, <2>3, <2>4, <2>5, <2>6, Zenon DEF TypeOK
<1>2. JobInv
    BY DEF JobInv
<1>3. PhaseInv
    BY DEF PhaseInv
<1> QED
    BY <1>1, <1>2, <1>3 DEF Inv

\* Every answer of GiveTask() keeps the invariant.
LEMMA GiveTaskInv ==
    ASSUME Inv, NEW w \in Worker, GiveTask(w)
    PROVE  Inv'
<1> USE DEF Inv, Told, fileVars
<1>1. CASE GiveMap(w)
    <2> PICK i \in MapTask : /\ taskAvailable(mapTasks[i])
                             /\ mapTasks' = [mapTasks EXCEPT ![i] = givenTask]
                             /\ Told(w, "mapping", "Map", i)
        BY <1>1, Zenon DEF GiveMap, FirstAvailable, TypeOK
    <2>1. ~mapDone /\ UNCHANGED <<reduceTasks, mapDone, reduceDone>>
        BY <1>1 DEF GiveMap, MapsOver
    <2>2. TypeOK'
        BY <2>1, TaskAssumption, SMTT(30) DEF TypeOK, Task, Job, givenTask, MapTask
    <2>3. JobInv'
        BY <2>1 DEF TypeOK, JobInv, Job
    <2>4. PhaseInv'
        BY <2>1 DEF TypeOK, PhaseInv, givenTask, AllCompleted, Task
    <2> QED
        BY <2>2, <2>3, <2>4
<1>2. CASE GiveReduce(w)
    <2> PICK i \in ReduceTask : /\ taskAvailable(reduceTasks[i])
                                /\ reduceTasks' = [reduceTasks EXCEPT ![i] = givenTask]
                                /\ Told(w, "reading", "Reduce", i)
        BY <1>2, Zenon DEF GiveReduce, FirstAvailable, TypeOK
    <2>1. AllCompleted(mapTasks) /\ mapDone' /\ UNCHANGED <<mapTasks, reduceDone>>
        BY <1>2 DEF GiveReduce, MapsOver, PhaseInv
    <2>2. TypeOK'
        BY <1>2, <2>1, TaskAssumption, SMTT(30) DEF GiveReduce, TypeOK, Task, Job, givenTask, ReduceTask
    <2>3. JobInv'
        BY <2>1 DEF TypeOK, JobInv, Job
    <2>4. PhaseInv'
        BY <2>1 DEF TypeOK, PhaseInv, givenTask, AllCompleted, Task, taskAvailable
    <2> QED
        BY <2>2, <2>3, <2>4
<1>3. CASE GiveWait(w) \/ GiveExit(w)
    <2>1. /\ UNCHANGED <<mapTasks, reduceTasks, fd, pos, fileVars, masterUp>>
          /\ pc' \in {[pc EXCEPT ![w] = "asking"], [pc EXCEPT ![w] = "exited"]}
          /\ job' = [job EXCEPT ![w] = NoJob]
          /\ mapDone' = MapsOver \/ (MapsOver /\ mapDone')
          /\ mapDone' \in BOOLEAN /\ reduceDone' \in BOOLEAN
        BY <1>3, Zenon DEF GiveWait, GiveExit, NoJob, MapsOver, TypeOK, AllCompleted
    <2>2. (mapDone => mapDone') /\ (mapDone' => AllCompleted(mapTasks))
        BY <1>3, Zenon DEF GiveWait, GiveExit, MapsOver, PhaseInv
    <2>3. TypeOK'
        BY <2>1, Zenon DEF TypeOK, Job, NoJob
    <2>4. JobInv'
        BY <2>1, <2>2 DEF TypeOK, JobInv, Job, NoJob
    <2>5. PhaseInv'
        BY <2>1, <2>2 DEF PhaseInv, AllCompleted
    <2> QED
        BY <2>3, <2>4, <2>5
<1> QED
    BY <1>1, <1>2, <1>3 DEF GiveTask

\* Both branches of TaskDone() keep the invariant.
LEMMA TaskDoneInv ==
    ASSUME Inv, NEW w \in Worker, MapTaskDone(w) \/ ReduceTaskDone(w)
    PROVE  Inv'
<1> USE DEF Inv, Reports, NoJob
<1> DEFINE i == job[w].number
<1>1. CASE MapTaskDone(w)
    <2>1. i \in MapTask
        BY <1>1 DEF MapTaskDone, JobInv
    <2>2. CASE mapTasks[i].state = "Completed"
        <3>1. TypeOK'
            BY <1>1, <2>2, SMTT(30) DEF MapTaskDone, TypeOK, Job
        <3>2. JobInv'
            BY <1>1, <2>2 DEF MapTaskDone, TypeOK, Job, JobInv
        <3>3. PhaseInv'
            BY <1>1, <2>2 DEF MapTaskDone, PhaseInv, AllCompleted
        <3> QED
            BY <3>1, <3>2, <3>3
    <2>3. CASE mapTasks[i].state # "Completed"
        <3>1. TypeOK'
            <4>1. inter' \subseteq MapTask \X ReduceTask
                <5>1. inter' = inter \cup {<<i, r>> : r \in ReduceTask}
                    BY <1>1, <2>3 DEF MapTaskDone
                <5>2. inter \subseteq MapTask \X ReduceTask
                    BY DEF TypeOK
                <5> HIDE DEF i
                <5> QED
                    BY <2>1, <5>1, <5>2
            <4>2. mapTasks' \in [MapTask -> Task]
                <5>1. mapTasks' = [mapTasks EXCEPT ![i].state = "Completed"]
                    BY <1>1, <2>3 DEF MapTaskDone
                <5> HIDE DEF i
                <5> QED
                    BY <2>1, <5>1, Zenon DEF TypeOK, Task
            <4> QED
                BY <1>1, <4>1, <4>2, SMTT(30) DEF MapTaskDone, TypeOK, Job
        <3>2. JobInv'
            BY <1>1, <2>3 DEF MapTaskDone, TypeOK, Job, JobInv
        <3>3. PhaseInv'
            <4>1. /\ mapTasks' = [mapTasks EXCEPT ![i].state = "Completed"]
                  /\ inter' = inter \cup {<<i, r>> : r \in ReduceTask}
                  /\ UNCHANGED <<mapDone, reduceTasks, out>>
                BY <1>1, <2>3 DEF MapTaskDone
            <4>2. (mapDone => AllCompleted(mapTasks))'
                BY <4>1 DEF PhaseInv, AllCompleted, TypeOK, Task
            <4>3. ASSUME NEW m \in MapTask, mapTasks'[m].state = "Completed",
                         NEW r \in ReduceTask
                  PROVE  <<m, r>> \in inter'
                BY <4>1, <4>3 DEF PhaseInv, TypeOK, Task
            <4> QED
                BY <4>1, <4>2, <4>3 DEF PhaseInv
        <3> QED
            BY <3>1, <3>2, <3>3
    <2> QED
        BY <2>2, <2>3
<1>2. CASE ReduceTaskDone(w)
    <2>1. i \in ReduceTask
        BY <1>2 DEF ReduceTaskDone, JobInv
    <2>2. CASE reduceTasks[i].state = "Completed"
        <3>1. TypeOK'
            BY <1>2, <2>2, SMTT(30) DEF ReduceTaskDone, TypeOK, Job
        <3>2. JobInv'
            BY <1>2, <2>2 DEF ReduceTaskDone, TypeOK, Job, JobInv
        <3>3. PhaseInv'
            BY <1>2, <2>2 DEF ReduceTaskDone, PhaseInv, AllCompleted
        <3> QED
            BY <3>1, <3>2, <3>3
    <2>3. CASE reduceTasks[i].state # "Completed"
        <3> DEFINE o == IF temp[i] = 0 THEN out[i] ELSE temp[i]
        <3>0. /\ reduceTasks' = [reduceTasks EXCEPT ![i].state = "Completed"]
              /\ out' = [out EXCEPT ![i] = o]
              /\ temp' = [temp EXCEPT ![i] = 0]
              /\ UNCHANGED <<mapDone, mapTasks, inter, files>>
            BY <1>2, <2>1, <2>3 DEF ReduceTaskDone, TypeOK
        <3>1. TypeOK'
            <4>1. reduceTasks' \in [ReduceTask -> Task]
                BY <2>1, <3>0, Zenon DEF TypeOK, Task
            <4>2. o \in 0..Len(files) /\ 0 \in 0..Len(files)
                BY <2>1 DEF TypeOK
            <4>3. out' \in [ReduceTask -> 0..Len(files)] /\ temp' \in [ReduceTask -> 0..Len(files)]
                BY <3>0, <4>2, Zenon DEF TypeOK
            <4> HIDE DEF o
            <4> QED
                BY <1>2, <3>0, <4>1, <4>3, SMTT(30) DEF ReduceTaskDone, TypeOK, Job
        <3>2. JobInv'
            BY <1>2, <2>3 DEF ReduceTaskDone, TypeOK, Job, JobInv
        <3>3. PhaseInv'
            <4>1. ASSUME NEW r \in ReduceTask, out'[r] # 0
                  PROVE  reduceTasks'[r].state = "Completed"
                <5> HIDE DEF o
                <5>1. CASE r = i
                    BY <2>1, <3>0, <5>1 DEF TypeOK, Task
                <5>2. CASE r # i
                    BY <3>0, <4>1, <5>2 DEF TypeOK, PhaseInv
                <5> QED
                    BY <5>1, <5>2
            <4> QED
                BY <3>0, <4>1 DEF PhaseInv, AllCompleted
        <3> QED
            BY <3>1, <3>2, <3>3
    <2> QED
        BY <2>2, <2>3
<1> QED
    BY <1>1, <1>2

\* The steps of a worker between its calls keep the invariant.
LEMMA WorkInv ==
    ASSUME Inv, NEW w \in Worker,
           \/ handleMapTask(w) \/ ReadIntermediate(w) \/ CallFails(w)
           \/ Crash(w) \/ StartAgain(w)
    PROVE  Inv'
<1> USE DEF handleMapTask, ReadIntermediate, CallFails, Crash, StartAgain, masterVars, fileVars
<1>1. UNCHANGED <<masterVars, fileVars>>
    OBVIOUS
<1>2. /\ \/ job' = job
         \/ job' = [job EXCEPT ![w] = NoJob]
      /\ \/ UNCHANGED <<fd, pos>>
         \/ fd' = [fd EXCEPT ![w] = 0] /\ pos' = [pos EXCEPT ![w] = 0]
    OBVIOUS
<1>3. \/ pc[w] = "reading" /\ job' = job /\ pc' = [pc EXCEPT ![w] = "creating"]
      \/ \E p \in {"asking", "reporting", "exited", "crashed"} : pc' = [pc EXCEPT ![w] = p]
    OBVIOUS
<1>a. job'[w].type = "Reduce" => pc'[w] = "creating"
    BY DEF Inv, TypeOK, JobInv, NoJob
<1> HIDE DEF handleMapTask, ReadIntermediate, CallFails, Crash, StartAgain
<1>4. TypeOK'
    <2>1. job' \in [Worker -> Job]
        <3>1. NoJob \in Job
            BY DEF NoJob, Job
        <3> QED
            BY <1>2, <3>1, Zenon DEF Inv, TypeOK
    <2>2. fd' \in [Worker -> 0..Len(files)] /\ pos' \in [Worker -> 0..Pieces - 1]
        <3>1. 0 \in 0..Pieces - 1 /\ 0 \in 0..Len(files)
            BY TaskAssumption DEF Inv, TypeOK
        <3> QED
            BY <1>2, <3>1, Zenon DEF Inv, TypeOK
    <2> QED
        BY <1>1, <1>3, <2>1, <2>2, Zenon DEF Inv, TypeOK
<1>5. JobInv'
    <2>1. /\ UNCHANGED <<mapDone, files>>
          /\ pc'[w] = "creating" => pc[w] = "reading" /\ job'[w] = job[w]
          /\ pc'[w] \notin {"reading", "writing"}
          /\ \A x \in Worker : x # w => pc'[x] = pc[x] /\ job'[x] = job[x] /\ fd'[x] = fd[x]
          /\ job'[w] = job[w] \/ job'[w] = NoJob
        BY <1>1, <1>2, <1>3 DEF Inv, TypeOK
    <2> QED
        BY <1>a, <2>1 DEF Inv, JobInv, NoJob
<1>6. PhaseInv'
    BY <1>1 DEF Inv, PhaseInv, AllCompleted
<1> QED
    BY <1>4, <1>5, <1>6 DEF Inv

\* Creating, or emptying, the output file keeps the invariant.
LEMMA CreateOutputInv ==
    ASSUME Inv, NEW w \in Worker, CreateOutput(w)
    PROVE  Inv'
<1> USE DEF CreateOutput, masterVars
<1> DEFINE r == job[w].number
<1>1. r \in ReduceTask /\ temp[r] \in 0..Len(files) /\ job[w].type = "Reduce"
    BY DEF Inv, JobInv, TypeOK
<1>2. /\ files' \in Seq(SUBSET (1..Pieces))
      /\ Len(files') \in Nat /\ Len(files) \in Nat /\ Len(files') >= Len(files)
      /\ temp' \in [ReduceTask -> 0..Len(files')]
      /\ temp'[r] \in 1..Len(files')
    <2>1. CASE temp[r] = 0
        <3>1. files' = Append(files, {}) /\ temp' = [temp EXCEPT ![r] = Len(files) + 1]
            BY <2>1
        <3>2. files' \in Seq(SUBSET (1..Pieces)) /\ Len(files') = Len(files) + 1
            BY <3>1 DEF Inv, TypeOK
        <3>3. Len(files) \in Nat
            BY DEF Inv, TypeOK
        <3>4. temp' \in [ReduceTask -> 0..Len(files) + 1] /\ temp'[r] = Len(files) + 1
            BY <1>1, <3>1, <3>3 DEF Inv, TypeOK
        <3> QED
            BY <3>2, <3>3, <3>4
    <2>2. CASE temp[r] # 0
        <3>1. files' = [files EXCEPT ![temp[r]] = {}] /\ temp' = temp
            BY <2>2
        <3>2. files' \in Seq(SUBSET (1..Pieces)) /\ Len(files') = Len(files)
            <4>1. temp[r] \in 1..Len(files)
                BY <1>1, <2>2 DEF Inv, TypeOK
            <4> HIDE DEF r
            <4> QED
                BY <3>1, <4>1 DEF Inv, TypeOK
        <3>3. Len(files) \in Nat
            BY DEF Inv, TypeOK
        <3> QED
            BY <1>1, <2>2, <3>1, <3>2, <3>3 DEF Inv, TypeOK
    <2> QED
        BY <2>1, <2>2
<1>3. /\ fd' = [fd EXCEPT ![w] = temp'[r]]
      /\ pos' = [pos EXCEPT ![w] = 0]
      /\ pc' = [pc EXCEPT ![w] = "writing"]
      /\ UNCHANGED <<masterVars, job, inter, out>>
    OBVIOUS
<1> HIDE DEF CreateOutput, r
<1>4. TypeOK'
    <2>1. fd' \in [Worker -> 0..Len(files')]
        BY <1>2, <1>3 DEF Inv, TypeOK
    <2>2. out' \in [ReduceTask -> 0..Len(files')]
        BY <1>2, <1>3 DEF Inv, TypeOK
    <2>3. pos' \in [Worker -> 0..Pieces - 1]
        BY <1>3, TaskAssumption DEF Inv, TypeOK
    <2> QED
        BY <1>2, <1>3, <2>1, <2>2, <2>3, SMTT(30) DEF Inv, TypeOK
<1>5. JobInv'
    BY <1>1, <1>2, <1>3, SMTT(30) DEF Inv, JobInv, TypeOK
<1>6. PhaseInv'
    BY <1>3 DEF Inv, PhaseInv, AllCompleted
<1> QED
    BY <1>4, <1>5, <1>6 DEF Inv

\* Writing a line of the output keeps the invariant.
LEMMA WriteOutputInv ==
    ASSUME Inv, NEW w \in Worker, WriteOutput(w)
    PROVE  Inv'
<1> USE DEF WriteOutput, masterVars
<1>1. fd[w] \in 1..Len(files) /\ pos[w] \in 0..Pieces - 1
    BY DEF Inv, JobInv, TypeOK
<1>2. files' \in Seq(SUBSET (1..Pieces)) /\ Len(files') = Len(files)
    <2>1. pos[w] + 1 \in 1..Pieces
        BY <1>1, TaskAssumption
    <2> QED
        BY <1>1, <2>1 DEF Inv, TypeOK
<1>3. pos' \in [Worker -> 0..Pieces - 1]
    <2>1. pos \in [Worker -> 0..Pieces - 1] /\ 0 \in 0..Pieces - 1
        BY TaskAssumption DEF Inv, TypeOK
    <2>2. CASE pos[w] + 1 < Pieces
        <3>1. pos[w] + 1 \in 0..Pieces - 1
            BY <1>1, <2>2, TaskAssumption
        <3> QED
            BY <2>1, <2>2, <3>1
    <2>3. CASE ~(pos[w] + 1 < Pieces)
        BY <2>1, <2>3
    <2> QED
        BY <2>2, <2>3
<1>4. \/ UNCHANGED <<pc, fd>>
      \/ pc' = [pc EXCEPT ![w] = "reporting"] /\ fd' = [fd EXCEPT ![w] = 0]
    OBVIOUS
<1>5. UNCHANGED <<masterVars, job, inter, temp, out>>
    OBVIOUS
<1> HIDE DEF WriteOutput
<1>6. TypeOK'
    <2>1. fd' \in [Worker -> 0..Len(files)]
        <3>1. 0 \in 0..Len(files) /\ fd \in [Worker -> 0..Len(files)]
            BY DEF Inv, TypeOK
        <3> QED
            BY <1>4, <3>1
    <2>2. temp' \in [ReduceTask -> 0..Len(files')] /\ out' \in [ReduceTask -> 0..Len(files')]
        BY <1>2, <1>5 DEF Inv, TypeOK
    <2>3. fd' \in [Worker -> 0..Len(files')]
        BY <1>2, <2>1
    <2> QED
        BY <1>2, <1>3, <1>4, <1>5, <2>2, <2>3 DEF Inv, TypeOK
<1>7. JobInv'
    BY <1>2, <1>4, <1>5 DEF Inv, JobInv, TypeOK
<1>8. PhaseInv'
    BY <1>5 DEF Inv, PhaseInv, AllCompleted
<1> QED
    BY <1>6, <1>7, <1>8 DEF Inv

\* The exit of the master and the passing of time keep the invariant.
LEMMA MasterInv ==
    ASSUME Inv,
           \/ \E i \in MapTask : MapExpires(i)
           \/ \E i \in ReduceTask : ReduceExpires(i)
           \/ MasterExit
    PROVE  Inv'
<1> USE DEF Inv, fileVars
<1>1. ASSUME NEW i \in MapTask, MapExpires(i)
      PROVE  Inv'
    <2>1. TypeOK'
        BY <1>1, Zenon DEF MapExpires, TypeOK, Task
    <2>2. JobInv' /\ PhaseInv'
        BY <1>1 DEF MapExpires, TypeOK, Task, JobInv, PhaseInv, AllCompleted, givenTask
    <2> QED
        BY <2>1, <2>2
<1>2. ASSUME NEW i \in ReduceTask, ReduceExpires(i)
      PROVE  Inv'
    <2>1. TypeOK'
        BY <1>2, Zenon DEF ReduceExpires, TypeOK, Task
    <2>2. JobInv' /\ PhaseInv'
        BY <1>2 DEF ReduceExpires, TypeOK, Task, JobInv, PhaseInv, AllCompleted, givenTask
    <2> QED
        BY <2>1, <2>2
<1>3. CASE MasterExit
    BY <1>3, Zenon DEF MasterExit, TypeOK, JobInv, PhaseInv, AllCompleted
<1> QED
    BY <1>1, <1>2, <1>3

\* Steps that change nothing keep the invariant.
LEMMA UnchangedInv ==
    ASSUME Inv, UNCHANGED vars
    PROVE  Inv'
BY DEF Inv, TypeOK, JobInv, PhaseInv, AllCompleted, vars

\* Every step of the system keeps the invariant.
LEMMA NextInv ==
    ASSUME Inv, [Next]_vars
    PROVE  Inv'
<1>1. ASSUME NEW w \in Worker, WorkerLoop(w) \/ Crash(w) \/ StartAgain(w)
      PROVE  Inv'
    BY <1>1, GiveTaskInv, TaskDoneInv, WorkInv, CreateOutputInv, WriteOutputInv DEF WorkerLoop
<1> QED
    BY <1>1, MasterInv, UnchangedInv DEF Next

\* The invariant holds throughout.
LEMMA AlwaysInv == Spec => []Inv
BY InitInv, NextInv, PTL DEF Spec

\* The tables of the master, the workers and the files keep their types, for
\* any number of workers, tasks and lines.
THEOREM MapReduceTypeCorrect == Spec => []TypeOK
<1>1. Inv => TypeOK
    BY DEF Inv
<1> QED
    BY <1>1, AlwaysInv, PTL

\* The files of completed map tasks are those a reduce task reads.
LEMMA InvFindsInput == Inv => ReduceFindsInput
BY DEF Inv, TypeOK, JobInv, PhaseInv, AllCompleted, ReduceFindsInput

\* GiveTask() hands out no reduce task before every file it reads is in place,
\* so handleReduceTask() never ends a worker, whoever died or was slow.
THEOREM ReduceFindsInputHolds == Spec => []ReduceFindsInput
BY InvFindsInput, AlwaysInv, PTL

\* TaskDone() installs the output of a reduce task once, however many workers
\* report it, and GiveTask() gives no completed task away.
THEOREM InstalledOnceHolds == Spec => InstalledOnce
<1> DEFINE Kept ==
        /\ \A r \in ReduceTask : out[r] # 0 => out'[r] = out[r]
        /\ \A r \in ReduceTask : reduceTasks[r].state = "Completed" =>
                                     reduceTasks'[r].state = "Completed"
<1>1. ASSUME Inv, Next
      PROVE  Kept
    <2>1. ASSUME NEW w \in Worker, GiveReduce(w)
          PROVE  Kept
        BY <1>1, <2>1 DEF Inv, TypeOK, GiveReduce, Told, fileVars, FirstAvailable, taskAvailable
    <2>2. ASSUME NEW w \in Worker, ReduceTaskDone(w)
          PROVE  Kept
        <3>1. CASE reduceTasks[job[w].number].state = "Completed"
            BY <2>2, <3>1 DEF ReduceTaskDone
        <3>2. CASE reduceTasks[job[w].number].state # "Completed"
            <4>1. /\ reduceTasks' = [reduceTasks EXCEPT ![job[w].number].state = "Completed"]
                  /\ \A r \in ReduceTask : r # job[w].number => out'[r] = out[r]
                BY <1>1, <2>2, <3>2 DEF ReduceTaskDone, Inv, TypeOK
            <4> QED
                BY <1>1, <3>2, <4>1 DEF Inv, TypeOK, PhaseInv, Task
        <3> QED
            BY <3>1, <3>2
    <2>3. ASSUME NEW i \in ReduceTask, ReduceExpires(i)
          PROVE  Kept
        BY <1>1, <2>3 DEF Inv, TypeOK, Task, ReduceExpires, fileVars
    <2>4. CASE UNCHANGED <<reduceTasks, out>>
        BY <2>4
    <2>5. ASSUME NEW w \in Worker, WorkerLoop(w) \/ Crash(w) \/ StartAgain(w),
                 ~GiveReduce(w), ~ReduceTaskDone(w)
          PROVE  UNCHANGED <<reduceTasks, out>>
        BY <2>5 DEF WorkerLoop, GiveTask, GiveMap, GiveWait, GiveExit, Told, handleMapTask,
             MapTaskDone, ReadIntermediate, CreateOutput, WriteOutput, CallFails, Crash,
             StartAgain, masterVars, fileVars
    <2> QED
        BY <1>1, <2>1, <2>2, <2>3, <2>4, <2>5, Zenon DEF Next, MapExpires, MasterExit, fileVars
<1>2. ASSUME Inv, [Next]_vars
      PROVE  [Kept]_vars
    BY <1>1, <1>2
<1> QED
    BY <1>2, AlwaysInv, PTL DEF Spec, InstalledOnce

-----------------------------------------------------------------------------
(* Outputs are complete when workers are told to exit *)

\* A reduce task in a worker's hands exists.
LEMMA JobIsReduce ==
    ASSUME Inv, NEW w \in Worker, job[w].type = "Reduce"
    PROVE  job[w] = ReduceJob(job[w].number) /\ job[w].number \in ReduceTask
<1>1. job[w] \in Job /\ job[w].number \in ReduceTask
    BY DEF Inv, TypeOK, JobInv
<1> QED
    BY <1>1 DEF Job, ReduceJob

\* Worker x writes no more for reduce task r than it did before.
Stays(x, r) ==
    job'[x] = ReduceJob(r) =>
        /\ job[x] = ReduceJob(r)
        /\ pc'[x] = "creating" \/ (pc'[x] = pc[x] /\ fd'[x] = fd[x] /\ pos'[x] = pos[x])

\* A step leaves the files of reduce task r alone.
FilesKept(r) ==
    /\ temp'[r] = temp[r] /\ out'[r] = out[r]
    /\ temp[r] # 0 => files'[temp[r]] = files[temp[r]]
    /\ out[r] # 0 => files'[out[r]] = files[out[r]]

\* A task that nothing happens to stays as it is.
LEMMA TaskKept ==
    ASSUME NEW r \in ReduceTask, FastTask(r), reduceTasks'[r] = reduceTasks[r], FilesKept(r),
           \A x \in Worker : Stays(x, r)
    PROVE  FastTask(r)'
<1>1. ASSUME NEW w \in Worker, job'[w] = ReduceJob(r)
      PROVE  HolderInv(w, r)'
    <2>1. HolderInv(w, r) /\ Stays(w, r)
        BY <1>1 DEF FastTask, Stays
    <2>2. \A x \in Worker : job'[x] = ReduceJob(r) => x = w
        BY <2>1 DEF HolderInv, Stays
    <2> QED
        BY <1>1, <2>1, <2>2 DEF HolderInv, Stays, FilesKept
<1>2. reduceTasks'[r].state = "Completed" => Complete(r)'
    BY DEF FastTask, Complete, FilesKept
<1> QED
    BY <1>1, <1>2, Zenon DEF FastTask, ReduceJob

\* Nor does it use another file.
LEMMA UsesKept ==
    ASSUME NEW r \in ReduceTask, temp'[r] = temp[r], out'[r] = out[r],
           \A x \in Worker : Stays(x, r), NEW f, Uses(r, f)'
    PROVE  Uses(r, f)
BY DEF Uses, Stays, ReduceJob

\* Steps that change no reduce task and no output.
LEMMA QuietFast ==
    ASSUME FastInv, UNCHANGED <<reduceTasks, files, temp, out>>,
           \A r \in ReduceTask, x \in Worker : Stays(x, r)
    PROVE  ApartInv' /\ \A r \in ReduceTask : Fast(r) => FastTask(r)'
<1>1. \A r \in ReduceTask : FilesKept(r) /\ reduceTasks'[r] = reduceTasks[r]
    BY DEF FilesKept
<1>2. \A r \in ReduceTask : Fast(r) => FastTask(r)'
    BY <1>1, TaskKept, Zenon DEF FastInv
<1>3. \A r \in ReduceTask : \A f \in Nat : Uses(r, f)' => Uses(r, f)
    BY <1>1, UsesKept, Zenon DEF FilesKept
<1> QED
    BY <1>2, <1>3, Zenon DEF FastInv, ApartInv

\* MakeMaster() gives no task.
LEMMA InitFast == Init => FastInv
<1> SUFFICES ASSUME Init PROVE FastInv
    OBVIOUS
<1>1. ApartInv
    BY DEF Init, ApartInv, Uses, NoJob, ReduceJob
<1>2. ExitInv
    BY DEF Init, ExitInv
<1>3. \A r \in ReduceTask : FastTask(r)
    BY DEF Init, FastTask, NoJob, ReduceJob, idleTask
<1> QED
    BY <1>1, <1>2, <1>3 DEF FastInv

\* A reduce task is given away when nobody has it, unless it is slow.
LEMMA GiveReduceFast ==
    ASSUME Inv, FastInv, NEW w \in Worker, GiveReduce(w)
    PROVE  FastInv'
<1> PICK i \in ReduceTask : /\ taskAvailable(reduceTasks[i])
                            /\ reduceTasks' = [reduceTasks EXCEPT ![i] = givenTask]
                            /\ Told(w, "reading", "Reduce", i)
    BY Zenon DEF Inv, GiveReduce, FirstAvailable, TypeOK
<1>1. /\ UNCHANGED <<masterUp, reduceDone, fd, pos, files, temp, out>>
      /\ pc'[w] = "reading" /\ job'[w] = ReduceJob(i) /\ pc[w] = "asking"
      /\ \A x \in Worker : x # w => pc'[x] = pc[x] /\ job'[x] = job[x]
      /\ reduceTasks'[i] = givenTask /\ reduceTasks[i] # givenTask
      /\ reduceTasks[i].state # "Completed"
      /\ \A r \in ReduceTask : r # i => reduceTasks'[r] = reduceTasks[r]
    BY DEF Inv, TypeOK, GiveReduce, Told, fileVars, ReduceJob, taskAvailable, givenTask
<1>2. ASSUME NEW r \in ReduceTask, Fast(r), r # i
      PROVE  FastTask(r)'
    <2>1. \A x \in Worker : Stays(x, r)
        BY <1>1, <1>2 DEF Stays, ReduceJob
    <2>2. FastTask(r) /\ FilesKept(r) /\ reduceTasks'[r] = reduceTasks[r]
        BY <1>1, <1>2 DEF FastInv, FilesKept
    <2> QED
        BY <2>1, <2>2, TaskKept
<1>3. ASSUME Fast(i)
      PROVE  FastTask(i)'
    <2>1. \A x \in Worker : job[x] # ReduceJob(i)
        BY <1>1, <1>3 DEF FastInv, FastTask, HolderInv
    <2>2. \A x \in Worker : job'[x] = ReduceJob(i) => x = w
        BY <1>1, <2>1
    <2> QED
        BY <1>1, <2>2 DEF FastTask, HolderInv, ReduceJob, givenTask
<1>4. ApartInv'
    <2>1. \A r \in ReduceTask : \A f \in Nat : Uses(r, f)' => Uses(r, f)
        BY <1>1 DEF Uses, ReduceJob
    <2> QED
        BY <2>1, Zenon DEF FastInv, ApartInv
<1>5. ExitInv'
    <2>1. ~AllCompleted(reduceTasks)
        BY <1>1 DEF AllCompleted, Inv, TypeOK
    <2> QED
        BY <1>1, <2>1 DEF FastInv, ExitInv
<1> QED
    BY <1>2, <1>3, <1>4, <1>5 DEF FastInv, Fast, ReduceJob

\* The other answers of GiveTask() touch no reduce task.
LEMMA GiveOtherFast ==
    ASSUME Inv, FastInv, NEW w \in Worker, GiveMap(w) \/ GiveWait(w) \/ GiveExit(w)
    PROVE  FastInv'
<1>1. /\ UNCHANGED <<masterUp, reduceTasks, files, temp, out, fd, pos>>
      /\ job'[w].type # "Reduce"
      /\ \A x \in Worker : x # w => pc'[x] = pc[x] /\ job'[x] = job[x]
      /\ (reduceDone' = reduceDone /\ pc'[w] # "exited") \/ AllCompleted(reduceTasks)
    BY SMTT(30) DEF Inv, TypeOK, GiveMap, GiveWait, GiveExit, Told, fileVars
<1>2. \A r \in ReduceTask, x \in Worker : Stays(x, r)
    BY <1>1, SMTT(30) DEF Stays, ReduceJob
<1>3. ApartInv' /\ \A r \in ReduceTask : Fast(r) => FastTask(r)'
    BY <1>1, <1>2, QuietFast, SMTT(30)
<1>4. ExitInv'
    BY <1>1 DEF FastInv, ExitInv, AllCompleted
<1> QED
    BY <1>3, <1>4 DEF FastInv, Fast, ReduceJob

\* The steps of a worker that write nothing.
LEMMA WorkFast ==
    ASSUME Inv, FastInv, NEW w \in Worker,
           \/ handleMapTask(w) \/ ReadIntermediate(w) \/ CallFails(w) \/ MapTaskDone(w)
           \/ Crash(w) \/ StartAgain(w)
    PROVE  FastInv'
<1>1. /\ UNCHANGED <<masterUp, reduceDone, reduceTasks, files, temp, out>>
      /\ \A x \in Worker : x # w => /\ pc'[x] = pc[x] /\ job'[x] = job[x]
                                    /\ fd'[x] = fd[x] /\ pos'[x] = pos[x]
    BY DEF Inv, TypeOK, handleMapTask, ReadIntermediate, CallFails, MapTaskDone, Reports, Crash,
           StartAgain, masterVars, fileVars
<1>2. job'[w].type # "Reduce" \/ (job'[w] = job[w] /\ pc'[w] = "creating")
    BY DEF Inv, TypeOK, JobInv, handleMapTask, ReadIntermediate, CallFails, MapTaskDone, Reports,
           Crash, StartAgain, NoJob
<1>3. pc'[w] = "exited" => ~masterUp
    <2>1. pc[w] = "reading" => \A m \in MapTask : <<m, job[w].number>> \in inter
        BY InvFindsInput DEF Inv, JobInv, ReduceFindsInput
    <2> QED
        BY <2>1 DEF Inv, TypeOK, handleMapTask, ReadIntermediate, CallFails, MapTaskDone, Reports,
           Crash, StartAgain
<1>4. \A r \in ReduceTask, x \in Worker : Stays(x, r)
    BY <1>1, <1>2 DEF Stays, ReduceJob
<1>5. ApartInv' /\ \A r \in ReduceTask : Fast(r) => FastTask(r)'
    BY <1>1, <1>4, QuietFast
<1>6. ExitInv'
    BY <1>1, <1>3 DEF FastInv, ExitInv, AllCompleted
<1> QED
    BY <1>5, <1>6 DEF FastInv, Fast, ReduceJob

\* The report of a reduce task installs its file, which is complete.
LEMMA ReduceTaskDoneFast ==
    ASSUME Inv, FastInv, NEW w \in Worker, ReduceTaskDone(w)
    PROVE  FastInv'
<1>1. /\ UNCHANGED <<masterUp, reduceDone, files, fd, pos>>
      /\ pc[w] = "reporting" /\ pc'[w] = "asking" /\ job'[w] = NoJob
      /\ \A x \in Worker : x # w => pc'[x] = pc[x] /\ job'[x] = job[x]
      /\ job[w].type = "Reduce"
    BY DEF Inv, TypeOK, ReduceTaskDone, Reports
<1>2. PICK i \in ReduceTask : job[w] = ReduceJob(i) /\ job[w].number = i
    BY <1>1, JobIsReduce
<1>3. \A r \in ReduceTask, x \in Worker : Stays(x, r)
    BY <1>1 DEF Stays, ReduceJob, NoJob
<1>4. CASE reduceTasks[i].state = "Completed"
    <2>1. UNCHANGED <<reduceTasks, temp, out>>
        BY <1>2, <1>4 DEF ReduceTaskDone
    <2>2. ApartInv' /\ \A r \in ReduceTask : Fast(r) => FastTask(r)'
        BY <1>1, <1>3, <2>1, QuietFast
    <2>3. ExitInv'
        BY <1>1, <2>1 DEF FastInv, ExitInv, AllCompleted
    <2> QED
        BY <2>2, <2>3 DEF FastInv, Fast, ReduceJob
<1>5. CASE reduceTasks[i].state # "Completed"
    <2>1. /\ reduceTasks' = [reduceTasks EXCEPT ![i].state = "Completed"]
          /\ out' = [out EXCEPT ![i] = IF temp[i] = 0 THEN @ ELSE temp[i]]
          /\ temp' = [temp EXCEPT ![i] = 0]
        BY <1>2, <1>5 DEF ReduceTaskDone
    <2>2. /\ reduceTasks'[i].state = "Completed"
          /\ temp'[i] = 0 /\ out'[i] = IF temp[i] = 0 THEN out[i] ELSE temp[i]
          /\ \A r \in ReduceTask : r # i => /\ reduceTasks'[r] = reduceTasks[r]
                                            /\ temp'[r] = temp[r] /\ out'[r] = out[r]
        BY <1>2, <2>1 DEF Inv, TypeOK, Task
    <2>3. ASSUME NEW r \in ReduceTask, Fast(r), r # i
          PROVE  FastTask(r)'
        <3>1. FastTask(r) /\ FilesKept(r) /\ reduceTasks'[r] = reduceTasks[r]
            BY <1>1, <2>2, <2>3 DEF FastInv, FilesKept
        <3> QED
            BY <1>3, <3>1, TaskKept, Zenon
    <2>4. ASSUME Fast(i)
          PROVE  FastTask(i)'
        <3>1. HolderInv(w, i)
            BY <1>2, <2>4 DEF FastInv, FastTask
        <3>2. \A x \in Worker : job'[x] # ReduceJob(i)
            BY <1>1, <3>1 DEF HolderInv, ReduceJob, NoJob
        <3>3. Complete(i)'
            BY <1>1, <2>2, <3>1 DEF HolderInv, Complete
        <3> QED
            BY <3>2, <3>3 DEF FastTask, ReduceJob
    <2>5. \A r \in ReduceTask : \A f \in Nat : Uses(r, f)' => Uses(r, f)
        <3>1. ASSUME NEW r \in ReduceTask, NEW f \in Nat, Uses(r, f)', r # i
              PROVE  Uses(r, f)
            BY <1>3, <2>2, <3>1, UsesKept
        <3>2. ASSUME NEW f \in Nat, Uses(i, f)'
              PROVE  Uses(i, f)
            BY <1>1, <2>2, <3>2 DEF Uses, ReduceJob, NoJob
        <3> QED
            BY <3>1, <3>2
    <2>6. ApartInv'
        BY <2>5, Zenon DEF FastInv, ApartInv
    <2>7. ExitInv'
        <3>1. DOMAIN reduceTasks = ReduceTask /\ DOMAIN reduceTasks' = ReduceTask
            BY <2>1 DEF Inv, TypeOK
        <3>2. AllCompleted(reduceTasks) => AllCompleted(reduceTasks')
            BY <1>2, <2>2, <3>1 DEF AllCompleted
        <3> QED
            BY <1>1, <3>2 DEF FastInv, ExitInv, AllCompleted
    <2> QED
        BY <2>3, <2>4, <2>6, <2>7 DEF FastInv, Fast, ReduceJob
<1> QED
    BY <1>4, <1>5

\* Files of other tasks are other files.
LEMMA OthersKept ==
    ASSUME Inv, FastInv, NEW i \in ReduceTask, NEW f \in 1..Len(files), Uses(i, f),
           \A g \in 1..Len(files) : g # f => files'[g] = files[g],
           NEW r \in ReduceTask, r # i, temp'[r] = temp[r], out' = out
    PROVE  FilesKept(r)
<1>1. temp[r] \in 0..Len(files) /\ out[r] \in 0..Len(files) /\ Len(files) \in Nat /\ f \in Nat
    BY DEF Inv, TypeOK
<1>2. temp[r] # 0 => temp[r] # f
    BY <1>1 DEF FastInv, ApartInv, Uses
<1>3. out[r] # 0 => out[r] # f
    BY <1>1 DEF FastInv, ApartInv, Uses
<1> QED
    BY <1>1, <1>2, <1>3 DEF FilesKept

\* A worker that creates the output starts with an empty file of its task.
LEMMA CreateOutputFast ==
    ASSUME Inv, FastInv, NEW w \in Worker, CreateOutput(w)
    PROVE  FastInv'
<1>1. /\ UNCHANGED <<masterUp, reduceDone, reduceTasks, job, out>>
      /\ pc[w] = "creating" /\ pc'[w] = "writing" /\ pos'[w] = 0
      /\ \A x \in Worker : x # w => pc'[x] = pc[x] /\ fd'[x] = fd[x] /\ pos'[x] = pos[x]
      /\ job[w].type = "Reduce"
    BY DEF Inv, TypeOK, JobInv, CreateOutput, masterVars
<1>2. PICK i \in ReduceTask : job[w] = ReduceJob(i) /\ job[w].number = i
    BY <1>1, JobIsReduce
<1>3. /\ files \in Seq(SUBSET (1..Pieces)) /\ Len(files) \in Nat
      /\ temp \in [ReduceTask -> 0..Len(files)] /\ out \in [ReduceTask -> 0..Len(files)]
      /\ fd \in [Worker -> 0..Len(files)]
    BY DEF Inv, TypeOK
<1>4. \/ /\ temp[i] = 0
         /\ files' = Append(files, {})
         /\ temp' = [temp EXCEPT ![i] = Len(files) + 1]
      \/ /\ temp[i] # 0
         /\ files' = [files EXCEPT ![temp[i]] = {}]
         /\ temp' = temp
    BY <1>2 DEF CreateOutput
<1>a. fd'[w] = temp'[i]
    BY <1>2, <1>3 DEF CreateOutput
<1>5. \A r \in ReduceTask : r # i => temp'[r] = temp[r]
    BY <1>3, <1>4
<1>6. \A r \in ReduceTask, x \in Worker : r # i => Stays(x, r)
    BY <1>1, <1>2 DEF Stays, ReduceJob
<1>7. \A r \in ReduceTask : r # i => FilesKept(r)
    <2>1. CASE temp[i] = 0
        <3>1. \A g \in 1..Len(files) : files'[g] = files[g]
            BY <1>3, <1>4, <2>1
        <3> QED
            BY <1>1, <1>3, <1>5, <3>1 DEF FilesKept
    <2>2. CASE temp[i] # 0
        <3>1. temp[i] \in 1..Len(files) /\ Uses(i, temp[i])
            BY <1>2, <1>3, <2>2 DEF Uses
        <3>2. \A g \in 1..Len(files) : g # temp[i] => files'[g] = files[g]
            BY <1>3, <1>4, <2>2
        <3> QED
            BY <1>1, <1>2, <1>5, <3>1, <3>2, OthersKept
    <2> QED
        BY <2>1, <2>2
<1>8. temp'[i] # 0 /\ (temp'[i] = temp[i] \/ temp'[i] = Len(files) + 1)
    BY <1>2, <1>3, <1>4
<1>9. ASSUME NEW r \in ReduceTask, Fast(r), r # i
      PROVE  FastTask(r)'
    <2>1. FastTask(r) /\ reduceTasks'[r] = reduceTasks[r]
        BY <1>1, <1>9 DEF FastInv
    <2> QED
        BY <1>6, <1>7, <1>9, <2>1, TaskKept, Zenon
<1>10. ASSUME Fast(i)
       PROVE  FastTask(i)'
    <2>1. HolderInv(w, i)
        BY <1>2, <1>10 DEF FastInv, FastTask
    <2>2. HolderInv(w, i)'
        <3>1. 1..pos'[w] = {}
            BY <1>1
        <3> QED
            BY <1>1, <1>8, <1>a, <2>1, <3>1, Zenon DEF HolderInv, ReduceJob
    <2>3. \A x \in Worker : job'[x] = ReduceJob(i) => x = w
        BY <1>1, <2>1 DEF HolderInv
    <2> QED
        BY <1>1, <2>1, <2>2, <2>3, SMTT(30) DEF FastTask, HolderInv, givenTask, ReduceJob
<1>11. ApartInv'
    <2>1. ASSUME NEW r \in ReduceTask, NEW f \in Nat, Uses(r, f)', r # i
          PROVE  Uses(r, f) /\ f <= Len(files)
        <3>1. Uses(r, f)
            BY <1>1, <1>5, <1>6, <2>1, UsesKept
        <3> QED
            BY <1>3, <3>1 DEF Uses
    <2>2. ASSUME NEW f \in Nat, Uses(i, f)'
          PROVE  Uses(i, f) \/ f = Len(files) + 1
        BY <1>1, <1>2, <1>8, <1>a, <2>2 DEF Uses, ReduceJob
    <2> SUFFICES ASSUME NEW r \in ReduceTask, NEW s \in ReduceTask, NEW f \in Nat,
                        Uses(r, f)', Uses(s, f)', r # s
                 PROVE  FALSE
        BY Zenon DEF ApartInv
    <2>3. CASE r # i /\ s # i
        BY <2>1, <2>3 DEF FastInv, ApartInv
    <2>4. CASE r = i
        BY <1>3, <2>1, <2>2, <2>4 DEF FastInv, ApartInv
    <2>5. CASE s = i
        BY <1>3, <2>1, <2>2, <2>5 DEF FastInv, ApartInv
    <2> QED
        BY <2>3, <2>4, <2>5
<1>12. ExitInv'
    BY <1>1 DEF FastInv, ExitInv, AllCompleted
<1> QED
    BY <1>9, <1>10, <1>11, <1>12 DEF FastInv, Fast, ReduceJob

\* A line goes to a file of the worker's task, and the last one completes it.
LEMMA WriteOutputFast ==
    ASSUME Inv, FastInv, NEW w \in Worker, WriteOutput(w)
    PROVE  FastInv'
<1> DEFINE f == fd[w]
<1>1. /\ UNCHANGED <<masterUp, reduceDone, reduceTasks, job, temp, out>>
      /\ pc[w] = "writing" /\ files' = [files EXCEPT ![f] = @ \cup {pos[w] + 1}]
      /\ \/ pos[w] + 1 < Pieces /\ pc'[w] = pc[w] /\ fd'[w] = f /\ pos'[w] = pos[w] + 1
         \/ ~(pos[w] + 1 < Pieces) /\ pc'[w] = "reporting"
      /\ \A x \in Worker : x # w => pc'[x] = pc[x] /\ fd'[x] = fd[x] /\ pos'[x] = pos[x]
      /\ job[w].type = "Reduce" /\ f \in 1..Len(files)
    BY DEF Inv, TypeOK, JobInv, WriteOutput, masterVars
<1>2. PICK i \in ReduceTask : job[w] = ReduceJob(i) /\ job[w].number = i
    BY <1>1, JobIsReduce
<1>3. /\ files \in Seq(SUBSET (1..Pieces)) /\ Len(files) \in Nat
      /\ pos[w] \in 0..Pieces - 1 /\ Pieces \in Nat
    BY TaskAssumption DEF Inv, TypeOK
<1> HIDE DEF f
<1>4. Uses(i, f)
    BY <1>1, <1>2 DEF Uses, f
<1>5. files'[f] = files[f] \cup {pos[w] + 1} /\ \A g \in 1..Len(files) : g # f => files'[g] = files[g]
    BY <1>1, <1>3
<1>6. \A r \in ReduceTask : r # i => FilesKept(r)
    BY <1>1, <1>2, <1>4, <1>5, OthersKept
<1>7. \A r \in ReduceTask, x \in Worker : r # i => Stays(x, r)
    BY <1>1, <1>2 DEF Stays, ReduceJob
<1>8. ASSUME NEW r \in ReduceTask, Fast(r), r # i
      PROVE  FastTask(r)'
    <2>1. FastTask(r) /\ reduceTasks'[r] = reduceTasks[r]
        BY <1>1, <1>8 DEF FastInv
    <2> QED
        BY <1>6, <1>7, <1>8, <2>1, TaskKept, Zenon
<1>9. ASSUME Fast(i)
      PROVE  FastTask(i)'
    <2>1. HolderInv(w, i)
        BY <1>2, <1>9 DEF FastInv, FastTask
    <2>2. temp[i] # 0 /\ f = temp[i] /\ 1..pos[w] \subseteq files[f]
        BY <1>1, <2>1 DEF HolderInv, f
    <2>3. 1..pos[w] + 1 \subseteq files'[f]
        BY <1>3, <1>5, <2>2, SMTT(30)
    <2>4. pc'[w] = "reporting" => files'[f] = 1..Pieces
        <3>0. f \in 1..Len(files)
            BY <1>1
        <3>1. files[f] \in SUBSET (1..Pieces)
            BY <1>3, <3>0
        <3>2. pos[w] + 1 \in 1..Pieces
            BY <1>3
        <3>3. ~(pos[w] + 1 < Pieces) => pos[w] + 1 = Pieces
            BY <1>3
        <3> QED
            BY <1>1, <1>5, <2>3, <3>1, <3>2, <3>3, Zenon
    <2>5. HolderInv(w, i)'
        <3>1. pc'[w] = "writing" => fd'[w] = f /\ pos'[w] = pos[w] + 1
            BY <1>1
        <3> QED
            BY <1>1, <2>1, <2>2, <2>3, <2>4, <3>1 DEF HolderInv
    <2>6. \A x \in Worker : job'[x] = ReduceJob(i) => x = w
        BY <1>1, <2>1 DEF HolderInv
    <2>7. reduceTasks'[i].state # "Completed"
        BY <1>1, <2>1 DEF HolderInv, givenTask
    <2> QED
        BY <2>5, <2>6, <2>7, SMTT(30) DEF FastTask, ReduceJob
<1>10. ApartInv'
    <2>1. \A r \in ReduceTask : \A g \in Nat : Uses(r, g)' => Uses(r, g)
        BY <1>1 DEF Uses, ReduceJob, f
    <2> QED
        BY <2>1, Zenon DEF FastInv, ApartInv
<1>11. ExitInv'
    BY <1>1 DEF FastInv, ExitInv, AllCompleted
<1> QED
    BY <1>8, <1>9, <1>10, <1>11 DEF FastInv, Fast, ReduceJob

\* A reduce task that is not slow expires when nobody has it any more.
LEMMA ReduceExpiresFast ==
    ASSUME Inv, FastInv, NEW i \in ReduceTask, ReduceExpires(i)
    PROVE  FastInv'
<1>1. /\ UNCHANGED <<masterUp, reduceDone, pc, job, fd, pos, files, temp, out>>
      /\ reduceTasks[i] = givenTask
      /\ reduceTasks' = [reduceTasks EXCEPT ![i].expired = TRUE]
      /\ Fast(i) => \A x \in Worker : job[x] # ReduceJob(i)
    BY DEF ReduceExpires, Held, Fast, ReduceJob, fileVars
<1>2. /\ reduceTasks'[i].state = "InProgress"
      /\ \A r \in ReduceTask : r # i => reduceTasks'[r] = reduceTasks[r]
    BY <1>1 DEF Inv, TypeOK, Task, givenTask
<1>3. \A r \in ReduceTask, x \in Worker : Stays(x, r)
    BY <1>1 DEF Stays
<1>4. ASSUME NEW r \in ReduceTask, Fast(r), r # i
      PROVE  FastTask(r)'
    <2>1. FastTask(r) /\ FilesKept(r) /\ reduceTasks'[r] = reduceTasks[r]
        BY <1>1, <1>2, <1>4 DEF FastInv, FilesKept
    <2> QED
        BY <1>3, <2>1, TaskKept, Zenon
<1>5. Fast(i) => FastTask(i)'
    BY <1>1, <1>2 DEF FastTask, ReduceJob
<1>6. ApartInv'
    <2>1. \A r \in ReduceTask : \A f \in Nat : Uses(r, f)' => Uses(r, f)
        BY <1>1, <1>3, UsesKept
    <2> QED
        BY <2>1, Zenon DEF FastInv, ApartInv
<1>7. ExitInv'
    <2>1. ~AllCompleted(reduceTasks)
        BY <1>1 DEF AllCompleted, Inv, TypeOK, givenTask
    <2> QED
        BY <1>1, <2>1 DEF FastInv, ExitInv
<1> QED
    BY <1>4, <1>5, <1>6, <1>7 DEF FastInv, Fast, ReduceJob

\* The clock of the map tasks, and the master's exit.
LEMMA MasterFast ==
    ASSUME Inv, FastInv, (\E i \in MapTask : MapExpires(i)) \/ MasterExit \/ UNCHANGED vars
    PROVE  FastInv'
<1>1. /\ UNCHANGED <<reduceTasks, reduceDone, pc, job, fd, pos, files, temp, out>>
      /\ masterUp' = masterUp \/ reduceDone
    BY Zenon DEF MapExpires, MasterExit, Done, fileVars, vars
<1>2. \A r \in ReduceTask, x \in Worker : Stays(x, r)
    BY <1>1 DEF Stays
<1>3. ApartInv' /\ \A r \in ReduceTask : Fast(r) => FastTask(r)'
    BY <1>1, <1>2, QuietFast
<1>4. ExitInv'
    BY <1>1 DEF FastInv, ExitInv, AllCompleted
<1> QED
    BY <1>3, <1>4 DEF FastInv, Fast, ReduceJob

\* Every step keeps FastInv.
LEMMA NextFast ==
    ASSUME Inv, FastInv, [Next]_vars
    PROVE  FastInv'
<1>1. ASSUME NEW w \in Worker, WorkerLoop(w) \/ Crash(w) \/ StartAgain(w)
      PROVE  FastInv'
    BY <1>1, GiveReduceFast, GiveOtherFast, WorkFast, ReduceTaskDoneFast, CreateOutputFast,
       WriteOutputFast DEF WorkerLoop, GiveTask
<1> QED
    BY <1>1, ReduceExpiresFast, MasterFast DEF Next

\* Once a worker or the master has exited, the output of every reduce task that
\* no live worker takes more than ten seconds over has all of its lines: what
\* workers that died in it left behind is written anew, and no worker of
\* another task, however late, writes to it.
THEOREM FastOutputsCompleteHolds == Spec => []FastOutputsComplete
<1>1. Inv /\ FastInv => FastOutputsComplete
    BY DEF Inv, TypeOK, FastInv, ExitInv, AllCompleted, FastTask, Fast, ReduceJob, FastOutputsComplete
<1>2. Spec => []FastInv
    BY InitFast, NextFast, AlwaysInv, PTL DEF Spec
<1> QED
    BY <1>1, <1>2, AlwaysInv, PTL

=============================================================================
