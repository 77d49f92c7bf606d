--------------------------- MODULE ServiceProofs ----------------------------
(***************************************************************************)
(* What the two services that hand out work keep: the coordinator of       *)
(* MapReduce, whichever workers die, and rsm, whoever leads and whenever a *)
(* server restarts.                                                        *)
(***************************************************************************)
EXTENDS MapReduce, RSM, TLAPS

-----------------------------------------------------------------------------
(***************************************************************************)
(* MapReduce: what MapReduce keeps for every number of workers and of      *)
(* tasks.  The argument goes along the job: a map task that is Completed   *)
(* has all its files, no reduce task starts before all maps are Completed, *)
(* so every reduce reads every file; a reduce task that is Completed has   *)
(* its output file, and nobody leaves before all of them are.              *)
(***************************************************************************)

\* A worker has a task of the kind it works on, and its loop is within bounds.
TasksInRange ==
  \A w \in Worker :
    /\ doing[w] = "map" => task[w] \in Map /\ step[w] \in 0..nReduce
    /\ doing[w] \in {"reduce", "reduced"} => task[w] \in Reduce /\ step[w] \in 0..nMap
    /\ doing[w] = "reduced" => step[w] = nMap

\* The files a map task under way has written exist, and all those of a completed one.
MapsLeaveFiles ==
  /\ \A w \in Worker : doing[w] = "map" =>
       \A r \in Reduce : r < step[w] => <<task[w], r>> \in files
  /\ \A m \in Map : mapTasks[m] = "Completed" => \A r \in Reduce : <<m, r>> \in files

\* The map phase ends when every map task is completed, and only then do reduces run.
ReducesAfterMaps ==
  /\ phase # "Map" => \A m \in Map : mapTasks[m] = "Completed"
  /\ \A w \in Worker : doing[w] \in {"reduce", "reduced"} => phase # "Map"

\* A reduce has read every file it has come to.
ReducesReadAll ==
  \A w \in Worker : doing[w] \in {"reduce", "reduced"} => kva[w] = {m \in Map : m < step[w]}

\* A reduce task that is completed, or about to be reported, has its output in place.
ReducesLeaveOutput ==
  /\ \A w \in Worker : doing[w] = "reduced" => out[task[w]] = Map
  /\ \A r \in Reduce : reduceTasks[r] = "Completed" => out[r] = Map

\* The job is over only when every reduce task is completed, and nobody leaves earlier.
ExitAfterReduces ==
  /\ phase = "Exit" => \A r \in Reduce : reduceTasks[r] = "Completed"
  /\ \A w \in Worker : doing[w] = "exited" => phase = "Exit"
  /\ ~up => phase = "Exit"

JobInv ==
  /\ TypeOK
  /\ TasksInRange
  /\ MapsLeaveFiles
  /\ ReducesAfterMaps
  /\ ReducesReadAll
  /\ ReducesLeaveOutput
  /\ ExitAfterReduces
  /\ OutputsComplete

\* A reduce that has come to the end of its loop has read the files of all maps.
LEMMA AllBelow == {m \in Map : m < nMap} = Map
  BY JobAssumption DEF Map

\* MakeCoordinator and the workers start in a state that satisfies the invariant.
LEMMA JobInit == InitJob => JobInv
<1> SUFFICES ASSUME InitJob PROVE JobInv
  OBVIOUS
<1> USE DEF InitJob
<1>1. TypeOK
  BY DEF TypeOK, TaskState, NoFile
<1>2. TasksInRange /\ MapsLeaveFiles /\ ReducesAfterMaps /\ ReducesReadAll
  BY DEF TasksInRange, MapsLeaveFiles, ReducesAfterMaps, ReducesReadAll
<1>3. ReducesLeaveOutput /\ ExitAfterReduces /\ OutputsComplete
  BY DEF ReducesLeaveOutput, ExitAfterReduces, OutputsComplete
<1> QED
  BY <1>1, <1>2, <1>3 DEF JobInv

\* GetTask hands out a map task.
LEMMA JobGetMapTask ==
  ASSUME JobInv, NEW w \in Worker, GetMapTask(w)
  PROVE  JobInv'
<1>1. TypeOK'
  BY DEF JobInv, TypeOK, GetMapTask, Begin, TaskState, Map
<1>2. TasksInRange'
  BY JobAssumption DEF JobInv, TypeOK, TasksInRange, GetMapTask, Begin
<1>3. MapsLeaveFiles'
  BY DEF JobInv, TypeOK, MapsLeaveFiles, GetMapTask, Begin, Reduce
<1>4. ReducesAfterMaps'
  BY DEF JobInv, ReducesAfterMaps, GetMapTask, Begin
<1>5. ReducesReadAll'
  BY DEF JobInv, ReducesReadAll, GetMapTask, Asks, Begin
<1>6. ReducesLeaveOutput'
  BY DEF JobInv, ReducesLeaveOutput, GetMapTask, Asks, Begin
<1>7. ExitAfterReduces'
  BY DEF JobInv, ExitAfterReduces, GetMapTask, Begin
<1>8. OutputsComplete'
  BY DEF JobInv, OutputsComplete, GetMapTask, Begin
<1> QED
  BY <1>1, <1>2, <1>3, <1>4, <1>5, <1>6, <1>7, <1>8 DEF JobInv

\* GetTask hands out a reduce task, perhaps ending the map phase.
LEMMA JobGetReduceTask ==
  ASSUME JobInv, NEW w \in Worker, GetReduceTask(w)
  PROVE  JobInv'
<1>1. TypeOK'
  BY DEF JobInv, TypeOK, GetReduceTask, Begin, TaskState, Reduce
<1>2. TasksInRange'
  BY JobAssumption DEF JobInv, TypeOK, TasksInRange, GetReduceTask, Begin
<1>3. MapsLeaveFiles'
  BY DEF JobInv, MapsLeaveFiles, GetReduceTask, Asks, Begin
<1>4. ReducesAfterMaps'
  BY DEF JobInv, TypeOK, ReducesAfterMaps, GetReduceTask, PhaseAfterMaps, AllDone
<1>5. ReducesReadAll'
  BY DEF JobInv, TypeOK, ReducesReadAll, GetReduceTask, Begin, Map
<1>6. ReducesLeaveOutput'
  BY DEF JobInv, ReducesLeaveOutput, GetReduceTask, Asks, Begin
<1>7. ExitAfterReduces'
  BY DEF JobInv, ExitAfterReduces, GetReduceTask, Begin, PhaseAfterMaps
<1>8. OutputsComplete'
  BY DEF JobInv, OutputsComplete, GetReduceTask, Begin
<1> QED
  BY <1>1, <1>2, <1>3, <1>4, <1>5, <1>6, <1>7, <1>8 DEF JobInv

\* GetTask has nothing to hand out.
LEMMA JobGetWaitTask ==
  ASSUME JobInv, NEW w \in Worker, GetWaitTask(w)
  PROVE  JobInv'
<1>1. TypeOK'
  BY DEF JobInv, TypeOK, GetWaitTask, PhaseAfterMaps, workerVars
<1>2. TasksInRange'
  BY DEF JobInv, TasksInRange, GetWaitTask, workerVars
<1>3. MapsLeaveFiles'
  BY DEF JobInv, MapsLeaveFiles, GetWaitTask, workerVars
<1>4. ReducesAfterMaps'
  BY DEF JobInv, TypeOK, ReducesAfterMaps, GetWaitTask, PhaseAfterMaps, AllDone, workerVars
<1>5. ReducesReadAll'
  BY DEF JobInv, ReducesReadAll, GetWaitTask, workerVars
<1>6. ReducesLeaveOutput'
  BY DEF JobInv, ReducesLeaveOutput, GetWaitTask, workerVars
<1>7. ExitAfterReduces'
  BY DEF JobInv, ExitAfterReduces, GetWaitTask, PhaseAfterMaps, workerVars
<1>8. OutputsComplete'
  BY DEF JobInv, OutputsComplete, GetWaitTask
<1> QED
  BY <1>1, <1>2, <1>3, <1>4, <1>5, <1>6, <1>7, <1>8 DEF JobInv

\* GetTask finds everything done.
LEMMA JobGetExitTask ==
  ASSUME JobInv, NEW w \in Worker, GetExitTask(w)
  PROVE  JobInv'
<1>1. TypeOK'
  BY DEF JobInv, TypeOK, GetExitTask
<1>2. TasksInRange'
  BY DEF JobInv, TasksInRange, GetExitTask
<1>3. MapsLeaveFiles'
  BY DEF JobInv, MapsLeaveFiles, GetExitTask
<1>4. ReducesAfterMaps'
  BY DEF JobInv, TypeOK, ReducesAfterMaps, GetExitTask, PhaseAfterMaps, PhaseAfterReduces,
     AllDone
<1>5. ReducesReadAll'
  BY DEF JobInv, ReducesReadAll, GetExitTask
<1>6. ReducesLeaveOutput'
  BY DEF JobInv, ReducesLeaveOutput, GetExitTask
<1>7. ExitAfterReduces'
  BY DEF JobInv, TypeOK, ExitAfterReduces, GetExitTask, PhaseAfterMaps, PhaseAfterReduces,
     AllDone
<1>8. OutputsComplete'
  BY DEF JobInv, OutputsComplete, GetExitTask
<1> QED
  BY <1>1, <1>2, <1>3, <1>4, <1>5, <1>6, <1>7, <1>8 DEF JobInv

\* A worker finds the coordinator gone.
LEMMA JobCallFails ==
  ASSUME JobInv, NEW w \in Worker, CallFails(w)
  PROVE  JobInv'
<1>1. TypeOK'
  BY DEF JobInv, TypeOK, CallFails, coordinatorVars
<1>2. TasksInRange'
  BY DEF JobInv, TasksInRange, CallFails
<1>3. MapsLeaveFiles'
  BY DEF JobInv, MapsLeaveFiles, CallFails, coordinatorVars
<1>4. ReducesAfterMaps'
  BY DEF JobInv, ReducesAfterMaps, CallFails, coordinatorVars
<1>5. ReducesReadAll'
  BY DEF JobInv, ReducesReadAll, CallFails
<1>6. ReducesLeaveOutput'
  BY DEF JobInv, ReducesLeaveOutput, CallFails, coordinatorVars
<1>7. ExitAfterReduces'
  BY DEF JobInv, ExitAfterReduces, CallFails, coordinatorVars
<1>8. OutputsComplete'
  BY DEF JobInv, OutputsComplete, CallFails
<1> QED
  BY <1>1, <1>2, <1>3, <1>4, <1>5, <1>6, <1>7, <1>8 DEF JobInv

\* doMap writes one file.
LEMMA JobWriteBucket ==
  ASSUME JobInv, NEW w \in Worker, WriteBucket(w)
  PROVE  JobInv'
<1>1. TypeOK'
  BY DEF JobInv, TypeOK, TasksInRange, WriteBucket, coordinatorVars, Reduce
<1>2. TasksInRange'
  BY JobAssumption DEF JobInv, TasksInRange, WriteBucket
<1>3. MapsLeaveFiles'
  <2>1. /\ step[w] \in Reduce /\ step[w] \in Nat
        /\ files' = files \cup {<<task[w], step[w]>>}
        /\ step' = [step EXCEPT ![w] = step[w] + 1]
        /\ UNCHANGED <<doing, task, mapTasks>>
    BY JobAssumption DEF JobInv, TypeOK, WriteBucket, coordinatorVars, Reduce
  <2>2. ASSUME NEW v \in Worker, doing[v] = "map", NEW r \in Reduce, r < step'[v]
        PROVE  <<task[v], r>> \in files'
    <3>1. CASE v # w
      BY <2>1, <2>2, <3>1 DEF JobInv, TypeOK, MapsLeaveFiles
    <3>2. CASE v = w
      <4>1. r < step[w] \/ r = step[w]
        BY <2>1, <2>2, <3>2, JobAssumption DEF JobInv, TypeOK, Reduce
      <4> QED
        BY <2>1, <2>2, <3>2, <4>1 DEF JobInv, MapsLeaveFiles
    <3> QED
      BY <3>1, <3>2
  <2> QED
    BY <2>1, <2>2 DEF JobInv, MapsLeaveFiles
<1>4. ReducesAfterMaps'
  BY DEF JobInv, ReducesAfterMaps, WriteBucket, coordinatorVars
<1>5. ReducesReadAll'
  BY DEF JobInv, ReducesReadAll, WriteBucket
<1>6. ReducesLeaveOutput'
  BY DEF JobInv, ReducesLeaveOutput, WriteBucket, coordinatorVars
<1>7. ExitAfterReduces'
  BY DEF JobInv, ExitAfterReduces, WriteBucket, coordinatorVars
<1>8. OutputsComplete'
  BY DEF JobInv, OutputsComplete, WriteBucket
<1> QED
  BY <1>1, <1>2, <1>3, <1>4, <1>5, <1>6, <1>7, <1>8 DEF JobInv

\* doReduce reads one file, which exists: all maps are completed.
LEMMA JobReadBucket ==
  ASSUME JobInv, NEW w \in Worker, ReadBucket(w)
  PROVE  JobInv'
<1>1. TypeOK'
  BY DEF JobInv, TypeOK, ReadBucket, coordinatorVars
<1>2. TasksInRange'
  BY JobAssumption DEF JobInv, TasksInRange, ReadBucket
<1>3. MapsLeaveFiles'
  BY DEF JobInv, MapsLeaveFiles, ReadBucket, coordinatorVars
<1>4. ReducesAfterMaps'
  BY DEF JobInv, ReducesAfterMaps, ReadBucket, coordinatorVars
<1>5. ReducesReadAll'
  <2>1. /\ step[w] \in Map /\ step[w] \in Nat /\ task[w] \in Reduce
        /\ step' = [step EXCEPT ![w] = step[w] + 1]
        /\ UNCHANGED doing
    BY JobAssumption DEF JobInv, TypeOK, TasksInRange, ReadBucket, Map
  <2>2. <<step[w], task[w]>> \in files
    BY <2>1 DEF JobInv, MapsLeaveFiles, ReducesAfterMaps, ReadBucket
  <2>3. kva' = [kva EXCEPT ![w] = kva[w] \cup {step[w]}]
    BY <2>2 DEF ReadBucket
  <2>4. ASSUME NEW v \in Worker, doing[v] \in {"reduce", "reduced"}
        PROVE  kva'[v] = {m \in Map : m < step'[v]}
    <3>1. CASE v # w
      BY <2>1, <2>3, <2>4, <3>1 DEF JobInv, TypeOK, ReducesReadAll
    <3>2. CASE v = w
      <4>1. kva'[w] = {m \in Map : m < step[w]} \cup {step[w]} /\ step'[w] = step[w] + 1
        BY <2>1, <2>3, <2>4, <3>2 DEF JobInv, TypeOK, ReducesReadAll
      <4>2. \A m \in Map : m < step[w] + 1 <=> m < step[w] \/ m = step[w]
        BY <2>1, JobAssumption DEF Map
      <4> QED
        BY <2>1, <3>2, <4>1, <4>2
    <3> QED
      BY <3>1, <3>2
  <2> QED
    BY <2>1, <2>4 DEF ReducesReadAll
<1>6. ReducesLeaveOutput'
  BY DEF JobInv, ReducesLeaveOutput, ReadBucket, coordinatorVars
<1>7. ExitAfterReduces'
  BY DEF JobInv, ExitAfterReduces, ReadBucket, coordinatorVars
<1>8. OutputsComplete'
  BY DEF JobInv, OutputsComplete, ReadBucket
<1> QED
  BY <1>1, <1>2, <1>3, <1>4, <1>5, <1>6, <1>7, <1>8 DEF JobInv

\* doReduce writes its output, having read every file.
LEMMA JobWriteOutput ==
  ASSUME JobInv, NEW w \in Worker, WriteOutput(w)
  PROVE  JobInv'
<1>1. TypeOK'
  BY Zenon DEF JobInv, TypeOK, WriteOutput, coordinatorVars
<1>2. TasksInRange'
  BY DEF JobInv, TasksInRange, WriteOutput
<1>3. MapsLeaveFiles'
  BY DEF JobInv, MapsLeaveFiles, WriteOutput, coordinatorVars
<1>4. ReducesAfterMaps'
  BY DEF JobInv, ReducesAfterMaps, WriteOutput, coordinatorVars
<1>5. ReducesReadAll'
  BY DEF JobInv, ReducesReadAll, WriteOutput
<1>6. ReducesLeaveOutput'
  BY DEF JobInv, TypeOK, TasksInRange, ReducesReadAll, ReducesLeaveOutput, WriteOutput,
     coordinatorVars, Map
<1>7. ExitAfterReduces'
  BY DEF JobInv, ExitAfterReduces, WriteOutput, coordinatorVars
<1>8. OutputsComplete'
  BY DEF JobInv, ReducesReadAll, OutputsComplete, WriteOutput, Map
<1> QED
  BY <1>1, <1>2, <1>3, <1>4, <1>5, <1>6, <1>7, <1>8 DEF JobInv

\* FinishedTask, for a report in time or late.
LEMMA JobReport ==
  ASSUME JobInv, NEW w \in Worker, Report(w)
  PROVE  JobInv'
<1>1. TypeOK'
  BY Zenon DEF JobInv, TypeOK, Report, FinishedTask, TaskState
<1>2. TasksInRange'
  BY DEF JobInv, TypeOK, TasksInRange, Report
<1>3. MapsLeaveFiles'
  BY DEF JobInv, TypeOK, MapsLeaveFiles, Report, FinishedTask, Reduce
<1>4. ReducesAfterMaps'
  BY DEF JobInv, ReducesAfterMaps, Report, FinishedTask
<1>5. ReducesReadAll'
  BY DEF JobInv, TypeOK, ReducesReadAll, Report
<1>6. ReducesLeaveOutput'
  BY DEF JobInv, TypeOK, ReducesLeaveOutput, Report, FinishedTask
<1>7. ExitAfterReduces'
  BY DEF JobInv, ExitAfterReduces, Report, FinishedTask
<1>8. OutputsComplete'
  BY DEF JobInv, OutputsComplete, Report
<1> QED
  BY <1>1, <1>2, <1>3, <1>4, <1>5, <1>6, <1>7, <1>8 DEF JobInv

\* A worker dies.
LEMMA JobDie ==
  ASSUME JobInv, NEW w \in Worker, Die(w)
  PROVE  JobInv'
<1>1. TypeOK'
  BY SMTT(30) DEF JobInv, TypeOK, Die, coordinatorVars
<1>2. TasksInRange'
  BY SMTT(30) DEF JobInv, TasksInRange, Die
<1>3. MapsLeaveFiles'
  BY DEF JobInv, MapsLeaveFiles, Die, coordinatorVars
<1>4. ReducesAfterMaps'
  BY DEF JobInv, ReducesAfterMaps, Die, coordinatorVars
<1>5. ReducesReadAll'
  BY DEF JobInv, ReducesReadAll, Die
<1>6. ReducesLeaveOutput'
  BY DEF JobInv, ReducesLeaveOutput, Die, coordinatorVars
<1>7. ExitAfterReduces'
  BY DEF JobInv, ExitAfterReduces, Die, coordinatorVars
<1>8. OutputsComplete'
  BY DEF JobInv, OutputsComplete, Die
<1> QED
  BY <1>1, <1>2, <1>3, <1>4, <1>5, <1>6, <1>7, <1>8 DEF JobInv

\* checkTimeouts takes tasks back, none of which is completed.
LEMMA JobCheckTimeouts ==
  ASSUME JobInv, NEW t \in Map \cup Reduce, checkTimeouts(t)
  PROVE  JobInv'
<1>1. TypeOK'
  <2>1. ASSUME NEW T, NEW f \in [T -> TaskState], NEW S
        PROVE  Expired(f, S) \in [T -> TaskState]
    BY DEF Expired, TaskState
  <2>2. /\ mapTasks' = mapTasks \/ \E S : mapTasks' = Expired(mapTasks, S)
        /\ reduceTasks' = reduceTasks \/ \E S : reduceTasks' = Expired(reduceTasks, S)
        /\ UNCHANGED <<phase, up, files, out, doing, task, step, kva>>
    BY DEF checkTimeouts, workerVars
  <2>3. mapTasks' \in [Map -> TaskState] /\ reduceTasks' \in [Reduce -> TaskState]
    BY <2>1, <2>2 DEF JobInv, TypeOK
  <2> QED
    BY <2>2, <2>3 DEF JobInv, TypeOK
<1>2. TasksInRange'
  BY SMTT(30) DEF JobInv, TasksInRange, checkTimeouts, workerVars
<1>3. MapsLeaveFiles'
  BY DEF JobInv, TypeOK, MapsLeaveFiles, checkTimeouts, Expired, workerVars
<1>4. ReducesAfterMaps'
  BY DEF JobInv, ReducesAfterMaps, checkTimeouts, workerVars
<1>5. ReducesReadAll'
  BY DEF JobInv, ReducesReadAll, checkTimeouts, workerVars
<1>6. ReducesLeaveOutput'
  BY DEF JobInv, TypeOK, ReducesLeaveOutput, checkTimeouts, Expired, workerVars
<1>7. ExitAfterReduces'
  BY DEF JobInv, ExitAfterReduces, checkTimeouts, workerVars
<1>8. OutputsComplete'
  BY DEF JobInv, OutputsComplete, checkTimeouts
<1> QED
  BY SMTT(30), <1>1, <1>2, <1>3, <1>4, <1>5, <1>6, <1>7, <1>8 DEF JobInv

\* The coordinator leaves.
LEMMA JobCoordinatorExits ==
  ASSUME JobInv, CoordinatorExits
  PROVE  JobInv'
<1>1. TypeOK'
  BY Zenon DEF JobInv, TypeOK, CoordinatorExits, workerVars
<1>2. TasksInRange'
  BY DEF JobInv, TasksInRange, CoordinatorExits, workerVars
<1>3. MapsLeaveFiles'
  BY DEF JobInv, MapsLeaveFiles, CoordinatorExits, workerVars
<1>4. ReducesAfterMaps'
  BY DEF JobInv, ReducesAfterMaps, CoordinatorExits
<1>5. ReducesReadAll'
  BY DEF JobInv, ReducesReadAll, CoordinatorExits, workerVars
<1>6. ReducesLeaveOutput'
  BY DEF JobInv, ReducesLeaveOutput, CoordinatorExits, workerVars
<1>7. ExitAfterReduces'
  BY DEF JobInv, ExitAfterReduces, CoordinatorExits
<1>8. OutputsComplete'
  BY DEF JobInv, OutputsComplete, CoordinatorExits
<1> QED
  BY <1>1, <1>2, <1>3, <1>4, <1>5, <1>6, <1>7, <1>8 DEF JobInv

\* The invariant is inductive.
LEMMA JobAlways == JobSpec => []JobInv
<1>1. JobInv /\ UNCHANGED jobVars => JobInv'
  BY DEF JobInv, TypeOK, TasksInRange, MapsLeaveFiles, ReducesAfterMaps, ReducesReadAll,
     ReducesLeaveOutput, ExitAfterReduces, OutputsComplete, jobVars, coordinatorVars, workerVars
<1>2. JobInv /\ [JobNext]_jobVars => JobInv'
  BY <1>1, JobGetMapTask, JobGetReduceTask, JobGetWaitTask, JobGetExitTask, JobCallFails,
     JobWriteBucket, JobReadBucket, JobWriteOutput, JobReport, JobDie, JobCheckTimeouts,
     JobCoordinatorExits DEF JobNext, Ask, Work
<1> QED
  BY JobInit, <1>2, PTL DEF JobSpec

\* The state of coordinator and workers is well typed.
THEOREM JobTypeCorrect == JobSpec => []TypeOK
<1>1. JobInv => TypeOK
  BY DEF JobInv
<1> QED
  BY JobAlways, <1>1, PTL

\* doReduce never skips a file: every output file is made from the output of all maps.
THEOREM OutputsAreComplete == JobSpec => []OutputsComplete
<1>1. JobInv => OutputsComplete
  BY DEF JobInv
<1> QED
  BY JobAlways, <1>1, PTL

\* Workers return from Worker, and the coordinator from main, only when the job is done.
THEOREM NobodyLeavesEarly == JobSpec => []ExitMeansFinished
<1>1. JobInv => ExitMeansFinished
  BY DEF JobInv, ReducesLeaveOutput, ExitAfterReduces, ExitMeansFinished
<1> QED
  BY JobAlways, <1>1, PTL

\* A slow worker that finishes a reduce task again after the job is done writes the file
\* that is there.
THEOREM OutputsAreFinal == JobSpec => OutputsFinal
<1>1. ASSUME JobInv, [JobNext]_jobVars, phase = "Exit"
      PROVE  out' = out
  <2>1. \A r \in Reduce : out[r] = Map
    BY <1>1 DEF JobInv, ReducesLeaveOutput, ExitAfterReduces
  <2>2. ASSUME NEW w \in Worker, WriteOutput(w)
        PROVE  out' = out
    <3>1. task[w] \in Reduce /\ kva[w] = Map
      BY SMTT(30), <1>1, <2>2, AllBelow DEF WriteOutput, JobInv, TasksInRange, ReducesReadAll
    <3> QED
      BY <1>1, <2>1, <2>2, <3>1 DEF WriteOutput, JobInv, TypeOK
  <2>3. CASE \E w \in Worker : WriteOutput(w)
    BY <2>2, <2>3
  <2>4. CASE ~\E w \in Worker : WriteOutput(w)
    BY Zenon, <1>1, <2>4 DEF JobNext, Ask, Work, GetMapTask, GetReduceTask, GetWaitTask, GetExitTask,
       CallFails, Begin, WriteBucket, ReadBucket, Report, Die, checkTimeouts,
          CoordinatorExits, jobVars
  <2> QED
    BY SMTT(30), <2>3, <2>4
<1>2. JobInv /\ [JobNext]_jobVars => [phase = "Exit" => out' = out]_jobVars
  BY <1>1
<1> QED
  BY JobAlways, <1>2, PTL DEF JobSpec, OutputsFinal

-----------------------------------------------------------------------------
(***************************************************************************)
(* rsm: kvraft1/rsm keeps the promise of Submissions for every set of      *)
(* servers and of calls and any number of elections, snapshots and         *)
(* restarts, as long as Raft delivers in order, and for good without       *)
(* snapshots; that a call gets OK for its own command only does not depend *)
(* on the order.                                                           *)
(*                                                                         *)
(* The argument: only the leader of the newest term commits, and its log   *)
(* has all that is committed, so the committed entries only grow.  A call  *)
(* starts once, so its command is in a log, and among the committed, once. *)
(* What applyReader sends names the command at some committed index and    *)
(* the state that it left; a call that finds its own Id in it therefore    *)
(* returns the state its own command left.                                 *)
(***************************************************************************)

\* An entry of a log, and the places of a call that is under way.
Entry == [Id : Call, Term : Nat, term : Nat]
Places == {"called", "start", "register", "wait", "deferred", "returned", "gone"}

RaftType ==
  /\ term \in [Server -> Nat] /\ leader \in [Server -> BOOLEAN]
  /\ log \in [Server -> Seq(Entry)] /\ elected \in Nat /\ committed \in Seq(Entry)
Message == [index : Nat, data : Seq(Call)]
ReplicaType ==
  /\ applied \in [Server -> Nat] /\ executed \in Nat /\ inOrder \in BOOLEAN
  /\ lastIncludedIndex \in [Server -> Nat] /\ lastApplied \in [Server -> Nat]
  /\ sm \in [Server -> Seq(Call)] /\ snapshot \in [Server -> Seq(Call)]
  /\ outbox \in [Server -> SUBSET Nat] /\ snapshotMsgs \in [Server -> SUBSET Message]
CallType ==
  /\ pc \in [Call -> Places] /\ at \in [Call -> Server \cup {None}] /\ opTerm \in [Call -> Nat]
  /\ result = [c \in Call |-> result[c]]
  /\ ch = [c \in Call |-> ch[c]] /\ sending = [s \in Server |-> sending[s]]
TypeInv == RaftType /\ ReplicaType /\ CallType

\* No two servers lead the same term, and who leads the newest has what is committed.
LeaderInv ==
  /\ \A r, s \in Server : leader[r] /\ leader[s] /\ term[r] = term[s] => r = s
  /\ \A s \in Server : leader[s] => term[s] <= elected
  /\ \A s \in Server : leader[s] /\ term[s] = elected => StartsWith(log[s], committed)

\* The entries of calls that have started, each of them once.
Begun(c) == pc[c] \notin {"called", "start"}
Singles(entries) ==
  /\ \A i \in 1..Len(entries) : Begun(entries[i].Id)
  /\ \A i, j \in 1..Len(entries) : entries[i].Id = entries[j].Id => i = j
EntriesInv == Singles(committed) /\ \A s \in Server : Singles(log[s])

\* The state that the first n committed commands leave.
StateAt(n) == Commands(SubSeq(committed, 1, n))

\* What a server has executed, has yet to execute and what snapshots cover is committed.
IndexInv ==
  /\ executed <= Len(committed)
  /\ \A s \in Server :
       /\ applied[s] <= executed /\ lastIncludedIndex[s] <= executed
       /\ outbox[s] \subseteq 1..Len(committed)
       /\ \A m \in snapshotMsgs[s] : m.index <= executed

\* A state is the one its index stands for, as long as commands came in order.
StateInv ==
  inOrder => \A s \in Server :
    /\ sm[s] = StateAt(applied[s]) /\ snapshot[s] = StateAt(lastIncludedIndex[s])
    /\ \A m \in snapshotMsgs[s] : m.data = StateAt(m.index)

ReplicaInv == IndexInv /\ StateInv

\* A command that has been executed, and the state that it left.
Ends(state, c) == state # <<>> /\ state[Len(state)] = c
Left(c, state) ==
  /\ Ends(state, c)
  /\ \E n \in 1..executed : committed[n].Id = c /\ (inOrder => state = StateAt(n))

\* What a server sends, a channel holds and a call returns.
SendInv(s) == sending[s] # None => Left(sending[s].id, sending[s].result)
ChanInv(c) == ch[c] # None => Left(ch[c].id, ch[c].result)
ResultInv(c) == result[c] = ErrWrongLeader \/ \E state : result[c] = OK(state) /\ Left(c, state)
NoticeInv ==
  (\A s \in Server : SendInv(s)) /\ \A c \in Call : ChanInv(c) /\ ResultInv(c)

\* A call that has not looked for a leader, or has returned, is at no server; one that has
\* found a leader is at it.
CallInv ==
  \A c \in Call : /\ pc[c] \in {"called", "returned", "gone"} => at[c] = None
                  /\ pc[c] = "start" => at[c] # None

RInv == TypeInv /\ LeaderInv /\ EntriesInv /\ ReplicaInv /\ NoticeInv /\ CallInv

-----------------------------------------------------------------------------
(* Sequences *)

\* A log has a length.
LEMMA EntriesLength == \A q \in Seq(Entry) : Len(q) \in Nat
OBVIOUS

\* An entry names its call.
LEMMA EntryIds ==
  ASSUME NEW q \in Seq(Entry)
  PROVE  \A i \in 1..Len(q) : q[i].Id \in Call
<1>1. \A i \in 1..Len(q) : q[i] \in Entry
  OBVIOUS
<1>2. \A e \in Entry : e.Id \in Call
  BY Zenon DEF Entry
<1>3. QED
  BY Zenon, <1>1, <1>2

\* The first n entries, and the state that they leave.
LEMMA FirstEntries ==
  ASSUME NEW q \in Seq(Entry), NEW n \in 0..Len(q)
  PROVE  /\ SubSeq(q, 1, n) \in Seq(Entry) /\ Len(SubSeq(q, 1, n)) = n
         /\ \A i \in 1..n : SubSeq(q, 1, n)[i] = q[i]
  OBVIOUS

\* The state after i commands.
LEMMA StateIs ==
  ASSUME NEW q \in Seq(Entry), NEW n \in 0..Len(q)
  PROVE  /\ Commands(SubSeq(q, 1, n)) = [i \in 1..n |-> q[i].Id]
         /\ Commands(SubSeq(q, 1, n)) \in Seq(Call)
         /\ Len(Commands(SubSeq(q, 1, n))) = n
<1>1. \A i \in 1..n : q[i] \in Entry
  OBVIOUS
<1>2. Commands(SubSeq(q, 1, n)) = [i \in 1..n |-> q[i].Id]
  BY Zenon, FirstEntries DEF Commands
<1>3. QED
  BY SMTT(30), <1>1, <1>2 DEF Entry

\* It does not change when more is committed.
LEMMA StateStays ==
  ASSUME NEW q \in Seq(Entry), NEW p \in Seq(Entry), StartsWith(p, q), NEW n \in 0..Len(q)
  PROVE  n \in 0..Len(p) /\ Commands(SubSeq(p, 1, n)) = Commands(SubSeq(q, 1, n))
<1>1. n \in 0..Len(p) /\ \A i \in 1..n : p[i] = q[i]
  BY DEF StartsWith
<1>2. Commands(SubSeq(q, 1, n)) = [i \in 1..n |-> q[i].Id]
  BY Zenon, StateIs
<1>3. Commands(SubSeq(p, 1, n)) = [i \in 1..n |-> p[i].Id]
  BY Zenon, <1>1, StateIs
<1>4. QED
  BY Zenon, <1>1, <1>2, <1>3

\* The next state has the next command.
LEMMA NextState ==
  ASSUME NEW q \in Seq(Entry), NEW n \in Nat, NEW k \in 0..Len(q), k = n + 1
  PROVE  Commands(SubSeq(q, 1, k)) = Append(Commands(SubSeq(q, 1, n)), q[k].Id)
<1>1. n \in 0..Len(q) /\ q[k] \in Entry
  OBVIOUS
<1> DEFINE a == Commands(SubSeq(q, 1, n))
           b == Commands(SubSeq(q, 1, k))
<1>2. a = [i \in 1..n |-> q[i].Id] /\ a \in Seq(Call) /\ Len(a) = n
  BY Zenon, <1>1, StateIs
<1>3. b = [i \in 1..k |-> q[i].Id]
  BY Zenon, StateIs
<1>4. q[k].Id \in Call
  BY Zenon, <1>1 DEF Entry
<1> HIDE DEF a, b
<1>5. Append(a, q[k].Id) = [i \in 1..k |-> IF i = k THEN q[k].Id ELSE a[i]]
  BY <1>2, <1>4
<1>6. \A i \in 1..k : i # k => i \in 1..n
  OBVIOUS
<1>7. \A i \in 1..k : (IF i = k THEN q[k].Id ELSE a[i]) = q[i].Id
  BY Zenon, <1>2, <1>6
<1>8. QED
  BY Zenon, <1>3, <1>5, <1>7 DEF a, b

-----------------------------------------------------------------------------
(* Types *)

\* The steps after which a server no longer leads.
LEMMA Follower ==
  ASSUME RaftType, NEW s \in Server, NEW t \in Nat, NEW q \in Seq(Entry),
         UNCHANGED <<elected, committed>>, term' = [term EXCEPT ![s] = t], leader' = [leader EXCEPT ![s] = FALSE],
         log' = [log EXCEPT ![s] = q]
  PROVE  RaftType'
BY Zenon DEF RaftType

\* What the snapshot of a server covers is committed.
LEMMA Covered ==
  ASSUME TypeInv, IndexInv, NEW s \in Server
  PROVE  lastIncludedIndex[s] \in 0..Len(committed)
<1>1. lastIncludedIndex[s] \in Nat /\ executed \in Nat /\ Len(committed) \in Nat
  BY DEF TypeInv, RaftType, ReplicaType
<1>2. lastIncludedIndex[s] <= executed /\ executed <= Len(committed)
  BY Zenon DEF IndexInv
<1>3. QED
  BY <1>1, <1>2

\* What InstallSnapshot does to the term, the role and the log.
LEMMA Installed ==
  ASSUME TypeInv, IndexInv, NEW s \in Server, InstallSnapshot(s)
  PROVE  \E r \in Server, q \in Seq(Entry) :
           /\ term' = [term EXCEPT ![s] = term[r]] /\ leader' = [leader EXCEPT ![s] = FALSE]
           /\ elected' = elected /\ committed' = committed /\ log' = [log EXCEPT ![s] = q]
           /\ q \in {log[s], SubSeq(committed, 1, lastIncludedIndex[r])}
<1>1. PICK r \in Server :
        /\ term' = [term EXCEPT ![s] = term[r]]
        /\ leader' = [leader EXCEPT ![s] = FALSE] /\ UNCHANGED <<elected, committed>>
        /\ log' = [log EXCEPT ![s] = IF StartsWith(@, SubSeq(committed, 1, lastIncludedIndex[r])) THEN @
                                    ELSE SubSeq(committed, 1, lastIncludedIndex[r])]
  BY Zenon DEF InstallSnapshot
<1>2. PICK n \in 0..Len(committed) : n = lastIncludedIndex[r]
  BY Zenon, Covered
<1>3. log[s] \in Seq(Entry) /\ SubSeq(committed, 1, n) \in Seq(Entry)
  BY Zenon, FirstEntries DEF TypeInv, RaftType
<1>4. CASE StartsWith(log[s], SubSeq(committed, 1, n))
  <2>1. log' = [log EXCEPT ![s] = log[s]]
    BY Zenon, <1>1, <1>2, <1>4
  <2>2. QED
    BY Zenon, <1>1, <1>3, <2>1
<1>5. CASE ~StartsWith(log[s], SubSeq(committed, 1, n))
  <2>1. log' = [log EXCEPT ![s] = SubSeq(committed, 1, n)]
    BY Zenon, <1>1, <1>2, <1>5
  <2>2. QED
    BY Zenon, <1>1, <1>2, <1>3, <2>1
<1>6. QED
  BY Zenon, <1>4, <1>5

\* Raft keeps its types.
LEMMA NextRaftType ==
  ASSUME TypeInv, IndexInv, [Next]_vars
  PROVE  RaftType'
<1>0. RaftType
  BY Zenon DEF TypeInv
<1>1. ASSUME NEW s \in Server, Elect(s) PROVE RaftType'
  <2>1. term[s] + 1 \in Nat
    BY <1>0 DEF RaftType
  <2>2. QED
    BY Zenon, <1>0, <1>1, <2>1 DEF Elect, RaftType
<1>2. ASSUME NEW s \in Server, StepDown(s) PROVE RaftType'
  BY Zenon, <1>0, <1>2 DEF StepDown, RaftType
<1>3. ASSUME NEW s \in Server, Replicate(s) PROVE RaftType'
  BY <1>0, <1>3 DEF Replicate, RaftType
<1>4. ASSUME NEW s \in Server, Commit(s) PROVE RaftType'
  <2>1. PICK n \in Len(committed) + 1..Len(log[s]) : committed' = SubSeq(log[s], 1, n)
    BY Zenon, <1>4 DEF Commit
  <2>2. log[s] \in Seq(Entry) /\ n \in 0..Len(log[s])
    BY <1>0 DEF RaftType
  <2>3. committed' \in Seq(Entry)
    BY Zenon, <2>1, <2>2, FirstEntries
  <2>4. QED
    BY Zenon, <1>0, <1>4, <2>3 DEF Commit, RaftType
<1>5. ASSUME NEW s \in Server, InstallSnapshot(s) PROVE RaftType'
  <2>1. PICK r \in Server, q \in Seq(Entry) :
          /\ term' = [term EXCEPT ![s] = term[r]] /\ leader' = [leader EXCEPT ![s] = FALSE]
          /\ elected' = elected /\ committed' = committed /\ log' = [log EXCEPT ![s] = q]
          /\ q \in {log[s], SubSeq(committed, 1, lastIncludedIndex[r])}
    BY Zenon, <1>5, Installed
  <2>2. term[r] \in Nat
    BY Zenon, <1>0 DEF RaftType
  <2>3. QED
    BY Zenon, <1>0, <2>1, <2>2, Follower
<1>6. ASSUME NEW s \in Server, Restart(s) PROVE RaftType'
  BY Zenon, <1>0, <1>6 DEF Restart, RaftType
<1>7. ASSUME NEW c \in Call, Start(c) PROVE RaftType'
  <2>1. CASE ~leader[at[c]]
    BY Zenon, <1>0, <1>7, <2>1 DEF Start, RaftType
  <2>2. CASE leader[at[c]]
    <3>1. PICK q : log' = [log EXCEPT ![at[c]] = q] /\
                   q = Append(log[at[c]], [Id |-> c, Term |-> opTerm[c], term |-> term[at[c]]])
      BY Zenon, <1>7, <2>2 DEF Start
    <3>2. ASSUME at[c] \in Server PROVE q \in Seq(Entry)
      <4>1. opTerm[c] \in Nat /\ term[at[c]] \in Nat /\ log[at[c]] \in Seq(Entry)
        BY Zenon, <1>0, <3>2 DEF RaftType, TypeInv, CallType
      <4>2. [Id |-> c, Term |-> opTerm[c], term |-> term[at[c]]] \in Entry
        BY Zenon, <4>1 DEF Entry
      <4>3. QED
        BY <3>1, <4>1, <4>2
    <3>3. log' \in [Server -> Seq(Entry)]
      BY Zenon, <1>0, <3>1, <3>2 DEF RaftType
    <3>4. QED
      BY Zenon, <1>0, <1>7, <3>3 DEF Start, RaftType
  <2>3. QED
    BY Zenon, <2>1, <2>2
<1>8. ASSUME NEW s \in Server, Campaign(s) PROVE RaftType'
  <2>1. term[s] + 1 \in Nat
    BY <1>0 DEF RaftType
  <2>2. QED
    BY Zenon, <1>0, <1>8, <2>1 DEF Campaign, RaftType
<1>9. CASE UNCHANGED raftVars
  BY Zenon, <1>0, <1>9 DEF raftVars, RaftType
<1>10. QED
  BY Zenon, <1>1, <1>2, <1>3, <1>4, <1>5, <1>6, <1>7, <1>8, <1>9
     DEF Next, RaftStep, Reader, Caller, vars, CollectBatch, Apply, Send, Restore, Snapshot, Submit,
         Register, Notified, LostLeadership, Deferred

\* A snapshot on its way has an index and a state.
LEMMA MessageFields ==
  ASSUME ReplicaType, NEW s \in Server, NEW m \in snapshotMsgs[s]
  PROVE  m.index \in Nat /\ m.data \in Seq(Call)
<1>1. m \in Message
  BY Zenon DEF ReplicaType
<1>2. \A x \in Message : x.index \in Nat /\ x.data \in Seq(Call)
  BY Zenon DEF Message
<1>3. QED
  BY Zenon, <1>1, <1>2

\* The replicas keep theirs.
LEMMA NextReplicaType ==
  ASSUME TypeInv, IndexInv, [Next]_vars
  PROVE  ReplicaType'
<1>0. ReplicaType
  BY Zenon DEF TypeInv
<1>1. ASSUME NEW s \in Server, Apply(s) PROVE ReplicaType'
  <2>1. PICK i \in outbox[s] :
          /\ outbox' = [outbox EXCEPT ![s] = @ \ {i}] /\ applied' = [applied EXCEPT ![s] = i]
          /\ sm' = [sm EXCEPT ![s] = Append(sm[s], committed[i].Id)]
          /\ executed' = Greater(executed, i) /\ inOrder' = (inOrder /\ i = applied[s] + 1)
    BY Zenon, <1>1 DEF Apply
  <2>2. UNCHANGED <<lastIncludedIndex, snapshot, lastApplied, snapshotMsgs>>
    BY Zenon, <1>1 DEF Apply, snapVars
  <2>3. i \in 1..Len(committed) /\ i \in Nat /\ committed \in Seq(Entry)
    BY Zenon, <1>0, <2>1 DEF IndexInv, ReplicaType, TypeInv, RaftType
  <2>4. PICK x \in Call : x = committed[i].Id
    BY Zenon, <2>3, EntryIds
  <2>5. sm' \in [Server -> Seq(Call)]
    <3>1. PICK q \in Seq(Call) : q = sm[s]
      BY Zenon, <1>0 DEF ReplicaType
    <3>2. Append(q, x) \in Seq(Call)
      OBVIOUS
    <3>3. QED
      BY Zenon, <1>0, <2>1, <2>4, <3>1, <3>2 DEF ReplicaType
  <2>6. applied' \in [Server -> Nat] /\ outbox' \in [Server -> SUBSET Nat]
    BY Zenon, <1>0, <2>1, <2>3 DEF ReplicaType
  <2>7. executed' \in Nat /\ inOrder' \in BOOLEAN
    BY Zenon, <1>0, <2>1, <2>3 DEF ReplicaType, Greater
  <2>8. QED
    BY Zenon, <1>0, <2>2, <2>5, <2>6, <2>7 DEF ReplicaType
<1>2. ASSUME NEW s \in Server, Snapshot(s) PROVE ReplicaType'
  BY Zenon, <1>0, <1>2 DEF Snapshot, ReplicaType, chanVars, readerVars
<1>3. ASSUME NEW s \in Server, Restore(s) PROVE ReplicaType'
  <2>1. PICK m \in snapshotMsgs[s] :
          /\ snapshotMsgs' = [snapshotMsgs EXCEPT ![s] = @ \ {m}]
          /\ applied' = [applied EXCEPT ![s] = m.index] /\ sm' = [sm EXCEPT ![s] = m.data]
    BY Zenon, <1>3 DEF Restore
  <2>2. m.index \in Nat /\ m.data \in Seq(Call)
    BY Zenon, <1>0, <2>1, MessageFields
  <2>3. QED
    BY Zenon, <1>0, <1>3, <2>1, <2>2 DEF Restore, ReplicaType, snapVars
<1>4. ASSUME NEW s \in Server, Restart(s) PROVE ReplicaType'
  BY Zenon, <1>0, <1>4 DEF Restart, ReplicaType, snapVars
<1>5. ASSUME NEW s \in Server, InstallSnapshot(s) PROVE ReplicaType'
  <2>1. PICK l \in Server :
          /\ lastIncludedIndex' = [lastIncludedIndex EXCEPT ![s] = lastIncludedIndex[l]]
          /\ snapshot' = [snapshot EXCEPT ![s] = snapshot[l]]
          /\ lastApplied' = [lastApplied EXCEPT ![s] = Greater(@, lastIncludedIndex[l])]
          /\ snapshotMsgs' = [snapshotMsgs EXCEPT ![s] =
               @ \cup {[index |-> lastIncludedIndex[l], data |-> snapshot[l]]}]
    BY Zenon, <1>5 DEF InstallSnapshot
  <2>2. [index |-> lastIncludedIndex[l], data |-> snapshot[l]] \in Message
    BY Zenon, <1>0 DEF ReplicaType, Message
  <2>3. Greater(lastApplied[s], lastIncludedIndex[l]) \in Nat
    BY Zenon, <1>0 DEF ReplicaType, Greater
  <2>4. snapshotMsgs' \in [Server -> SUBSET Message] /\ lastApplied' \in [Server -> Nat]
    BY Zenon, <1>0, <2>1, <2>2, <2>3 DEF ReplicaType
  <2>5. QED
    BY Zenon, <1>0, <1>5, <2>1, <2>4 DEF InstallSnapshot, ReplicaType, readerVars
<1>6. ASSUME NEW s \in Server, CollectBatch(s) PROVE ReplicaType'
  <2>1. PICK n \in lastApplied[s] + 1..Len(committed) :
          /\ outbox' = [outbox EXCEPT ![s] = lastApplied[s] + 1..n]
          /\ lastApplied' = [lastApplied EXCEPT ![s] = n]
    BY Zenon, <1>6 DEF CollectBatch
  <2>2. lastApplied[s] + 1..n \subseteq Nat /\ n \in Nat
    BY <1>0 DEF ReplicaType
  <2>3. QED
    BY Zenon, <1>0, <1>6, <2>1, <2>2 DEF CollectBatch, ReplicaType, snapVars, readerVars
<1>7. CASE UNCHANGED smVars
  BY Zenon, <1>0, <1>7 DEF smVars, snapVars, chanVars, readerVars, ReplicaType
<1>8. QED
  BY Zenon, <1>1, <1>2, <1>3, <1>4, <1>5, <1>6, <1>7
     DEF Next, RaftStep, Reader, Caller, vars, Elect, Campaign, StepDown, Replicate, Commit, Send, Submit,
         Start, Register, Notified, LostLeadership, Deferred

\* The calls keep theirs.
LEMMA NextCallType ==
  ASSUME TypeInv, CallInv, [Next]_vars
  PROVE  CallType'
<1>0. CallType
  BY Zenon DEF TypeInv
<1>1. ASSUME NEW s \in Server, Apply(s) PROVE CallType'
  BY Zenon, <1>0, <1>1 DEF Apply, CallType, callVars
<1>2. ASSUME NEW s \in Server, Send(s) PROVE CallType'
  BY Zenon, <1>0, <1>2 DEF Send, CallType, callVars
<1>3. ASSUME NEW s \in Server, Restart(s) PROVE CallType'
  <2>1. /\ pc' = [c \in Call |-> IF at[c] = s THEN "gone" ELSE pc[c]]
        /\ at' = [c \in Call |-> IF at[c] = s THEN None ELSE at[c]]
        /\ opTerm' = [c \in Call |-> IF at[c] = s THEN 0 ELSE opTerm[c]]
        /\ result' = [c \in Call |-> IF at[c] = s THEN ErrWrongLeader ELSE result[c]]
    BY Zenon, <1>3 DEF Restart, Frees
  <2>2. pc' \in [Call -> Places] /\ at' \in [Call -> Server \cup {None}] /\ opTerm' \in [Call -> Nat]
    BY Zenon, <1>0, <2>1 DEF CallType, Places
  <2>3. result' = [c \in Call |-> result'[c]]
    BY Zenon, <2>1
  <2>4. sending' = [r \in Server |-> sending'[r]] /\ ch' = [c \in Call |-> ch'[c]]
    BY Zenon, <1>0, <1>3 DEF Restart, Frees, CallType
  <2>5. QED
    BY Zenon, <1>0, <2>2, <2>3, <2>4 DEF CallType
<1>4. ASSUME NEW c \in Call, Start(c) PROVE CallType'
  <2>1. CASE leader[at[c]]
    <3>1. /\ pc' = [pc EXCEPT ![c] = "register"] /\ opTerm' = [opTerm EXCEPT ![c] = term[at[c]]]
          /\ UNCHANGED <<at, ch, result, sending>>
      BY Zenon, <1>4, <2>1 DEF Start, Goto
    <3>2. term[at[c]] \in Nat
      BY Zenon, <1>4 DEF Start, CallInv, TypeInv, CallType, RaftType
    <3>3. QED
      BY Zenon, <1>0, <3>1, <3>2 DEF CallType, Places
  <2>2. CASE ~leader[at[c]]
    <3>1. /\ pc' = [pc EXCEPT ![c] = "returned"] /\ result' = [result EXCEPT ![c] = ErrWrongLeader]
          /\ at' = [d \in Call |-> IF d \in {c} THEN None ELSE at[d]]
          /\ opTerm' = [d \in Call |-> IF d \in {c} THEN 0 ELSE opTerm[d]]
          /\ ch' = [d \in Call |-> ch'[d]] /\ sending' = sending
      BY Zenon, <1>4, <2>2 DEF Start, Goto, Returns, Frees
    <3>2. QED
      BY Zenon, <1>0, <3>1 DEF CallType, Places
  <2>3. QED
    BY Zenon, <2>1, <2>2
<1>5. ASSUME NEW c \in Call, Register(c) PROVE CallType'
  BY Zenon, <1>0, <1>5 DEF Register, CallType, Goto, Places
<1>6. ASSUME NEW c \in Call, Notified(c) PROVE CallType'
  BY Zenon, <1>0, <1>6 DEF Notified, CallType, Goto, Returns, Places
<1>7. ASSUME NEW c \in Call, LostLeadership(c) PROVE CallType'
  BY Zenon, <1>0, <1>7 DEF LostLeadership, CallType, Goto, Returns, Places
<1>8. ASSUME NEW c \in Call, Deferred(c) PROVE CallType'
  BY Zenon, <1>0, <1>8 DEF Deferred, CallType, Goto, Frees, Places
<1>9. ASSUME NEW c \in Call, NEW s \in Server, Submit(c, s) PROVE CallType'
  <2>1. term[s] \in Nat
    BY Zenon DEF TypeInv, RaftType
  <2>2. CASE leader[s]
    <3>1. /\ pc' = [pc EXCEPT ![c] = "start"] /\ at' = [at EXCEPT ![c] = s]
          /\ opTerm' = [opTerm EXCEPT ![c] = term[s]] /\ UNCHANGED <<result, ch, sending>>
      BY Zenon, <1>9, <2>2 DEF Submit, Goto
    <3>2. QED
      BY Zenon, <1>0, <2>1, <3>1 DEF CallType, Places
  <2>3. CASE ~leader[s]
    BY Zenon, <1>0, <1>9, <2>3 DEF Submit, CallType, Goto, Returns, Places
  <2>4. QED
    BY Zenon, <2>2, <2>3
<1>10. CASE UNCHANGED <<sending, ch, callVars>>
  BY Zenon, <1>0, <1>10 DEF callVars, CallType
<1>11. QED
  BY Zenon, <1>1, <1>2, <1>3, <1>4, <1>5, <1>6, <1>7, <1>8, <1>9, <1>10
     DEF Next, RaftStep, Reader, Caller, vars, Elect, Campaign, StepDown, Replicate, Commit,
         InstallSnapshot, CollectBatch, Snapshot, Restore

-----------------------------------------------------------------------------
(* Leaders *)

\* A log that only grows, and nothing else that the leaders depend on.
LEMMA LeadersStay ==
  ASSUME RaftType, RaftType', LeaderInv, UNCHANGED <<term, leader, elected, committed>>,
         \A s \in Server : log'[s] = log[s] \/ \E e : e \in Entry /\ log'[s] = Append(log[s], e)
  PROVE  LeaderInv'
<1>1. ASSUME NEW s \in Server, StartsWith(log[s], committed)
      PROVE  StartsWith(log'[s], committed)
  <2>1. log[s] \in Seq(Entry) /\ committed \in Seq(Entry)
    BY Zenon DEF RaftType
  <2>2. ASSUME NEW e \in Entry PROVE StartsWith(Append(log[s], e), committed)
    BY <1>1, <2>1 DEF StartsWith
  <2>3. QED
    BY Zenon, <1>1, <2>2
<1>2. QED
  BY Zenon, <1>1 DEF LeaderInv

\* A server that follows, in its term or a later one, with whatever log.
LEMMA LeaderSteps ==
  ASSUME RaftType, LeaderInv, NEW s \in Server, NEW t \in Nat,
         term' = [term EXCEPT ![s] = t], leader' = [leader EXCEPT ![s] = FALSE],
         UNCHANGED <<elected, committed>>, \A r \in Server \ {s} : log'[r] = log[r]
  PROVE  LeaderInv'
<1>1. \A r \in Server : leader'[r] => r # s /\ leader[r] /\ term'[r] = term[r] /\ log'[r] = log[r]
  BY Zenon DEF RaftType
<1>2. QED
  BY Zenon, <1>1 DEF LeaderInv

\* A server that holds all that is committed is elected.
LEMMA ElectLeader ==
  ASSUME RaftType, LeaderInv, NEW s \in Server, Elect(s)
  PROVE  LeaderInv'
<1>1. PICK t \in Nat : t = term[s] + 1
  BY DEF RaftType
<1>2. /\ term' = [term EXCEPT ![s] = t] /\ leader' = [leader EXCEPT ![s] = TRUE] /\ elected' = t
      /\ log' = log /\ committed' = committed /\ StartsWith(log[s], committed)
  BY Zenon, <1>1 DEF Elect
<1>3. elected < t
  BY <1>1 DEF Elect, RaftType
<1>4. ASSUME NEW r \in Server, r # s
      PROVE  leader'[r] => leader[r] /\ term'[r] = term[r] /\ term[r] < t
  <2>1. leader'[r] = leader[r] /\ term'[r] = term[r] /\ term[r] \in Nat /\ elected \in Nat
    BY Zenon, <1>2, <1>4 DEF RaftType
  <2>2. leader[r] => term[r] <= elected
    BY Zenon DEF LeaderInv
  <2>3. QED
    BY <1>3, <2>1, <2>2
<1>5. term'[s] = t
  BY Zenon, <1>2 DEF RaftType
<1>6. \A r \in Server : leader'[r] => term'[r] <= elected' /\ (term'[r] = elected' => r = s)
  BY <1>2, <1>4, <1>5 DEF RaftType
<1>7. ASSUME NEW q \in Server, NEW r \in Server, leader'[q], leader'[r], term'[q] = term'[r] PROVE q = r
  <2>1. CASE q = s \/ r = s
    BY Zenon, <1>2, <1>5, <1>6, <1>7, <2>1
  <2>2. CASE q # s /\ r # s
    BY Zenon, <1>4, <1>7, <2>2 DEF LeaderInv
  <2>3. QED
    BY Zenon, <2>1, <2>2
<1>8. QED
  BY Zenon, <1>2, <1>6, <1>7 DEF LeaderInv

\* The leader of the newest term commits more of its log.
LEMMA CommitLeader ==
  ASSUME RaftType, LeaderInv, NEW s \in Server, Commit(s)
  PROVE  LeaderInv' /\ StartsWith(committed', committed)
<1>1. PICK n \in Len(committed) + 1..Len(log[s]) : committed' = SubSeq(log[s], 1, n)
  BY Zenon DEF Commit
<1>2. leader[s] /\ term[s] = elected /\ UNCHANGED <<term, leader, log, elected>>
  BY Zenon DEF Commit
<1>3. StartsWith(log[s], committed)
  BY Zenon, <1>2 DEF LeaderInv
<1>4. log[s] \in Seq(Entry) /\ committed \in Seq(Entry) /\ n \in 0..Len(log[s])
  BY DEF RaftType
<1>5. Len(committed') = n /\ \A i \in 1..n : committed'[i] = log[s][i]
  BY Zenon, <1>1, <1>4, FirstEntries
<1>6. committed' \in Seq(Entry)
  BY Zenon, <1>1, <1>4, FirstEntries
<1>7. StartsWith(committed', committed) /\ StartsWith(log[s], committed')
  BY <1>3, <1>4, <1>5, <1>6 DEF StartsWith
<1>8. ASSUME NEW r \in Server, leader[r], term[r] = elected PROVE r = s
  BY Zenon, <1>2, <1>8 DEF LeaderInv
<1>9. QED
  BY Zenon, <1>2, <1>7, <1>8 DEF LeaderInv

\* Every step keeps what holds of leaders.
LEMMA NextLeader ==
  ASSUME TypeInv, TypeInv', IndexInv, LeaderInv, [Next]_vars
  PROVE  LeaderInv' /\ StartsWith(committed', committed)
<1>0. RaftType /\ RaftType'
  BY Zenon DEF TypeInv
<1>1. ASSUME committed' = committed PROVE StartsWith(committed', committed)
  BY <1>0, <1>1 DEF StartsWith, RaftType
<1>2. ASSUME NEW s \in Server, Elect(s) PROVE LeaderInv' /\ committed' = committed
  BY Zenon, <1>0, <1>2, ElectLeader DEF Elect
<1>3. ASSUME NEW s \in Server, StepDown(s) PROVE LeaderInv' /\ committed' = committed
  <2>1. PICK r \in Server : term' = [term EXCEPT ![s] = term[r]]
    BY Zenon, <1>3 DEF StepDown
  <2>2. term[r] \in Nat
    BY Zenon, <1>0 DEF RaftType
  <2>3. QED
    BY Zenon, <1>0, <1>3, <2>1, <2>2, LeaderSteps DEF StepDown
<1>4. ASSUME NEW s \in Server, Replicate(s) PROVE LeaderInv' /\ committed' = committed
  <2>1. PICK r \in Server : term' = [term EXCEPT ![s] = term[r]]
    BY Zenon, <1>4 DEF Replicate
  <2>2. term[r] \in Nat /\ \A x \in Server \ {s} : log'[x] = log[x]
    BY Zenon, <1>0, <1>4 DEF RaftType, Replicate
  <2>3. QED
    BY Zenon, <1>0, <1>4, <2>1, <2>2, LeaderSteps DEF Replicate
<1>5. ASSUME NEW s \in Server, InstallSnapshot(s) PROVE LeaderInv' /\ committed' = committed
  <2>1. PICK r \in Server, q \in Seq(Entry) :
          /\ term' = [term EXCEPT ![s] = term[r]] /\ leader' = [leader EXCEPT ![s] = FALSE]
          /\ elected' = elected /\ committed' = committed /\ log' = [log EXCEPT ![s] = q]
          /\ q \in {log[s], SubSeq(committed, 1, lastIncludedIndex[r])}
    BY Zenon, <1>5, Installed
  <2>2. term[r] \in Nat /\ \A x \in Server \ {s} : log'[x] = log[x]
    BY Zenon, <1>0, <2>1 DEF RaftType
  <2>3. QED
    BY Zenon, <1>0, <2>1, <2>2, LeaderSteps
<1>6. ASSUME NEW s \in Server, Restart(s) PROVE LeaderInv' /\ committed' = committed
  <2>1. term[s] \in Nat /\ term' = [term EXCEPT ![s] = term[s]]
    BY Zenon, <1>0, <1>6 DEF RaftType, Restart
  <2>2. QED
    BY Zenon, <1>0, <1>6, <2>1, LeaderSteps DEF Restart
<1>7. ASSUME NEW c \in Call, Start(c) PROVE LeaderInv' /\ committed' = committed
  <2>1. UNCHANGED <<term, leader, elected, committed>>
    BY Zenon, <1>7 DEF Start
  <2>2. \A s \in Server : log'[s] = log[s] \/ \E e : e \in Entry /\ log'[s] = Append(log[s], e)
    <3>1. CASE ~leader[at[c]]
      BY Zenon, <1>7, <3>1 DEF Start
    <3>2. CASE leader[at[c]]
      <4>1. log' = [log EXCEPT ![at[c]] =
                      Append(@, [Id |-> c, Term |-> opTerm[c], term |-> term[at[c]]])]
        BY Zenon, <1>7, <3>2 DEF Start
      <4>2. ASSUME at[c] \in Server
            PROVE  [Id |-> c, Term |-> opTerm[c], term |-> term[at[c]]] \in Entry
        BY Zenon, <4>2 DEF Entry, TypeInv, CallType, RaftType
      <4>3. QED
        BY Zenon, <1>0, <4>1, <4>2 DEF RaftType
    <3>3. QED
      BY Zenon, <3>1, <3>2
  <2>3. QED
    BY Zenon, <1>0, <2>1, <2>2, LeadersStay
<1>8. ASSUME UNCHANGED raftVars PROVE LeaderInv' /\ committed' = committed
  BY Zenon, <1>0, <1>8, LeadersStay DEF raftVars
<1>9. ASSUME NEW s \in Server, Commit(s) PROVE LeaderInv' /\ StartsWith(committed', committed)
  BY Zenon, <1>0, <1>9, CommitLeader
<1>10. ASSUME NEW s \in Server, Campaign(s) PROVE LeaderInv' /\ committed' = committed
  <2>1. PICK t \in Nat : t = term[s] + 1
    BY <1>0 DEF RaftType
  <2>2. term' = [term EXCEPT ![s] = t] /\ leader' = [leader EXCEPT ![s] = FALSE]
    BY Zenon, <1>0, <1>10, <2>1 DEF Campaign, RaftType
  <2>3. QED
    BY Zenon, <1>0, <1>10, <2>2, LeaderSteps DEF Campaign
<1>11. QED
  BY Zenon, <1>1, <1>2, <1>3, <1>4, <1>5, <1>6, <1>7, <1>8, <1>9, <1>10
     DEF Next, RaftStep, Reader, Caller, vars, raftVars, CollectBatch, Apply, Send, Restore, Snapshot,
         Submit, Register, Notified, LostLeadership, Deferred

-----------------------------------------------------------------------------
(* Entries *)

\* Calls that have started stay so, and a part of a log that has each of them once is one too.
LEMMA SinglesStay ==
  ASSUME \A c \in Call : Begun(c) => Begun(c)', NEW q \in Seq(Entry), Singles(q), NEW n \in 0..Len(q)
  PROVE  Singles(q)' /\ Singles(SubSeq(q, 1, n))'
<1>1. \A i \in 1..Len(q) : q[i].Id \in Call
  BY Zenon, EntryIds
<1>2. Singles(q)'
  BY Zenon, <1>1 DEF Singles
<1>3. /\ Len(SubSeq(q, 1, n)) = n /\ \A i \in 1..n : i \in 1..Len(q)
      /\ \A i \in 1..n : SubSeq(q, 1, n)[i] = q[i]
  OBVIOUS
<1>4. Singles(SubSeq(q, 1, n))'
  BY Zenon, <1>2, <1>3 DEF Singles
<1>5. QED
  BY Zenon, <1>2, <1>4

\* The steps that only copy and cut entries.
LEMMA EntriesStay ==
  ASSUME RaftType, EntriesInv, \A c \in Call : Begun(c) => Begun(c)',
         \A s \in Server : \/ \E r \in Server : log'[s] = log[r]
                           \/ \E n \in 0..Len(committed) : log'[s] = SubSeq(committed, 1, n),
         \/ committed' = committed
         \/ \E s \in Server, n \in Nat : n <= Len(log[s]) /\ committed' = SubSeq(log[s], 1, n)
  PROVE  EntriesInv'
<1>1. committed \in Seq(Entry) /\ 0 \in 0..Len(committed) /\ Singles(committed)
  BY DEF RaftType, EntriesInv
<1>2. ASSUME NEW s \in Server PROVE log[s] \in Seq(Entry) /\ 0 \in 0..Len(log[s]) /\ Singles(log[s])
  BY DEF RaftType, EntriesInv
<1>3. Singles(committed)'
  <2>1. PICK q : q = committed'
    BY Zenon
  <2>2. CASE q = committed
    BY Zenon, <1>1, <2>1, <2>2, SinglesStay DEF Singles
  <2>3. CASE \E s \in Server, n \in Nat : n <= Len(log[s]) /\ q = SubSeq(log[s], 1, n)
    <3>1. PICK s \in Server, n \in Nat : n <= Len(log[s]) /\ q = SubSeq(log[s], 1, n)
      BY Zenon, <2>3
    <3>2. PICK p \in Seq(Entry) : p = log[s] /\ Singles(p)
      BY Zenon, <1>2
    <3>3. n \in 0..Len(p)
      BY <3>1, <3>2
    <3>4. Singles(SubSeq(p, 1, n))'
      BY Zenon, <3>2, <3>3, SinglesStay
    <3>5. QED
      BY ZenonT(40), <2>1, <3>1, <3>2, <3>4 DEF Singles
  <2>4. QED
    BY Zenon, <2>1, <2>2, <2>3
<1>4. ASSUME NEW s \in Server PROVE Singles(log[s])'
  <2>1. PICK q : q = log'[s]
    BY Zenon
  <2>2. CASE \E r \in Server : q = log[r]
    BY Zenon, <1>2, <2>1, <2>2, SinglesStay DEF Singles
  <2>3. CASE \E n \in 0..Len(committed) : q = SubSeq(committed, 1, n)
    <3>1. PICK n \in 0..Len(committed) : q = SubSeq(committed, 1, n)
      BY Zenon, <2>3
    <3>2. PICK p \in Seq(Entry) : p = committed /\ Singles(p)
      BY Zenon, <1>1
    <3>3. Singles(SubSeq(p, 1, n))'
      BY Zenon, <3>1, <3>2, SinglesStay
    <3>4. QED
      BY ZenonT(30), <2>1, <3>1, <3>2, <3>3 DEF Singles
  <2>4. QED
    BY Zenon, <2>1, <2>2, <2>3
<1>5. QED
  BY Zenon, <1>3, <1>4 DEF EntriesInv

\* A call that has not started has no entry; its first one is its only one.
LEMMA StartEntries ==
  ASSUME TypeInv, EntriesInv, NEW c \in Call, Start(c)
  PROVE  EntriesInv'
<1>0. RaftType /\ pc \in [Call -> Places] /\ pc[c] = "start"
  BY Zenon DEF TypeInv, CallType, Start
<1>1. \A d \in Call : Begun(d) => Begun(d)' /\ d # c
  BY Zenon, <1>0 DEF Start, Goto, Begun
<1>2. CASE ~leader[at[c]]
  BY Zenon, <1>0, <1>1, <1>2, EntriesStay DEF Start
<1>3. CASE leader[at[c]]
  <2>1. /\ log' = [log EXCEPT ![at[c]] = Append(@, [Id |-> c, Term |-> opTerm[c], term |-> term[at[c]]])]
        /\ committed' = committed
    BY Zenon, <1>3 DEF Start
  <2>2. Begun(c)'
    BY Zenon, <1>0, <1>3 DEF Start, Goto, Begun
  <2>3. ASSUME NEW q \in Seq(Entry), Singles(q) PROVE Singles(q)'
    <3>1. 0 \in 0..Len(q)
      OBVIOUS
    <3>2. QED
      BY Zenon, <1>1, <2>3, <3>1, SinglesStay
  <2>4. Singles(committed)'
    <3>1. PICK q \in Seq(Entry) : q = committed /\ Singles(q)
      BY Zenon, <1>0 DEF RaftType, EntriesInv
    <3>2. QED
      BY Zenon, <2>1, <2>3, <3>1 DEF Singles
  <2>5. ASSUME NEW s \in Server PROVE Singles(log[s])'
    <3>1. PICK q \in Seq(Entry) : q = log[s] /\ Singles(q)
      BY Zenon, <1>0 DEF RaftType, EntriesInv
    <3>2. Singles(q)'
      BY Zenon, <2>3, <3>1
    <3>3. CASE s # at[c]
      <4>1. log'[s] = q
        BY Zenon, <1>0, <2>1, <3>1, <3>3 DEF RaftType
      <4>2. QED
        BY Zenon, <3>2, <4>1 DEF Singles
    <3>4. CASE s = at[c]
      <4>1. PICK e : e = [Id |-> c, Term |-> opTerm[c], term |-> term[s]]
        BY Zenon
      <4>2. e.Id = c
        BY Zenon, <4>1
      <4>3. log'[s] = Append(q, e)
        BY Zenon, <1>0, <2>1, <3>1, <3>4, <4>1 DEF RaftType
      <4>4. PICK n \in Nat : n = Len(q)
        OBVIOUS
      <4>5. /\ Len(Append(q, e)) = n + 1 /\ Append(q, e)[n + 1] = e
            /\ \A i \in 1..n : Append(q, e)[i] = q[i]
            /\ \A i \in 1..n + 1 : i \in 1..n \/ i = n + 1
        BY <4>4
      <4>6. PICK p, m : p = Append(q, e) /\ m = n + 1
        BY Zenon
      <4>7. Len(p) = m /\ p[m] = e /\ (\A i \in 1..n : p[i] = q[i]) /\ \A i \in 1..m : i \in 1..n \/ i = m
        BY Zenon, <4>5, <4>6
      <4>8. \A i \in 1..n : Begun(q[i].Id) /\ q[i].Id \in Call
        BY Zenon, <3>1, <4>4, EntryIds DEF Singles
      <4>9. \A i \in 1..n : p[i].Id # c /\ Begun(p[i].Id)'
        BY Zenon, <1>1, <4>7, <4>8
      <4>10. \A i \in 1..m : Begun(p[i].Id)'
        BY Zenon, <2>2, <4>2, <4>7, <4>9
      <4>11. \A i, j \in 1..m : p[i].Id = p[j].Id => i = j
        BY ZenonT(30), <3>1, <4>2, <4>4, <4>7, <4>9 DEF Singles
      <4>12. log'[s] = p
        BY Zenon, <4>3, <4>6
      <4>13. QED
        BY Zenon, <4>7, <4>10, <4>11, <4>12 DEF Singles
    <3>5. QED
      BY Zenon, <3>3, <3>4
  <2>6. QED
    BY Zenon, <2>4, <2>5 DEF EntriesInv
<1>4. QED
  BY Zenon, <1>2, <1>3

\* No step of a call but Start makes it begin or undoes that.
LEMMA BegunStays ==
  ASSUME TypeInv, [Next]_vars, NEW c \in Call, Begun(c)
  PROVE  Begun(c)'
<1>0. pc \in [Call -> Places]
  BY Zenon DEF TypeInv, CallType
<1>1. ASSUME NEW s \in Server, Restart(s) PROVE Begun(c)'
  BY Zenon, <1>0, <1>1 DEF Restart, Begun
<1>2. ASSUME NEW d \in Call, Caller(d) PROVE Begun(c)'
  <2>1. PICK p \in {"register", "wait", "deferred", "returned"} : pc' = [pc EXCEPT ![d] = p]
    BY Zenon, <1>2 DEF Caller, Start, Register, Notified, LostLeadership, Deferred, Goto
  <2>2. QED
    BY Zenon, <1>0, <2>1 DEF Begun
<1>3. ASSUME NEW d \in Call, NEW s \in Server, Submit(d, s) PROVE Begun(c)'
  <2>1. d # c /\ \E p : pc' = [pc EXCEPT ![d] = p]
    BY Zenon, <1>3 DEF Submit, Goto, Begun
  <2>2. QED
    BY Zenon, <1>0, <2>1 DEF Begun
<1>4. CASE pc' = pc
  BY Zenon, <1>4 DEF Begun
<1>5. QED
  BY Zenon, <1>1, <1>2, <1>3, <1>4
     DEF Next, RaftStep, Reader, vars, callVars, Elect, Campaign, StepDown, Replicate, Commit,
         InstallSnapshot, CollectBatch, Apply, Send, Snapshot, Restore

\* No step puts an operation into a log twice.
LEMMA NextEntries ==
  ASSUME TypeInv, IndexInv, EntriesInv, [Next]_vars
  PROVE  EntriesInv'
<1>0. RaftType /\ \A c \in Call : Begun(c) => Begun(c)'
  BY Zenon, BegunStays DEF TypeInv
<1>1. ASSUME log' = log, committed' = committed PROVE EntriesInv'
  BY Zenon, <1>0, <1>1, EntriesStay
<1>2. ASSUME NEW s \in Server, Replicate(s) PROVE EntriesInv'
  <2>1. PICK r \in Server : log' = [log EXCEPT ![s] = log[r]]
    BY Zenon, <1>2 DEF Replicate
  <2>2. \A x \in Server : \E y \in Server : log'[x] = log[y]
    BY Zenon, <1>0, <2>1 DEF RaftType
  <2>3. QED
    BY Zenon, <1>0, <1>2, <2>2, EntriesStay DEF Replicate
<1>3. ASSUME NEW s \in Server, Commit(s) PROVE EntriesInv'
  <2>1. PICK n \in Len(committed) + 1..Len(log[s]) : committed' = SubSeq(log[s], 1, n)
    BY Zenon, <1>3 DEF Commit
  <2>2. n \in Nat /\ n <= Len(log[s])
    BY <1>0 DEF RaftType
  <2>3. QED
    BY Zenon, <1>0, <1>3, <2>1, <2>2, EntriesStay DEF Commit
<1>4. ASSUME NEW s \in Server, InstallSnapshot(s) PROVE EntriesInv'
  <2>1. PICK r \in Server, q \in Seq(Entry) :
          /\ committed' = committed /\ log' = [log EXCEPT ![s] = q]
          /\ q \in {log[s], SubSeq(committed, 1, lastIncludedIndex[r])}
    BY Zenon, <1>4, Installed
  <2>2. committed' = committed /\ q \in {log[s], SubSeq(committed, 1, lastIncludedIndex[r])}
    BY Zenon, <2>1
  <2>3. lastIncludedIndex[r] \in 0..Len(committed)
    BY Zenon, Covered
  <2>4. \A x \in Server : IF x = s THEN log'[x] = q ELSE log'[x] = log[x]
    BY Zenon, <1>0, <2>1 DEF RaftType
  <2>5. \A x \in Server : \/ \E y \in Server : log'[x] = log[y]
                          \/ \E n \in 0..Len(committed) : log'[x] = SubSeq(committed, 1, n)
    BY Zenon, <2>2, <2>3, <2>4
  <2>6. QED
    BY Zenon, <1>0, <2>2, <2>5, EntriesStay
<1>5. ASSUME NEW c \in Call, Start(c) PROVE EntriesInv'
  BY Zenon, <1>5, StartEntries
<1>6. QED
  BY Zenon, <1>1, <1>2, <1>3, <1>4, <1>5
     DEF Next, RaftStep, Reader, Caller, vars, raftVars, Elect, Campaign, StepDown, CollectBatch, Apply,
         Send, Restore, Snapshot, Restart, Submit, Register, Notified, LostLeadership, Deferred

-----------------------------------------------------------------------------
(* Replicas *)

\* The states up to what is committed stay what they were.
LEMMA StatesStay ==
  ASSUME RaftType, RaftType', StartsWith(committed', committed)
  PROVE  Len(committed) <= Len(committed') /\ \A n \in 0..Len(committed) : StateAt(n)' = StateAt(n)
<1>1. committed \in Seq(Entry) /\ committed' \in Seq(Entry)
  BY Zenon DEF RaftType
<1>2. PICK q \in Seq(Entry), p \in Seq(Entry) : q = committed /\ p = committed'
  BY Zenon, <1>1
<1>3. \A n \in 0..Len(q) : Commands(SubSeq(p, 1, n)) = Commands(SubSeq(q, 1, n))
  BY Zenon, <1>2, StateStays
<1>4. QED
  BY Zenon, <1>2, <1>3 DEF StateAt, StartsWith

\* What was executed stays so.
LEMMA LeftStays ==
  ASSUME TypeInv, TypeInv', IndexInv, StartsWith(committed', committed), executed <= executed',
         inOrder' => inOrder
  PROVE  \A c, x : Left(c, x) => Left(c, x)'
<1>1. \A n \in 1..executed : n \in 1..executed' /\ n \in 0..Len(committed) /\ n \in DOMAIN committed
  BY DEF TypeInv, ReplicaType, RaftType, IndexInv
<1>2. \A n \in 1..executed : committed'[n] = committed[n] /\ StateAt(n)' = StateAt(n)
  BY Zenon, <1>1, StatesStay DEF TypeInv, StartsWith
<1>3. QED
  BY Zenon, <1>1, <1>2 DEF Left, Ends

\* Commands that were out of order stay so.
LEMMA OrderLost ==
  ASSUME [Next]_vars
  PROVE  inOrder' => inOrder
<1>1. ASSUME NEW s \in Server, Apply(s) PROVE inOrder' => inOrder
  BY Zenon, <1>1 DEF Apply
<1>2. CASE UNCHANGED inOrder
  BY Zenon, <1>2
<1>3. QED
  BY Zenon, <1>1, <1>2
     DEF Next, RaftStep, Reader, Caller, vars, smVars, readerVars, Elect, Campaign, StepDown, Replicate,
         Commit, InstallSnapshot, CollectBatch, Send, Restore, Snapshot, Restart, Submit, Start, Register,
         Notified, LostLeadership, Deferred

\* Every index a server holds is one of a committed entry.
LEMMA NextIndexes ==
  ASSUME TypeInv, TypeInv', IndexInv, StartsWith(committed', committed), [Next]_vars
  PROVE  IndexInv' /\ executed <= executed'
<1>0. /\ executed \in Nat /\ applied \in [Server -> Nat] /\ lastIncludedIndex \in [Server -> Nat]
      /\ lastApplied \in [Server -> Nat] /\ outbox \in [Server -> SUBSET Nat]
      /\ snapshotMsgs \in [Server -> SUBSET Message]
  BY Zenon DEF TypeInv, ReplicaType
<1>1. /\ Len(committed) \in Nat /\ Len(committed') \in Nat /\ Len(committed) <= Len(committed')
      /\ executed <= Len(committed)
  BY DEF TypeInv, RaftType, StartsWith, IndexInv
<1>2. ASSUME NEW r \in Server
      PROVE  /\ applied[r] \in 0..executed /\ lastIncludedIndex[r] \in 0..executed
             /\ outbox[r] \subseteq 1..Len(committed')
             /\ \A m \in snapshotMsgs[r] : m.index \in 0..executed
  <2>1. applied[r] \in 0..executed /\ lastIncludedIndex[r] \in 0..executed
    BY <1>0 DEF IndexInv
  <2>2. outbox[r] \subseteq 1..Len(committed) /\ 1..Len(committed) \subseteq 1..Len(committed')
    BY <1>1 DEF IndexInv
  <2>3. ASSUME NEW m \in snapshotMsgs[r] PROVE m.index \in 0..executed
    <3>1. m.index \in Nat
      BY Zenon, MessageFields DEF TypeInv
    <3>2. m.index <= executed
      BY Zenon DEF IndexInv
    <3>3. QED
      BY <1>0, <3>1, <3>2
  <2>4. QED
    BY Zenon, <2>1, <2>2, <2>3
<1>3. ASSUME executed' = executed,
             \A r \in Server :
               /\ applied'[r] \in 0..executed /\ lastIncludedIndex'[r] \in 0..executed
               /\ outbox'[r] \subseteq 1..Len(committed')
               /\ \A m \in snapshotMsgs'[r] : m.index \in 0..executed
      PROVE  IndexInv' /\ executed <= executed'
  <2>1. executed' <= Len(committed') /\ executed <= executed' /\ \A i \in 0..executed : i <= executed'
    BY <1>0, <1>1, <1>3
  <2>2. QED
    BY Zenon, <1>3, <2>1 DEF IndexInv
<1>4. ASSUME NEW s \in Server, Apply(s) PROVE IndexInv' /\ executed <= executed'
  <2>1. PICK i \in outbox[s] :
          /\ outbox' = [outbox EXCEPT ![s] = @ \ {i}] /\ applied' = [applied EXCEPT ![s] = i]
          /\ executed' = Greater(executed, i)
    BY Zenon, <1>4 DEF Apply
  <2>2. UNCHANGED <<lastIncludedIndex, snapshotMsgs, committed>>
    BY Zenon, <1>4 DEF Apply, snapVars, raftVars
  <2>3. i \in 1..Len(committed)
    BY Zenon, <2>1 DEF IndexInv
  <2>4. i <= executed' /\ executed <= executed' /\ executed' <= Len(committed')
    BY SMTT(30), <1>0, <1>1, <2>1, <2>2, <2>3 DEF Greater
  <2>5. \A j \in 0..executed : j <= executed'
    BY <1>0, <2>1, <2>3 DEF Greater
  <2>6. ASSUME NEW r \in Server PROVE applied'[r] <= executed' /\ outbox'[r] \subseteq 1..Len(committed')
    <3>1. applied'[r] = i \/ applied'[r] = applied[r]
      BY Zenon, <1>0, <2>1
    <3>2. outbox'[r] \subseteq outbox[r]
      BY Zenon, <1>0, <2>1
    <3>3. QED
      BY Zenon, <1>2, <2>4, <2>5, <3>1, <3>2
  <2>7. QED
    BY Zenon, <1>2, <2>2, <2>4, <2>5, <2>6 DEF IndexInv
<1>5. ASSUME NEW s \in Server, Snapshot(s) PROVE IndexInv' /\ executed <= executed'
  <2>1. /\ lastIncludedIndex' = [lastIncludedIndex EXCEPT ![s] = applied[s]]
        /\ UNCHANGED <<applied, executed, outbox, snapshotMsgs>>
    BY Zenon, <1>5 DEF Snapshot, chanVars, readerVars
  <2>2. \A r \in Server : lastIncludedIndex'[r] = applied[s] \/ lastIncludedIndex'[r] = lastIncludedIndex[r]
    BY Zenon, <1>0, <2>1
  <2>3. QED
    BY Zenon, <1>2, <1>3, <2>1, <2>2
<1>6. ASSUME NEW s \in Server, Restore(s) PROVE IndexInv' /\ executed <= executed'
  <2>1. PICK m \in snapshotMsgs[s] :
          /\ snapshotMsgs' = [snapshotMsgs EXCEPT ![s] = @ \ {m}]
          /\ applied' = [applied EXCEPT ![s] = m.index]
    BY Zenon, <1>6 DEF Restore
  <2>2. UNCHANGED <<executed, outbox, lastIncludedIndex>>
    BY Zenon, <1>6 DEF Restore, snapVars
  <2>3. \A r \in Server : /\ snapshotMsgs'[r] \subseteq snapshotMsgs[r]
                          /\ applied'[r] = m.index \/ applied'[r] = applied[r]
    BY Zenon, <1>0, <2>1
  <2>4. QED
    BY Zenon, <1>2, <1>3, <2>1, <2>2, <2>3
<1>7. ASSUME NEW s \in Server, Restart(s) PROVE IndexInv' /\ executed <= executed'
  <2>1. UNCHANGED <<executed, lastIncludedIndex>>
    BY Zenon, <1>7 DEF Restart, snapVars
  <2>2. \A r \in Server : /\ snapshotMsgs'[r] \subseteq snapshotMsgs[r] /\ outbox'[r] \subseteq outbox[r]
                          /\ applied'[r] = lastIncludedIndex[s] \/ applied'[r] = applied[r]
    BY Zenon, <1>0, <1>7 DEF Restart
  <2>3. QED
    BY Zenon, <1>2, <1>3, <2>1, <2>2
<1>8. ASSUME NEW s \in Server, InstallSnapshot(s) PROVE IndexInv' /\ executed <= executed'
  <2>1. PICK l \in Server :
          /\ lastIncludedIndex' = [lastIncludedIndex EXCEPT ![s] = lastIncludedIndex[l]]
          /\ snapshotMsgs' = [snapshotMsgs EXCEPT ![s] =
               @ \cup {[index |-> lastIncludedIndex[l], data |-> snapshot[l]]}]
    BY Zenon, <1>8 DEF InstallSnapshot
  <2>2. UNCHANGED <<executed, outbox, applied>>
    BY Zenon, <1>8 DEF InstallSnapshot, readerVars
  <2>3. PICK n \in 0..executed : n = lastIncludedIndex[l]
    BY Zenon, <1>2
  <2>4. PICK x \in {[index |-> n, data |-> snapshot[l]]} : x.index = n
    BY Zenon
  <2>5. \A r \in Server : /\ snapshotMsgs'[r] \subseteq snapshotMsgs[r] \cup {x}
                          /\ lastIncludedIndex'[r] = n \/ lastIncludedIndex'[r] = lastIncludedIndex[r]
    BY Zenon, <1>0, <2>1, <2>3, <2>4
  <2>6. \A r \in Server : \A m \in snapshotMsgs'[r] : m.index \in 0..executed
    BY Zenon, <1>2, <2>4, <2>5
  <2>7. QED
    BY Zenon, <1>2, <1>3, <2>2, <2>5, <2>6
<1>9. ASSUME NEW s \in Server, CollectBatch(s) PROVE IndexInv' /\ executed <= executed'
  <2>1. PICK n \in lastApplied[s] + 1..Len(committed) :
          outbox' = [outbox EXCEPT ![s] = lastApplied[s] + 1..n]
    BY Zenon, <1>9 DEF CollectBatch
  <2>2. lastApplied[s] \in Nat
    BY Zenon, <1>0
  <2>3. lastApplied[s] + 1..n \subseteq 1..Len(committed')
    BY <1>1, <2>2
  <2>4. \A r \in Server : outbox'[r] = lastApplied[s] + 1..n \/ outbox'[r] = outbox[r]
    BY Zenon, <1>0, <2>1
  <2>5. UNCHANGED <<executed, applied, lastIncludedIndex, snapshotMsgs>>
    BY Zenon, <1>9 DEF CollectBatch, snapVars, readerVars
  <2>6. QED
    BY Zenon, <1>2, <1>3, <2>3, <2>4, <2>5
<1>10. ASSUME UNCHANGED smVars PROVE IndexInv' /\ executed <= executed'
  BY Zenon, <1>2, <1>3, <1>10 DEF smVars, snapVars, chanVars, readerVars
<1>11. QED
  BY Zenon, <1>4, <1>5, <1>6, <1>7, <1>8, <1>9, <1>10
     DEF Next, RaftStep, Reader, Caller, vars, Elect, Campaign, StepDown, Replicate, Commit, Send, Submit,
         Start, Register, Notified, LostLeadership, Deferred

\* A state at the committed index it stands for.
Matches(i, state) == i \in 0..Len(committed) /\ state = StateAt(i)

\* Every replica has executed a prefix of what is committed, as long as commands come in order.
LEMMA NextStates ==
  ASSUME TypeInv, TypeInv', ReplicaInv, StartsWith(committed', committed), [Next]_vars
  PROVE  StateInv'
<1> SUFFICES ASSUME inOrder'
             PROVE  \A s \in Server :
                      /\ sm'[s] = StateAt(applied[s])' /\ snapshot'[s] = StateAt(lastIncludedIndex[s])'
                      /\ \A m \in snapshotMsgs'[s] : m.data = StateAt(m.index)'
  BY Zenon DEF StateInv
<1>0. /\ applied \in [Server -> Nat] /\ lastIncludedIndex \in [Server -> Nat] /\ executed \in Nat
      /\ sm \in [Server -> Seq(Call)] /\ snapshot \in [Server -> Seq(Call)]
      /\ snapshotMsgs \in [Server -> SUBSET Message] /\ committed \in Seq(Entry)
  BY Zenon DEF TypeInv, ReplicaType, RaftType
<1>1. inOrder
  BY Zenon, OrderLost
<1>2. ASSUME NEW r \in Server
      PROVE  /\ Matches(applied[r], sm[r]) /\ Matches(lastIncludedIndex[r], snapshot[r])
             /\ \A m \in snapshotMsgs[r] : Matches(m.index, m.data)
  <2>1. \A i \in Nat : i <= executed => i \in 0..Len(committed)
    <3>1. executed <= Len(committed)
      BY Zenon DEF ReplicaInv, IndexInv
    <3>2. Len(committed) \in Nat
      BY Zenon, <1>0, EntriesLength
    <3>3. \A i, n, k \in Nat : i <= n /\ n <= k => i \in 0..k
      OBVIOUS
    <3>4. QED
      BY Zenon, <1>0, <3>1, <3>2, <3>3
  <2>2. \A m \in snapshotMsgs[r] : m.index \in Nat
    BY Zenon, MessageFields DEF TypeInv
  <2>3. QED
    BY Zenon, <1>0, <1>1, <2>1, <2>2 DEF ReplicaInv, IndexInv, StateInv, Matches
<1>3. ASSUME \A r \in Server :
               /\ Matches(applied'[r], sm'[r]) /\ Matches(lastIncludedIndex'[r], snapshot'[r])
               /\ \A m \in snapshotMsgs'[r] : Matches(m.index, m.data)
      PROVE  \A s \in Server :
               /\ sm'[s] = StateAt(applied[s])' /\ snapshot'[s] = StateAt(lastIncludedIndex[s])'
               /\ \A m \in snapshotMsgs'[s] : m.data = StateAt(m.index)'
  <2>1. \A i \in 0..Len(committed) : StateAt(i)' = StateAt(i)
    BY Zenon, StatesStay DEF TypeInv
  <2>2. QED
    BY Zenon, <1>3, <2>1 DEF Matches, StateAt
<1>4. ASSUME NEW s \in Server, Apply(s)
      PROVE  \A r \in Server : Matches(applied'[r], sm'[r])
  <2>1. PICK i \in outbox[s] :
          /\ applied' = [applied EXCEPT ![s] = i] /\ sm' = [sm EXCEPT ![s] = Append(sm[s], committed[i].Id)]
          /\ i = applied[s] + 1
    BY Zenon, <1>4 DEF Apply
  <2>2. i \in 1..Len(committed)
    BY Zenon, <2>1 DEF ReplicaInv, IndexInv
  <2>3. PICK n \in Nat : n = applied[s] /\ sm[s] = StateAt(n)
    BY ZenonT(40), <1>0, <1>2 DEF Matches
  <2>4. i \in 0..Len(committed) /\ i = n + 1
    BY <1>0, <2>1, <2>2, <2>3
  <2>5. Matches(i, Append(sm[s], committed[i].Id))
    BY Zenon, <1>0, <2>3, <2>4, NextState DEF StateAt, Matches
  <2>6. ASSUME NEW r \in Server PROVE Matches(applied'[r], sm'[r])
    <3>1. CASE r = s
      <4>1. applied'[r] = i /\ sm'[r] = Append(sm[s], committed[i].Id)
        BY Zenon, <1>0, <2>1, <3>1
      <4>2. QED
        BY Zenon, <2>5, <4>1
    <3>2. CASE r # s
      <4>1. applied'[r] = applied[r] /\ sm'[r] = sm[r]
        BY Zenon, <1>0, <2>1, <3>2
      <4>2. QED
        BY Zenon, <1>2, <4>1
    <3>3. QED
      BY Zenon, <3>1, <3>2
  <2>7. QED
    BY Zenon, <2>6
<1>5. ASSUME NEW s \in Server, Snapshot(s)
      PROVE  \A r \in Server : Matches(lastIncludedIndex'[r], snapshot'[r])
  <2>1. \A r \in Server : \/ lastIncludedIndex'[r] = applied[s] /\ snapshot'[r] = sm[s]
                          \/ lastIncludedIndex'[r] = lastIncludedIndex[r] /\ snapshot'[r] = snapshot[r]
    BY Zenon, <1>0, <1>5 DEF Snapshot
  <2>2. QED
    BY Zenon, <1>2, <2>1
<1>6. ASSUME NEW s \in Server, Restore(s)
      PROVE  \A r \in Server : Matches(applied'[r], sm'[r]) /\ snapshotMsgs'[r] \subseteq snapshotMsgs[r]
  <2>1. PICK m \in snapshotMsgs[s] :
          /\ snapshotMsgs' = [snapshotMsgs EXCEPT ![s] = @ \ {m}]
          /\ applied' = [applied EXCEPT ![s] = m.index] /\ sm' = [sm EXCEPT ![s] = m.data]
    BY Zenon, <1>6 DEF Restore
  <2>2. \A r \in Server : /\ snapshotMsgs'[r] \subseteq snapshotMsgs[r]
                          /\ \/ applied'[r] = m.index /\ sm'[r] = m.data
                             \/ applied'[r] = applied[r] /\ sm'[r] = sm[r]
    BY Zenon, <1>0, <2>1
  <2>3. QED
    BY Zenon, <1>2, <2>1, <2>2
<1>7. ASSUME NEW s \in Server, Restart(s)
      PROVE  \A r \in Server : Matches(applied'[r], sm'[r]) /\ snapshotMsgs'[r] \subseteq snapshotMsgs[r]
  <2>1. \A r \in Server : /\ snapshotMsgs'[r] \subseteq snapshotMsgs[r]
                          /\ \/ applied'[r] = lastIncludedIndex[s] /\ sm'[r] = snapshot[s]
                             \/ applied'[r] = applied[r] /\ sm'[r] = sm[r]
    BY Zenon, <1>0, <1>7 DEF Restart
  <2>2. QED
    BY Zenon, <1>2, <2>1
<1>8. ASSUME NEW s \in Server, InstallSnapshot(s)
      PROVE  \A r \in Server : /\ Matches(lastIncludedIndex'[r], snapshot'[r])
                             /\ \A m \in snapshotMsgs'[r] : Matches(m.index, m.data)
  <2>1. PICK l \in Server :
          /\ lastIncludedIndex' = [lastIncludedIndex EXCEPT ![s] = lastIncludedIndex[l]]
          /\ snapshot' = [snapshot EXCEPT ![s] = snapshot[l]]
          /\ snapshotMsgs' = [snapshotMsgs EXCEPT ![s] =
               @ \cup {[index |-> lastIncludedIndex[l], data |-> snapshot[l]]}]
    BY Zenon, <1>8 DEF InstallSnapshot
  <2>2. PICK x \in {[index |-> lastIncludedIndex[l], data |-> snapshot[l]]} :
          x.index = lastIncludedIndex[l] /\ x.data = snapshot[l]
    BY Zenon
  <2>3. \A r \in Server : /\ \/ lastIncludedIndex'[r] = lastIncludedIndex[l] /\ snapshot'[r] = snapshot[l]
                             \/ lastIncludedIndex'[r] = lastIncludedIndex[r] /\ snapshot'[r] = snapshot[r]
                          /\ snapshotMsgs'[r] \subseteq snapshotMsgs[r] \cup {x}
    BY Zenon, <1>0, <2>1, <2>2
  <2>4. Matches(x.index, x.data)
    BY Zenon, <1>2, <2>2
  <2>5. QED
    BY Zenon, <1>2, <2>3, <2>4
<1>9. ASSUME UNCHANGED <<snapVars, snapshotMsgs, applied, sm>>
      PROVE  \A r \in Server :
               /\ Matches(applied'[r], sm'[r]) /\ Matches(lastIncludedIndex'[r], snapshot'[r])
               /\ \A m \in snapshotMsgs'[r] : Matches(m.index, m.data)
  BY Zenon, <1>2, <1>9 DEF snapVars
<1>10. \A r \in Server :
         /\ Matches(applied'[r], sm'[r]) /\ Matches(lastIncludedIndex'[r], snapshot'[r])
         /\ \A m \in snapshotMsgs'[r] : Matches(m.index, m.data)
  <2>1. ASSUME NEW s \in Server, Apply(s) \/ Restore(s) \/ Restart(s)
        PROVE  \A r \in Server : /\ Matches(lastIncludedIndex'[r], snapshot'[r])
                                 /\ \A m \in snapshotMsgs'[r] : Matches(m.index, m.data)
    <3>1. UNCHANGED <<lastIncludedIndex, snapshot>>
      BY Zenon, <2>1 DEF Apply, Restore, Restart, snapVars
    <3>2. \A r \in Server : snapshotMsgs'[r] \subseteq snapshotMsgs[r]
      BY Zenon, <1>6, <1>7, <2>1 DEF Apply
    <3>3. QED
      BY Zenon, <1>2, <3>1, <3>2
  <2>2. ASSUME NEW s \in Server, Snapshot(s) \/ InstallSnapshot(s)
        PROVE  \A r \in Server : Matches(applied'[r], sm'[r])
    BY Zenon, <1>2, <2>2 DEF Snapshot, InstallSnapshot, readerVars
  <2>3. ASSUME NEW s \in Server, Snapshot(s)
        PROVE  \A r \in Server : \A m \in snapshotMsgs'[r] : Matches(m.index, m.data)
    BY Zenon, <1>2, <2>3 DEF Snapshot, chanVars
  <2>4. QED
    BY Zenon, <1>4, <1>5, <1>6, <1>7, <1>8, <1>9, <2>1, <2>2, <2>3
       DEF Next, RaftStep, Reader, Caller, vars, smVars, chanVars, readerVars, Elect, Campaign, StepDown,
           Replicate, Commit, CollectBatch, Send, Submit, Start, Register, Notified, LostLeadership, Deferred
<1>11. QED
  BY Zenon, <1>3, <1>10

-----------------------------------------------------------------------------
(* Notifications *)

\* What is not touched still tells the truth.
LEMMA NoticesStay ==
  ASSUME \A c, x : Left(c, x) => Left(c, x)'
  PROVE  /\ \A s \in Server : SendInv(s) /\ sending'[s] = sending[s] => SendInv(s)'
         /\ \A c \in Call : ChanInv(c) /\ ch'[c] = ch[c] => ChanInv(c)'
         /\ \A c \in Call : ResultInv(c) /\ result'[c] = result[c] => ResultInv(c)'
<1>1. ASSUME NEW s \in Server, SendInv(s), sending'[s] = sending[s] PROVE SendInv(s)'
  BY Zenon, <1>1 DEF SendInv
<1>2. ASSUME NEW c \in Call, ChanInv(c), ch'[c] = ch[c] PROVE ChanInv(c)'
  BY Zenon, <1>2 DEF ChanInv
<1>3. ASSUME NEW c \in Call, ResultInv(c), result'[c] = result[c] PROVE ResultInv(c)'
  BY Zenon, <1>3 DEF ResultInv, ErrWrongLeader, OK
<1>4. QED
  BY Zenon, <1>1, <1>2, <1>3

\* A state ends with the command executed last.
LEMMA AppendEnds ==
  ASSUME NEW q \in Seq(Call), NEW c \in Call
  PROVE  Ends(Append(q, c), c)
<1>1. Append(q, c) # <<>> /\ Append(q, c)[Len(Append(q, c))] = c
  OBVIOUS
<1>2. QED
  BY Zenon, <1>1 DEF Ends

\* applyReader sends the state that the command it names left.
LEMMA ApplyNotices ==
  ASSUME TypeInv, TypeInv', ReplicaInv, ReplicaInv', NoticeInv, \A c, x : Left(c, x) => Left(c, x)',
         NEW s \in Server, Apply(s)
  PROVE  NoticeInv'
<1>1. UNCHANGED <<ch, pc, result, committed>> /\ sending = [r \in Server |-> sending[r]]
  BY Zenon DEF Apply, raftVars, callVars, TypeInv, CallType
<1>2. \A c \in Call : ChanInv(c)' /\ ResultInv(c)'
  BY Zenon, <1>1, NoticesStay DEF NoticeInv
<1>3. PICK i \in outbox[s] :
        /\ applied' = [applied EXCEPT ![s] = i] /\ sm' = [sm EXCEPT ![s] = Append(sm[s], committed[i].Id)]
        /\ executed' = Greater(executed, i)
        /\ sending' = [sending EXCEPT ![s] =
             IF pendingOps[s][i] = None THEN None
             ELSE [to |-> pendingOps[s][i], id |-> committed[i].Id, term |-> committed[i].Term,
                   result |-> Append(sm[s], committed[i].Id)]]
  BY Zenon DEF Apply
<1>4. ASSUME NEW r \in Server, r # s PROVE SendInv(r)'
  <2>1. sending'[r] = sending[r]
    BY Zenon, <1>1, <1>3, <1>4
  <2>2. QED
    BY Zenon, <2>1, NoticesStay DEF NoticeInv
<1>5. SendInv(s)'
  <2>1. i \in 1..Len(committed) /\ committed \in Seq(Entry) /\ sm[s] \in Seq(Call) /\ executed \in Nat
    BY Zenon, <1>3 DEF ReplicaInv, IndexInv, TypeInv, RaftType, ReplicaType
  <2>2. PICK c \in Call : c = committed[i].Id
    BY Zenon, <2>1, EntryIds
  <2>3. PICK q \in Seq(Call) : q = sm[s]
    BY Zenon, <2>1
  <2>4. PICK res : res = Append(q, c)
    BY Zenon
  <2>5. Ends(res, c)
    BY ZenonT(40), <2>4, AppendEnds
  <2>6. i \in 1..executed'
    BY <1>3, <2>1 DEF Greater
  <2>7. applied'[s] = i /\ sm'[s] = res
    BY Zenon, <1>3, <2>2, <2>3, <2>4 DEF TypeInv, ReplicaType
  <2>8. inOrder' => res = StateAt(i)'
    BY Zenon, <2>7 DEF ReplicaInv, StateInv, StateAt
  <2>9. Left(c, res)'
    BY Zenon, <1>1, <2>2, <2>5, <2>6, <2>8 DEF Left, Ends
  <2>10. \/ sending'[s] = None
         \/ \E d, t : sending'[s] = [to |-> d, id |-> c, term |-> t, result |-> res]
    BY Zenon, <1>1, <1>3, <2>2, <2>3, <2>4
  <2>11. CASE sending'[s] = None
    BY Zenon, <2>11 DEF SendInv
  <2>12. ASSUME NEW d, NEW t, sending'[s] = [to |-> d, id |-> c, term |-> t, result |-> res]
         PROVE  SendInv(s)'
    <3>1. sending'[s].id = c /\ sending'[s].result = res
      BY <2>12
    <3>2. QED
      BY ZenonT(40), <2>9, <3>1 DEF SendInv, Left, Ends
  <2>13. QED
    BY Zenon, <2>10, <2>11, <2>12
<1>6. QED
  BY Zenon, <1>2, <1>4, <1>5 DEF NoticeInv

\* What the reader leaves in a channel is the result of the operation there.
LEMMA NextNotices ==
  ASSUME TypeInv, TypeInv', ReplicaInv, ReplicaInv', NoticeInv, \A c, x : Left(c, x) => Left(c, x)', [Next]_vars
  PROVE  NoticeInv'
<1>0. /\ pc \in [Call -> Places] /\ result = [c \in Call |-> result[c]]
      /\ ch = [c \in Call |-> ch[c]] /\ sending = [s \in Server |-> sending[s]]
  BY Zenon DEF TypeInv, CallType
<1>1. /\ \A s \in Server : sending'[s] = sending[s] => SendInv(s)'
      /\ \A c \in Call : ch'[c] = ch[c] => ChanInv(c)'
      /\ \A c \in Call : result'[c] = result[c] => ResultInv(c)'
  BY Zenon, NoticesStay DEF NoticeInv
<1>2. ASSUME NEW s \in Server, Apply(s) PROVE NoticeInv'
  BY Zenon, <1>2, ApplyNotices
<1>3. ASSUME NEW s \in Server, Send(s) PROVE NoticeInv'
  <2>1. UNCHANGED <<pc, result, committed, executed>>
    BY Zenon, <1>3 DEF Send, raftVars, smVars, readerVars, callVars
  <2>2. ASSUME NEW r \in Server PROVE SendInv(r)'
    <3>1. sending'[r] = sending[r] \/ sending'[r] = None
      BY Zenon, <1>0, <1>3 DEF Send
    <3>2. QED
      BY Zenon, <1>1, <3>1 DEF SendInv
  <2>3. ASSUME NEW c \in Call PROVE ChanInv(c)'
    <3>1. ch'[c] = ch[c] \/ ch'[c] = sending[s]
      BY Zenon, <1>0, <1>3 DEF Send
    <3>2. SendInv(s)
      BY Zenon DEF NoticeInv
    <3>3. QED
      BY Zenon, <1>1, <3>1, <3>2 DEF SendInv, ChanInv
  <2>4. QED
    BY Zenon, <1>1, <2>1, <2>2, <2>3 DEF NoticeInv
<1>4. ASSUME NEW s \in Server, Restart(s) PROVE NoticeInv'
  <2>1. ASSUME NEW r \in Server PROVE SendInv(r)'
    <3>1. sending'[r] = sending[r] \/ sending'[r] = None
      BY Zenon, <1>0, <1>4 DEF Restart
    <3>2. QED
      BY Zenon, <1>1, <3>1 DEF SendInv
  <2>2. ASSUME NEW c \in Call PROVE ResultInv(c)'
    <3>1. result'[c] = ErrWrongLeader \/ result'[c] = result[c]
      BY Zenon, <1>4 DEF Restart
    <3>2. QED
      BY Zenon, <1>1, <3>1 DEF ResultInv, ErrWrongLeader
  <2>3. ASSUME NEW c \in Call PROVE ChanInv(c)'
    <3>1. ch'[c] = ch[c] \/ ch'[c] = None
      BY Zenon, <1>4 DEF Restart, Frees
    <3>2. QED
      BY Zenon, <1>1, <3>1 DEF ChanInv
  <2>4. QED
    BY Zenon, <2>1, <2>2, <2>3 DEF NoticeInv
<1>5. ASSUME UNCHANGED sending, \A d \in Call : ch'[d] = ch[d] \/ ch'[d] = None,
             \A d \in Call : result'[d] = result[d] \/ result'[d] = ErrWrongLeader
      PROVE  NoticeInv'
  <2>1. \A d \in Call : ResultInv(d)'
    BY Zenon, <1>1, <1>5 DEF ResultInv, ErrWrongLeader
  <2>2. \A d \in Call : ChanInv(d)'
    BY Zenon, <1>1, <1>5 DEF ChanInv
  <2>3. QED
    BY Zenon, <1>1, <1>5, <2>1, <2>2 DEF NoticeInv
<1>6. ASSUME NEW c \in Call, Start(c) PROVE NoticeInv'
  BY Zenon, <1>0, <1>5, <1>6 DEF Start, Returns, Frees
<1>7. ASSUME NEW c \in Call, Register(c) PROVE NoticeInv'
  BY Zenon, <1>5, <1>7 DEF Register
<1>8. ASSUME NEW c \in Call, Notified(c) PROVE NoticeInv'
  <2>1. UNCHANGED sending /\ ch[c] # None
    BY Zenon, <1>8 DEF Notified
  <2>2. ASSUME NEW d \in Call PROVE ChanInv(d)'
    <3>1. ch'[d] = ch[d] \/ ch'[d] = None
      BY Zenon, <1>0, <1>8 DEF Notified
    <3>2. QED
      BY Zenon, <1>1, <3>1 DEF ChanInv
  <2>3. ASSUME NEW d \in Call, d # c PROVE ResultInv(d)'
    <3>1. result'[d] = result[d]
      BY Zenon, <1>0, <1>8, <2>3 DEF Notified, Returns
    <3>2. QED
      BY Zenon, <1>1, <3>1
  <2>4. ResultInv(c)'
    <3>1. Left(ch[c].id, ch[c].result)
      BY Zenon, <2>1 DEF NoticeInv, ChanInv
    <3>2. result'[c] = IF IsOwn(c) THEN OK(ch[c].result) ELSE ErrWrongLeader
      BY Zenon, <1>0, <1>8 DEF Notified, Returns
    <3>3. CASE ~IsOwn(c)
      BY Zenon, <3>2, <3>3 DEF ResultInv, ErrWrongLeader
    <3>4. CASE IsOwn(c)
      <4>1. PICK x : x = ch[c].result
        BY Zenon
      <4>2. Left(c, x)
        BY Zenon, <3>1, <3>4, <4>1 DEF IsOwn
      <4>3. result'[c] = OK(x) /\ Left(c, x)'
        BY Zenon, <3>2, <3>4, <4>1, <4>2
      <4>4. QED
        BY Zenon, <4>3 DEF ResultInv, OK
    <3>5. QED
      BY Zenon, <3>3, <3>4
  <2>5. QED
    BY Zenon, <1>1, <2>1, <2>2, <2>3, <2>4 DEF NoticeInv
<1>9. ASSUME NEW c \in Call, LostLeadership(c) PROVE NoticeInv'
  BY Zenon, <1>0, <1>5, <1>9 DEF LostLeadership, Returns
<1>10. ASSUME NEW c \in Call, Deferred(c) PROVE NoticeInv'
  BY Zenon, <1>5, <1>10 DEF Deferred, Frees
<1>11. ASSUME NEW c \in Call, NEW s \in Server, Submit(c, s) PROVE NoticeInv'
  BY Zenon, <1>0, <1>5, <1>11 DEF Submit, Returns
<1>12. CASE UNCHANGED <<sending, ch, callVars>>
  BY Zenon, <1>1, <1>12 DEF callVars, NoticeInv
<1>13. QED
  BY ZenonT(40), <1>2, <1>3, <1>4, <1>6, <1>7, <1>8, <1>9, <1>10, <1>11, <1>12
     DEF Next, RaftStep, Reader, Caller, vars, Elect, Campaign, StepDown, Replicate, Commit,
         InstallSnapshot, CollectBatch, Snapshot, Restore

-----------------------------------------------------------------------------
(* Calls *)

\* A call that has returned waits at no server.
LEMMA NextCalls ==
  ASSUME TypeInv, CallInv, [Next]_vars
  PROVE  CallInv'
<1>0. pc \in [Call -> Places] /\ at \in [Call -> Server \cup {None}]
  BY Zenon DEF TypeInv, CallType
<1>1. ASSUME NEW c \in Call, NEW p \in Places \ {"called", "start", "returned", "gone"}, pc' = [pc EXCEPT ![c] = p],
             \A d \in Call : d # c => at'[d] = at[d]
      PROVE  CallInv'
  <2>1. ASSUME NEW d \in Call, d # c PROVE pc'[d] = pc[d] /\ at'[d] = at[d]
    BY Zenon, <1>0, <1>1, <2>1
  <2>2. pc'[c] = p
    BY Zenon, <1>0, <1>1
  <2>3. QED
    BY <1>1, <2>1, <2>2 DEF CallInv
<1>2. ASSUME NEW c \in Call, pc' = [pc EXCEPT ![c] = "returned"],
             at' = [d \in Call |-> IF d \in {c} THEN None ELSE at[d]]
      PROVE  CallInv'
  BY ZenonT(40), <1>0, <1>2 DEF CallInv
<1>3. ASSUME NEW s \in Server, Restart(s) PROVE CallInv'
  <2>1. \A c \in Call : \/ pc'[c] = "gone" /\ at'[c] = None
                        \/ pc'[c] = pc[c] /\ at'[c] = at[c]
    BY Zenon, <1>3 DEF Restart, Frees
  <2>2. QED
    BY <2>1 DEF CallInv
<1>4. ASSUME NEW c \in Call, Start(c) PROVE CallInv'
  <2>1. CASE leader[at[c]]
    <3>1. "register" \in Places \ {"called", "start", "returned", "gone"}
      BY Zenon DEF Places
    <3>2. QED
      BY Zenon, <1>1, <1>4, <2>1, <3>1 DEF Start, Goto
  <2>2. CASE ~leader[at[c]]
    BY Zenon, <1>2, <1>4, <2>2 DEF Start, Goto, Frees
  <2>3. QED
    BY Zenon, <2>1, <2>2
<1>5. ASSUME NEW c \in Call, Register(c) \/ Notified(c) \/ LostLeadership(c) PROVE CallInv'
  <2>1. PICK p \in {"wait", "deferred"} : pc' = [pc EXCEPT ![c] = p]
    BY Zenon, <1>5 DEF Register, Notified, LostLeadership, Goto
  <2>2. p \in Places \ {"called", "start", "returned", "gone"}
    BY Zenon, <2>1 DEF Places
  <2>3. at' = at
    BY Zenon, <1>5 DEF Register, Notified, LostLeadership
  <2>4. QED
    BY Zenon, <1>1, <2>1, <2>2, <2>3
<1>6. ASSUME NEW c \in Call, Deferred(c) PROVE CallInv'
  BY Zenon, <1>2, <1>6 DEF Deferred, Goto, Frees
<1>7. ASSUME NEW c \in Call, NEW s \in Server, Submit(c, s) PROVE CallInv'
  <2>1. CASE leader[s]
    <3>1. pc' = [pc EXCEPT ![c] = "start"] /\ at' = [at EXCEPT ![c] = s] /\ s # None
      BY Zenon, <1>7, <2>1, RSMAssumption DEF Submit, Goto
    <3>2. QED
      BY Zenon, <1>0, <3>1 DEF CallInv
  <2>2. CASE ~leader[s]
    <3>1. UNCHANGED at /\ at[c] = None
      BY Zenon, <1>7, <2>2 DEF Submit, CallInv
    <3>2. QED
      BY Zenon, <1>0, <1>7, <2>2, <3>1 DEF Submit, Goto, CallInv
  <2>3. QED
    BY Zenon, <2>1, <2>2
<1>8. CASE UNCHANGED <<pc, at>>
  BY Zenon, <1>8 DEF CallInv
<1>9. QED
  BY ZenonT(40), <1>3, <1>4, <1>5, <1>6, <1>7, <1>8
     DEF Next, RaftStep, Reader, Caller, vars, callVars, Elect, Campaign, StepDown, Replicate, Commit,
         InstallSnapshot, CollectBatch, Apply, Send, Snapshot, Restore

-----------------------------------------------------------------------------
(* The invariant *)

\* The invariant holds at the start.
LEMMA InitInv == Init => RInv
<1> SUFFICES ASSUME Init PROVE RInv
  BY Zenon
<1>1. RaftType
  BY DEF Init, RaftType
<1>2. ReplicaType
  <2>1. 0 \in Nat /\ <<>> \in Seq(Call)
    OBVIOUS
  <2>2. QED
    BY Zenon, <2>1 DEF Init, ReplicaType
<1>3. CallType
  BY Zenon DEF Init, CallType, Places
<1>4. committed = <<>> /\ \A s \in Server : log[s] = <<>> /\ leader[s] = FALSE
  BY Zenon DEF Init
<1>5. LeaderInv
  BY Zenon, <1>4 DEF LeaderInv
<1>6. Singles(<<>>)
  BY DEF Singles
<1>7. EntriesInv
  BY Zenon, <1>4, <1>6 DEF EntriesInv
<1>8. StateAt(0) = <<>> /\ Len(committed) = 0
  BY <1>4 DEF StateAt, Commands
<1>9. \A s \in Server : /\ applied[s] = 0 /\ sm[s] = <<>> /\ snapshot[s] = <<>> /\ lastIncludedIndex[s] = 0
                        /\ outbox[s] = {} /\ snapshotMsgs[s] = {}
  BY Zenon DEF Init
<1>10. executed = 0 /\ 0 <= 0
  BY DEF Init
<1>11. ReplicaInv
  BY Zenon, <1>8, <1>9, <1>10 DEF ReplicaInv, IndexInv, StateInv
<1>12. NoticeInv
  BY Zenon DEF Init, NoticeInv, SendInv, ChanInv, ResultInv
<1>13. CallInv
  BY Zenon DEF Init, CallInv
<1>14. QED
  BY Zenon, <1>1, <1>2, <1>3, <1>5, <1>7, <1>11, <1>12, <1>13 DEF RInv, TypeInv

\* The committed entries only grow, and so does what has been executed.
LEMMA NextInv ==
  ASSUME RInv, [Next]_vars
  PROVE  RInv' /\ StartsWith(committed', committed) /\ executed <= executed'
<1>0. TypeInv /\ LeaderInv /\ EntriesInv /\ ReplicaInv /\ IndexInv /\ NoticeInv /\ CallInv
  BY Zenon DEF RInv, ReplicaInv
<1>1. TypeInv'
  BY Zenon, <1>0, NextRaftType, NextReplicaType, NextCallType DEF TypeInv
<1>2. LeaderInv' /\ StartsWith(committed', committed)
  BY Zenon, <1>0, <1>1, NextLeader
<1>3. EntriesInv'
  BY Zenon, <1>0, NextEntries
<1>4. ReplicaInv' /\ executed <= executed'
  BY Zenon, <1>0, <1>1, <1>2, NextIndexes, NextStates DEF ReplicaInv
<1>5. \A c, x : Left(c, x) => Left(c, x)'
  BY Zenon, <1>0, <1>1, <1>2, <1>4, LeftStays, OrderLost
<1>6. NoticeInv'
  BY Zenon, <1>0, <1>1, <1>4, <1>5, NextNotices
<1>7. CallInv'
  BY Zenon, <1>0, NextCalls
<1>8. QED
  BY Zenon, <1>1, <1>2, <1>3, <1>4, <1>6, <1>7 DEF RInv

\* The invariant of Raft, the readers and the calls of Submit.
LEMMA InvHolds == Spec => []RInv
<1>1. RInv /\ [Next]_vars => RInv'
  BY Zenon, NextInv
<1>2. QED
  BY <1>1, InitInv, PTL DEF Spec

\* As long as Raft has delivered in order, applyReader's state machine is on every server
\* the committed commands up to what it received last, whatever was elected, replicated,
\* snapshot, restored and restarted.
THEOREM ReplicasStayInStep == Spec => []ReplicasAgree
<1>1. RInv => ReplicasAgree
  BY Zenon DEF RInv, ReplicaInv, StateInv, StateAt, ReplicasAgree
<1>2. QED
  BY <1>1, InvHolds, PTL

-----------------------------------------------------------------------------
(* The promise *)

\* The state of Submissions that a state of the program stands for.
PlaceOf(c) ==
  IF pc[c] \in {"called", "start"} THEN "called"
  ELSE IF pc[c] \in {"returned", "gone"} THEN "returned" ELSE "submitted"
ResultOf(c) == IF pc[c] = "returned" THEN result[c] ELSE ErrWrongLeader
places == [c \in Call |-> PlaceOf(c)]
results == [c \in Call |-> ResultOf(c)]
executedOrder == StateAt(executed)

\* The refinement mapping takes initial states to initial states.
LEMMA PromiseInit == Init => Promise!Init
<1> SUFFICES ASSUME Init PROVE Promise!Init
  BY Zenon
<1>1. committed = <<>> /\ executed = 0 /\ pc = [c \in Call |-> "called"]
  BY Zenon DEF Init
<1>2. Commands(SubSeq(committed, 1, executed)) = <<>>
  BY <1>1 DEF Commands
<1>3. QED
  BY Zenon, <1>1, <1>2 DEF Promise!Init, ErrWrongLeader, Promise!ErrWrongLeader

\* The commands executed so far stay, while nothing new is.
LEMMA OrderStays ==
  ASSUME RInv, RInv', StartsWith(committed', committed), executed' = executed
  PROVE  executedOrder' = executedOrder
<1>1. executed \in 0..Len(committed)
  BY DEF RInv, TypeInv, ReplicaType, RaftType, ReplicaInv, IndexInv
<1>2. PICK n \in 0..Len(committed) : n = executed
  BY Zenon, <1>1
<1>3. StateAt(n)' = StateAt(n)
  BY Zenon, StatesStay DEF RInv, TypeInv
<1>4. QED
  BY Zenon, <1>2, <1>3 DEF executedOrder, StateAt

\* The steps that Submissions does not see.
LEMMA PromiseStutters ==
  ASSUME executedOrder' = executedOrder, \A c \in Call : PlaceOf(c)' = PlaceOf(c) /\ ResultOf(c)' = ResultOf(c)
  PROVE  UNCHANGED <<executedOrder, places, results>>
BY Zenon DEF places, results

\* ErrWrongLeader is returned to some calls.
LEMMA PromiseWrong ==
  ASSUME executedOrder' = executedOrder, NEW calls \in SUBSET Call,
         \A c \in calls : PlaceOf(c) # "returned" /\ PlaceOf(c)' = "returned" /\ ResultOf(c)' = ErrWrongLeader,
         \A c \in Call \ calls : PlaceOf(c)' = PlaceOf(c) /\ ResultOf(c)' = ResultOf(c)
  PROVE  Promise!ReturnedWrong(calls)
<1>1. \A c \in calls : ResultOf(c) = ErrWrongLeader
  BY Zenon DEF PlaceOf, ResultOf
<1>2. \A c \in Call : ResultOf(c)' = ResultOf(c)
  BY Zenon, <1>1 DEF ErrWrongLeader
<1>3. results' = results
  BY Zenon, <1>2 DEF results
<1>4. \A c \in calls : places[c] # "returned"
  BY Zenon DEF places
<1>5. places' = [c \in Call |-> IF c \in calls THEN "returned" ELSE places[c]]
  BY Zenon DEF places
<1>6. QED
  BY Zenon, <1>3, <1>4, <1>5 DEF Promise!ReturnedWrong, places, results, executedOrder, PlaceOf,
     ResultOf, StateAt

\* Who executes a command first executes it for all.
LEMMA ApplyIsExecuted ==
  ASSUME RInv, RInv', StartsWith(committed', committed), NEW s \in Server, Apply(s), inOrder'
  PROVE  \/ UNCHANGED <<executedOrder, places, results>>
         \/ \E c \in Call : Promise!Executed(c)
<1>0. /\ UNCHANGED <<committed, pc, result>> /\ committed \in Seq(Entry) /\ executed \in Nat
      /\ executed <= Len(committed) /\ applied[s] \in Nat /\ applied[s] <= executed
      /\ Len(committed) \in Nat
  <2>1. UNCHANGED <<committed, pc, result>>
    BY Zenon DEF Apply, raftVars, callVars
  <2>2. committed \in Seq(Entry) /\ executed \in Nat /\ applied[s] \in Nat
    BY Zenon DEF RInv, TypeInv, RaftType, ReplicaType
  <2>3. executed <= Len(committed) /\ applied[s] <= executed
    BY Zenon DEF RInv, ReplicaInv, IndexInv
  <2>4. Len(committed) \in Nat
    BY Zenon, <2>2, EntriesLength
  <2>5. QED
    BY Zenon, <2>1, <2>2, <2>3, <2>4
<1>1. places' = places /\ results' = results
  BY Zenon, <1>0 DEF places, results, PlaceOf, ResultOf, ErrWrongLeader
<1>2. executed' = executed \/ (executed' = executed + 1 /\ executed + 1 <= Len(committed))
  <2>1. PICK i \in outbox[s] : i = applied[s] + 1 /\ executed' = Greater(executed, i)
    BY Zenon DEF Apply
  <2>2. i \in 1..Len(committed)
    BY Zenon, <2>1 DEF RInv, ReplicaInv, IndexInv
  <2>3. QED
    BY <1>0, <2>1, <2>2 DEF Greater
<1>3. CASE executed' = executed
  BY Zenon, <1>1, <1>3, OrderStays
<1>4. CASE executed' = executed + 1 /\ executed + 1 <= Len(committed)
  <2>1. PICK k \in 0..Len(committed) : k = executed + 1 /\ executed' = k /\ k \in 1..Len(committed)
    BY <1>0, <1>4
  <2>2. PICK c \in Call : c = committed[k].Id
    BY Zenon, <1>0, <2>1, EntryIds
  <2>3. Begun(c) /\ \A i \in 1..Len(committed) : committed[i].Id = c => i = k
    BY Zenon, <2>1, <2>2 DEF RInv, EntriesInv, Singles
  <2>4. places[c] # "called"
    BY Zenon, <2>3 DEF places, PlaceOf, Begun
  <2>5. executedOrder' = Append(executedOrder, c)
    BY Zenon, <1>0, <2>1, <2>2, NextState DEF executedOrder, StateAt
  <2>6. executedOrder = [i \in 1..executed |-> committed[i].Id]
    <3>1. executed \in 0..Len(committed)
      BY <1>0
    <3>2. QED
      BY Zenon, <1>0, <3>1, StateIs DEF executedOrder, StateAt
  <2>7. c \notin Promise!Range(executedOrder)
    <3>1. \A i \in 1..executed : i \in 1..Len(committed) /\ i # k
      BY <1>0, <2>1
    <3>2. \A i \in 1..executed : executedOrder[i] # c
      BY Zenon, <2>3, <2>6, <3>1
    <3>3. QED
      BY Zenon, <2>6, <3>2 DEF Promise!Range
  <2>8. Promise!Executed(c)
    BY Zenon, <1>1, <2>4, <2>5, <2>7 DEF Promise!Executed, places, results, executedOrder,
       PlaceOf, ResultOf, StateAt
  <2>9. QED
    BY Zenon, <2>8
<1>5. QED
  BY Zenon, <1>2, <1>3, <1>4

\* A call that returns OK returns the state that its own command left.
LEMMA ReturnsItsState ==
  ASSUME RInv, NEW c \in Call, NEW x, Left(c, x), inOrder
  PROVE  c \in Promise!Range(executedOrder) /\ x = Promise!UpTo(c)
<1>0. committed \in Seq(Entry) /\ executed \in 0..Len(committed)
  BY DEF RInv, TypeInv, RaftType, ReplicaType, ReplicaInv, IndexInv
<1>1. PICK n \in 1..executed : committed[n].Id = c /\ x = StateAt(n)
  BY Zenon DEF Left
<1>2. n \in 0..Len(committed) /\ \A i \in 1..executed : i \in 1..Len(committed)
  BY <1>0
<1>3. /\ executedOrder = [i \in 1..executed |-> committed[i].Id]
      /\ executedOrder \in Seq(Call) /\ Len(executedOrder) = executed
  BY Zenon, <1>0, StateIs DEF executedOrder, StateAt
<1>4. x = [i \in 1..n |-> committed[i].Id]
  BY Zenon, <1>0, <1>1, <1>2, StateIs DEF StateAt
<1>5. n \in DOMAIN executedOrder /\ executedOrder[n] = c
  BY Zenon, <1>1, <1>3
<1>6. \A i \in DOMAIN executedOrder : executedOrder[i] = c => i = n
  BY Zenon, <1>1, <1>2, <1>3 DEF RInv, EntriesInv, Singles
<1>7. (CHOOSE i \in DOMAIN executedOrder : executedOrder[i] = c) = n
  BY Zenon, <1>5, <1>6
<1>8. SubSeq(executedOrder, 1, n) = x
  <2>1. PICK q \in Seq(Call) : q = executedOrder
    BY Zenon, <1>3
  <2>2. n \in 0..Len(q) /\ n \in Nat
    BY <1>0, <1>3, <2>1
  <2>3. SubSeq(q, 1, n) = [i \in 1..n |-> q[i]]
    BY <2>2
  <2>4. \A i \in 1..n : i \in 1..executed
    BY <1>0
  <2>5. \A i \in 1..n : q[i] = committed[i].Id
    BY Zenon, <1>3, <2>1, <2>4
  <2>6. QED
    BY Zenon, <1>4, <2>1, <2>3, <2>5
<1>9. QED
  BY Zenon, <1>5, <1>7, <1>8 DEF Promise!Range, Promise!UpTo, executedOrder, StateAt

\* A call returns its result, or ErrWrongLeader.
LEMMA DeferredIsReturned ==
  ASSUME RInv, RInv', StartsWith(committed', committed), NEW c \in Call, Deferred(c), inOrder
  PROVE  Promise!ReturnedOK(c) \/ Promise!ReturnedWrong({c})
<1>0. /\ pc \in [Call -> Places] /\ pc[c] = "deferred" /\ pc' = [pc EXCEPT ![c] = "returned"]
      /\ result' = result /\ executed' = executed /\ result = [d \in Call |-> result[d]]
  BY Zenon DEF Deferred, Goto, smVars, readerVars, RInv, TypeInv, CallType
<1>1. executedOrder' = executedOrder
  BY Zenon, <1>0, OrderStays
<1>2. \A d \in Call \ {c} : PlaceOf(d)' = PlaceOf(d) /\ ResultOf(d)' = ResultOf(d)
  BY Zenon, <1>0 DEF PlaceOf, ResultOf, ErrWrongLeader
<1>3. PlaceOf(c) = "submitted" /\ PlaceOf(c)' = "returned" /\ ResultOf(c)' = result[c]
  BY Zenon, <1>0 DEF PlaceOf, ResultOf
<1>4. ResultInv(c)
  BY Zenon DEF RInv, NoticeInv
<1>5. CASE result[c] = ErrWrongLeader
  <2>1. \A d \in {c} : PlaceOf(d) # "returned" /\ PlaceOf(d)' = "returned" /\ ResultOf(d)' = ErrWrongLeader
    BY Zenon, <1>3, <1>5
  <2>2. {c} \in SUBSET Call
    BY Zenon
  <2>3. QED
    BY Zenon, <1>1, <1>2, <2>1, <2>2, PromiseWrong
<1>6. CASE \E x : result[c] = OK(x) /\ Left(c, x)
  <2>1. PICK x : result[c] = OK(x) /\ Left(c, x)
    BY Zenon, <1>6
  <2>2. c \in Promise!Range(executedOrder) /\ x = Promise!UpTo(c)
    BY Zenon, <2>1, ReturnsItsState
  <2>3. places[c] = "submitted" /\ places' = [places EXCEPT ![c] = "returned"]
    BY Zenon, <1>2, <1>3 DEF places
  <2>4. results' = [results EXCEPT ![c] = Promise!OK(Promise!UpTo(c))]
    <3>1. ResultOf(c)' = Promise!OK(x)
      BY Zenon, <1>3, <2>1 DEF OK, Promise!OK
    <3>2. results' = [results EXCEPT ![c] = Promise!OK(x)]
      BY Zenon, <1>2, <3>1 DEF results
    <3>3. QED
      BY Zenon, <2>2, <3>2
  <2>5. QED
    BY Zenon, <1>1, <2>2, <2>3, <2>4
       DEF Promise!ReturnedOK, places, results, executedOrder, PlaceOf, ResultOf, StateAt
<1>7. QED
  BY Zenon, <1>0, <1>4, <1>5, <1>6 DEF ResultInv

\* Start submits the operation, or finds that another server leads.
LEMMA StartIsSubmitted ==
  ASSUME RInv, RInv', StartsWith(committed', committed), NEW c \in Call, Start(c)
  PROVE  Promise!Submitted(c) \/ Promise!ReturnedWrong({c})
<1>0. /\ pc \in [Call -> Places] /\ pc[c] = "start" /\ executed' = executed
      /\ result = [d \in Call |-> result[d]]
  BY Zenon DEF Start, smVars, readerVars, RInv, TypeInv, CallType
<1>1. executedOrder' = executedOrder
  BY Zenon, <1>0, OrderStays
<1>2. CASE leader[at[c]]
  <2>1. pc' = [pc EXCEPT ![c] = "register"] /\ result' = result
    BY Zenon, <1>2 DEF Start, Goto
  <2>2. \A d \in Call : ResultOf(d)' = ResultOf(d)
    BY Zenon, <1>0, <2>1 DEF ResultOf, ErrWrongLeader
  <2>3. \A d \in Call \ {c} : PlaceOf(d)' = PlaceOf(d)
    BY Zenon, <1>0, <2>1 DEF PlaceOf
  <2>4. PlaceOf(c) = "called" /\ PlaceOf(c)' = "submitted"
    BY Zenon, <1>0, <2>1 DEF PlaceOf
  <2>5. places[c] = "called" /\ places' = [places EXCEPT ![c] = "submitted"] /\ results' = results
    BY Zenon, <2>2, <2>3, <2>4 DEF places, results
  <2>6. QED
    BY Zenon, <1>1, <2>5 DEF Promise!Submitted, places, results, executedOrder, PlaceOf,
       ResultOf, StateAt
<1>3. CASE ~leader[at[c]]
  <2>1. pc' = [pc EXCEPT ![c] = "returned"] /\ result' = [result EXCEPT ![c] = ErrWrongLeader]
    BY Zenon, <1>3 DEF Start, Goto, Returns
  <2>2. \A d \in {c} : PlaceOf(d) # "returned" /\ PlaceOf(d)' = "returned" /\ ResultOf(d)' = ErrWrongLeader
    BY Zenon, <1>0, <2>1 DEF PlaceOf, ResultOf, ErrWrongLeader
  <2>3. \A d \in Call \ {c} : PlaceOf(d)' = PlaceOf(d) /\ ResultOf(d)' = ResultOf(d)
    BY Zenon, <1>0, <2>1 DEF PlaceOf, ResultOf, ErrWrongLeader
  <2>4. QED
    BY Zenon, <1>1, <2>2, <2>3, PromiseWrong
<1>4. QED
  BY Zenon, <1>2, <1>3

\* A call to a peer that is not the leader is refused.
LEMMA SubmitIsRefused ==
  ASSUME RInv, RInv', StartsWith(committed', committed), NEW c \in Call, NEW s \in Server, Submit(c, s)
  PROVE  UNCHANGED <<executedOrder, places, results>> \/ Promise!ReturnedWrong({c})
<1>0. /\ pc \in [Call -> Places] /\ pc[c] = "called" /\ executed' = executed
      /\ result = [d \in Call |-> result[d]]
  BY Zenon DEF Submit, smVars, readerVars, RInv, TypeInv, CallType
<1>1. executedOrder' = executedOrder
  BY Zenon, <1>0, OrderStays
<1>2. CASE leader[s]
  <2>1. pc' = [pc EXCEPT ![c] = "start"] /\ result' = result
    BY Zenon, <1>2 DEF Submit, Goto
  <2>2. \A d \in Call : PlaceOf(d)' = PlaceOf(d) /\ ResultOf(d)' = ResultOf(d)
    BY Zenon, <1>0, <2>1 DEF PlaceOf, ResultOf, ErrWrongLeader
  <2>3. QED
    BY Zenon, <1>1, <2>2, PromiseStutters
<1>3. CASE ~leader[s]
  <2>1. pc' = [pc EXCEPT ![c] = "returned"] /\ result' = [result EXCEPT ![c] = ErrWrongLeader]
    BY Zenon, <1>3 DEF Submit, Goto, Returns
  <2>2. \A d \in {c} : PlaceOf(d) # "returned" /\ PlaceOf(d)' = "returned" /\ ResultOf(d)' = ErrWrongLeader
    BY Zenon, <1>0, <2>1 DEF PlaceOf, ResultOf, ErrWrongLeader
  <2>3. \A d \in Call \ {c} : PlaceOf(d)' = PlaceOf(d) /\ ResultOf(d)' = ResultOf(d)
    BY Zenon, <1>0, <2>1 DEF PlaceOf, ResultOf, ErrWrongLeader
  <2>4. QED
    BY Zenon, <1>1, <2>2, <2>3, PromiseWrong
<1>4. QED
  BY Zenon, <1>2, <1>3

\* A restart returns ErrWrongLeader to all calls of the server at once.
LEMMA RestartIsReturned ==
  ASSUME RInv, RInv', StartsWith(committed', committed), NEW s \in Server, Restart(s)
  PROVE  \E calls \in SUBSET Call : Promise!ReturnedWrong(calls)
<1> DEFINE calls == {c \in Call : at[c] = s}
<1>1. executed' = executed
  BY Zenon DEF Restart
<1>2. executedOrder' = executedOrder
  BY Zenon, <1>1, OrderStays
<1>3. ASSUME NEW c \in calls
      PROVE  PlaceOf(c) # "returned" /\ PlaceOf(c)' = "returned" /\ ResultOf(c)' = ErrWrongLeader
  <2>1. c \in Call /\ at[c] # None
    BY Zenon, RSMAssumption
  <2>2. pc[c] \notin {"returned", "gone"}
    BY Zenon, <2>1 DEF RInv, CallInv
  <2>3. pc'[c] = "gone"
    BY Zenon DEF Restart
  <2>4. QED
    BY Zenon, <2>2, <2>3 DEF PlaceOf, ResultOf, ErrWrongLeader
<1>4. ASSUME NEW c \in Call \ calls PROVE PlaceOf(c)' = PlaceOf(c) /\ ResultOf(c)' = ResultOf(c)
  <2>1. pc'[c] = pc[c] /\ result'[c] = result[c]
    BY Zenon DEF Restart
  <2>2. QED
    BY Zenon, <2>1 DEF PlaceOf, ResultOf, ErrWrongLeader
<1>5. calls \in SUBSET Call
  BY Zenon
<1> HIDE DEF calls
<1>6. QED
  BY Zenon, <1>2, <1>3, <1>4, <1>5, PromiseWrong

\* A call that goes on, or a step without calls.
LEMMA OthersStutter ==
  ASSUME RInv, RInv', StartsWith(committed', committed), executed' = executed,
         \/ UNCHANGED <<pc, result>>
         \/ \E c \in Call : Register(c) \/ Notified(c) \/ LostLeadership(c)
  PROVE  UNCHANGED <<executedOrder, places, results>>
<1>1. executedOrder' = executedOrder
  BY Zenon, OrderStays
<1>2. pc \in [Call -> Places] /\ result = [d \in Call |-> result[d]]
  BY Zenon DEF RInv, TypeInv, CallType
<1>3. CASE UNCHANGED <<pc, result>>
  BY Zenon, <1>1, <1>3, PromiseStutters DEF PlaceOf, ResultOf, ErrWrongLeader
<1>4. ASSUME NEW c \in Call, Register(c) \/ Notified(c) \/ LostLeadership(c)
      PROVE  \A d \in Call : PlaceOf(d)' = PlaceOf(d) /\ ResultOf(d)' = ResultOf(d)
  <2>1. /\ pc[c] \in {"register", "wait"}
        /\ \E p \in {"wait", "deferred"} : pc' = [pc EXCEPT ![c] = p]
        /\ result' = result \/ \E x : result' = [result EXCEPT ![c] = x]
    BY Zenon, <1>4 DEF Register, Notified, LostLeadership, Goto, Returns
  <2>2. PICK p \in {"wait", "deferred"} : pc' = [pc EXCEPT ![c] = p]
    BY Zenon, <2>1
  <2>3. ASSUME NEW d \in Call, d # c PROVE pc'[d] = pc[d] /\ result'[d] = result[d]
    BY Zenon, <1>2, <2>1, <2>2, <2>3
  <2>4. pc'[c] \in {"wait", "deferred"}
    BY Zenon, <1>2, <2>2
  <2>5. PlaceOf(c)' = PlaceOf(c) /\ ResultOf(c)' = ResultOf(c)
    BY Zenon, <2>1, <2>4 DEF PlaceOf, ResultOf, ErrWrongLeader
  <2>6. ASSUME NEW d \in Call, d # c PROVE PlaceOf(d)' = PlaceOf(d) /\ ResultOf(d)' = ResultOf(d)
    BY Zenon, <2>3, <2>6 DEF PlaceOf, ResultOf, ErrWrongLeader
  <2>7. QED
    BY Zenon, <2>5, <2>6
<1>5. QED
  BY Zenon, <1>1, <1>3, <1>4, PromiseStutters

\* Every step is a step of the promise, or a stutter.
LEMMA StepIsPromised ==
  ASSUME RInv, [Next]_vars, inOrder'
  PROVE  Promise!Next \/ UNCHANGED <<executedOrder, places, results>>
<1>0. RInv' /\ StartsWith(committed', committed) /\ inOrder
  BY Zenon, NextInv, OrderLost
<1>1. ASSUME NEW s \in Server, Apply(s) PROVE Promise!Next \/ UNCHANGED <<executedOrder, places, results>>
  BY Zenon, <1>0, <1>1, ApplyIsExecuted DEF Promise!Next
<1>2. ASSUME NEW s \in Server, Restart(s) PROVE Promise!Next
  BY Zenon, <1>0, <1>2, RestartIsReturned DEF Promise!Next
<1>3. ASSUME NEW c \in Call, Start(c) PROVE Promise!Next
  <2>1. {c} \in SUBSET Call
    BY Zenon
  <2>2. QED
    BY Zenon, <1>0, <1>3, <2>1, StartIsSubmitted DEF Promise!Next
<1>4. ASSUME NEW c \in Call, Deferred(c) PROVE Promise!Next
  <2>1. {c} \in SUBSET Call
    BY Zenon
  <2>2. QED
    BY Zenon, <1>0, <1>4, <2>1, DeferredIsReturned DEF Promise!Next
<1>5. ASSUME NEW c \in Call, NEW s \in Server, Submit(c, s)
      PROVE  Promise!Next \/ UNCHANGED <<executedOrder, places, results>>
  <2>1. {c} \in SUBSET Call
    BY Zenon
  <2>2. QED
    BY Zenon, <1>0, <1>5, <2>1, SubmitIsRefused DEF Promise!Next
<1>6. ASSUME NEW c \in Call, Register(c) \/ Notified(c) \/ LostLeadership(c)
      PROVE  UNCHANGED <<executedOrder, places, results>>
  <2>1. executed' = executed
    BY Zenon, <1>6 DEF Register, Notified, LostLeadership, smVars, readerVars
  <2>2. QED
    BY Zenon, <1>0, <1>6, <2>1, OthersStutter
<1>7. ASSUME UNCHANGED <<executed, callVars>> PROVE UNCHANGED <<executedOrder, places, results>>
  BY Zenon, <1>0, <1>7, OthersStutter DEF callVars
<1>8. ASSUME RaftStep PROVE UNCHANGED <<executed, callVars>>
  BY Zenon, <1>8 DEF RaftStep, smVars, readerVars, Elect, Campaign, StepDown, Replicate, Commit,
     InstallSnapshot, CollectBatch
<1>9. ASSUME NEW s \in Server, Send(s) \/ Snapshot(s) \/ Restore(s) PROVE UNCHANGED <<executed, callVars>>
  BY Zenon, <1>9 DEF smVars, readerVars, Send, Snapshot, Restore
<1>10. CASE UNCHANGED vars
  BY Zenon, <1>7, <1>10 DEF vars, smVars, readerVars
<1>11. QED
  BY Zenon, <1>1, <1>2, <1>3, <1>4, <1>5, <1>6, <1>7, <1>8, <1>9, <1>10 DEF Next, Reader, Caller

\* As long as Raft has delivered in order, Submit keeps its promise: the commands are
\* executed in one order, each at most once, and a call returns OK only with the state that
\* its own command left, whichever leader's command took its index, and whatever snapshots
\* and restarts come between.
THEOREM SubmitKeepsPromise == Spec => KeepsPromise
<1>1. RInv /\ [Next]_vars => [inOrder' => UNCHANGED Promise!subVars \/ Promise!Next]_vars
  <2> SUFFICES ASSUME RInv, [Next]_vars, inOrder' PROVE UNCHANGED Promise!subVars \/ Promise!Next
    BY Zenon
  <2>1. Promise!Next \/ UNCHANGED <<executedOrder, places, results>>
    BY Zenon, StepIsPromised
  <2>2. QED
    BY Zenon, <2>1 DEF Promise!subVars, executedOrder, places, results, PlaceOf, ResultOf, StateAt
<1>2. QED
  BY <1>1, InvHolds, PromiseInit, PTL DEF Spec, KeepsPromise

\* Whatever Raft delivers, and in whichever order, a call returns OK only for its own
\* command, committed and executed last in the state that it returns.
OwnResults ==
  \A c \in Call : result[c].err = "OK" =>
    Ends(result[c].result, c) /\ \E n \in 1..executed : committed[n].Id = c

\* The check of Submit on the notification suffices for that on its own: it does not rest on
\* the order in which Raft delivers.
THEOREM SubmitReturnsItsOwn == Spec => []OwnResults
<1>1. ASSUME RInv, NEW c \in Call, result[c].err = "OK"
      PROVE  Ends(result[c].result, c) /\ \E n \in 1..executed : committed[n].Id = c
  <2>1. ResultInv(c)
    BY Zenon, <1>1 DEF RInv, NoticeInv
  <2>2. result[c] # ErrWrongLeader
    BY <1>1 DEF ErrWrongLeader
  <2>3. PICK state : result[c] = OK(state) /\ Left(c, state)
    BY Zenon, <2>1, <2>2 DEF ResultInv
  <2>4. result[c].result = state
    BY <2>3 DEF OK
  <2>5. QED
    BY Zenon, <2>3, <2>4 DEF Left
<1>2. RInv => OwnResults
  BY Zenon, <1>1 DEF OwnResults
<1>3. QED
  BY <1>2, InvHolds, PTL

-----------------------------------------------------------------------------
(* Without snapshots *)

\* applierLoop is the only one that sends, and sends what comes next.
PlainInv ==
  /\ inOrder
  /\ \A s \in Server : /\ lastIncludedIndex[s] = 0 /\ snapshotMsgs[s] = {}
                       /\ applied[s] <= lastApplied[s] /\ outbox[s] = applied[s] + 1..lastApplied[s]

\* The steps that leave the reader and the senders alone.
LEMMA PlainStays ==
  ASSUME PlainInv, UNCHANGED smVars
  PROVE  PlainInv'
BY Zenon DEF PlainInv, smVars, snapVars, chanVars, readerVars

\* The first of a batch.
LEMMA BatchStarts ==
  ASSUME ReplicaType, PlainInv, NEW s \in Server, applied[s] # lastApplied[s]
  PROVE  applied[s] + 1 \in outbox[s]
<1>1. /\ applied[s] \in Nat /\ lastApplied[s] \in Nat
      /\ applied[s] <= lastApplied[s] /\ outbox[s] = applied[s] + 1..lastApplied[s]
  BY Zenon DEF PlainInv, ReplicaType
<1>2. \A a, b \in Nat : a <= b /\ a # b => a + 1 \in a + 1..b
  OBVIOUS
<1>3. QED
  BY Zenon, <1>1, <1>2

\* With maxraftstate -1 there is no snapshot to send, so commands come in order.
LEMMA NextPlain ==
  ASSUME maxraftstate = -1, ReplicaType, PlainInv, [Next]_vars
  PROVE  PlainInv'
<1>1. ASSUME NEW s \in Server, InstallSnapshot(s) PROVE FALSE
  <2>1. PICK l \in Server : lastIncludedIndex[s] < lastIncludedIndex[l]
    BY Zenon, <1>1 DEF InstallSnapshot
  <2>2. QED
    BY <2>1 DEF PlainInv
<1>2. ASSUME NEW s \in Server, Snapshot(s) \/ Restore(s) PROVE FALSE
  BY Zenon, <1>2 DEF Snapshot, Restore, PlainInv
<1>3. ASSUME NEW s \in Server, CollectBatch(s) PROVE PlainInv'
  <2>1. PICK n \in lastApplied[s] + 1..Len(committed) :
          outbox' = [outbox EXCEPT ![s] = lastApplied[s] + 1..n] /\ lastApplied' = [lastApplied EXCEPT ![s] = n]
    BY Zenon, <1>3 DEF CollectBatch
  <2>2. UNCHANGED <<lastIncludedIndex, snapshotMsgs, applied, inOrder>> /\ outbox[s] = {}
    BY Zenon, <1>3 DEF CollectBatch, snapVars, readerVars
  <2>3. applied[s] = lastApplied[s] /\ applied[s] <= n
    <3>1. applied[s] = lastApplied[s]
      BY Zenon, <2>2, BatchStarts
    <3>2. lastApplied[s] \in Nat
      BY Zenon DEF ReplicaType
    <3>3. QED
      BY <2>1, <3>1, <3>2
  <2>4. lastApplied'[s] = n /\ outbox'[s] = applied[s] + 1..n
    BY Zenon, <2>1, <2>3 DEF ReplicaType
  <2>5. \A r \in Server \ {s} : lastApplied'[r] = lastApplied[r] /\ outbox'[r] = outbox[r]
    BY Zenon, <2>1 DEF ReplicaType
  <2>6. QED
    BY Zenon, <2>2, <2>3, <2>4, <2>5 DEF PlainInv
<1>4. ASSUME NEW s \in Server, Apply(s) PROVE PlainInv'
  <2>1. PICK i \in outbox[s] :
          /\ \A j \in outbox[s] : i <= j
          /\ outbox' = [outbox EXCEPT ![s] = @ \ {i}] /\ applied' = [applied EXCEPT ![s] = i]
          /\ inOrder' = (inOrder /\ i = applied[s] + 1)
    BY Zenon, <1>4 DEF Apply
  <2>2. UNCHANGED <<lastIncludedIndex, snapshotMsgs, lastApplied>>
    BY Zenon, <1>4 DEF Apply, snapVars
  <2>3. applied[s] \in Nat /\ lastApplied[s] \in Nat /\ outbox[s] = applied[s] + 1..lastApplied[s]
    BY Zenon DEF PlainInv, ReplicaType
  <2>4. i = applied[s] + 1 /\ i <= lastApplied[s]
    <3>1. i \in applied[s] + 1..lastApplied[s]
      BY Zenon, <2>1, <2>3
    <3>2. applied[s] # lastApplied[s]
      BY <2>3, <3>1
    <3>3. i <= applied[s] + 1
      BY Zenon, <2>1, <3>2, BatchStarts
    <3>4. QED
      BY <2>3, <3>1, <3>3
  <2>5. outbox[s] \ {i} = i + 1..lastApplied[s]
    BY <2>3, <2>4
  <2>6. applied'[s] = i /\ outbox'[s] = i + 1..lastApplied[s]
    BY Zenon, <2>1, <2>5 DEF ReplicaType
  <2>7. \A r \in Server \ {s} : applied'[r] = applied[r] /\ outbox'[r] = outbox[r]
    BY Zenon, <2>1 DEF ReplicaType
  <2>8. inOrder'
    BY Zenon, <2>1, <2>4 DEF PlainInv
  <2>9. QED
    BY Zenon, <2>2, <2>4, <2>6, <2>7, <2>8 DEF PlainInv
<1>5. ASSUME NEW s \in Server, Restart(s) PROVE PlainInv'
  <2>1. lastIncludedIndex' = lastIncludedIndex /\ inOrder' = inOrder /\ lastIncludedIndex[s] = 0
    BY Zenon, <1>5 DEF Restart, snapVars, PlainInv
  <2>2. applied'[s] = 0 /\ lastApplied'[s] = 0 /\ outbox'[s] = {} /\ snapshotMsgs'[s] = {}
    BY Zenon, <1>5, <2>1 DEF Restart, ReplicaType
  <2>3. \A r \in Server \ {s} : /\ applied'[r] = applied[r] /\ lastApplied'[r] = lastApplied[r]
                               /\ outbox'[r] = outbox[r] /\ snapshotMsgs'[r] = snapshotMsgs[r]
    BY Zenon, <1>5 DEF Restart, ReplicaType
  <2>4. 0 <= 0 /\ {} = 0 + 1..0
    OBVIOUS
  <2>5. QED
    BY Zenon, <2>1, <2>2, <2>3, <2>4 DEF PlainInv
<1>6. ASSUME NEW s \in Server, Send(s) PROVE UNCHANGED smVars
  BY Zenon, <1>6 DEF Send
<1>7. ASSUME NEW s \in Server, Elect(s) \/ Campaign(s) \/ StepDown(s) \/ Replicate(s) \/ Commit(s)
      PROVE  UNCHANGED smVars
  BY Zenon, <1>7 DEF Elect, Campaign, StepDown, Replicate, Commit
<1>8. ASSUME NEW c \in Call, Caller(c) \/ \E s \in Server : Submit(c, s) PROVE UNCHANGED smVars
  BY Zenon, <1>8 DEF Caller, Start, Register, Notified, LostLeadership, Deferred, Submit
<1>9. CASE UNCHANGED vars
  BY Zenon, <1>9, PlainStays DEF vars
<1>10. QED
  BY ZenonT(40), <1>1, <1>2, <1>3, <1>4, <1>5, <1>6, <1>7, <1>8, <1>9, PlainStays DEF Next, RaftStep, Reader

\* Without snapshots Raft delivers in order, so that Submit keeps its promise and the replicas
\* agree for good.
THEOREM WithoutSnapshots ==
  ASSUME maxraftstate = -1
  PROVE  Spec => Promise!Spec /\ [](inOrder /\ ReplicasAgree)
<1>1. Init => PlainInv
  <2>1. 0 <= 0 /\ {} = 0 + 1..0
    OBVIOUS
  <2>2. ASSUME Init
        PROVE  inOrder /\ \A s \in Server : /\ lastIncludedIndex[s] = 0 /\ snapshotMsgs[s] = {}
                                          /\ applied[s] = 0 /\ lastApplied[s] = 0 /\ outbox[s] = {}
    BY Zenon, <2>2 DEF Init
  <2>3. QED
    BY Zenon, <2>1, <2>2 DEF PlainInv
<1>2. RInv /\ PlainInv /\ [Next]_vars => PlainInv'
  BY Zenon, NextPlain DEF RInv, TypeInv
<1>3. Spec => []PlainInv
  BY <1>1, <1>2, InvHolds, PTL DEF Spec
<1>4. PlainInv => inOrder
  BY Zenon DEF PlainInv
<1>5. RInv /\ PlainInv' /\ [Next]_vars => [Promise!Next]_(Promise!subVars)
  <2> SUFFICES ASSUME RInv, PlainInv', [Next]_vars PROVE [Promise!Next]_(Promise!subVars)
    BY Zenon
  <2>1. Promise!Next \/ UNCHANGED <<executedOrder, places, results>>
    BY Zenon, StepIsPromised DEF PlainInv
  <2>2. QED
    BY Zenon, <2>1 DEF Promise!subVars, executedOrder, places, results, PlaceOf, ResultOf, StateAt
<1>6. QED
  BY <1>3, <1>4, <1>5, InvHolds, PromiseInit, ReplicasStayInStep, PTL DEF Spec, Promise!Spec

=============================================================================
