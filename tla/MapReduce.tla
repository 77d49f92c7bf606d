----------------------------- MODULE MapReduce ------------------------------
(***************************************************************************)
(* mr: a coordinator that hands out map and reduce tasks, workers that     *)
(* ask for one, perform it and report it, and the files between them.      *)
(*                                                                         *)
(* A file appears whole, by a rename; its content is abstracted to the map *)
(* tasks whose output it holds.  Mapping the same input gives the same     *)
(* files, so writing a file again changes nothing.  A task handed out may  *)
(* be taken back at any time after (the ten seconds are not modelled), and *)
(* a worker may die at any time.                                           *)
(***************************************************************************)
EXTENDS Naturals, FiniteSets

CONSTANTS nMap, nReduce,
          Worker,
          Mortal   \* the workers that may die

ASSUME JobAssumption == nMap \in Nat /\ nReduce \in Nat /\ Mortal \subseteq Worker

VARIABLES mapTasks, reduceTasks,  \* the State of every task
          phase,
          up,                     \* the coordinator process runs
          files,                  \* <<m, r>> \in files: mr-m-r exists
          out,                    \* out[r]: whose output mr-out-r was made from
          doing, task,            \* what a worker does, and for which task
          step,                   \* the loop variable of doMap or doReduce
          kva                     \* the map tasks whose files doReduce has read

coordinatorVars == <<mapTasks, reduceTasks, phase, up>>
workerVars == <<doing, task, step, kva>>
jobVars == <<coordinatorVars, files, out, workerVars>>

Map == {m \in 0..nMap : m < nMap}
Reduce == {r \in 0..nReduce : r < nReduce}
TaskState == {"Idle", "InProgress", "Completed"}

\* mr-out-r does not exist, or not yet.
NoFile == Map \cup {nMap}

Idle(tasks) == {t \in DOMAIN tasks : tasks[t] = "Idle"}

NoneIdle(tasks) == Idle(tasks) = {}  \* mutant: a task under way counts as done
AllDone(tasks) == \A t \in DOMAIN tasks : tasks[t] = "Completed"

\* The loops go through the tasks in order.
IsFirst(t, tasks) == t \in tasks /\ \A u \in tasks : t <= u

-----------------------------------------------------------------------------
(* Coordinator.GetTask, and what the worker does with the reply *)

\* The phase after GetTask has looked at the map tasks, and at both kinds.
PhaseAfterMaps == IF phase = "Map" /\ AllDone(mapTasks) THEN "Reduce" ELSE phase
PhaseAfterReduces ==
  IF PhaseAfterMaps = "Reduce" /\ AllDone(reduceTasks) THEN "Exit" ELSE PhaseAfterMaps

Asks(w) == doing[w] = "ask" /\ up

Begin(w, what, t) ==
  /\ doing' = [doing EXCEPT ![w] = what]
  /\ task' = [task EXCEPT ![w] = t]
  /\ step' = [step EXCEPT ![w] = 0]
  /\ kva' = [kva EXCEPT ![w] = {}]
  /\ UNCHANGED <<up, files, out>>

GetMapTask(w) ==
  /\ Asks(w) /\ phase = "Map"
  /\ \E t \in Map :
       /\ IsFirst(t, Idle(mapTasks))
       /\ mapTasks' = [mapTasks EXCEPT ![t] = "InProgress"]
       /\ Begin(w, "map", t)
  /\ UNCHANGED <<reduceTasks, phase>>

GetReduceTask(w) ==
  /\ Asks(w) /\ PhaseAfterMaps = "Reduce"
  /\ \E t \in Reduce :
       /\ IsFirst(t, Idle(reduceTasks))
       /\ reduceTasks' = [reduceTasks EXCEPT ![t] = "InProgress"]
       /\ Begin(w, "reduce", t)
  /\ phase' = "Reduce"
  /\ UNCHANGED mapTasks

\* Nothing to hand out, and not everything done: the worker sleeps and asks again.
GetWaitTask(w) ==
  /\ Asks(w) /\ PhaseAfterReduces # "Exit"
  /\ PhaseAfterMaps = "Map" => Idle(mapTasks) = {}
  /\ PhaseAfterMaps = "Reduce" => Idle(reduceTasks) = {}
  /\ phase' = PhaseAfterMaps
  /\ UNCHANGED <<mapTasks, reduceTasks, up, files, out, workerVars>>

GetExitTask(w) ==
  /\ Asks(w) /\ PhaseAfterReduces = "Exit"
  /\ phase' = "Exit"
  /\ doing' = [doing EXCEPT ![w] = "exited"]
  /\ UNCHANGED <<mapTasks, reduceTasks, up, files, out, task, step, kva>>

\* The coordinator is gone: call returns false and the worker leaves.  A worker whose call
\* to a coordinator that is up fails leaves as well: it counts as one that dies (Die).
CallFails(w) ==
  /\ doing[w] = "ask" /\ ~up
  /\ doing' = [doing EXCEPT ![w] = "exited"]
  /\ UNCHANGED <<coordinatorVars, files, out, task, step, kva>>

-----------------------------------------------------------------------------
(* Worker *)

\* doMap renames the file of one bucket into place.
WriteBucket(w) ==
  /\ doing[w] = "map" /\ step[w] < nReduce
  /\ files' = files \cup {<<task[w], step[w]>>}
  /\ step' = [step EXCEPT ![w] = @ + 1]
  /\ UNCHANGED <<coordinatorVars, out, doing, task, kva>>

\* doReduce reads one file; it goes on to the next one when the file does not exist.
ReadBucket(w) ==
  /\ doing[w] = "reduce" /\ step[w] < nMap
  /\ kva' = [kva EXCEPT ![w] =
       IF <<step[w], task[w]>> \in files THEN @ \cup {step[w]} ELSE @]
  /\ step' = [step EXCEPT ![w] = @ + 1]
  /\ UNCHANGED <<coordinatorVars, files, out, doing, task>>

\* doReduce renames its output into place.
WriteOutput(w) ==
  /\ doing[w] = "reduce" /\ step[w] = nMap
  /\ out' = [out EXCEPT ![task[w]] = kva[w]]
  /\ doing' = [doing EXCEPT ![w] = "reduced"]
  /\ UNCHANGED <<coordinatorVars, files, task, step, kva>>

\* Coordinator.FinishedTask, for a report of the current phase; others are ignored.
FinishedTask(w) ==
  /\ mapTasks' = IF up /\ doing[w] = "map" /\ phase = "Map"
                 THEN [mapTasks EXCEPT ![task[w]] = "Completed"] ELSE mapTasks
  /\ reduceTasks' = IF up /\ doing[w] = "reduced" /\ phase = "Reduce"
                    THEN [reduceTasks EXCEPT ![task[w]] = "Completed"] ELSE reduceTasks
  /\ UNCHANGED <<phase, up>>

\* The worker reports its task, whether or not the call succeeds, and asks for another.
Report(w) ==
  /\ (doing[w] = "map" /\ step[w] = nReduce) \/ doing[w] = "reduced"
  /\ FinishedTask(w)
  /\ doing' = [doing EXCEPT ![w] = "ask"]
  /\ task' = [task EXCEPT ![w] = 0]
  /\ step' = [step EXCEPT ![w] = 0]
  /\ kva' = [kva EXCEPT ![w] = {}]
  /\ UNCHANGED <<files, out>>

Die(w) ==
  /\ w \in Mortal /\ doing[w] \notin {"exited", "dead"}
  /\ doing' = [doing EXCEPT ![w] = "dead"]
  /\ UNCHANGED <<coordinatorVars, files, out, task, step, kva>>

-----------------------------------------------------------------------------
(* Coordinator.checkTimeouts and the end of main *)

Expired(tasks, S) == [t \in DOMAIN tasks |-> IF t \in S THEN "Idle" ELSE tasks[t]]
InProgress(tasks) == {t \in DOMAIN tasks : tasks[t] = "InProgress"}

TimeOutMapsOnly(t) ==  \* mutant: reduce tasks are never taken back
  /\ up /\ phase = "Map" /\ t \in InProgress(mapTasks)
  /\ \E S \in SUBSET InProgress(mapTasks) :
       t \in S /\ mapTasks' = Expired(mapTasks, S) /\ UNCHANGED reduceTasks
  /\ UNCHANGED <<phase, up, files, out, workerVars>>

\* One round, in which t and perhaps others of the phase have been out for too long.
checkTimeouts(t) ==
  /\ up
  /\ \/ /\ phase = "Map" /\ t \in InProgress(mapTasks)
        /\ \E S \in SUBSET InProgress(mapTasks) :
             t \in S /\ mapTasks' = Expired(mapTasks, S) /\ UNCHANGED reduceTasks
     \/ /\ phase = "Reduce" /\ t \in InProgress(reduceTasks)
        /\ \E S \in SUBSET InProgress(reduceTasks) :
             t \in S /\ reduceTasks' = Expired(reduceTasks, S) /\ UNCHANGED mapTasks
  /\ UNCHANGED <<phase, up, files, out, workerVars>>

\* Done returns true, and main returns.
CoordinatorExits ==
  /\ up /\ phase = "Exit"
  /\ up' = FALSE
  /\ UNCHANGED <<mapTasks, reduceTasks, phase, files, out, workerVars>>

-----------------------------------------------------------------------------

InitJob ==
  /\ mapTasks = [t \in Map |-> "Idle"]
  /\ reduceTasks = [t \in Reduce |-> "Idle"]
  /\ phase = "Map" /\ up = TRUE
  /\ files = {}
  /\ out = [r \in Reduce |-> NoFile]
  /\ doing = [w \in Worker |-> "ask"]
  /\ task = [w \in Worker |-> 0]
  /\ step = [w \in Worker |-> 0]
  /\ kva = [w \in Worker |-> {}]

Ask(w) == GetMapTask(w) \/ GetReduceTask(w) \/ GetWaitTask(w) \/ GetExitTask(w) \/ CallFails(w)
Work(w) == WriteBucket(w) \/ ReadBucket(w) \/ WriteOutput(w) \/ Report(w)

JobNext ==
  \/ \E w \in Worker : Ask(w) \/ Work(w) \/ Die(w)
  \/ \E t \in Map \cup Reduce : checkTimeouts(t)
  \/ CoordinatorExits

JobSpec == InitJob /\ [][JobNext]_jobVars

\* Every worker that is alive goes on, and a task that stays out is taken back.
JobFairness ==
  /\ \A w \in Worker : WF_jobVars(Ask(w)) /\ WF_jobVars(Work(w))
  /\ \A t \in Map \cup Reduce : WF_jobVars(checkTimeouts(t))
  /\ WF_jobVars(CoordinatorExits)

FairJobSpec == JobSpec /\ JobFairness

-----------------------------------------------------------------------------

TypeOK ==
  /\ mapTasks \in [Map -> TaskState]
  /\ reduceTasks \in [Reduce -> TaskState]
  /\ phase \in {"Map", "Reduce", "Exit"}
  /\ up \in BOOLEAN
  /\ files \subseteq Map \X Reduce
  /\ out \in [Reduce -> (SUBSET Map) \cup {NoFile}]
  /\ doing \in [Worker -> {"ask", "map", "reduce", "reduced", "exited", "dead"}]
  /\ task \in [Worker -> Nat]
  /\ step \in [Worker -> Nat]
  /\ kva \in [Worker -> SUBSET Map]

\* Every output file is made from the output of every map task: no reduce task runs
\* into a file that does not exist yet, which doReduce would skip without a word.
OutputsComplete == \A r \in Reduce : out[r] \in {Map, NoFile}

\* A worker that returns from Worker leaves a finished job behind, every output file
\* in place (test-mr.sh, "workers are required to exit when a job is completely
\* finished, and not before").
ExitMeansFinished ==
  (\E w \in Worker : doing[w] = "exited") \/ ~up => \A r \in Reduce : out[r] = Map

\* Once the job is finished no output file changes, whatever slow workers still do.
OutputsFinal == [][phase = "Exit" => out' = out]_jobVars

\* The job finishes and the workers that live leave, whichever of the others die and
\* wherever, when the tasks of the dead are handed out again.
JobFinishes == <>(~up /\ \A w \in Worker : doing[w] \in {"exited", "dead"})

=============================================================================
