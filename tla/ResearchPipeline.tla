-------------------------- MODULE ResearchPipeline --------------------------
(***************************************************************************)
(* The research phase of Brief Scout (application/services/                *)
(* research_pipeline.py): one ResearchPipeline serves every session, so    *)
(* its runs share one asyncio.Semaphore and one _last_bundle.  A run makes *)
(* a task of each step, gathers them, tells its caller of each outcome and *)
(* publishes a bundle of what succeeded.                                   *)
(*                                                                         *)
(* A task waits for a slot of the semaphore before it executes its step,   *)
(* and its timeout only starts then.  Whoever gives a slot back hands it   *)
(* to the task that has waited longest, if that task has not been          *)
(* cancelled; a task that was handed a slot still has to be resumed by the *)
(* event loop ("woken"), and may be cancelled before it is.                *)
(***************************************************************************)
EXTENDS Naturals, FiniteSets, SequencesExt

CONSTANTS
  Runs,         \* calls of stream or execute; each is reused once it ended
  StepCount,    \* the steps of the pipeline are 1..StepCount, in their order
  Limit,        \* max_concurrent_calls (no limit: as many as tasks)
  HasTimeout    \* whether timeout_seconds is given

ASSUME ResearchAssumption ==
  /\ StepCount \in Nat /\ Limit \in Nat \ {0}
  /\ HasTimeout \in BOOLEAN

Steps == 1..StepCount
Tasks == Runs \X Steps

VARIABLES
  run,          \* the local state of each run
  task,         \* the state of each run's task for each step
  free,         \* the free slots of the semaphore
  queue,        \* its waiters, in the order they came
  lastBundle    \* ResearchPipeline._last_bundle

vars == <<run, task, free, queue, lastBundle>>

Ended == {"succeeded", "failed", "cancelled"}
Holds == {"woken", "executing"}
TaskStates == {"none", "created", "waiting"} \cup Holds \cup Ended

\* Where a run stands: at the yield of its started event, in gather, at the
\* yield of a step's event, at the yield of its complete event (or returned).
RunRecords ==
  [kind : {"stream", "execute"},
   pc : {"idle", "started", "gathering", "telling", "complete"},
   told : 0..StepCount, results : SUBSET Steps, cancelled : BOOLEAN]

Bundles == [run : Runs, results : SUBSET Steps]

NoBundle == [run |-> "none", results |-> {}]

Idle == [kind |-> "stream", pc |-> "idle", told |-> 0, results |-> {},
         cancelled |-> FALSE]

Init ==
  /\ run = [r \in Runs |-> Idle]
  /\ task = [t \in Tasks |-> "none"]
  /\ free = Limit
  /\ queue = <<>>
  /\ lastBundle = NoBundle

-----------------------------------------------------------------------------
(* The semaphore *)

\* The places in the queue of the tasks that can still be handed a slot.
Waiters ==
  {i \in DOMAIN queue :
     task[queue[i]] = "waiting" /\ ~ run[queue[i][1]].cancelled}

\* Mutant: the slot is handed to the first waiter and freed as well.
EndAndReleaseTwice(t, outcome) ==
  /\ task' = [u \in Tasks |->
               IF u = t THEN outcome
               ELSE IF \E i \in Waiters :
                         queue[i] = u /\ \A j \in Waiters : i <= j
                 THEN "woken" ELSE task[u]]
  /\ queue' = IF Waiters = {} THEN queue
              ELSE RemoveAt(queue, CHOOSE i \in Waiters :
                                     \A j \in Waiters : i <= j)
  /\ free' = free + 1

\* t ends and, as `async with` does on every way out, gives its slot back.
EndAndRelease(t, outcome) ==
  \/ /\ Waiters = {}
     /\ task' = [task EXCEPT ![t] = outcome]
     /\ free' = free + 1
     /\ UNCHANGED queue
  \/ \E i \in Waiters :
       /\ \A j \in Waiters : i <= j
       /\ task' = [task EXCEPT ![t] = outcome, ![queue[i]] = "woken"]
       /\ queue' = RemoveAt(queue, i)
       /\ UNCHANGED free

-----------------------------------------------------------------------------
(* A task: _run_step and _execute *)

\* The task starts: it takes a slot or queues for one.
StartStep(t) ==
  /\ task[t] = "created" /\ ~ run[t[1]].cancelled
  /\ \/ /\ free > 0 /\ Waiters = {}
        /\ task' = [task EXCEPT ![t] = "executing"]
        /\ free' = free - 1
        /\ UNCHANGED queue
     \/ /\ free = 0 \/ Waiters # {}
        /\ task' = [task EXCEPT ![t] = "waiting"]
        /\ queue' = Append(queue, t)
        /\ UNCHANGED free
  /\ UNCHANGED <<run, lastBundle>>

ResumeStep(t) ==
  /\ task[t] = "woken" /\ ~ run[t[1]].cancelled
  /\ task' = [task EXCEPT ![t] = "executing"]
  /\ UNCHANGED <<run, free, queue, lastBundle>>

\* The step returns or raises, which a cancellation that comes at the same
\* time does not undo (asyncio.wait_for returns a result it already has).
StepEnds(t) ==
  /\ task[t] = "executing"
  /\ \E outcome \in {"succeeded", "failed"} : EndAndRelease(t, outcome)
  /\ UNCHANGED <<run, lastBundle>>

\* Mutant: a step that is cut off keeps its slot.
StepTimesOutHolding(t) ==
  /\ HasTimeout
  /\ task[t] = "executing"
  /\ task' = [task EXCEPT ![t] = "failed"]
  /\ UNCHANGED <<run, free, queue, lastBundle>>

StepTimesOut(t) ==
  /\ HasTimeout
  /\ task[t] = "executing"
  /\ EndAndRelease(t, "failed")
  /\ UNCHANGED <<run, lastBundle>>

\* Mutant: the slot is given back although it was never taken.
StepCancelledFreeing(t) ==
  /\ run[t[1]].cancelled
  /\ task[t] \in {"created"} \cup Holds
  /\ EndAndRelease(t, "cancelled")
  /\ UNCHANGED <<run, lastBundle>>

\* The task of a cancelled run is resumed with the cancellation, wherever it
\* is: before it started, in the queue, with a slot handed to it, executing.
StepCancelled(t) ==
  /\ run[t[1]].cancelled
  /\ \/ /\ task[t] = "created"
        /\ task' = [task EXCEPT ![t] = "cancelled"]
        /\ UNCHANGED <<free, queue>>
     \/ /\ task[t] = "waiting"
        /\ task' = [task EXCEPT ![t] = "cancelled"]
        /\ \E i \in DOMAIN queue :
             queue[i] = t /\ queue' = RemoveAt(queue, i)
        /\ UNCHANGED free
     \/ /\ task[t] \in Holds
        /\ EndAndRelease(t, "cancelled")
  /\ UNCHANGED <<run, lastBundle>>

-----------------------------------------------------------------------------
(* A run: stream and execute *)

Gather(r, record) ==
  /\ run' = [run EXCEPT ![r] = record]
  /\ task' = [t \in Tasks |-> IF t[1] = r THEN "created" ELSE task[t]]
  /\ UNCHANGED <<free, queue, lastBundle>>

Stream(r) ==
  /\ run[r].pc = "idle"
  /\ run' = [run EXCEPT ![r].pc = "started"]
  /\ UNCHANGED <<task, free, queue, lastBundle>>

StreamGathers(r) ==
  /\ run[r].pc = "started"
  /\ Gather(r, [run[r] EXCEPT !.pc = "gathering"])

Execute(r) ==
  /\ run[r].pc = "idle"
  /\ Gather(r, [run[r] EXCEPT !.pc = "gathering", !.kind = "execute"])

Succeeded(r) == {s \in Steps : task[<<r, s>>] = "succeeded"}

\* gather is over once every task is, also when it was cancelled.
Gathered(r) ==
  /\ run[r].pc = "gathering"
  /\ \A s \in Steps : task[<<r, s>>] \in Ended

\* Mutant: the cancellation is swallowed and the stream goes on.
ContinuesCancelled(r) ==
  /\ run[r].kind = "stream"
  /\ run[r].pc = "telling" \/ Gathered(r)

\* A stream goes on after gather or after one of its events.
Continues(r) ==
  /\ run[r].kind = "stream"
  /\ run[r].pc = "telling" \/ (Gathered(r) /\ ~ run[r].cancelled)

\* The next turn of the loop over the outcomes, up to its yield.
TellStep(r) ==
  /\ Continues(r) /\ run[r].told < StepCount
  /\ LET s == run[r].told + 1 IN
       run' = [run EXCEPT ![r].pc = "telling", ![r].told = s,
                          ![r].results = @ \cup (Succeeded(r) \cap {s})]
  /\ UNCHANGED <<task, free, queue, lastBundle>>

Publish(r, results) ==
  /\ lastBundle' = [run |-> r, results |-> results]
  /\ run' = [run EXCEPT ![r].pc = "complete", ![r].results = results]
  /\ UNCHANGED <<task, free, queue>>

\* Mutant: the loop stops before the last step.
StreamCompletesEarly(r) ==
  /\ Continues(r) /\ run[r].told + 1 >= StepCount
  /\ Publish(r, run[r].results)

StreamCompletes(r) ==
  /\ Continues(r) /\ run[r].told = StepCount
  /\ Publish(r, run[r].results)

ExecuteReturns(r) ==
  /\ run[r].kind = "execute"
  /\ Gathered(r) /\ ~ run[r].cancelled
  /\ Publish(r, Succeeded(r))

\* Mutant: a cancelled run does not wait for its tasks.
EndsAtOnce(r) ==
  /\ run[r].pc = "complete" \/ run[r].cancelled
  /\ run' = [run EXCEPT ![r] = Idle]
  /\ UNCHANGED <<task, free, queue, lastBundle>>

\* The run is over: its caller has the last event or the bundle, or gather
\* has raised the cancellation once all its tasks had ended.
Ends(r) ==
  /\ run[r].pc = "complete" \/ (Gathered(r) /\ run[r].cancelled)
  /\ run' = [run EXCEPT ![r] = Idle]
  /\ UNCHANGED <<task, free, queue, lastBundle>>

\* The caller is cancelled: at a yield the generator just ends, in gather
\* every task of the run that has not ended is cancelled too.
Cancel(r) ==
  /\ \/ /\ run[r].pc \in {"started", "telling"}
        /\ run' = [run EXCEPT ![r] = Idle]
     \/ /\ run[r].pc = "gathering" /\ ~ run[r].cancelled
        /\ run' = [run EXCEPT ![r].cancelled = TRUE]
  /\ UNCHANGED <<task, free, queue, lastBundle>>

-----------------------------------------------------------------------------
TaskMoves(t) ==
  StartStep(t) \/ ResumeStep(t) \/ StepTimesOut(t) \/ StepCancelled(t)

RunMoves(r) ==
  \/ StreamGathers(r) \/ TellStep(r) \/ StreamCompletes(r)
  \/ ExecuteReturns(r) \/ Ends(r)

Next ==
  \/ \E t \in Tasks : TaskMoves(t) \/ StepEnds(t)
  \/ \E r \in Runs : RunMoves(r) \/ Stream(r) \/ Execute(r) \/ Cancel(r)

Spec == Init /\ [][Next]_vars

\* The event loop resumes every task and every run that can go on, and timers
\* fire; nothing is asked of the steps themselves, which may hang.
Fairness ==
  /\ \A t \in Tasks : WF_vars(TaskMoves(t))
  /\ \A r \in Runs : WF_vars(RunMoves(r))

FairSpec == Spec /\ Fairness

-----------------------------------------------------------------------------
(* Properties *)

TypeOK ==
  /\ run \in [Runs -> RunRecords]
  /\ task \in [Tasks -> TaskStates]
  /\ free \in 0..Limit
  /\ queue \in Seq(Tasks)
  /\ lastBundle \in Bundles \cup {NoBundle}

\* No more than max_concurrent_calls steps execute at once, over all sessions
\* (the semaphore of _run_step), whatever steps and runs are cancelled while
\* a slot is on its way to them.
AtMostLimit ==
  Cardinality({t \in Tasks : task[t] = "executing"}) <= Limit

\* A run that has ended, by return or by cancellation, leaves no task behind
\* that executes a step, holds a slot or is in the queue.
LeavesNothing ==
  \A r \in Runs, s \in Steps :
    run[r].pc # "gathering"
    => /\ task[<<r, s>>] \in Ended \cup {"none"}
       /\ \A i \in DOMAIN queue : queue[i] # <<r, s>>

\* A bundle is published when every step has ended, and holds exactly the
\* results of those that succeeded, those that ended after others were told
\* included (stream builds it event by event, suspended at each).
BundleIsWhatSucceeded ==
  [][\A r \in Runs :
       run'[r].pc = "complete" /\ run[r].pc # "complete"
       => /\ \A s \in Steps : task[<<r, s>>] \in Ended
          /\ lastBundle' = [run |-> r, results |-> Succeeded(r)]]_vars

\* What the caller of a run can tell of it.
PhaseOf(r) ==
  IF run[r].pc = "idle" \/ run[r].cancelled THEN "none"
  ELSE IF run[r].pc = "complete" THEN "published" ELSE "open"

\* What the brief pipeline relies on: however its steps go, a run publishes
\* its bundle in one step and at most once, and never once its caller has
\* been cancelled, so that it cannot overwrite the bundle of a later run.
Phase == INSTANCE ResearchPhase WITH
  phase <- [r \in Runs |-> PhaseOf(r)],
  last  <- lastBundle.run

PublishesInOneStep == Phase!PhaseSpec

\* Every run ends, even if no step of any run ever returns: the timeout of
\* the steps before it bounds the wait of a step in the queue, and no
\* cancellation loses a slot.
EveryRunEnds ==
  \A r \in Runs : (run[r].pc # "idle") ~> (run[r].pc = "idle")

-----------------------------------------------------------------------------
(* What the proofs need besides the properties *)

Holders == {t \in Tasks : task[t] \in Holds}

\* A slot is free or held: none is lost and none is made.
SlotInv ==
  /\ IsFiniteSet(Holders)
  /\ free + Cardinality(Holders) = Limit

\* The queue holds waiting tasks, and each once.
QueueInv ==
  \A i, j \in DOMAIN queue :
    /\ task[queue[i]] = "waiting"
    /\ queue[i] = queue[j] => i = j

\* Where a run stands determines its outcomes and what it has told of them.
RunInv ==
  \A r \in Runs :
    /\ run[r].pc = "idle" => run[r] = Idle
    /\ run[r].pc \in {"started", "gathering"}
       => run[r].told = 0 /\ run[r].results = {}
    /\ run[r].pc \in {"started", "telling"} => run[r].kind = "stream"
    /\ run[r].pc # "gathering"
       => /\ ~ run[r].cancelled
          /\ \A s \in Steps : task[<<r, s>>] \in Ended \cup {"none"}
    /\ run[r].pc = "telling"
       => /\ \A s \in Steps : task[<<r, s>>] \in Ended
          /\ run[r].results = Succeeded(r) \cap 1..run[r].told

=============================================================================
