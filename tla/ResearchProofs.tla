--------------------------- MODULE ResearchProofs ---------------------------
(***************************************************************************)
(* Theorems about ResearchPipeline, for any runs, steps and limit.         *)
(***************************************************************************)
EXTENDS ResearchPipeline, FiniteSetTheorems, SequenceTheorems, TLAPS

\* RemoveAt closes the gap and keeps the order.
LEMMA RemoveAtFacts ==
  ASSUME NEW S, NEW q \in Seq(S), NEW i \in 1..Len(q)
  PROVE  /\ RemoveAt(q, i) \in Seq(S)
         /\ Len(RemoveAt(q, i)) = Len(q) - 1
         /\ \A j \in 1..(Len(q) - 1) :
              RemoveAt(q, i)[j] = IF j < i THEN q[j] ELSE q[j + 1]
<1> DEFINE front == SubSeq(q, 1, i - 1)
           back == SubSeq(q, i + 1, Len(q))
<1>1. Len(q) \in Nat /\ \A j \in 1..Len(q) : q[j] \in S
  OBVIOUS
<1>2. /\ front \in Seq(S) /\ Len(front) = i - 1
      /\ \A j \in 1..(i - 1) : front[j] = q[j]
  <2>1. \A j \in 1..(i - 1) : q[j] \in S
    BY <1>1
  <2> QED
    BY <1>1, <2>1, SubSeqProperties, SMTT(30)
<1>3. /\ back \in Seq(S) /\ Len(back) = Len(q) - i
      /\ \A j \in 1..(Len(q) - i) : back[j] = q[i + j]
  <2>1. \A j \in (i + 1)..Len(q) : q[j] \in S
    BY <1>1
  <2> QED
    BY <1>1, <2>1, SubSeqProperties, SMTT(30)
<1> HIDE DEF front, back
<1>4. /\ front \o back \in Seq(S)
      /\ Len(front \o back) = Len(front) + Len(back)
      /\ \A j \in 1..Len(front) + Len(back) :
           (front \o back)[j] = IF j <= Len(front) THEN front[j]
                                ELSE back[j - Len(front)]
  <2>1. front \in Seq(S) /\ back \in Seq(S)
    BY <1>2, <1>3
  <2> QED
    BY <2>1, ConcatProperties, Zenon
<1>5. ASSUME NEW j \in 1..(Len(q) - 1)
      PROVE  (front \o back)[j] = IF j < i THEN q[j] ELSE q[j + 1]
  <2>1. j \in 1..Len(front) + Len(back)
    BY <1>1, <1>2, <1>3
  <2>2. CASE j < i
    <3>1. j <= Len(front) /\ j \in 1..(i - 1)
      BY <1>1, <1>2, <2>2
    <3> QED
      BY <1>2, <1>4, <2>1, <2>2, <3>1
  <2>3. CASE ~ (j < i)
    <3>1. ~ (j <= Len(front)) /\ j - Len(front) = j - (i - 1)
      BY <1>1, <1>2, <2>3
    <3>2. j - (i - 1) \in 1..(Len(q) - i) /\ i + (j - (i - 1)) = j + 1
      BY <1>1, <2>3
    <3> QED
      BY <1>3, <1>4, <2>1, <2>3, <3>1, <3>2
  <2> QED
    BY <2>2, <2>3
<1>6. RemoveAt(q, i) = front \o back
  BY DEF RemoveAt, front, back
<1>7. Len(front) + Len(back) = Len(q) - 1
  BY <1>1, <1>2, <1>3
<1> QED
  BY <1>4, <1>5, <1>6, <1>7

-----------------------------------------------------------------------------
(* Types *)

TypeInv ==
  /\ run \in [Runs -> RunRecords]
  /\ task \in [Tasks -> TaskStates]
  /\ free \in Nat
  /\ queue \in Seq(Tasks)
  /\ lastBundle \in Bundles \cup {NoBundle}

LEMMA WaiterType ==
  ASSUME TypeInv, NEW i \in Waiters
  PROVE  /\ i \in 1..Len(queue)
         /\ queue[i] \in Tasks
         /\ task[queue[i]] = "waiting"
BY DEF TypeInv, Waiters

LEMMA ReleaseType ==
  ASSUME TypeInv, NEW t \in Tasks, NEW outcome \in TaskStates,
         EndAndRelease(t, outcome)
  PROVE  /\ task' \in [Tasks -> TaskStates]
         /\ free' \in Nat
         /\ queue' \in Seq(Tasks)
<1>1. CASE /\ Waiters = {}
           /\ task' = [task EXCEPT ![t] = outcome]
           /\ free' = free + 1
           /\ UNCHANGED queue
  BY <1>1 DEF TypeInv
<1>2. ASSUME NEW i \in Waiters,
             task' = [task EXCEPT ![t] = outcome, ![queue[i]] = "woken"],
             queue' = RemoveAt(queue, i),
             UNCHANGED free
      PROVE  /\ task' \in [Tasks -> TaskStates]
             /\ free' \in Nat
             /\ queue' \in Seq(Tasks)
  <2>1. i \in 1..Len(queue)
    BY WaiterType
  <2>2. queue' \in Seq(Tasks)
    BY <1>2, <2>1, RemoveAtFacts DEF TypeInv
  <2> QED
    BY <1>2, <2>2 DEF TypeInv, TaskStates, Holds
<1> QED
  BY <1>1, <1>2 DEF EndAndRelease

LEMMA TypeStep ==
  ASSUME TypeInv, [Next]_vars
  PROVE  TypeInv'
<1> USE ResearchAssumption
<1>1. ASSUME NEW t \in Tasks, TaskMoves(t) \/ StepEnds(t)
      PROVE  TypeInv'
  <2>1. CASE StartStep(t)
    <3>1. free > 0 => free - 1 \in Nat
      BY DEF TypeInv
    <3>2. Append(queue, t) \in Seq(Tasks)
      BY DEF TypeInv
    <3> QED
      BY <2>1, <3>1, <3>2 DEF StartStep, TypeInv, TaskStates, Holds
  <2>2. CASE ResumeStep(t)
    BY <2>2 DEF ResumeStep, TypeInv, TaskStates, Holds
  <2>3. ASSUME NEW outcome \in Ended, EndAndRelease(t, outcome),
               UNCHANGED <<run, lastBundle>>
        PROVE  TypeInv'
    BY <2>3, ReleaseType DEF TypeInv, TaskStates
  <2>4. CASE StepCancelled(t)
    <3>1. CASE task[t] = "created"
      BY <2>4, <3>1 DEF StepCancelled, TypeInv, TaskStates, Ended, Holds
    <3>2. CASE task[t] = "waiting"
      <4>1. PICK i \in DOMAIN queue : queue' = RemoveAt(queue, i)
        BY <2>4, <3>2 DEF StepCancelled, Holds
      <4>2. queue' \in Seq(Tasks)
        BY <4>1, RemoveAtFacts DEF TypeInv
      <4> QED
        BY <2>4, <3>2, <4>2
        DEF StepCancelled, TypeInv, TaskStates, Ended, Holds
    <3>3. CASE task[t] \in Holds
      BY <2>3, <2>4, <3>3 DEF StepCancelled, Holds, Ended
    <3> QED
      BY <2>4, <3>1, <3>2, <3>3 DEF StepCancelled
  <2> QED
    BY <1>1, <2>1, <2>2, <2>3, <2>4
    DEF TaskMoves, StepEnds, StepTimesOut, Ended
<1>2. ASSUME NEW r \in Runs,
             RunMoves(r) \/ Stream(r) \/ Execute(r) \/ Cancel(r)
      PROVE  TypeInv'
  <2>1. ASSUME NEW record \in RunRecords, Gather(r, record)
        PROVE  TypeInv'
    BY <2>1 DEF Gather, TypeInv, TaskStates
  <2>2. ASSUME NEW record \in RunRecords,
               run' = [run EXCEPT ![r] = record],
               UNCHANGED <<task, free, queue, lastBundle>>
        PROVE  TypeInv'
    BY <2>2 DEF TypeInv
  <2>3. ASSUME NEW results \in SUBSET Steps, Publish(r, results)
        PROVE  TypeInv'
    <3>1. [run[r] EXCEPT !.pc = "complete", !.results = results]
            \in RunRecords
      BY DEF TypeInv, RunRecords
    <3>2. run' \in [Runs -> RunRecords]
      BY <2>3, <3>1 DEF Publish, TypeInv
    <3>3. lastBundle' \in Bundles
      BY <2>3 DEF Publish, Bundles
    <3> QED
      BY <2>3, <3>2, <3>3 DEF Publish, TypeInv
  <2>4. run[r] \in RunRecords /\ Idle \in RunRecords
    BY DEF TypeInv, Idle, RunRecords
  <2>5. CASE TellStep(r)
    <3> DEFINE s == run[r].told + 1
               record == [run[r] EXCEPT !.pc = "telling", !.told = s,
                            !.results = run[r].results
                                        \cup (Succeeded(r) \cap {s})]
    <3>1. s \in 0..StepCount
      BY <2>4, <2>5 DEF TellStep, RunRecords
    <3>2. record \in RunRecords
      BY <2>4, <3>1 DEF RunRecords, Succeeded
    <3>3. run' = [run EXCEPT ![r] = record]
      BY <2>5 DEF TellStep, TypeInv
    <3> QED
      BY <2>2, <2>5, <3>2, <3>3 DEF TellStep
  <2>6. CASE StreamGathers(r) \/ Execute(r)
    BY <2>1, <2>4, <2>6 DEF StreamGathers, Execute, RunRecords
  <2>7. CASE StreamCompletes(r) \/ ExecuteReturns(r)
    BY <2>3, <2>4, <2>7
    DEF StreamCompletes, ExecuteReturns, Succeeded, RunRecords
  <2>8. CASE Ends(r)
    BY <2>2, <2>4, <2>8 DEF Ends
  <2>9. CASE Stream(r) \/ Cancel(r)
    <3>1. /\ [run[r] EXCEPT !.pc = "started"] \in RunRecords
          /\ [run[r] EXCEPT !.cancelled = TRUE] \in RunRecords
      BY <2>4 DEF RunRecords
    <3>2. \/ run' = [run EXCEPT ![r] = [run[r] EXCEPT !.pc = "started"]]
          \/ run' = [run EXCEPT ![r] = [run[r] EXCEPT !.cancelled = TRUE]]
          \/ run' = [run EXCEPT ![r] = Idle]
      BY <2>9 DEF Stream, Cancel, TypeInv
    <3> QED
      BY <2>2, <2>4, <2>9, <3>1, <3>2 DEF Stream, Cancel
  <2> QED
    BY <1>2, <2>5, <2>6, <2>7, <2>8, <2>9 DEF RunMoves
<1>3. CASE UNCHANGED vars
  BY <1>3 DEF vars, TypeInv
<1> QED
  BY <1>1, <1>2, <1>3 DEF Next

LEMMA TypeInvariant == Spec => []TypeInv
<1>1. Init => TypeInv
  BY ResearchAssumption
  DEF Init, TypeInv, Idle, RunRecords, TaskStates, Bundles
<1>2. TypeInv /\ [Next]_vars => TypeInv'
  BY TypeStep
<1> QED
  BY <1>1, <1>2, PTL DEF Spec

-----------------------------------------------------------------------------
(* Runs *)

\* No task moves once it has ended, and none moves before it is created.
LEMMA EndedTasksStay ==
  ASSUME TypeInv, NEW t \in Tasks, TaskMoves(t) \/ StepEnds(t)
  PROVE  /\ UNCHANGED <<run, lastBundle>>
         /\ \A u \in Tasks :
              task[u] \in Ended \cup {"none"} => task'[u] = task[u]
<1>1. ASSUME NEW outcome, task[t] \in Holds, EndAndRelease(t, outcome),
             NEW u \in Tasks, task[u] \in Ended \cup {"none"}
      PROVE  task'[u] = task[u]
  <2>1. u # t /\ \A i \in Waiters : u # queue[i]
    BY <1>1, WaiterType DEF Ended, Holds
  <2> QED
    BY <1>1, <2>1 DEF EndAndRelease, TypeInv
<1>2. CASE StepEnds(t) \/ StepTimesOut(t)
  BY <1>1, <1>2 DEF StepEnds, StepTimesOut, Holds
<1>3. CASE StartStep(t) \/ ResumeStep(t)
  BY <1>3 DEF StartStep, ResumeStep, TypeInv, Ended
<1>4. CASE StepCancelled(t)
  BY <1>1, <1>4 DEF StepCancelled, TypeInv, Ended
<1> QED
  BY <1>2, <1>3, <1>4 DEF TaskMoves

LEMMA RunStep ==
  ASSUME TypeInv, RunInv, [Next]_vars
  PROVE  RunInv'
<1> DEFINE Good(q) ==
      /\ run[q].pc = "idle" => run[q] = Idle
      /\ run[q].pc \in {"started", "gathering"}
         => run[q].told = 0 /\ run[q].results = {}
      /\ run[q].pc \in {"started", "telling"} => run[q].kind = "stream"
      /\ run[q].pc # "gathering"
         => /\ ~ run[q].cancelled
            /\ \A s \in Steps : task[<<q, s>>] \in Ended \cup {"none"}
      /\ run[q].pc = "telling"
         => /\ \A s \in Steps : task[<<q, s>>] \in Ended
            /\ run[q].results = Succeeded(q) \cap 1..run[q].told
<1>1. \A q \in Runs : Good(q)
  BY DEF RunInv
<1>2. SUFFICES \A q \in Runs : Good(q)'
  BY <1>2 DEF RunInv
<1>3. ASSUME NEW q \in Runs, run'[q] = run[q],
             \A s \in Steps :
               task[<<q, s>>] \in Ended \cup {"none"}
               => task'[<<q, s>>] = task[<<q, s>>]
      PROVE  Good(q)'
  BY <1>1, <1>3 DEF Succeeded
<1>4. ASSUME NEW t \in Tasks, TaskMoves(t) \/ StepEnds(t), NEW q \in Runs
      PROVE  Good(q)'
  BY <1>3, <1>4, EndedTasksStay DEF Tasks
<1>5. ASSUME NEW r \in Runs, NEW q \in Runs,
             RunMoves(r) \/ Stream(r) \/ Execute(r) \/ Cancel(r)
      PROVE  Good(q)'
  <2>1. /\ run[r] \in RunRecords
        /\ \A s \in Steps : <<q, s>> \in Tasks
    BY DEF TypeInv, Tasks
  <2>2. CASE q # r
    <3>1. run'[q] = run[q]
      BY <1>5, <2>2
      DEF RunMoves, Stream, Execute, Cancel, StreamGathers, TellStep,
          StreamCompletes, ExecuteReturns, Ends, Gather, Publish, TypeInv
    <3>2. \A s \in Steps : task'[<<q, s>>] = task[<<q, s>>]
      BY <1>5, <2>1, <2>2
      DEF RunMoves, Stream, Execute, Cancel, StreamGathers, TellStep,
          StreamCompletes, ExecuteReturns, Ends, Gather, Publish, TypeInv
    <3> QED
      BY <1>3, <3>1, <3>2
  <2>3. CASE q = r /\ (StreamGathers(r) \/ Execute(r))
    <3>1. run[r].told = 0 /\ run[r].results = {} /\ ~ run[r].cancelled
      BY <1>1, <2>3 DEF StreamGathers, Execute, Idle
    <3>2. \/ run'[r] = [run[r] EXCEPT !.pc = "gathering"]
          \/ run'[r] = [run[r] EXCEPT !.pc = "gathering", !.kind = "execute"]
      BY <2>3 DEF StreamGathers, Execute, Gather, TypeInv
    <3>3. /\ run'[r].pc = "gathering"
          /\ run'[r].told = 0 /\ run'[r].results = {}
      BY <2>1, <3>1, <3>2 DEF RunRecords
    <3> QED
      BY <2>3, <3>3
  <2>4. CASE q = r /\ TellStep(r)
    <3>1. /\ run'[r] = [run[r] EXCEPT !.pc = "telling",
                          !.told = run[r].told + 1,
                          !.results = run[r].results
                            \cup (Succeeded(r) \cap {run[r].told + 1})]
          /\ UNCHANGED task
      BY <2>1, <2>4 DEF TellStep, TypeInv
    <3>2. \A s \in Steps : task[<<r, s>>] \in Ended
      BY <1>1, <2>4 DEF TellStep, Continues, Gathered
    <3>3. run[r].results = Succeeded(r) \cap 1..run[r].told
      BY <1>1, <2>4 DEF TellStep, Continues, Gathered
    <3>4. /\ run[r].told \in Nat
          /\ 1..(run[r].told + 1) = (1..run[r].told) \cup {run[r].told + 1}
      BY <2>1, ResearchAssumption DEF RunRecords
    <3>5. ~ run[r].cancelled /\ run[r].kind = "stream"
      BY <1>1, <2>4 DEF TellStep, Continues
    <3>6. run'[r].results = Succeeded(r)' \cap 1..run'[r].told
      BY <2>1, <3>1, <3>3, <3>4 DEF Succeeded, RunRecords
    <3> QED
      BY <2>1, <2>4, <3>1, <3>2, <3>5, <3>6 DEF RunRecords
  <2>5. CASE q = r /\ (StreamCompletes(r) \/ ExecuteReturns(r))
    <3>1. /\ run'[r].pc = "complete" /\ run'[r].cancelled = run[r].cancelled
          /\ UNCHANGED task
      BY <2>1, <2>5
      DEF StreamCompletes, ExecuteReturns, Publish, TypeInv, RunRecords
    <3>2. /\ ~ run[r].cancelled
          /\ \A s \in Steps : task[<<r, s>>] \in Ended
      BY <1>1, <2>5 DEF StreamCompletes, ExecuteReturns, Continues, Gathered
    <3> QED
      BY <2>5, <3>1, <3>2
  <2>6. CASE q = r /\ Ends(r)
    BY <1>1, <2>1, <2>6 DEF Ends, Gathered, TypeInv, Idle
  <2>7. CASE q = r /\ (Stream(r) \/ Cancel(r))
    <3>1. CASE run'[r] = Idle /\ run[r].pc # "gathering"
      BY <1>1, <2>7, <3>1 DEF Stream, Cancel, Idle
    <3>2. CASE /\ run'[r] = [run[r] EXCEPT !.pc = "started"]
               /\ run[r] = Idle
      BY <1>1, <2>7, <3>2 DEF Stream, Cancel, Idle
    <3>3. CASE /\ run'[r] = [run[r] EXCEPT !.cancelled = TRUE]
               /\ run[r].pc = "gathering"
      <4>1. /\ run'[r].pc = "gathering"
            /\ run'[r].told = run[r].told /\ run'[r].results = run[r].results
        BY <2>1, <3>3 DEF RunRecords
      <4> QED
        BY <1>1, <2>7, <3>3, <4>1
    <3> QED
      BY <1>1, <2>7, <3>1, <3>2, <3>3 DEF Stream, Cancel, TypeInv
  <2> QED
    BY <1>5, <2>2, <2>3, <2>4, <2>5, <2>6, <2>7 DEF RunMoves
<1>6. CASE UNCHANGED vars
  BY <1>3, <1>6 DEF vars
<1> QED
  BY <1>4, <1>5, <1>6 DEF Next

-----------------------------------------------------------------------------
(* Slots *)

\* A task that comes to hold a slot.
LEMMA HoldersGrow ==
  ASSUME TypeInv, IsFiniteSet(Holders), NEW t \in Tasks, task[t] \notin Holds,
         NEW state \in Holds, task' = [task EXCEPT ![t] = state]
  PROVE  /\ IsFiniteSet(Holders')
         /\ Cardinality(Holders') = Cardinality(Holders) + 1
<1>1. Holders' = Holders \cup {t} /\ t \notin Holders
  BY DEF TypeInv, Holders
<1> QED
  BY <1>1, FS_AddElement

\* A task that lets its slot go.
LEMMA HoldersShrink ==
  ASSUME TypeInv, IsFiniteSet(Holders), NEW t \in Tasks, task[t] \in Holds,
         NEW state \in TaskStates \ Holds, task' = [task EXCEPT ![t] = state]
  PROVE  /\ IsFiniteSet(Holders')
         /\ Cardinality(Holders') = Cardinality(Holders) - 1
<1>1. Holders' = Holders \ {t} /\ t \in Holders
  BY DEF TypeInv, Holders
<1> QED
  BY <1>1, FS_RemoveElement

\* A task that hands its slot to another.
LEMMA HoldersSwap ==
  ASSUME TypeInv, IsFiniteSet(Holders),
         NEW t \in Tasks, task[t] \in Holds,
         NEW u \in Tasks, task[u] \notin Holds,
         NEW state \in TaskStates \ Holds,
         task' = [task EXCEPT ![t] = state, ![u] = "woken"]
  PROVE  /\ IsFiniteSet(Holders')
         /\ Cardinality(Holders') = Cardinality(Holders)
<1>1. /\ Holders' = (Holders \ {t}) \cup {u}
      /\ t \in Holders /\ u \notin Holders \ {t}
  BY DEF TypeInv, Holders, Holds
<1>2. /\ IsFiniteSet(Holders \ {t})
      /\ Cardinality(Holders \ {t}) = Cardinality(Holders) - 1
  BY <1>1, FS_RemoveElement
<1>3. /\ IsFiniteSet(Holders')
      /\ Cardinality(Holders') = Cardinality(Holders \ {t}) + 1
  BY <1>1, <1>2, FS_AddElement
<1>4. Cardinality(Holders) \in Nat
  BY FS_CardinalityType
<1> QED
  BY <1>2, <1>3, <1>4

\* Giving a slot back frees it or hands it on.
LEMMA ReleaseKeepsSlots ==
  ASSUME TypeInv, SlotInv, NEW t \in Tasks, task[t] \in Holds,
         NEW outcome \in Ended, EndAndRelease(t, outcome)
  PROVE  SlotInv'
<1>1. outcome \in TaskStates \ Holds
  BY DEF Ended, TaskStates, Holds
<1>2. Cardinality(Holders) \in Nat /\ free \in Nat /\ Limit \in Nat
  BY FS_CardinalityType, ResearchAssumption DEF SlotInv, TypeInv
<1>3. CASE /\ task' = [task EXCEPT ![t] = outcome]
           /\ free' = free + 1
  <2>1. /\ IsFiniteSet(Holders')
        /\ Cardinality(Holders') = Cardinality(Holders) - 1
    BY <1>1, <1>3, HoldersShrink DEF SlotInv
  <2> QED
    BY <1>2, <1>3, <2>1 DEF SlotInv
<1>4. ASSUME NEW i \in Waiters,
             task' = [task EXCEPT ![t] = outcome, ![queue[i]] = "woken"],
             UNCHANGED free
      PROVE  SlotInv'
  <2>1. queue[i] \in Tasks /\ task[queue[i]] \notin Holds
    BY WaiterType DEF Holds
  <2>2. /\ IsFiniteSet(Holders')
        /\ Cardinality(Holders') = Cardinality(Holders)
    BY <1>1, <1>4, <2>1, HoldersSwap DEF SlotInv
  <2> QED
    BY <1>4, <2>2 DEF SlotInv
<1> QED
  BY <1>3, <1>4 DEF EndAndRelease

LEMMA SlotStep ==
  ASSUME TypeInv, RunInv, SlotInv, [Next]_vars
  PROVE  SlotInv'
<1>1. Cardinality(Holders) \in Nat /\ free \in Nat /\ Limit \in Nat
  BY FS_CardinalityType, ResearchAssumption DEF SlotInv, TypeInv
<1>2. ASSUME Holders' = Holders, UNCHANGED free
      PROVE  SlotInv'
  BY <1>2 DEF SlotInv
<1>3. ASSUME NEW t \in Tasks, TaskMoves(t) \/ StepEnds(t)
      PROVE  SlotInv'
  <2>1. CASE StartStep(t)
    <3>1. task[t] \notin Holds
      BY <2>1 DEF StartStep, Holds
    <3>2. CASE task' = [task EXCEPT ![t] = "executing"] /\ free' = free - 1
      <4>1. "executing" \in Holds
        BY DEF Holds
      <4>2. /\ IsFiniteSet(Holders')
            /\ Cardinality(Holders') = Cardinality(Holders) + 1
        BY <3>1, <3>2, <4>1, HoldersGrow DEF SlotInv
      <4> QED
        BY <1>1, <3>2, <4>2 DEF SlotInv
    <3>3. CASE task' = [task EXCEPT ![t] = "waiting"] /\ UNCHANGED free
      BY <1>2, <3>1, <3>3 DEF Holders, Holds, TypeInv
    <3> QED
      BY <2>1, <3>2, <3>3 DEF StartStep
  <2>2. CASE ResumeStep(t)
    BY <1>2, <2>2 DEF ResumeStep, Holders, Holds, TypeInv
  <2>3. CASE StepEnds(t) \/ StepTimesOut(t)
    BY <2>3, ReleaseKeepsSlots DEF StepEnds, StepTimesOut, Ended, Holds
  <2>4. CASE StepCancelled(t)
    <3>1. CASE task[t] \in Holds
      BY <2>4, <3>1, ReleaseKeepsSlots DEF StepCancelled, Ended, Holds
    <3>2. CASE task[t] \notin Holds
      BY <1>2, <2>4, <3>2 DEF StepCancelled, Holders, Holds, TypeInv
    <3> QED
      BY <3>1, <3>2
  <2> QED
    BY <1>3, <2>1, <2>2, <2>3, <2>4 DEF TaskMoves
<1>4. ASSUME NEW r \in Runs,
             RunMoves(r) \/ Stream(r) \/ Execute(r) \/ Cancel(r)
      PROVE  SlotInv'
  <2>1. CASE StreamGathers(r) \/ Execute(r)
    <3>1. \A s \in Steps : task[<<r, s>>] \notin Holds
      BY <2>1 DEF StreamGathers, Execute, RunInv, Ended, Holds
    <3>2. \A t \in Tasks : t[1] = r => task[t] \notin Holds
      BY <3>1 DEF Tasks
    <3>3. /\ task' = [t \in Tasks |-> IF t[1] = r THEN "created" ELSE task[t]]
          /\ UNCHANGED free
      BY <2>1 DEF StreamGathers, Execute, Gather
    <3> QED
      BY <1>2, <3>2, <3>3 DEF Holders, Holds
  <2>2. CASE UNCHANGED <<task, free>>
    BY <1>2, <2>2 DEF Holders
  <2> QED
    BY <1>4, <2>1, <2>2
    DEF RunMoves, Stream, Cancel, TellStep, StreamCompletes, ExecuteReturns,
        Ends, Publish
<1>5. CASE UNCHANGED vars
  BY <1>2, <1>5 DEF vars, Holders
<1> QED
  BY <1>3, <1>4, <1>5 DEF Next

-----------------------------------------------------------------------------
(* The queue *)

\* The places before a gap and those after it do not meet.
LEMMA ShiftInjective ==
  ASSUME NEW i \in Int, NEW j \in Int, NEW l \in Int,
         (IF j < i THEN j ELSE j + 1) = (IF l < i THEN l ELSE l + 1)
  PROVE  j = l
OBVIOUS

\* Taking one task out of the queue leaves the others in it, each once.
LEMMA DequeueKeeps ==
  ASSUME TypeInv, QueueInv, NEW i \in DOMAIN queue,
         queue' = RemoveAt(queue, i),
         \A u \in Tasks : task[u] = "waiting" /\ u # queue[i]
                         => task'[u] = "waiting"
  PROVE  QueueInv'
<1>1. /\ queue \in Seq(Tasks) /\ i \in 1..Len(queue)
      /\ Len(queue) \in Nat
  BY DEF TypeInv
<1>2. /\ queue' \in Seq(Tasks) /\ Len(queue') = Len(queue) - 1
      /\ \A j \in 1..(Len(queue) - 1) :
           queue'[j] = IF j < i THEN queue[j] ELSE queue[j + 1]
  BY <1>1, RemoveAtFacts
<1>3. DOMAIN queue' = 1..(Len(queue) - 1) /\ DOMAIN queue = 1..Len(queue)
  BY <1>1, <1>2
<1>4. ASSUME NEW j \in DOMAIN queue'
      PROVE  \E k \in DOMAIN queue :
               /\ k # i /\ queue'[j] = queue[k]
               /\ k = IF j < i THEN j ELSE j + 1
  BY <1>1, <1>2, <1>3
<1>5. ASSUME NEW j \in DOMAIN queue' PROVE task'[queue'[j]] = "waiting"
  <2>1. PICK k \in DOMAIN queue : k # i /\ queue'[j] = queue[k]
    BY <1>4
  <2>2. queue[k] \in Tasks /\ task[queue[k]] = "waiting" /\ queue[k] # queue[i]
    BY <1>1, <1>3, <2>1 DEF QueueInv
  <2> QED
    BY <2>1, <2>2
<1>6. ASSUME NEW j \in DOMAIN queue', NEW l \in DOMAIN queue',
             queue'[j] = queue'[l]
      PROVE  j = l
  <2>1. PICK k \in DOMAIN queue :
          queue'[j] = queue[k] /\ k = IF j < i THEN j ELSE j + 1
    BY <1>4
  <2>2. PICK m \in DOMAIN queue :
          queue'[l] = queue[m] /\ m = IF l < i THEN l ELSE l + 1
    BY <1>4
  <2>3. (IF j < i THEN j ELSE j + 1) = (IF l < i THEN l ELSE l + 1)
    <3>1. queue[k] = queue[m]
      BY <1>6, <2>1, <2>2
    <3>2. k = m
      BY <3>1 DEF QueueInv
    <3> QED
      BY <2>1, <2>2, <3>2, Zenon
  <2>4. i \in Int /\ j \in Int /\ l \in Int
    BY <1>1, <1>3
  <2> QED
    BY <2>3, <2>4, ShiftInjective, Zenon
<1> QED
  BY <1>5, <1>6 DEF QueueInv

LEMMA ReleaseKeepsQueue ==
  ASSUME TypeInv, QueueInv, NEW t \in Tasks, task[t] \in Holds,
         NEW outcome \in Ended, EndAndRelease(t, outcome)
  PROVE  QueueInv'
<1>1. task[t] # "waiting"
  BY DEF Holds
<1>2. CASE task' = [task EXCEPT ![t] = outcome] /\ UNCHANGED queue
  BY <1>1, <1>2 DEF QueueInv, TypeInv
<1>3. ASSUME NEW i \in Waiters,
             task' = [task EXCEPT ![t] = outcome, ![queue[i]] = "woken"],
             queue' = RemoveAt(queue, i)
      PROVE  QueueInv'
  <2>1. i \in DOMAIN queue
    BY DEF Waiters
  <2>2. \A u \in Tasks : task[u] = "waiting" /\ u # queue[i]
                         => task'[u] = "waiting"
    BY <1>1, <1>3 DEF TypeInv
  <2> QED
    BY <1>3, <2>1, <2>2, DequeueKeeps
<1> QED
  BY <1>2, <1>3 DEF EndAndRelease

LEMMA QueueStep ==
  ASSUME TypeInv, RunInv, QueueInv, [Next]_vars
  PROVE  QueueInv'
<1>1. queue \in Seq(Tasks) /\ \A i \in DOMAIN queue : queue[i] \in Tasks
  BY DEF TypeInv
<1>2. ASSUME UNCHANGED queue,
             \A u \in Tasks : task[u] = "waiting" => task'[u] = "waiting"
      PROVE  QueueInv'
  BY <1>1, <1>2 DEF QueueInv
<1>3. ASSUME NEW t \in Tasks, TaskMoves(t) \/ StepEnds(t)
      PROVE  QueueInv'
  <2>1. CASE StartStep(t)
    <3>1. task[t] = "created"
      BY <2>1 DEF StartStep
    <3>2. CASE UNCHANGED queue
      BY <1>2, <2>1, <3>1, <3>2 DEF StartStep, TypeInv
    <3>3. CASE /\ queue' = Append(queue, t)
               /\ task' = [task EXCEPT ![t] = "waiting"]
      <4>1. /\ DOMAIN queue' = 1..(Len(queue) + 1)
            /\ DOMAIN queue = 1..Len(queue) /\ Len(queue) \in Nat
            /\ \A i \in 1..Len(queue) : queue'[i] = queue[i]
            /\ queue'[Len(queue) + 1] = t
        BY <1>1, <3>3
      <4>2. \A i \in DOMAIN queue : queue[i] # t
        BY <3>1 DEF QueueInv
      <4> QED
        BY <1>1, <3>3, <4>1, <4>2 DEF QueueInv, TypeInv
    <3> QED
      BY <2>1, <3>2, <3>3 DEF StartStep
  <2>2. CASE ResumeStep(t)
    BY <1>2, <2>2 DEF ResumeStep, TypeInv
  <2>3. CASE StepEnds(t) \/ StepTimesOut(t)
    BY <2>3, ReleaseKeepsQueue DEF StepEnds, StepTimesOut, Ended, Holds
  <2>4. CASE StepCancelled(t)
    <3>1. CASE task[t] \in Holds
      BY <2>4, <3>1, ReleaseKeepsQueue DEF StepCancelled, Ended, Holds
    <3>2. CASE task[t] = "waiting"
      <4>1. PICK i \in DOMAIN queue :
              queue[i] = t /\ queue' = RemoveAt(queue, i)
        BY <2>4, <3>2 DEF StepCancelled, Holds
      <4>2. \A u \in Tasks : task[u] = "waiting" /\ u # queue[i]
                             => task'[u] = "waiting"
        BY <2>4, <3>2, <4>1 DEF StepCancelled, Holds, TypeInv
      <4> QED
        BY <4>1, <4>2, DequeueKeeps
    <3>3. CASE task[t] = "created"
      BY <1>2, <2>4, <3>3 DEF StepCancelled, Holds, TypeInv
    <3> QED
      BY <2>4, <3>1, <3>2, <3>3 DEF StepCancelled
  <2> QED
    BY <1>3, <2>1, <2>2, <2>3, <2>4 DEF TaskMoves
<1>4. ASSUME NEW r \in Runs,
             RunMoves(r) \/ Stream(r) \/ Execute(r) \/ Cancel(r)
      PROVE  QueueInv'
  <2>1. CASE StreamGathers(r) \/ Execute(r)
    <3>1. \A s \in Steps : task[<<r, s>>] # "waiting"
      BY <2>1 DEF StreamGathers, Execute, RunInv, Ended
    <3>2. \A t \in Tasks : t[1] = r => task[t] # "waiting"
      BY <3>1 DEF Tasks
    <3>3. /\ task' = [t \in Tasks |-> IF t[1] = r THEN "created" ELSE task[t]]
          /\ UNCHANGED queue
      BY <2>1 DEF StreamGathers, Execute, Gather
    <3> QED
      BY <1>2, <3>2, <3>3
  <2>2. CASE UNCHANGED <<task, queue>>
    BY <1>2, <2>2
  <2> QED
    BY <1>4, <2>1, <2>2
    DEF RunMoves, Stream, Cancel, TellStep, StreamCompletes, ExecuteReturns,
        Ends, Publish
<1>5. CASE UNCHANGED vars
  BY <1>2, <1>5 DEF vars
<1> QED
  BY <1>3, <1>4, <1>5 DEF Next

-----------------------------------------------------------------------------
(* Theorems *)

LEMMA Invariants ==
  Spec => [](TypeInv /\ RunInv /\ SlotInv /\ QueueInv)
<1> DEFINE Inv == TypeInv /\ RunInv /\ SlotInv /\ QueueInv
<1>1. Init => Inv
  <2> SUFFICES ASSUME Init PROVE Inv
    OBVIOUS
  <2>1. Holders = {}
    BY DEF Init, Holders, Holds
  <2>2. SlotInv
    BY <2>1, FS_EmptySet, ResearchAssumption DEF Init, SlotInv
  <2>3. TypeInv
    BY ResearchAssumption
    DEF Init, TypeInv, Idle, RunRecords, TaskStates, Bundles
  <2>4. RunInv
    BY DEF Init, RunInv, Idle, Tasks, Ended
  <2>5. QueueInv
    BY DEF Init, QueueInv
  <2> QED
    BY <2>2, <2>3, <2>4, <2>5
<1>2. Inv /\ [Next]_vars => Inv'
  BY TypeStep, RunStep, SlotStep, QueueStep
<1> QED
  BY <1>1, <1>2, PTL DEF Spec

\* Every variable keeps its type; in particular the semaphore never counts
\* more free slots than it began with.
THEOREM ResearchTypeCorrect == Spec => []TypeOK
<1>1. TypeInv /\ SlotInv => TypeOK
  BY FS_CardinalityType, ResearchAssumption DEF TypeInv, SlotInv, TypeOK
<1> QED
  BY <1>1, Invariants, PTL

\* The limit on concurrent research steps holds over all sessions, for any
\* limit, number of steps and number of runs, whatever is cancelled.
THEOREM AtMostLimitHolds == Spec => []AtMostLimit
<1>1. ASSUME TypeInv, SlotInv PROVE AtMostLimit
  <2> DEFINE Busy == {t \in Tasks : task[t] = "executing"}
  <2>1. Busy \in SUBSET Holders
    BY DEF Holders, Holds
  <2>2. IsFiniteSet(Busy) /\ Cardinality(Busy) <= Cardinality(Holders)
    BY <1>1, <2>1, FS_Subset DEF SlotInv
  <2>3. Cardinality(Busy) \in Nat /\ Cardinality(Holders) \in Nat
    BY <1>1, <2>2, FS_CardinalityType DEF SlotInv
  <2>4. Cardinality(Holders) <= Limit
    BY <1>1, <2>3, ResearchAssumption DEF SlotInv, TypeInv
  <2> QED
    BY <2>2, <2>3, <2>4, ResearchAssumption DEF AtMostLimit
<1> QED
  BY <1>1, Invariants, PTL

\* A run that is over has no task that works, holds a slot or waits for one.
THEOREM LeavesNothingHolds == Spec => []LeavesNothing
<1>1. ASSUME TypeInv, RunInv, QueueInv PROVE LeavesNothing
  BY <1>1 DEF RunInv, QueueInv, LeavesNothing, Ended, Tasks
<1> QED
  BY <1>1, Invariants, PTL

\* What a run publishes is exactly what succeeded, once all its steps ended.
THEOREM BundlesHoldWhatSucceeded == Spec => BundleIsWhatSucceeded
<1> DEFINE Exact ==
      \A r \in Runs :
        run'[r].pc = "complete" /\ run[r].pc # "complete"
        => /\ \A s \in Steps : task[<<r, s>>] \in Ended
           /\ lastBundle' = [run |-> r, results |-> Succeeded(r)]
<1>1. ASSUME TypeInv, RunInv, [Next]_vars PROVE Exact
  <2>1. ASSUME NEW r \in Runs,
               run'[r].pc = "complete", run[r].pc # "complete"
        PROVE  /\ \A s \in Steps : task[<<r, s>>] \in Ended
               /\ lastBundle' = [run |-> r, results |-> Succeeded(r)]
    <3>1. StreamCompletes(r) \/ ExecuteReturns(r)
      <4>1. ASSUME NEW t \in Tasks, TaskMoves(t) \/ StepEnds(t) PROVE FALSE
        BY <1>1, <2>1, <4>1, EndedTasksStay
      <4>2. ASSUME NEW q \in Runs, Stream(q) \/ Cancel(q) PROVE FALSE
        BY <1>1, <2>1, <4>2 DEF Stream, Cancel, TypeInv, RunRecords, Idle
      <4>3. ASSUME NEW q \in Runs, Execute(q) \/ StreamGathers(q)
            PROVE  FALSE
        BY <1>1, <2>1, <4>3
        DEF Execute, StreamGathers, Gather, TypeInv, RunRecords
      <4>4. ASSUME NEW q \in Runs, TellStep(q) \/ Ends(q) PROVE FALSE
        <5>1. CASE TellStep(q)
          <6>1. q # r => run'[r] = run[r]
            BY <1>1, <5>1 DEF TellStep, TypeInv
          <6>2. run'[q].pc = "telling"
            BY <1>1, <5>1 DEF TellStep, TypeInv, RunRecords
          <6> QED
            BY <2>1, <6>1, <6>2
        <5>2. CASE Ends(q)
          BY <1>1, <2>1, <5>2 DEF Ends, TypeInv, Idle
        <5> QED
          BY <4>4, <5>1, <5>2
      <4>5. ASSUME NEW q \in Runs, StreamCompletes(q) \/ ExecuteReturns(q)
            PROVE  q = r
        BY <1>1, <2>1, <4>5
        DEF StreamCompletes, ExecuteReturns, Publish, TypeInv, RunRecords
      <4> QED
        BY <1>1, <2>1, <4>1, <4>2, <4>3, <4>4, <4>5 DEF Next, RunMoves, vars
    <3>2. \A s \in Steps : task[<<r, s>>] \in Ended
      BY <1>1, <3>1
      DEF StreamCompletes, ExecuteReturns, Continues, Gathered, RunInv
    <3>3. CASE ExecuteReturns(r)
      BY <3>2, <3>3 DEF ExecuteReturns, Publish
    <3>4. CASE StreamCompletes(r)
      <4>1. run[r].results = Succeeded(r) \cap 1..run[r].told
        BY <1>1, <3>4, ResearchAssumption
        DEF StreamCompletes, Continues, Gathered, RunInv
      <4>2. run[r].results = Succeeded(r)
        BY <3>4, <4>1 DEF StreamCompletes, Succeeded, Steps
      <4> QED
        BY <3>2, <3>4, <4>2 DEF StreamCompletes, Publish
    <3> QED
      BY <3>1, <3>3, <3>4
  <2> QED
    BY <2>1
<1>2. TypeInv /\ RunInv /\ [Next]_vars => [Exact]_vars
  BY <1>1
<1> QED
  BY <1>2, Invariants, PTL DEF Spec, BundleIsWhatSucceeded

-----------------------------------------------------------------------------
(* Refinement *)

LEMMA PhaseStep ==
  ASSUME TypeInv, RunInv, [Next]_vars
  PROVE  [Phase!PhaseNext]_(Phase!phaseVars)
<1> DEFINE ph == [q \in Runs |-> PhaseOf(q)]
<1>1. ASSUME NEW r \in Runs, run' = [run EXCEPT ![r] = run'[r]]
      PROVE  ph' = [ph EXCEPT ![r] = PhaseOf(r)']
  BY <1>1 DEF PhaseOf, TypeInv
<1>2. ASSUME UNCHANGED <<run, lastBundle>>
      PROVE  UNCHANGED Phase!phaseVars
  BY <1>2 DEF Phase!phaseVars, PhaseOf
<1>3. ASSUME NEW t \in Tasks, TaskMoves(t) \/ StepEnds(t)
      PROVE  UNCHANGED Phase!phaseVars
  BY <1>2, <1>3, EndedTasksStay
<1>4. ASSUME NEW r \in Runs,
             RunMoves(r) \/ Stream(r) \/ Execute(r) \/ Cancel(r)
      PROVE  [Phase!PhaseNext]_(Phase!phaseVars)
  <2>1. run[r] \in RunRecords
    BY DEF TypeInv
  <2>2. ph[r] = PhaseOf(r)
    OBVIOUS
  <2>3. CASE Stream(r) \/ Execute(r)
    <3>1. run[r].pc = "idle" /\ ~ run[r].cancelled /\ UNCHANGED lastBundle
      BY <2>3 DEF Stream, Execute, Gather, RunInv
    <3>2. /\ run' = [run EXCEPT ![r] = run'[r]]
          /\ run'[r].pc \in {"started", "gathering"} /\ ~ run'[r].cancelled
      <4>1. CASE Stream(r)
        BY <2>1, <3>1, <4>1 DEF Stream, TypeInv, RunRecords
      <4>2. CASE Execute(r)
        BY <2>1, <3>1, <4>2 DEF Execute, Gather, TypeInv, RunRecords
      <4> QED
        BY <2>3, <4>1, <4>2
    <3>3. PhaseOf(r) = "none" /\ PhaseOf(r)' = "open"
      BY <3>1, <3>2 DEF PhaseOf
    <3>4. Phase!Start(r)
      BY <1>1, <2>2, <3>1, <3>2, <3>3 DEF Phase!Start
    <3> QED
      BY <3>4 DEF Phase!PhaseNext
  <2>4. CASE StreamGathers(r) \/ TellStep(r)
    <3>1. /\ run[r].pc \in {"started", "gathering", "telling"}
          /\ ~ run[r].cancelled /\ UNCHANGED lastBundle
      BY <2>4
      DEF StreamGathers, TellStep, Continues, Gathered, Gather, RunInv
    <3>2. /\ run' = [run EXCEPT ![r] = run'[r]]
          /\ run'[r].pc \in {"gathering", "telling"} /\ ~ run'[r].cancelled
      BY <2>1, <2>4, <3>1
      DEF StreamGathers, TellStep, Gather, TypeInv, RunRecords
    <3>3. PhaseOf(r) = "open" /\ PhaseOf(r)' = "open"
      BY <3>1, <3>2 DEF PhaseOf
    <3> QED
      BY <1>1, <2>2, <3>1, <3>2, <3>3 DEF Phase!phaseVars
  <2>5. CASE StreamCompletes(r) \/ ExecuteReturns(r)
    <3>1. run[r].pc \in {"gathering", "telling"} /\ ~ run[r].cancelled
      BY <2>5 DEF StreamCompletes, ExecuteReturns, Continues, Gathered, RunInv
    <3>2. PICK results : Publish(r, results)
      BY <2>5 DEF StreamCompletes, ExecuteReturns
    <3>3. /\ run' = [run EXCEPT ![r] = run'[r]]
          /\ run'[r].pc = "complete" /\ ~ run'[r].cancelled
      BY <2>1, <3>1, <3>2 DEF Publish, TypeInv, RunRecords
    <3>5. PhaseOf(r) = "open" /\ PhaseOf(r)' = "published"
      BY <3>1, <3>3 DEF PhaseOf
    <3>6. lastBundle'.run = r
      BY <3>2 DEF Publish
    <3>7. Phase!Publish(r)
      BY <1>1, <2>2, <3>3, <3>5, <3>6 DEF Phase!Publish
    <3> QED
      BY <3>7 DEF Phase!PhaseNext
  <2>6. CASE Ends(r) \/ Cancel(r)
    <3>1. /\ run' = [run EXCEPT ![r] = run'[r]]
          /\ run'[r].pc = "idle" \/ run'[r].cancelled
      BY <2>1, <2>6 DEF Ends, Cancel, TypeInv, Idle, RunRecords
    <3>2. PhaseOf(r)' = "none" /\ UNCHANGED lastBundle
      BY <2>6, <3>1 DEF PhaseOf, Ends, Cancel
    <3>3. CASE PhaseOf(r) = "none"
      BY <1>1, <2>2, <3>1, <3>2, <3>3 DEF Phase!phaseVars
    <3>4. CASE PhaseOf(r) # "none"
      <4>1. Phase!Leave(r)
        BY <1>1, <2>2, <3>1, <3>2, <3>4 DEF Phase!Leave
      <4> QED
        BY <4>1 DEF Phase!PhaseNext
    <3> QED
      BY <3>3, <3>4
  <2> QED
    BY <1>4, <2>3, <2>4, <2>5, <2>6 DEF RunMoves
<1>5. CASE UNCHANGED vars
  BY <1>2, <1>5 DEF vars
<1> QED
  BY <1>3, <1>4, <1>5 DEF Next

\* The brief pipeline may treat research as one step that publishes a bundle
\* or, if the run is left before, does nothing.
THEOREM ResearchIsOneStep == Spec => PublishesInOneStep
<1>1. Init => Phase!PhaseInit
  BY DEF Init, Phase!PhaseInit, PhaseOf, Idle, NoBundle
<1>2. TypeInv /\ RunInv /\ [Next]_vars => [Phase!PhaseNext]_(Phase!phaseVars)
  BY PhaseStep
<1> QED
  BY <1>1, <1>2, Invariants, PTL DEF Spec, PublishesInOneStep, Phase!PhaseSpec

=============================================================================
