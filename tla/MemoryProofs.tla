---------------------------- MODULE MemoryProofs ----------------------------
(***************************************************************************)
(* Theorems about the pipeline over memory (InMemoryStorageAdapter), for   *)
(* every journey, every set of sessions and requests and every combination *)
(* of faults: the endpoint implements its contract, nothing the user has   *)
(* said is lost, and briefs are written from intake data that passed a     *)
(* check.  The last part is about the pipeline over files: as long as      *)
(* requests come one at a time it refines the pipeline over memory.        *)
(***************************************************************************)
EXTENDS BriefPipelineProofs, FilesRefineMemory

-----------------------------------------------------------------------------
(* The pipeline endpoint implements its contract.                          *)
\* r runs for the endpoint in session s and has delivered its brief.
Spent(r, s) ==
  /\ Holding(r) /\ req[r].session = s
  /\ req[r].pc \in {"delivering", "completed"}

LEMMA RunStateOf ==
  ASSUME NEW s \in Sessions
  PROVE  RunState(s) = IF s \notin locked THEN "none"
                       ELSE IF \E r \in Requests : Spent(r, s) THEN "spent"
                       ELSE "open"
BY DEF RunState, Spent

\* A step of r that neither locks nor delivers leaves the contract's state.
LEMMA RunFrame ==
  ASSUME NEW r \in Requests, NEW s \in Sessions,
         \A q \in Requests : q # r => req'[q] = req[q],
         Spent(r, s)' <=> Spent(r, s), s \in locked' <=> s \in locked
  PROVE  RunState(s)' = RunState(s)
<1>1. \A q \in Requests : Spent(q, s)' <=> Spent(q, s)
  BY DEF Spent, Holding
<1> QED
  BY <1>1 DEF RunState, Spent

\* Only one run holds the lock of a session, so if r has delivered nothing,
\* nobody has.
LEMMA NotSpent ==
  ASSUME LockInv, NEW r \in Requests, Holding(r),
         req[r].pc \notin {"delivering", "completed"}
  PROVE  RunState(req[r].session) = "open"
<1>1. req[r].session \in locked
  BY DEF LockInv
<1>2. \A q \in Requests : ~ Spent(q, req[r].session)
  BY DEF LockInv, ExclusiveRuns, Spent
<1> QED
  BY <1>1, <1>2 DEF RunState, Spent

-----------------------------------------------------------------------------
(* A run that has yet to deliver finds no brief of another run *)

Undelivered == {"granted", "researching", "researched", "synthesizing"}

LEMMA ContractInvInit == Init => ContractInv
BY IdleType, Sentinels DEF Init, ContractInv, Holding, Running

\* A step of r that stores no brief keeps ContractInv if it starts no run.
LEMMA ContractInvFrame ==
  ASSUME ContractInv, NEW r \in Requests, brief' = brief,
         \A q \in Requests : q # r => req'[q] = req[q],
         req'[r].pc # "brief_unreadable",
         Holding(r)' /\ req'[r].pc \in Undelivered
         => /\ Holding(r) /\ req[r].pc \in Undelivered
            /\ req'[r].session = req[r].session
  PROVE  ContractInv'
BY DEF ContractInv, Undelivered, BriefHolder, Holding

LEMMA ContractInvStep ==
  ASSUME ~ FileBacked, TypeInv, LockInv, ContractInv, [Next]_vars
  PROVE  ContractInv'
<1> USE IdleType
<1>0. ASSUME NEW r \in Requests
      PROVE  req[r] \in RequestRecords /\ req[r].saving = "no" /\ Placed(r)
  BY DEF TypeInv, TypeOK, WellFormed, LockInv
<1>1. CASE req' = req /\ brief' = brief
  BY <1>1 DEF ContractInv, BriefHolder, Holding
<1>2. ASSUME NEW r \in Requests, NEW s \in Sessions,
             ReceiveMessage(r, s) \/ LookUpSession(r, s)
      PROVE  ContractInv'
  <2>1. PICK pc \in {"extracting", "looked_up"},
             kind \in {"message", "pipeline"} :
               req' = [req EXCEPT ![r] = [Idle EXCEPT
                         !.pc = pc, !.kind = kind, !.session = s,
                         !.copy = IF FileBacked THEN store[s] ELSE None]]
    BY <1>2 DEF ReceiveMessage, LookUpSession
  <2>2. brief' = brief
    BY <1>2 DEF ReceiveMessage, LookUpSession
  <2>3. /\ \A q \in Requests : q # r => req'[q] = req[q]
        /\ req'[r].pc \in {"extracting", "looked_up"}
    BY <2>1 DEF TypeInv, TypeOK, RequestRecords
  <2> QED
    BY <2>2, <2>3, ContractInvFrame DEF Undelivered
<1>3. ASSUME NEW r \in Requests,
             \/ ExtractionFails(r) \/ ContinueAfterIntake(r)
             \/ \E found \in SUBSET Fields : ExtractionReturns(r, found)
      PROVE  ContractInv'
  <2>1. req[r].pc \in {"extracting", "intake_complete"} /\ brief' = brief
    BY <1>3 DEF ExtractionFails, ExtractionReturns, ContinueAfterIntake, At
  <2>2. Moves(r, {"intake_complete", "replying", "researching"})
    BY <1>3, RequestMoves DEF Moves
  <2>3. ~ Holding(r)'
    BY <1>0, <2>1, <2>2 DEF Moves, Placed, Holding
  <2> QED
    BY <2>1, <2>2, <2>3, ContractInvFrame DEF Moves
<1>4. ASSUME NEW r \in Requests, LookUpBrief(r) \/ BriefUnreadable(r)
      PROVE  ContractInv'
  <2>1. LookUpBrief(r) /\ brief[req[r].session] \notin {Truncated, Corrupt}
    BY <1>0, <1>4 DEF ContractInv, BriefUnreadable, At, RequestRecords
  <2>2. /\ Moves(r, {"busy", "granted", "brief_unreadable", "brief_found"})
        /\ brief' = brief
    BY <1>4, <2>1, RequestMoves DEF LookUpBrief
  <2>3. req'[r].pc # "brief_unreadable"
    BY <1>0, <2>1 DEF LookUpBrief, TryLock, TypeInv, TypeOK, RequestRecords
  <2>4. CASE req'[r].pc # "granted"
    BY <2>2, <2>3, <2>4, ContractInvFrame DEF Moves, Undelivered
  <2>5. CASE req'[r].pc = "granted"
    <3>1. brief[req[r].session] \notin BriefRecords
      BY <1>0, <2>1, <2>5, Sentinels
      DEF LookUpBrief, TryLock, TypeInv, TypeOK, RequestRecords
    <3> QED
      BY <2>2, <2>3, <3>1 DEF Moves, ContractInv, BriefHolder, Holding
  <2> QED
    BY <2>4, <2>5
<1>5. ASSUME NEW r \in Requests,
             \/ StartRun(r) \/ ResearchEnds(r) \/ TakeBundle(r)
             \/ SynthesisFails(r) \/ Complete(r)
      PROVE  ContractInv'
  <2>1. /\ req[r].pc \in Running /\ brief' = brief
        /\ req[r].pc \in Undelivered \cup {"delivering"}
        /\ req[r].pc = "delivering" => Complete(r)
    BY <1>5 DEF StartRun, ResearchEnds, TakeBundle, SynthesisFails, Complete,
       At, Running, Undelivered
  <2>2. Moves(r, {"researching", "not_ready", "researched", "synthesizing",
                  "synthesis_failed", "completed"})
    BY <1>5, RequestMoves DEF Moves
  <2>3. Complete(r) => req'[r].pc = "completed"
    BY RequestMoves DEF Moves
  <2>4. Holding(r)' /\ req'[r].pc \in Undelivered
        => /\ Holding(r) /\ req[r].pc \in Undelivered
           /\ req'[r].session = req[r].session
    BY <2>1, <2>2, <2>3 DEF Moves, Holding, Undelivered
  <2> QED
    BY <2>1, <2>2, <2>4, ContractInvFrame DEF Moves
<1>6. ASSUME NEW r \in Requests, SynthesisReturns(r) PROVE ContractInv'
  <2>1. /\ Moves(r, {"delivering"}) /\ req[r].pc = "synthesizing"
        /\ brief' = [brief EXCEPT ![req[r].session] = Synthesized(r)]
    BY <1>6, RequestMoves DEF SynthesisReturns, At
  <2>0. Synthesized(r) \in BriefRecords
    BY <1>0, <2>1 DEF TypeInv, WellFormed, Synthesized, BriefRecords,
       RequestRecords
  <2>2. SUFFICES ASSUME NEW q \in Requests, Holding(q)',
                        req'[q].pc \in Undelivered
                 PROVE  ~ /\ brief'[req'[q].session] \in BriefRecords
                          /\ brief'[req'[q].session].by = "pipeline"
    <3>1. /\ \A s \in Sessions : brief'[s] \notin {Truncated, Corrupt}
          /\ \A q \in Requests : req'[q].pc # "brief_unreadable"
      BY <1>0, <2>1, <2>0, Sentinels
      DEF ContractInv, Moves, TypeInv, TypeOK
    <3> QED
      BY <3>1 DEF ContractInv, Undelivered, BriefHolder
  <2>3. q # r
    BY <2>1, <2>2 DEF Moves, Undelivered
  <2>4. req'[q] = req[q] /\ Holding(q) /\ req[q].session \in Sessions
    BY <1>0, <2>1, <2>2, <2>3 DEF Moves, Holding, RequestRecords
  <2>5. BriefHolder(req[q].session) # "pipeline"
    BY <2>2, <2>4 DEF ContractInv, Undelivered
  <2>6. CASE req[q].session = req[r].session
    <3>1. req[r].kind = "message"
      BY <1>0, <2>1, <2>3, <2>4, <2>6
      DEF LockInv, ExclusiveRuns, Holding, Running, RequestRecords
    <3>2. brief'[req[q].session] = Synthesized(r)
      BY <2>1, <2>4, <2>6 DEF TypeInv, TypeOK
    <3>3. Synthesized(r).by = "message"
      BY <3>1 DEF Synthesized
    <3> QED
      BY <2>4, <3>2, <3>3 DEF BriefHolder
  <2>7. CASE req[q].session # req[r].session
    <3>1. brief'[req[q].session] = brief[req[q].session]
      BY <2>1, <2>4, <2>7 DEF TypeInv, TypeOK
    <3> QED
      BY <2>4, <2>5, <3>1 DEF BriefHolder
  <2> QED
    BY <2>6, <2>7
<1>7. ASSUME NEW r \in Requests, OpenFile(r) \/ WriteFile(r) \/ DiskError(r)
      PROVE  FALSE
  BY <1>0, <1>7 DEF OpenFile, WriteFile, DiskError
<1>8. ASSUME NEW r \in Requests, Finish(r) \/ Disconnect(r)
      PROVE  ContractInv'
  <2>1. Leaves(r) /\ brief' = brief
    BY <1>8, RequestMoves DEF Finish, Disconnect
  <2> QED
    BY <2>1, ContractInvFrame DEF Leaves, Undelivered
<1>9. CASE Crash
  BY <1>9, Sentinels DEF Crash, ContractInv, Holding, Running
<1> QED
  BY <1>1, <1>2, <1>3, <1>4, <1>5, <1>6, <1>7, <1>8, <1>9
  DEF Next, Serve, CreateSession, vars

-----------------------------------------------------------------------------
(* Every step is a step of the contract or none *)

\* The contract's variables, read off the state.
AbstractRun == [s \in Sessions |-> RunState(s)]
AbstractHolder == [s \in Sessions |-> BriefHolder(s)]

LEMMA SimulationInit == Init => Contract!ContractInit
BY Sentinels DEF Init, Contract!ContractInit, RunState, BriefHolder

\* A step of r that changes the lock and the run of no session but its own,
\* and no brief, changes only its own run in the contract.
LEMMA OwnRun ==
  ASSUME NEW r \in Requests, NEW here \in Sessions, brief' = brief,
         \A q \in Requests : q # r => req'[q] = req[q],
         \A s \in Sessions \ {here} :
           (Spent(r, s)' <=> Spent(r, s)) /\ (s \in locked' <=> s \in locked)
  PROVE  /\ AbstractRun' = [AbstractRun EXCEPT ![here] = RunState(here)']
         /\ AbstractHolder' = AbstractHolder
<1>1. \A s \in Sessions \ {here} : RunState(s)' = RunState(s)
  BY RunFrame
<1> QED
  BY <1>1 DEF AbstractRun, AbstractHolder, BriefHolder

\* The same for a step that leaves its own run too.
LEMMA NoRun ==
  ASSUME NEW r \in Requests, brief' = brief, locked' = locked,
         \A q \in Requests : q # r => req'[q] = req[q],
         \A s \in Sessions : Spent(r, s)' <=> Spent(r, s)
  PROVE  UNCHANGED <<AbstractRun, AbstractHolder>>
<1>1. \A s \in Sessions : RunState(s)' = RunState(s)
  BY RunFrame
<1> QED
  BY <1>1 DEF AbstractRun, AbstractHolder, BriefHolder

LEMMA SimulationStep ==
  ASSUME ~ FileBacked, TypeInv, LockInv, ContractInv, [Next]_vars
  PROVE  [Contract!ContractNext]_(Contract!contractVars)
<1> DEFINE Abs == Contract!ContractNext \/ UNCHANGED <<AbstractRun, AbstractHolder>>
<1> SUFFICES Abs
  BY DEF Contract!contractVars, AbstractRun, AbstractHolder
<1> USE IdleType
<1>0. ASSUME NEW r \in Requests
      PROVE  /\ req[r] \in RequestRecords /\ req[r].saving = "no"
             /\ req[r].session \in Sessions /\ Placed(r)
  BY DEF TypeInv, TypeOK, WellFormed, LockInv, RequestRecords
<1>1. CASE req' = req /\ brief' = brief /\ locked' = locked
  BY <1>1 DEF AbstractRun, AbstractHolder, RunState, BriefHolder, Holding
<1>2. ASSUME NEW r \in Requests, NEW s \in Sessions,
             ReceiveMessage(r, s) \/ LookUpSession(r, s)
      PROVE  Abs
  <2>1. PICK pc \in {"extracting", "looked_up"},
             kind \in {"message", "pipeline"} :
               req' = [req EXCEPT ![r] = [Idle EXCEPT
                         !.pc = pc, !.kind = kind, !.session = s,
                         !.copy = IF FileBacked THEN store[s] ELSE None]]
    BY <1>2 DEF ReceiveMessage, LookUpSession
  <2>2. /\ req[r].pc = "idle" /\ brief' = brief /\ locked' = locked
        /\ \A q \in Requests : q # r => req'[q] = req[q]
        /\ req'[r].pc \in {"extracting", "looked_up"}
    BY <1>2, <2>1 DEF ReceiveMessage, LookUpSession, At, TypeInv, TypeOK,
       RequestRecords
  <2>3. \A t \in Sessions : ~ Spent(r, t)' /\ ~ Spent(r, t)
    BY <2>2 DEF Spent
  <2> QED
    BY <2>2, <2>3, NoRun
<1>3. ASSUME NEW r \in Requests,
             \/ ExtractionFails(r) \/ ContinueAfterIntake(r) \/ StartRun(r)
             \/ ResearchEnds(r) \/ TakeBundle(r) \/ SynthesisFails(r)
             \/ \E found \in SUBSET Fields : ExtractionReturns(r, found)
      PROVE  Abs
  <2>1. /\ req[r].pc \notin {"delivering", "completed"}
        /\ brief' = brief /\ locked' = locked
    BY <1>3 DEF ExtractionFails, ContinueAfterIntake, StartRun, ResearchEnds,
       TakeBundle, SynthesisFails, ExtractionReturns, At
  <2>2. Moves(r, {"intake_complete", "replying", "researching", "not_ready",
                  "researched", "synthesizing", "synthesis_failed"})
    BY <1>3, RequestMoves DEF Moves
  <2>3. \A t \in Sessions : ~ Spent(r, t)' /\ ~ Spent(r, t)
    BY <2>1, <2>2 DEF Spent, Moves
  <2> QED
    BY <2>1, <2>2, <2>3, NoRun DEF Moves
<1>4. ASSUME NEW r \in Requests, Complete(r) PROVE Abs
  <2>1. req[r].pc = "delivering" /\ brief' = brief /\ locked' = locked
    BY <1>4 DEF Complete, At
  <2>2. Moves(r, {"completed"})
    BY <1>4, RequestMoves
  <2>3. \A t \in Sessions : Spent(r, t)' <=> Spent(r, t)
    BY <2>1, <2>2 DEF Spent, Moves, Holding, Running
  <2> QED
    BY <2>1, <2>2, <2>3, NoRun DEF Moves
<1>5. ASSUME NEW r \in Requests, LookUpBrief(r) \/ BriefUnreadable(r)
      PROVE  Abs
  <2>0. PICK here \in Sessions : here = req[r].session
    BY <1>0
  <2>1. /\ LookUpBrief(r) /\ req[r].pc = "looked_up" /\ brief' = brief
        /\ brief[here] \notin {Truncated, Corrupt}
    BY <1>0, <1>5 DEF ContractInv, LookUpBrief, BriefUnreadable, At,
       RequestRecords
  <2>2. Moves(r, {"busy", "granted", "brief_unreadable", "brief_found"})
    BY <1>5, RequestMoves
  <2>3. \A t \in Sessions : ~ Spent(r, t)' /\ ~ Spent(r, t)
    BY <2>1, <2>2 DEF Spent, Moves
  <2>4. CASE TryLock(r) /\ here \notin locked /\ brief[here] = None
    <3>1. locked' = locked \cup {here}
      BY <2>0, <2>4 DEF TryLock
    <3>2. /\ AbstractRun' = [AbstractRun EXCEPT ![here] = RunState(here)']
          /\ AbstractHolder' = AbstractHolder
      BY <1>0, <2>1, <2>2, <2>3, <3>1, OwnRun DEF Moves
    <3>3. RunState(here) = "none" /\ BriefHolder(here) = "none"
      BY <2>4, Sentinels DEF RunState, BriefHolder
    <3>4. \A q \in Requests : ~ Spent(q, here)'
      BY <2>2, <2>3, <2>4, <1>0 DEF Moves, Spent, Holding, LockInv
    <3>5. RunState(here)' = "open"
      BY <3>1, <3>4 DEF RunState, Spent
    <3>6. Contract!Start(here)
      BY <1>0, <3>2, <3>3, <3>5
      DEF Contract!Start, AbstractRun, AbstractHolder
    <3> QED
      BY <1>0, <3>6 DEF Contract!ContractNext
  <2>5. CASE ~ (TryLock(r) /\ here \notin locked /\ brief[here] = None)
    <3>1. locked' = locked
      BY <2>0, <2>1, <2>5, Sentinels DEF LookUpBrief, TryLock
    <3> QED
      BY <2>1, <2>2, <2>3, <3>1, NoRun DEF Moves
  <2> QED
    BY <2>4, <2>5
<1>6. ASSUME NEW r \in Requests, SynthesisReturns(r) PROVE Abs
  <2>0. PICK here \in Sessions : here = req[r].session
    BY <1>0
  <2>1. /\ req[r].pc = "synthesizing" /\ locked' = locked
        /\ brief' = [brief EXCEPT ![here] = Synthesized(r)]
    BY <1>6, <2>0 DEF SynthesisReturns, At
  <2>2. Moves(r, {"delivering"})
    BY <1>6, RequestMoves
  <2>3. /\ Synthesized(r) \in BriefRecords
        /\ Synthesized(r).by = req[r].kind
    BY <1>0, <2>1 DEF TypeInv, WellFormed, Synthesized, BriefRecords,
       RequestRecords
  <2>4. AbstractHolder' = [AbstractHolder EXCEPT ![here] = req[r].kind]
    BY <1>0, <2>1, <2>3 DEF AbstractHolder, BriefHolder, TypeInv, TypeOK
  <2>5. \A t \in Sessions : ~ Spent(r, t)
    BY <2>1 DEF Spent
  <2>6. CASE req[r].kind = "message"
    <3>1. \A t \in Sessions : ~ Spent(r, t)'
      BY <2>2, <2>6 DEF Moves, Spent, Holding
    <3>2. \A t \in Sessions : RunState(t)' = RunState(t)
      BY <2>1, <2>2, <2>5, <3>1, RunFrame DEF Moves
    <3>3. AbstractRun' = AbstractRun
      BY <3>2 DEF AbstractRun
    <3>4. Contract!MessageDelivers(here)
      BY <2>4, <2>6, <3>3
      DEF Contract!MessageDelivers, AbstractRun, AbstractHolder
    <3> QED
      BY <1>0, <3>4 DEF Contract!ContractNext
  <2>7. CASE req[r].kind # "message"
    <3>1. req[r].kind = "pipeline" /\ Holding(r)
      BY <1>0, <2>1, <2>7 DEF RequestRecords, Holding, Running
    <3>2. RunState(here) = "open" /\ here \in locked
      BY <2>0, <2>1, <3>1, NotSpent DEF LockInv
    <3>3. \A t \in Sessions \ {here} : ~ Spent(r, t)'
      BY <2>0, <2>2 DEF Moves, Spent
    <3>4. Spent(r, here)'
      BY <2>0, <2>2, <3>1 DEF Moves, Spent, Holding, Running
    <3>5. \A t \in Sessions \ {here} : RunState(t)' = RunState(t)
      BY <2>1, <2>2, <2>5, <3>3, RunFrame DEF Moves
    <3>6. RunState(here)' = "spent"
      BY <2>1, <3>2, <3>4 DEF RunState, Spent
    <3>7. AbstractRun' = [AbstractRun EXCEPT ![here] = "spent"]
      BY <3>5, <3>6 DEF AbstractRun
    <3>8. BriefHolder(here) # "pipeline"
      BY <2>0, <2>1, <3>1 DEF ContractInv
    <3>9. Contract!Deliver(here)
      BY <1>0, <2>4, <3>1, <3>2, <3>7, <3>8
      DEF Contract!Deliver, AbstractRun, AbstractHolder
    <3> QED
      BY <1>0, <3>9 DEF Contract!ContractNext
  <2> QED
    BY <2>6, <2>7
<1>7. ASSUME NEW r \in Requests, OpenFile(r) \/ WriteFile(r) \/ DiskError(r)
      PROVE  FALSE
  BY <1>0, <1>7 DEF OpenFile, WriteFile, DiskError
<1>8. ASSUME NEW r \in Requests, Finish(r) \/ Disconnect(r) PROVE Abs
  <2>0. PICK here \in Sessions : here = req[r].session
    BY <1>0
  <2>1. Leaves(r) /\ brief' = brief
    BY <1>8, RequestMoves DEF Finish, Disconnect
  <2>2. \A t \in Sessions : ~ Spent(r, t)'
    BY <2>1 DEF Leaves, Spent
  <2>3. CASE Holding(r) /\ locked' = locked \ {here}
    <3>1. \A t \in Sessions \ {here} :
            (Spent(r, t)' <=> Spent(r, t)) /\ (t \in locked' <=> t \in locked)
      BY <2>0, <2>2, <2>3 DEF Spent
    <3>2. /\ AbstractRun' = [AbstractRun EXCEPT ![here] = RunState(here)']
          /\ AbstractHolder' = AbstractHolder
      BY <1>0, <2>1, <3>1, OwnRun DEF Leaves
    <3>3. RunState(here)' = "none" /\ RunState(here) # "none"
      BY <2>0, <2>3 DEF RunState, LockInv
    <3>4. Contract!End(here)
      BY <1>0, <3>2, <3>3 DEF Contract!End, AbstractRun, AbstractHolder
    <3> QED
      BY <1>0, <3>4 DEF Contract!ContractNext
  <2>4. CASE ~ (Holding(r) /\ locked' = locked \ {here})
    <3>1. locked' = locked /\ (Holding(r) => req[r].pc = "granted")
      BY <1>8, <2>0, <2>4 DEF Finish, Disconnect
    <3>2. \A t \in Sessions : ~ Spent(r, t)
      BY <3>1 DEF Spent
    <3> QED
      BY <2>1, <2>2, <3>1, <3>2, NoRun DEF Leaves
  <2> QED
    BY <2>3, <2>4
<1>9. CASE Crash
  <2>1. \A s \in Sessions : RunState(s)' = "none" /\ BriefHolder(s)' = "none"
    BY <1>9, Sentinels DEF Crash, RunState, BriefHolder
  <2>2. Contract!Restart
    BY <2>1 DEF Contract!Restart
  <2> QED
    BY <2>2 DEF Contract!ContractNext
<1> QED
  BY <1>1, <1>2, <1>3, <1>4, <1>5, <1>6, <1>7, <1>8, <1>9
  DEF Next, Serve, CreateSession, vars

\* Over memory the server implements the contract of an idempotent endpoint:
\* one run per session at a time, started only without a brief, storing at
\* most one, and replacing none but a message's -- for any number of sessions
\* and requests, although messages run the same pipeline without the lock.
THEOREM ContractKept ==
  ASSUME ~ FileBacked
  PROVE  Spec => KeepsContract
<1>1. Spec => []ContractInv
  <2>1. TypeInv /\ LockInv /\ ContractInv /\ [Next]_vars => ContractInv'
    BY ContractInvStep
  <2> QED
    BY <2>1, ContractInvInit, TypeInvariant, LockInvariant, PTL DEF Spec
<1>2. TypeInv /\ LockInv /\ ContractInv /\ [Next]_vars
      => [Contract!ContractNext]_(Contract!contractVars)
  BY SimulationStep
<1> QED
  BY <1>1, <1>2, SimulationInit, TypeInvariant, LockInvariant, PTL
  DEF Spec, KeepsContract, Contract!ContractSpec

-----------------------------------------------------------------------------
(* Nothing the user has said is lost, and briefs come from complete intake. *)
\* An assignment that keeps what its session knows keeps it for all.
LEMMA AssignGrows ==
  ASSUME ~ FileBacked, TypeOK, NEW r \in Requests, NEW new \in SessionRecords,
         NEW local, Assign(r, new, local),
         SessionOf(r).filled \subseteq new.filled,
         NEW s \in Sessions, store[s] \in SessionRecords
  PROVE  store'[s] \in SessionRecords /\ store[s].filled \subseteq store'[s].filled
<1>1. store' = [store EXCEPT ![req[r].session] = new]
  BY DEF Assign
<1> QED
  BY <1>1 DEF SessionOf, TypeOK

\* Every step but a restart keeps what every session knows.
LEMMA StoreGrows ==
  ASSUME ~ FileBacked, TypeInv, [Next]_vars, ~ Crash,
         NEW s \in Sessions, store[s] \in SessionRecords
  PROVE  store'[s] \in SessionRecords /\ store[s].filled \subseteq store'[s].filled
<1> DEFINE Grows == /\ store'[s] \in SessionRecords
                    /\ store[s].filled \subseteq store'[s].filled
<1>0. ASSUME NEW r \in Requests
      PROVE  /\ req[r] \in RequestRecords /\ req[r].saving = "no"
             /\ req[r].pc # "idle" => SessionOf(r) \in SessionRecords
  BY DEF TypeInv, TypeOK, WellFormed
<1>1. CASE store' = store
  BY <1>1
<1>2. ASSUME NEW t \in Sessions, CreateSession(t) PROVE Grows
  BY <1>2, Sentinels DEF CreateSession, TypeInv, TypeOK
<1>3. ASSUME NEW r \in Requests, NEW found \in SUBSET Fields,
             ExtractionReturns(r, found)
      PROVE  Grows
  <2> DEFINE old  == SessionOf(r)
             full == old.filled \cup found
             new  == [status |-> "intaking", filled |-> full,
                      asked |-> AskedAfter(full, old.asked)]
  <2>1. PICK local : Assign(r, new, local)
    BY <1>3 DEF ExtractionReturns
  <2>2. old \in SessionRecords
    BY <1>0, <1>3 DEF ExtractionReturns, At
  <2>3. full \in SUBSET Fields /\ old.asked \in SUBSET Fields
    BY <2>2 DEF SessionRecords
  <2>4. new \in SessionRecords /\ old.filled \subseteq new.filled
    BY <2>3, AskedAfterType DEF SessionRecords, Statuses
  <2> HIDE DEF new
  <2> QED
    BY <2>1, <2>4, AssignGrows DEF TypeInv
<1>4. ASSUME NEW r \in Requests, req[r].pc # "idle",
             NEW status \in Statuses, NEW local,
             Assign(r, [SessionOf(r) EXCEPT !.status = status], local)
      PROVE  Grows
  <2> DEFINE new == [SessionOf(r) EXCEPT !.status = status]
  <2>1. new \in SessionRecords /\ new.filled = SessionOf(r).filled
    BY <1>0, <1>4 DEF SessionRecords
  <2>2. Assign(r, new, local)
    BY <1>4
  <2> HIDE DEF new
  <2> QED
    BY <2>1, <2>2, AssignGrows DEF TypeInv
<1>5. ASSUME NEW r \in Requests,
             \/ StartRun(r) \/ ContinueAfterIntake(r)
             \/ SynthesisFails(r) \/ Complete(r)
      PROVE  Grows
  <2>1. req[r].pc # "idle"
    BY <1>5 DEF StartRun, ContinueAfterIntake, SynthesisFails, Complete, At
  <2>2. \/ store' = store
        \/ \E status \in Statuses : \E local :
             Assign(r, [SessionOf(r) EXCEPT !.status = status], local)
    BY <1>5 DEF StartRun, ContinueAfterIntake, EnterResearch, SynthesisFails,
       Complete, Statuses
  <2> QED
    BY <1>1, <1>4, <2>1, <2>2
<1>6. ASSUME NEW r \in Requests, OpenFile(r) \/ WriteFile(r) PROVE FALSE
  BY <1>0, <1>6 DEF OpenFile, WriteFile
<1>7. ASSUME NEW r \in Requests,
             \/ ExtractionFails(r) \/ LookUpBrief(r) \/ BriefUnreadable(r)
             \/ ResearchEnds(r) \/ TakeBundle(r) \/ SynthesisReturns(r)
             \/ Finish(r) \/ Disconnect(r) \/ DiskError(r)
             \/ \E t \in Sessions : ReceiveMessage(r, t) \/ LookUpSession(r, t)
      PROVE  Grows
  BY <1>1, <1>7
  DEF ExtractionFails, LookUpBrief, BriefUnreadable, ResearchEnds, TakeBundle,
      SynthesisReturns, Finish, Disconnect, DiskError, ReceiveMessage,
      LookUpSession
<1> QED
  BY <1>1, <1>2, <1>3, <1>5, <1>6, <1>7 DEF Next, Serve, vars

\* Over memory no message, run, failure or disconnect loses what the user has
\* told the interview; only a restart does, with the whole session.
THEOREM IntakeKept ==
  ASSUME ~ FileBacked, "crash" \notin Faults
  PROVE  Spec => IntakeOnlyGrows
<1>1. TypeInv /\ [Next]_vars
      => [\A s \in Sessions :
            store[s] \in SessionRecords
            => /\ store'[s] \in SessionRecords
               /\ store[s].filled \subseteq store'[s].filled]_vars
  BY StoreGrows DEF Crash
<1> QED
  BY <1>1, TypeInvariant, PTL DEF Spec, IntakeOnlyGrows

-----------------------------------------------------------------------------
(* Briefs are written from complete data *)

\* Where a run stands once its intake data have been checked.
Checked == {"intake_complete", "researching", "researched", "synthesizing"}

LEMMA DataInit == Init => DataInv
BY IdleType, Sentinels DEF Init, DataInv, BriefFromCompleteIntake

\* What a step of r has to show beyond StoreGrows: no new brief, and checked
\* data for r.
LEMMA DataFrame ==
  ASSUME ~ FileBacked, TypeInv, DataInv, [Next]_vars, ~ Crash,
         NEW r \in Requests, brief' = brief,
         \A q \in Requests : q # r => req'[q] = req[q],
         req'[r].pc \in Checked
         => /\ FallbackComplete(req'[r].data)
            /\ req'[r].data \subseteq store'[req'[r].session].filled
  PROVE  DataInv'
<1>1. BriefFromCompleteIntake'
  BY StoreGrows DEF DataInv, BriefFromCompleteIntake, FallbackComplete
<1>2. ASSUME NEW q \in Requests, req'[q].pc \in Checked
      PROVE  /\ FallbackComplete(req'[q].data)
             /\ req'[q].data \subseteq store'[req'[q].session].filled
  <2>1. CASE q # r
    <3>1. req'[q] = req[q]
      BY <2>1
    <3>2. /\ req[q].session \in Sessions
          /\ store[req[q].session] \in SessionRecords
      BY <1>2, <3>1
      DEF TypeInv, TypeOK, RequestRecords, WellFormed, SessionOf, Checked
    <3> QED
      BY <1>2, <3>1, <3>2, StoreGrows DEF DataInv, Checked
  <2> QED
    BY <1>2, <2>1
<1> QED
  BY <1>1, <1>2 DEF DataInv, Checked, FallbackComplete

LEMMA DataStep ==
  ASSUME ~ FileBacked, FallbackFields \subseteq Elements(RequiredFields),
         TypeInv, DataInv, [Next]_vars
  PROVE  DataInv'
<1> USE IdleType
<1>0. ASSUME NEW r \in Requests
      PROVE  /\ req[r] \in RequestRecords /\ req[r].saving = "no"
             /\ req[r].session \in Sessions
             /\ req[r].pc # "idle" => SessionOf(r) \in SessionRecords
             /\ SessionOf(r) = store[req[r].session]
  BY DEF TypeInv, TypeOK, WellFormed, RequestRecords, SessionOf
<1>1. CASE Crash
  BY <1>1, Sentinels DEF Crash, DataInv, BriefFromCompleteIntake
<1>2. CASE req' = req /\ brief' = brief /\ ~ Crash
  <2>1. CASE Requests = {}
    BY <1>2, <2>1, StoreGrows
    DEF DataInv, BriefFromCompleteIntake, FallbackComplete
  <2>2. CASE Requests # {}
    <3>1. PICK r \in Requests : TRUE
      BY <2>2
    <3>2. req[r].pc \in Checked
          => req[r].data \subseteq store'[req[r].session].filled
      BY <1>0, <1>2, <3>1, StoreGrows DEF DataInv, Checked
    <3> QED
      BY <1>2, <3>1, <3>2, DataFrame DEF DataInv, Checked
  <2> QED
    BY <2>1, <2>2
<1>3. ASSUME NEW r \in Requests, ~ Crash, brief' = brief,
             \A q \in Requests : q # r => req'[q] = req[q],
             req'[r].pc \notin Checked
      PROVE  DataInv'
  BY <1>3, DataFrame
<1>4. ASSUME NEW r \in Requests, NEW s \in Sessions, ~ Crash,
             ReceiveMessage(r, s) \/ LookUpSession(r, s)
      PROVE  DataInv'
  <2>1. PICK pc \in {"extracting", "looked_up"},
             kind \in {"message", "pipeline"} :
               req' = [req EXCEPT ![r] = [Idle EXCEPT
                         !.pc = pc, !.kind = kind, !.session = s,
                         !.copy = IF FileBacked THEN store[s] ELSE None]]
    BY <1>4 DEF ReceiveMessage, LookUpSession
  <2>2. brief' = brief
    BY <1>4 DEF ReceiveMessage, LookUpSession
  <2>3. /\ \A q \in Requests : q # r => req'[q] = req[q]
        /\ req'[r].pc \in {"extracting", "looked_up"}
    BY <2>1 DEF TypeInv, TypeOK, RequestRecords
  <2> QED
    BY <1>3, <1>4, <2>2, <2>3 DEF Checked
<1>5. ASSUME NEW r \in Requests, ~ Crash,
             \/ ExtractionFails(r) \/ LookUpBrief(r) \/ BriefUnreadable(r)
             \/ SynthesisFails(r) \/ Complete(r)
             \/ StartRun(r) /\ ~ FallbackComplete(SessionOf(r).filled)
      PROVE  DataInv'
  <2>1. Moves(r, {"replying", "busy", "granted", "brief_unreadable",
                  "brief_found", "not_ready", "synthesis_failed", "completed"})
    <3>1. CASE StartRun(r) /\ ~ FallbackComplete(SessionOf(r).filled)
      BY <1>0, <3>1 DEF StartRun, Moves, TypeInv, TypeOK, RequestRecords
    <3> QED
      BY <1>5, <3>1, RequestMoves DEF Moves
  <2>2. brief' = brief
    BY <1>5 DEF ExtractionFails, LookUpBrief, BriefUnreadable, SynthesisFails,
       Complete, StartRun
  <2> QED
    BY <1>3, <1>5, <2>1, <2>2 DEF Moves, Checked
<1>6. ASSUME NEW r \in Requests, ~ Crash, Finish(r) \/ Disconnect(r)
      PROVE  DataInv'
  <2>1. Leaves(r) /\ brief' = brief
    BY <1>6, RequestMoves DEF Finish, Disconnect
  <2> QED
    BY <1>3, <1>6, <2>1 DEF Leaves, Checked
<1>7. ASSUME NEW r \in Requests, ~ Crash, ResearchEnds(r) \/ TakeBundle(r)
      PROVE  DataInv'
  <2>1. /\ req[r].pc \in Checked /\ store' = store /\ brief' = brief
        /\ \A q \in Requests : q # r => req'[q] = req[q]
        /\ req'[r].data = req[r].data /\ req'[r].session = req[r].session
    BY <1>0, <1>7 DEF ResearchEnds, TakeBundle, At, Checked, TypeInv, TypeOK,
       RequestRecords
  <2> QED
    BY <1>7, <2>1, DataFrame DEF DataInv, Checked
<1>8. ASSUME NEW r \in Requests, NEW found \in SUBSET Fields, ~ Crash,
             ExtractionReturns(r, found)
      PROVE  DataInv'
  <2> DEFINE old   == SessionOf(r)
             full  == old.filled \cup found
             done  == JourneyComplete(full, old.asked)
             new   == [status |-> "intaking", filled |-> full,
                       asked |-> AskedAfter(full, old.asked)]
             local == [req[r] EXCEPT
                         !.pc = IF done THEN "intake_complete" ELSE "replying",
                         !.data = IF done THEN full ELSE {},
                         !.saving = Save("open_session")]
  <2>1. Assign(r, new, local) /\ brief' = brief
    BY <1>8 DEF ExtractionReturns
  <2>2. /\ req' = [req EXCEPT ![r] = local]
        /\ store' = [store EXCEPT ![req[r].session] = new]
    BY <2>1 DEF Assign
  <2>3. CASE ~ done
    BY <1>0, <1>3, <1>8, <2>1, <2>2, <2>3
    DEF Checked, TypeInv, TypeOK, RequestRecords
  <2>4. CASE done
    <3>1. FallbackComplete(full)
      BY <2>4
      DEF JourneyComplete, MissingRequired, MissingAt, Elements,
          FallbackComplete
    <3>2. /\ \A q \in Requests : q # r => req'[q] = req[q]
          /\ req'[r].data = full /\ req'[r].session = req[r].session
      BY <1>0, <2>2, <2>4 DEF TypeInv, TypeOK, RequestRecords
    <3>3. store'[req[r].session].filled = full
      BY <1>0, <2>2 DEF TypeInv, TypeOK
    <3> HIDE DEF full
    <3> QED
      BY <1>8, <2>1, <3>1, <3>2, <3>3, DataFrame
  <2> QED
    BY <2>3, <2>4
<1>9. ASSUME NEW r \in Requests, NEW data \in SUBSET Fields, ~ Crash,
             req[r].pc # "idle", EnterResearch(r, data), brief' = brief,
             FallbackComplete(data), data \subseteq SessionOf(r).filled
      PROVE  DataInv'
  <2>1. PICK saving : req' = [req EXCEPT ![r] = [req[r] EXCEPT
                        !.pc = "researching", !.data = data, !.saving = saving]]
    BY <1>9 DEF EnterResearch, Assign
  <2>2. /\ \A q \in Requests : q # r => req'[q] = req[q]
        /\ req'[r].data = data /\ req'[r].session = req[r].session
    BY <1>0, <2>1 DEF TypeInv, TypeOK, RequestRecords
  <2>3. data \subseteq store'[req[r].session].filled
    BY <1>0, <1>9, StoreGrows
  <2> QED
    BY <1>9, <2>2, <2>3, DataFrame
<1>10. ASSUME NEW r \in Requests, ~ Crash,
              \/ ContinueAfterIntake(r)
              \/ StartRun(r) /\ FallbackComplete(SessionOf(r).filled)
       PROVE  DataInv'
  <2>1. CASE StartRun(r) /\ FallbackComplete(SessionOf(r).filled)
    <3>1. SessionOf(r).filled \in SUBSET Fields /\ req[r].pc # "idle"
      BY <1>0, <2>1 DEF StartRun, At, SessionRecords
    <3> QED
      BY <1>9, <1>10, <2>1, <3>1 DEF StartRun
  <2>2. CASE ContinueAfterIntake(r)
    <3>1. /\ req[r].data \in SUBSET Fields /\ req[r].pc = "intake_complete"
          /\ EnterResearch(r, req[r].data) /\ brief' = brief
      BY <1>0, <2>2 DEF ContinueAfterIntake, At, RequestRecords
    <3>2. /\ FallbackComplete(req[r].data)
          /\ req[r].data \subseteq SessionOf(r).filled
      BY <1>0, <3>1 DEF DataInv
    <3> QED
      BY <1>9, <1>10, <3>1, <3>2
  <2> QED
    BY <1>10, <2>1, <2>2
<1>11. ASSUME NEW r \in Requests, ~ Crash, SynthesisReturns(r) PROVE DataInv'
  <2>0. PICK here \in Sessions : here = req[r].session
    BY <1>0
  <2>1. /\ req[r].pc = "synthesizing" /\ store' = store
        /\ brief' = [brief EXCEPT ![here] = Synthesized(r)]
        /\ Moves(r, {"delivering"})
    BY <1>11, <2>0, RequestMoves DEF SynthesisReturns, At
  <2>2. /\ Synthesized(r).data = req[r].data
        /\ FallbackComplete(req[r].data)
        /\ store[here] \in SessionRecords
        /\ req[r].data \subseteq store[here].filled
    BY <1>0, <2>0, <2>1 DEF Synthesized, DataInv
  <2>3. BriefFromCompleteIntake'
    BY <2>1, <2>2
    DEF DataInv, BriefFromCompleteIntake, FallbackComplete, TypeInv, TypeOK
  <2>4. ASSUME NEW q \in Requests, req'[q].pc \in Checked
        PROVE  req'[q] = req[q]
    BY <2>1, <2>4 DEF Moves, Checked
  <2> QED
    BY <2>1, <2>3, <2>4 DEF DataInv, Checked, FallbackComplete
<1>12. ASSUME NEW r \in Requests, OpenFile(r) \/ WriteFile(r) \/ DiskError(r)
       PROVE  FALSE
  BY <1>0, <1>12 DEF OpenFile, WriteFile, DiskError
<1> QED
  BY <1>1, <1>2, <1>4, <1>5, <1>6, <1>7, <1>8, <1>10, <1>11, <1>12
  DEF Next, Serve, CreateSession, vars

\* Over memory a brief is written from data that passed a completeness check
\* and that its session still knows, if every field the fallback check looks
\* at is a required field of the journey, as in the shipped journey.
THEOREM BriefsFromCompleteIntake ==
  ASSUME ~ FileBacked, FallbackFields \subseteq Elements(RequiredFields)
  PROVE  Spec => []BriefFromCompleteIntake
<1>1. TypeInv /\ DataInv /\ [Next]_vars => DataInv'
  BY DataStep
<1>2. DataInv => BriefFromCompleteIntake
  BY DEF DataInv
<1> QED
  BY <1>1, <1>2, DataInit, TypeInvariant, PTL DEF Spec

-----------------------------------------------------------------------------
(* Swapping the adapters, as long as requests come one at a time.          *)
OneAtATime(r) == Requests = {r} /\ FileBacked /\ Faults \subseteq {"llm"}

Readable(s) == store[s] \notin {Truncated, Corrupt} /\ brief[s] \notin {Truncated, Corrupt}

\* Only the file that r is writing is truncated, and between its saves r's
\* copy of the session is what the file holds.
SwapInv(r) ==
  /\ req[r].pc = "idle" => req[r].copy = None
  /\ req[r].pc # "brief_unreadable"
  /\ \A s \in Sessions : req[r].pc = "idle" \/ s # req[r].session => Readable(s)
  /\ req[r].pc # "idle" =>
       /\ req[r].saving = "open_session" => store[req[r].session] \in SessionRecords
       /\ req[r].saving = "write_session" => store[req[r].session] = Truncated
       /\ req[r].saving \notin {"open_session", "write_session"}
            => store[req[r].session] = req[r].copy
       /\ req[r].saving = "write_brief" => brief[req[r].session] = Truncated
       /\ req[r].saving # "write_brief" => brief[req[r].session] \notin {Truncated, Corrupt}

LEMMA SwapInvInit == ASSUME NEW r \in Requests, Init PROVE SwapInv(r)
BY PipelineAssumption DEF Init, Idle, SwapInv, Readable

\* In files an assignment leaves the file and puts `new` into r's copy.
LEMMA AssignsCopy ==
  ASSUME FileBacked, NEW r \in Requests, NEW new, NEW local \in RequestRecords,
         DOMAIN req = Requests, Assign(r, new, local)
  PROVE  /\ store' = store /\ DOMAIN req'[r] = DOMAIN local
         /\ req'[r].pc = local.pc /\ req'[r].kind = local.kind
         /\ req'[r].session = local.session /\ req'[r].data = local.data
         /\ req'[r].bundle = local.bundle /\ req'[r].saving = local.saving
         /\ req'[r].copy = new
<1> DEFINE next == [local EXCEPT !.copy = new]
<1>1. req' = [req EXCEPT ![r] = next] /\ store' = store
  BY DEF Assign
<1>2. req'[r] = next
  BY <1>1
<1>3. /\ DOMAIN next = DOMAIN local /\ next.pc = local.pc /\ next.kind = local.kind
      /\ next.session = local.session /\ next.data = local.data
      /\ next.bundle = local.bundle /\ next.saving = local.saving
      /\ next.copy = new
  BY DEF RequestRecords
<1> HIDE DEF next
<1> QED
  BY <1>1, <1>2, <1>3

LEMMA SwapInvStep ==
  ASSUME NEW r, OneAtATime(r), TypeInv, TypeInv', SwapInv(r), Next
  PROVE  SwapInv(r)'
<1> r \in Requests /\ FileBacked /\ \A f \in Faults : f = "llm"
  BY DEF OneAtATime
<1>1. /\ req[r] \in RequestRecords /\ req'[r] \in RequestRecords
      /\ req[r].pc # "idle" => req[r].copy \in SessionRecords
      /\ req'[r].pc # "idle" => req'[r].copy \in SessionRecords
      /\ req[r].pc = "idle" => req[r].saving = "no"
      /\ DOMAIN store = Sessions /\ DOMAIN brief = Sessions /\ DOMAIN req = Requests
      /\ req[r].session \in Sessions
  BY DEF TypeInv, TypeOK, WellFormed, SessionOf, RequestRecords
<1>2. /\ \A x \in SessionRecords : x \notin {None, Truncated, Corrupt}
      /\ \A x \in BriefRecords : x \notin {None, Truncated, Corrupt}
      /\ None # Truncated /\ None # Corrupt /\ Truncated # Corrupt
  BY PipelineAssumption
<1>3. ASSUME NEW s \in Sessions, CreateSession(s) PROVE SwapInv(r)'
  <2>1. NewSession \in SessionRecords
    BY DEF NewSession, SessionRecords, Statuses
  <2>2. req[r].pc = "idle" \/ s # req[r].session
    BY <1>1, <1>2, <1>3 DEF CreateSession, SwapInv
  <2> QED
    BY <1>1, <1>2, <1>3, <2>1, <2>2 DEF CreateSession, SwapInv, Readable
<1>4. ASSUME NEW s \in Sessions, ReceiveMessage(r, s) \/ LookUpSession(r, s) PROVE SwapInv(r)'
  <2>1. /\ req'[r].pc \in {"extracting", "looked_up"} /\ req'[r].session = s
        /\ req'[r].copy = store[s] /\ req'[r].saving = "no"
        /\ UNCHANGED <<store, brief>> /\ req[r].pc = "idle"
    BY ZenonT(60), <1>1, <1>4 DEF ReceiveMessage, LookUpSession, Idle, At
  <2>2. \A t \in Sessions : Readable(t) /\ Readable(t)'
    BY <2>1 DEF SwapInv, Readable
  <2>3. brief'[s] \notin {Truncated, Corrupt} /\ store'[s] = req'[r].copy
    BY <2>1, <2>2 DEF Readable
  <2> QED
    BY <2>1, <2>2, <2>3 DEF SwapInv
\* r moves between its saves, or to one.
<1>5. ASSUME req[r].pc # "idle", req'[r].pc \notin {"idle", "brief_unreadable"},
             req[r].saving = "no",
             UNCHANGED <<store, brief>>, req'[r].session = req[r].session,
             req'[r].saving \in {"no", "open_session", "open_brief"},
             req'[r].saving # "open_session" => req'[r].copy = req[r].copy
      PROVE  SwapInv(r)'
  BY <1>1, <1>5 DEF SwapInv, Readable
<1>6. ASSUME NEW found \in SUBSET Fields, ExtractionReturns(r, found) PROVE SwapInv(r)'
  <2> DEFINE old   == SessionOf(r)
             full  == old.filled \cup found
             done  == JourneyComplete(full, old.asked)
             new   == [status |-> "intaking", filled |-> full,
                       asked |-> AskedAfter(full, old.asked)]
             pc    == IF done THEN "intake_complete" ELSE "replying"
             data  == IF done THEN full ELSE {}
             local == [req[r] EXCEPT !.pc = pc, !.data = data, !.saving = "open_session"]
  <2>0. Assign(r, new, local) /\ req[r].pc = "extracting"
    BY <1>1, <1>6 DEF ExtractionReturns, Save, At
  <2>1. data \in SUBSET Fields
    BY <1>1, <2>0 DEF SessionOf, SessionRecords
  <2>2. pc \in {"intake_complete", "replying"}
    OBVIOUS
  <2> HIDE DEF pc, data, new
  <2>3. /\ local \in RequestRecords /\ local.pc = pc /\ local.saving = "open_session"
        /\ local.session = req[r].session
    BY ZenonT(60), <1>1, <2>1, <2>2 DEF RequestRecords, PCs, Answered, Savings
  <2> HIDE DEF local
  <2>5. /\ req'[r].pc = pc /\ req'[r].saving = "open_session"
        /\ req'[r].session = req[r].session /\ store' = store
    BY <1>1, <2>0, <2>3, AssignsCopy
  <2>6. req[r].pc = "extracting" /\ req[r].saving = "no" /\ brief' = brief
    BY <1>6 DEF ExtractionReturns, At
  <2> QED
    BY <1>5, <2>2, <2>5, <2>6
<1>7. ASSUME NEW data \in SUBSET Fields, EnterResearch(r, data), req[r].saving = "no",
             req[r].pc # "idle", brief' = brief
      PROVE  SwapInv(r)'
  <2> DEFINE new    == [req[r].copy EXCEPT !.status = "researching"]
             saving == IF req[r].copy.status # "researching" THEN "open_session" ELSE "no"
             local  == [req[r] EXCEPT !.pc = "researching", !.data = data, !.saving = saving]
  <2>3. Assign(r, new, local)
    BY <1>7 DEF EnterResearch, SessionOf, Save
  <2>4. /\ local \in RequestRecords /\ local.pc = "researching"
        /\ local.saving = saving /\ local.session = req[r].session
    BY <1>1, <1>7 DEF RequestRecords, PCs, Running, Savings
  <2> HIDE DEF local, new
  <2>5. /\ store' = store /\ req'[r].pc = "researching" /\ req'[r].session = req[r].session
        /\ req'[r].saving = saving /\ req'[r].copy = new
    BY <1>1, <2>3, <2>4, AssignsCopy
  <2>1. /\ UNCHANGED store /\ req'[r].pc = "researching" /\ req'[r].session = req[r].session
        /\ req'[r].saving \in {"open_session", "no"}
        /\ req'[r].copy = [req[r].copy EXCEPT !.status = "researching"]
        /\ req'[r].saving = "no" => req[r].copy.status = "researching"
    BY <2>5 DEF new
  <2>2. req[r].copy.status = "researching"
          => [req[r].copy EXCEPT !.status = "researching"] = req[r].copy
    BY <1>1, <1>7 DEF SessionRecords
  <2> QED
    BY <1>5, <1>7, <2>1, <2>2
<1>8. ASSUME LookUpBrief(r) PROVE SwapInv(r)'
  <2>1. /\ req[r].pc = "looked_up" /\ req[r].saving = "no" /\ UNCHANGED <<store, brief>>
        /\ req'[r].pc \in {"busy", "granted", "brief_found"} /\ req'[r].session = req[r].session
        /\ req'[r].saving = "no" /\ req'[r].copy = req[r].copy
    BY <1>1, <1>8 DEF LookUpBrief, TryLock, At, SwapInv, RequestRecords
  <2> QED
    BY <1>5, <2>1
<1>9. ASSUME StartRun(r) PROVE SwapInv(r)'
  <2>1. CASE FallbackComplete(SessionOf(r).filled)
    <3>1. SessionOf(r).filled \in SUBSET Fields
      BY <1>1, <1>9 DEF StartRun, At, SessionOf, SessionRecords
    <3> QED
      BY <1>7, <1>9, <2>1, <3>1 DEF StartRun, At
  <2>2. CASE ~FallbackComplete(SessionOf(r).filled)
    <3>1. /\ req[r].pc = "granted" /\ req[r].saving = "no" /\ UNCHANGED <<store, brief>>
          /\ req'[r].pc = "not_ready" /\ req'[r].session = req[r].session
          /\ req'[r].saving = "no" /\ req'[r].copy = req[r].copy
      BY <1>1, <1>9, <2>2 DEF StartRun, At, RequestRecords
    <3> QED
      BY <1>5, <3>1
  <2> QED
    BY <2>1, <2>2
<1>10. ASSUME ContinueAfterIntake(r) PROVE SwapInv(r)'
  BY <1>1, <1>7, <1>10 DEF ContinueAfterIntake, At, RequestRecords
<1>11. ASSUME ExtractionFails(r) \/ ResearchEnds(r) \/ TakeBundle(r) \/ SynthesisReturns(r)
       PROVE  SwapInv(r)'
  <2>1. /\ req[r].pc # "idle" /\ req[r].saving = "no" /\ UNCHANGED <<store, brief>>
        /\ req'[r].pc \in {"replying", "researched", "synthesizing", "delivering"}
        /\ req'[r].session = req[r].session
        /\ req'[r].saving \in {"no", "open_brief"} /\ req'[r].copy = req[r].copy
    BY <1>1, <1>11 DEF ExtractionFails, ResearchEnds, TakeBundle, SynthesisReturns, At, Save,
       RequestRecords
  <2> QED
    BY <1>5, <2>1
<1>12. ASSUME SynthesisFails(r) \/ Complete(r) PROVE SwapInv(r)'
  <2>0. PICK pc \in {"synthesis_failed", "completed"} : \E new :
          Assign(r, new, [req[r] EXCEPT !.pc = pc, !.saving = "open_session"])
    <3>1. \/ Assign(r, [SessionOf(r) EXCEPT !.status = "failed"],
                    [req[r] EXCEPT !.pc = "synthesis_failed", !.saving = "open_session"])
          \/ Assign(r, [SessionOf(r) EXCEPT !.status = "complete"],
                    [req[r] EXCEPT !.pc = "completed", !.saving = "open_session"])
      BY <1>12 DEF SynthesisFails, Complete, Save
    <3> QED
      BY <3>1
  <2>1. PICK new :
          Assign(r, new, [req[r] EXCEPT !.pc = pc, !.saving = "open_session"])
    BY <2>0
  <2> DEFINE local == [req[r] EXCEPT !.pc = pc, !.saving = "open_session"]
  <2>2. /\ local \in RequestRecords /\ local.pc = pc /\ local.saving = "open_session"
        /\ local.session = req[r].session
    BY ZenonT(60), <1>1 DEF RequestRecords, PCs, Answered, Savings
  <2>3. Assign(r, new, local)
    BY <2>1
  <2> HIDE DEF local
  <2>4. /\ req'[r].pc = pc /\ req'[r].saving = "open_session"
        /\ req'[r].session = req[r].session /\ store' = store
    BY <1>1, <2>2, <2>3, AssignsCopy
  <2>5. /\ req[r].pc # "idle" /\ req[r].saving = "no" /\ brief' = brief
    BY <1>12 DEF SynthesisFails, Complete, At
  <2> QED
    BY <1>5, <2>4, <2>5
<1>13. ASSUME Finish(r) PROVE SwapInv(r)'
  <2>1. /\ req[r].pc # "idle" /\ req[r].saving = "no" /\ UNCHANGED <<store, brief>>
        /\ req'[r].pc = "idle" /\ req'[r].copy = None
    BY <1>1, <1>13 DEF Finish, Idle, Answered
  <2> QED
    BY <1>1, <1>2, <2>1 DEF SwapInv, Readable
<1>14. ASSUME OpenFile(r) PROVE SwapInv(r)'
  BY <1>1, <1>2, <1>14 DEF OpenFile, SwapInv, Readable, RequestRecords
<1>15. ASSUME WriteFile(r) PROVE SwapInv(r)'
  <2>1. Serialized(Synthesized(r)) \notin {Truncated, Corrupt} \/ req[r].saving # "write_brief"
    <3>1. req[r].saving = "write_brief" => Synthesized(r) \in BriefRecords
      BY <1>1, <1>2 DEF Synthesized, BriefRecords, TypeInv, WellFormed, RequestRecords
    <3> QED
      BY <3>1, SerializedType, Sentinels
  <2> QED
    BY <1>1, <1>2, <1>15, <2>1 DEF WriteFile, SwapInv, Readable, Overlay, RequestRecords
<1> QED
  BY <1>3, <1>4, <1>6, <1>8, <1>9, <1>10, <1>11, <1>12, <1>13, <1>14, <1>15
  DEF Next, Serve, OneAtATime, BriefUnreadable, DiskError, Disconnect, Crash, At, SwapInv

-----------------------------------------------------------------------------
(* The pipeline over files, seen as the pipeline over memory *)
MemStore == [s \in Sessions |-> LogicalSession(s)]
MemBrief == [s \in Sessions |-> LogicalBrief(s)]
View(local) == [local EXCEPT !.copy = None, !.saving = "no"]
MemReq == [q \in Requests |-> [req[q] EXCEPT !.copy = None, !.saving = "no"]]

\* The journey and the records do not depend on the adapter.
LEMMA SameJourney ==
  /\ Memory!Fields = Fields /\ Memory!SessionRecords = SessionRecords
  /\ Memory!BriefRecords = BriefRecords
  /\ \A filled, asked : /\ Memory!JourneyComplete(filled, asked) = JourneyComplete(filled, asked)
                        /\ Memory!AskedAfter(filled, asked) = AskedAfter(filled, asked)
                        /\ Memory!FallbackComplete(filled) = FallbackComplete(filled)
<1>1. Memory!Fields = Fields
  BY DEF Memory!Fields, Fields, Memory!Elements, Elements
<1>2. \A order, present : Memory!MissingAt(order, present) = MissingAt(order, present)
  BY DEF Memory!MissingAt, MissingAt
<1>3. \A filled, asked : /\ Memory!MissingRequired(filled) = MissingRequired(filled)
                         /\ Memory!MissingOptional(filled, asked) = MissingOptional(filled, asked)
  BY <1>2 DEF Memory!MissingRequired, MissingRequired, Memory!MissingOptional, MissingOptional
<1>4. \A order, present : Memory!FirstMissing(order, present) = FirstMissing(order, present)
  BY DEF Memory!FirstMissing, FirstMissing, Memory!MissingAt, MissingAt
<1>5. \A filled, asked : Memory!AskedAfter(filled, asked) = AskedAfter(filled, asked)
  BY <1>3, <1>4 DEF Memory!AskedAfter, AskedAfter
<1>6. \A filled, asked : Memory!JourneyComplete(filled, asked) = JourneyComplete(filled, asked)
  BY <1>3 DEF Memory!JourneyComplete, JourneyComplete
<1>7. \A filled : Memory!FallbackComplete(filled) = FallbackComplete(filled)
  BY DEF Memory!FallbackComplete, FallbackComplete
<1>8. Memory!SessionRecords = SessionRecords /\ Memory!BriefRecords = BriefRecords
  BY <1>1 DEF Memory!SessionRecords, SessionRecords, Memory!Statuses, Statuses,
     Memory!BriefRecords, BriefRecords
<1> QED
  BY <1>1, <1>5, <1>6, <1>7, <1>8

LEMMA ViewFields ==
  ASSUME NEW x \in RequestRecords
  PROVE  /\ View(x) \in RequestRecords
         /\ View(x).pc = x.pc /\ View(x).kind = x.kind
         /\ View(x).session = x.session /\ View(x).data = x.data
         /\ View(x).bundle = x.bundle
         /\ View(x).copy = None /\ View(x).saving = "no"
BY DEF View, RequestRecords, Savings

LEMMA SameFields ==
  ASSUME NEW x \in RequestRecords, NEW y \in RequestRecords,
         x.pc = y.pc, x.kind = y.kind, x.session = y.session,
         x.data = y.data, x.bundle = y.bundle, x.copy = y.copy,
         x.saving = y.saving
  PROVE  x = y
BY DEF RequestRecords

\* With one request, what it has assigned and not written is its own.
LEMMA MemoryOf ==
  ASSUME NEW r, Requests = {r}
  PROVE  /\ \A s \in Sessions :
              /\ MemStore[s] = IF req[r].session = s /\ req[r].copy # None
                                 THEN req[r].copy ELSE store[s]
              /\ MemBrief[s] = IF /\ req[r].session = s
                                   /\ req[r].saving \in {"open_brief", "write_brief"}
                                 THEN Synthesized(r) ELSE Restored(brief[s])
         /\ MemReq[r] = View(req[r])
BY DEF MemStore, MemBrief, MemReq, View, LogicalSession, LogicalBrief, Restored

LEMMA NextMemoryOf ==
  ASSUME NEW r, Requests = {r}
  PROVE  /\ \A s \in Sessions :
              /\ MemStore'[s] = IF req'[r].session = s /\ req'[r].copy # None
                                 THEN req'[r].copy ELSE store'[s]
              /\ MemBrief'[s] = IF /\ req'[r].session = s
                                   /\ req'[r].saving \in {"open_brief", "write_brief"}
                                 THEN Synthesized(r)' ELSE Restored(brief'[s])
         /\ MemReq'[r] = View(req'[r])
BY DEF MemStore, MemBrief, MemReq, View, LogicalSession, LogicalBrief, Restored

\* Putting the results back neither makes a brief nor loses one.
LEMMA RestoredKeeps ==
  ASSUME NEW b
  PROVE  /\ Restored(b) \in BriefRecords <=> b \in BriefRecords
         /\ Restored(b) = None <=> b = None
<1>1. CASE b \in BriefRecords
  <2>1. Restored(b) \in BriefRecords
    BY <1>1 DEF Restored, BriefRecords
  <2> QED
    BY <1>1, <2>1, Sentinels
<1>2. CASE b \notin BriefRecords
  BY <1>2 DEF Restored
<1> QED
  BY <1>1, <1>2

\* What is written of a whole brief is that brief, once restored.
LEMMA RestoredSerialized ==
  ASSUME NEW b \in BriefRecords, b.whole = TRUE
  PROVE  Restored(Serialized(b)) = b
<1> DEFINE c == [Serialized(b) EXCEPT !.whole = TRUE]
<1>1. /\ c \in BriefRecords /\ c.sources = b.sources /\ c.data = b.data
      /\ c.by = b.by /\ c.whole = b.whole
  BY DEF Serialized, BriefRecords
<1>2. b = [sources |-> b.sources, data |-> b.data, by |-> b.by, whole |-> b.whole]
  BY DEF BriefRecords
<1>3. c = [sources |-> c.sources, data |-> c.data, by |-> c.by, whole |-> c.whole]
  BY <1>1 DEF BriefRecords
<1>4. c = b
  BY <1>1, <1>2, <1>3
<1> QED
  BY <1>4, SerializedType DEF Restored

LEMMA MemDomains ==
  /\ MemStore = [s \in Sessions |-> MemStore[s]]
  /\ MemStore' = [s \in Sessions |-> MemStore'[s]]
  /\ MemBrief = [s \in Sessions |-> MemBrief[s]]
  /\ MemBrief' = [s \in Sessions |-> MemBrief'[s]]
  /\ MemReq = [q \in Requests |-> MemReq[q]]
  /\ MemReq' = [q \in Requests |-> MemReq'[q]]
BY DEF MemStore, MemBrief, MemReq

LEMMA RequestStep ==
  ASSUME NEW r, Requests = {r}, NEW mem, mem = View(req'[r])
  PROVE  MemReq' = [MemReq EXCEPT ![r] = mem]
BY NextMemoryOf, MemDomains

LEMMA SameMemStore ==
  ASSUME NEW r, Requests = {r},
         \A s \in Sessions : MemStore'[s] = MemStore[s]
  PROVE MemStore' = MemStore
BY MemDomains

LEMMA SameMemBrief ==
  ASSUME NEW r, Requests = {r},
         \A s \in Sessions : MemBrief'[s] = MemBrief[s]
  PROVE MemBrief' = MemBrief
BY MemDomains

LEMMA MemoryAssigns ==
  ASSUME NEW r, Requests = {r}, FileBacked, TypeInv, TypeInv',
         req[r].pc # "idle", NEW new \in SessionRecords, NEW local \in RequestRecords,
         local.session = req[r].session, local.saving \in {"no", "open_session"},
         req[r].saving = "no", brief' = brief,
         Assign(r, new, local), NEW mem, mem = View(local)
  PROVE  /\ MemReq' = [MemReq EXCEPT ![r] = mem]
         /\ MemStore' = [MemStore EXCEPT ![MemReq[r].session] = new]
         /\ MemBrief' = MemBrief
<1>1. /\ req[r] \in RequestRecords /\ req'[r] \in RequestRecords /\ r \in Requests
      /\ req[r].copy \in SessionRecords /\ DOMAIN req = Requests
      /\ None \notin SessionRecords
  BY PipelineAssumption DEF TypeInv, TypeOK, WellFormed, SessionOf, RequestRecords
<1>2. /\ store' = store /\ req'[r].pc = local.pc /\ req'[r].kind = local.kind
      /\ req'[r].session = local.session /\ req'[r].data = local.data
      /\ req'[r].bundle = local.bundle /\ req'[r].saving = local.saving
      /\ req'[r].copy = new
  BY <1>1, AssignsCopy
<1>3. mem = View(req'[r])
  BY <1>1, <1>2, ViewFields, SameFields
<1>4. MemReq' = [MemReq EXCEPT ![r] = mem]
  BY <1>3, RequestStep
<1>5. MemBrief' = MemBrief
  BY <1>2, MemoryOf, NextMemoryOf, SameMemBrief
<1>6. MemStore' = [MemStore EXCEPT ![req[r].session] = new]
  <2>0. PICK here : here = req[r].session
    OBVIOUS
  <2>1. \A s \in Sessions : MemStore'[s] = IF s = here THEN new ELSE MemStore[s]
    BY <1>1, <1>2, <2>0, MemoryOf, NextMemoryOf
  <2>2. MemStore' = [MemStore EXCEPT ![here] = new]
    BY <2>1, MemDomains
  <2> QED
    BY <2>0, <2>2
<1>7. MemReq[r].session = req[r].session
  BY <1>1, MemoryOf, ViewFields
<1> QED
  BY <1>4, <1>5, <1>6, <1>7

\* What r holds, seen in memory.
LEMMA MemorySees ==
  ASSUME NEW r, Requests = {r}, FileBacked, TypeInv, SwapInv(r)
  PROVE  /\ \A pc : At(r, pc) => Memory!At(r, pc)
         /\ MemReq[r] \in RequestRecords /\ MemReq[r] = View(req[r])
         /\ req[r].pc # "idle" => Memory!SessionOf(r) = req[r].copy
         /\ \A s \in Sessions : store[s] \in SessionRecords /\ req[r].pc = "idle"
                             => MemStore[s] = store[s]
         /\ Memory!Idle = Idle /\ View(Idle) = Idle
         /\ Memory!SessionRecords = SessionRecords
<1>1. /\ req[r] \in RequestRecords /\ r \in Requests /\ req[r].session \in Sessions
      /\ req[r].pc # "idle" => req[r].copy \in SessionRecords
      /\ None \notin SessionRecords
  BY PipelineAssumption DEF TypeInv, TypeOK, WellFormed, SessionOf, RequestRecords
<1>2. MemReq[r] = View(req[r])
  BY MemoryOf
<1>3. MemReq[r].session = req[r].session /\ MemReq[r].pc = req[r].pc /\ MemReq[r].saving = "no"
  BY <1>1, <1>2, ViewFields
<1>4. \A pc : At(r, pc) => Memory!At(r, pc)
  BY <1>3 DEF At, Memory!At, MemReq
<1>5. req[r].pc # "idle" => Memory!SessionOf(r) = req[r].copy
  <2>1. req[r].pc # "idle" => MemStore[MemReq[r].session] = req[r].copy
    BY <1>1, <1>3, MemoryOf
  <2> QED
    BY <2>1 DEF Memory!SessionOf, MemStore, MemReq
<1>6. \A s \in Sessions : req[r].pc = "idle" => MemStore[s] = store[s]
  BY <1>1, MemoryOf DEF SwapInv
<1>7. Memory!Idle = Idle /\ View(Idle) = Idle /\ Memory!SessionRecords = SessionRecords
  <2>1. Memory!Idle = Idle
    BY DEF Memory!Idle, Idle
  <2>2. View(Idle) = Idle
    BY IdleType, ViewFields, SameFields DEF Idle
  <2> QED
    BY <2>1, <2>2, SameJourney
<1> QED
  BY <1>1, <1>2, <1>4, <1>5, <1>6, <1>7, ViewFields

\* What every step below starts from.
LEMMA SwapFacts ==
  ASSUME NEW r, Requests = {r}, FileBacked, TypeInv, SwapInv(r)
  PROVE  /\ req[r] \in RequestRecords /\ r \in Requests /\ req[r].session \in Sessions
         /\ DOMAIN req = Requests /\ DOMAIN store = Sessions /\ DOMAIN brief = Sessions
         /\ req[r].pc # "idle" => req[r].copy \in SessionRecords
         /\ req[r].pc = "idle" => req[r].copy = None /\ req[r].saving = "no"
         /\ None \notin SessionRecords
         /\ MemReq[r] \in RequestRecords /\ MemReq[r].pc = req[r].pc
         /\ MemReq[r].kind = req[r].kind /\ MemReq[r].session = req[r].session
         /\ MemReq[r].data = req[r].data /\ MemReq[r].bundle = req[r].bundle
         /\ MemReq[r].copy = None /\ MemReq[r].saving = "no"
<1>1. /\ req[r] \in RequestRecords /\ r \in Requests /\ req[r].session \in Sessions
      /\ DOMAIN req = Requests /\ DOMAIN store = Sessions /\ DOMAIN brief = Sessions
      /\ req[r].pc # "idle" => req[r].copy \in SessionRecords
      /\ req[r].pc = "idle" => req[r].copy = None /\ req[r].saving = "no"
      /\ None \notin SessionRecords
  BY PipelineAssumption DEF TypeInv, TypeOK, WellFormed, SessionOf, RequestRecords, SwapInv
<1>2. MemReq[r] = View(req[r])
  BY MemoryOf
<1> QED
  BY <1>1, <1>2, ViewFields

\* The record `local` is x after an assignment of r.
Becomes(local, x, pc, data, saving) ==
  local = [x EXCEPT !.pc = pc, !.data = data, !.saving = saving]

LEMMA ViewBecomes ==
  ASSUME NEW x \in RequestRecords, NEW pc \in PCs, NEW saving \in Savings,
         NEW data \in SUBSET Fields,
         NEW local, Becomes(local, x, pc, data, saving),
         NEW y, y = View(x), NEW mem, Becomes(mem, y, pc, data, "no")
  PROVE  /\ local \in RequestRecords /\ local.session = x.session /\ local.saving = saving
         /\ mem = View(local)
<1>1. /\ local \in RequestRecords /\ local.session = x.session
      /\ local.saving = saving /\ local.pc = pc /\ local.data = data
      /\ local.kind = x.kind /\ local.bundle = x.bundle
  BY DEF RequestRecords, Becomes
<1>2. y \in RequestRecords /\ "no" \in Savings
  BY ViewFields DEF Savings
<1>3. /\ mem \in RequestRecords /\ mem.session = y.session
      /\ mem.saving = "no" /\ mem.pc = pc /\ mem.data = data
      /\ mem.kind = y.kind /\ mem.bundle = y.bundle
      /\ mem.copy = y.copy
  BY <1>2 DEF RequestRecords, Becomes
<1>4. mem.session = x.session /\ mem.kind = x.kind /\ mem.bundle = x.bundle /\ mem.copy = None
  BY <1>3, ViewFields
<1>5. /\ View(local) \in RequestRecords /\ View(local).pc = pc /\ View(local).data = data
      /\ View(local).session = x.session /\ View(local).kind = x.kind
      /\ View(local).bundle = x.bundle /\ View(local).copy = None /\ View(local).saving = "no"
  BY <1>1, ViewFields
<1>6. mem = View(local)
  BY <1>3, <1>4, <1>5, SameFields
<1> QED
  BY <1>1, <1>6

\* Some session object and records: r assigns `new` and becomes `local`.
LEMMA MemoryBecomes ==
  ASSUME NEW r, Requests = {r}, FileBacked, TypeInv, TypeInv', SwapInv(r),
         req[r].pc # "idle", req[r].saving = "no", brief' = brief,
         NEW new \in SessionRecords, NEW local, NEW mem,
         NEW pc \in PCs, NEW saving \in {"no", "open_session"}, NEW data \in SUBSET Fields,
         Assign(r, new, local), Becomes(local, req[r], pc, data, saving),
         Becomes(mem, MemReq[r], pc, data, "no")
  PROVE  /\ MemReq' = [MemReq EXCEPT ![r] = mem]
         /\ MemStore' = [MemStore EXCEPT ![MemReq[r].session] = new]
         /\ MemBrief' = MemBrief
<1>1. /\ req[r] \in RequestRecords /\ MemReq[r] = View(req[r]) /\ saving \in Savings
  BY SwapFacts, MemorySees DEF Savings
<1>2. /\ local \in RequestRecords /\ local.session = req[r].session
      /\ local.saving = saving /\ mem = View(local)
  BY <1>1, ViewBecomes
<1> QED
  BY <1>2, MemoryAssigns

LEMMA SwapExtraction ==
  ASSUME NEW r, OneAtATime(r), TypeInv, TypeInv', SwapInv(r),
         NEW found \in SUBSET Fields, ExtractionReturns(r, found)
  PROVE  Memory!ExtractionReturns(r, found)
<1> Requests = {r} /\ FileBacked
  BY DEF OneAtATime
<1> DEFINE old   == req[r].copy
           full  == old.filled \cup found
           done  == JourneyComplete(full, old.asked)
           new   == [status |-> "intaking", filled |-> full,
                     asked |-> AskedAfter(full, old.asked)]
           pc    == IF done THEN "intake_complete" ELSE "replying"
           data  == IF done THEN full ELSE {}
           local == [req[r] EXCEPT !.pc = pc, !.data = data,
                                   !.saving = "open_session"]
           mem   == [MemReq[r] EXCEPT !.pc = pc, !.data = data, !.saving = "no"]
<1>1. /\ req[r].copy \in SessionRecords /\ At(r, "extracting")
      /\ req[r].pc # "idle" /\ req[r].saving = "no"
  BY SwapFacts DEF ExtractionReturns, At
<1>2. Assign(r, new, local) /\ brief' = brief /\ UNCHANGED <<locked, lastBundle>>
  BY DEF ExtractionReturns, SessionOf, Save
<1>3. new \in SessionRecords /\ data \in SUBSET Fields
  <2>1. full \in SUBSET Fields /\ old.asked \in SUBSET Fields
    BY <1>1 DEF SessionRecords
  <2> HIDE DEF full
  <2> QED
    BY <2>1, AskedAfterType DEF SessionRecords, Statuses
<1>4. pc \in PCs /\ "open_session" \in {"no", "open_session"}
  BY DEF PCs, Answered
<1>5. /\ Becomes(local, req[r], pc, data, "open_session")
      /\ Becomes(mem, MemReq[r], pc, data, "no")
  BY DEF Becomes
<1> HIDE DEF pc, data, new, local, mem
<1>6. /\ MemReq' = [MemReq EXCEPT ![r] = mem]
      /\ MemStore' = [MemStore EXCEPT ![MemReq[r].session] = new]
      /\ MemBrief' = MemBrief
  BY <1>1, <1>2, <1>3, <1>4, <1>5, MemoryBecomes
<1>7. Memory!At(r, "extracting") /\ Memory!SessionOf(r) = old
  BY <1>1, MemorySees
<1> QED
  BY <1>2, <1>6, <1>7, SameJourney
  DEF Memory!ExtractionReturns, Memory!Save, Memory!Assign, MemStore, new, mem,
      pc, data, MemReq, MemBrief

\* A step that leaves the files, and what r has to write to them, leaves the
\* memory.
LEMMA MemoryStays ==
  ASSUME NEW r, Requests = {r}, UNCHANGED <<store, brief>>,
         req'[r].session = req[r].session, req'[r].copy = req[r].copy,
         req[r].saving = "no", req'[r].saving = "no"
  PROVE  UNCHANGED <<MemStore, MemBrief>>
<1>1. MemStore' = MemStore
  <2>1. \A s \in Sessions : MemStore'[s] = MemStore[s]
    BY MemoryOf, NextMemoryOf
  <2> QED
    BY <2>1, SameMemStore
<1>2. MemBrief' = MemBrief
  <2>1. \A s \in Sessions : MemBrief'[s] = MemBrief[s]
    BY MemoryOf, NextMemoryOf
  <2> QED
    BY <2>1, SameMemBrief
<1> QED
  BY <1>1, <1>2

\* A step of r that changes nothing but its place.
LEMMA PlaceStep ==
  ASSUME NEW r, Requests = {r}, FileBacked, TypeInv, SwapInv(r), NEW pc \in PCs,
         req[r].saving = "no", req' = [req EXCEPT ![r].pc = pc],
         UNCHANGED <<store, brief>>
  PROVE  /\ MemReq' = [MemReq EXCEPT ![r].pc = pc]
         /\ UNCHANGED <<MemStore, MemBrief>>
<1> DEFINE mem == [MemReq[r] EXCEPT !.pc = pc]
<1>1. /\ req'[r] \in RequestRecords /\ req'[r].pc = pc
      /\ req'[r].session = req[r].session /\ req'[r].kind = req[r].kind
      /\ req'[r].copy = req[r].copy /\ req'[r].data = req[r].data
      /\ req'[r].bundle = req[r].bundle /\ req'[r].saving = "no"
  BY SwapFacts DEF RequestRecords
<1>2. /\ mem \in RequestRecords /\ mem.pc = pc
      /\ mem.session = MemReq[r].session /\ mem.kind = MemReq[r].kind
      /\ mem.copy = MemReq[r].copy /\ mem.data = MemReq[r].data
      /\ mem.bundle = MemReq[r].bundle /\ mem.saving = MemReq[r].saving
  BY SwapFacts DEF RequestRecords
<1> HIDE DEF mem
<1>3. mem = View(req'[r])
  <2>1. /\ View(req'[r]) \in RequestRecords /\ View(req'[r]).pc = pc
        /\ View(req'[r]).session = req[r].session /\ View(req'[r]).kind = req[r].kind
        /\ View(req'[r]).copy = None /\ View(req'[r]).data = req[r].data
        /\ View(req'[r]).bundle = req[r].bundle /\ View(req'[r]).saving = "no"
    BY <1>1, ViewFields
  <2>2. /\ mem.session = req[r].session /\ mem.kind = req[r].kind
        /\ mem.copy = None /\ mem.data = req[r].data
        /\ mem.bundle = req[r].bundle /\ mem.saving = "no"
    BY <1>2, SwapFacts
  <2> QED
    BY <1>2, <2>1, <2>2, SameFields
<1>4. MemReq' = [MemReq EXCEPT ![r] = mem]
  BY <1>3, RequestStep
<1>5. UNCHANGED <<MemStore, MemBrief>>
  BY <1>1, MemoryStays
<1> QED
  BY <1>4, <1>5 DEF mem

LEMMA SwapPlaces ==
  ASSUME NEW r, OneAtATime(r), TypeInv, TypeInv', SwapInv(r),
         ExtractionFails(r) \/ LookUpBrief(r) \/ ResearchEnds(r)
  PROVE  Memory!ExtractionFails(r) \/ Memory!LookUpBrief(r) \/ Memory!ResearchEnds(r)
<1> Requests = {r} /\ FileBacked
  BY DEF OneAtATime
<1>1. CASE ExtractionFails(r)
  <2>1. /\ MemReq' = [MemReq EXCEPT ![r].pc = "replying"]
        /\ UNCHANGED <<MemStore, MemBrief>>
    BY <1>1, PlaceStep DEF ExtractionFails, At, PCs, Answered
  <2>2. Memory!At(r, "extracting")
    BY <1>1, MemorySees DEF ExtractionFails
  <2> QED
    BY <1>1, <2>1, <2>2 DEF ExtractionFails, Memory!ExtractionFails, MemReq, MemStore, MemBrief
<1>2. CASE ResearchEnds(r)
  <2>1. /\ MemReq' = [MemReq EXCEPT ![r].pc = "researched"]
        /\ UNCHANGED <<MemStore, MemBrief>>
    BY <1>2, PlaceStep DEF ResearchEnds, At, PCs, Running
  <2>2. Memory!At(r, "researching") /\ lastBundle' = MemReq[r].session
    BY <1>2, MemorySees, SwapFacts DEF ResearchEnds
  <2> QED
    BY <1>2, <2>1, <2>2 DEF ResearchEnds, Memory!ResearchEnds, MemReq, MemStore, MemBrief
<1>3. CASE LookUpBrief(r)
  <2>1. Memory!At(r, "looked_up") /\ req[r].saving = "no" /\ UNCHANGED <<store, brief, lastBundle>>
    BY <1>3, MemorySees DEF LookUpBrief, At
  <2>2. /\ MemBrief[MemReq[r].session] \in BriefRecords
             <=> brief[req[r].session] \in BriefRecords
        /\ MemBrief[MemReq[r].session] = None <=> brief[req[r].session] = None
    <3>1. MemBrief[MemReq[r].session] = Restored(brief[req[r].session])
      BY <2>1, MemoryOf, SwapFacts
    <3> QED
      BY <3>1, RestoredKeeps
  <2>3. brief[req[r].session] \notin {Truncated, Corrupt}
    BY <1>3 DEF SwapInv, LookUpBrief, At
  <2>4. CASE /\ brief[req[r].session] \in BriefRecords /\ locked' = locked
             /\ req' = [req EXCEPT ![r].pc = "brief_found"]
    <3>1. /\ MemReq' = [MemReq EXCEPT ![r].pc = "brief_found"]
          /\ UNCHANGED <<MemStore, MemBrief>>
      BY <2>1, <2>4, PlaceStep DEF PCs, Answered
    <3> QED
      BY <2>1, <2>2, <2>4, <3>1, SameJourney DEF Memory!LookUpBrief, MemReq, MemStore, MemBrief
  <2>5. CASE brief[req[r].session] = None /\ TryLock(r)
    <3>1. PICK pc \in {"busy", "granted"} :
            /\ req' = [req EXCEPT ![r].pc = pc]
            /\ IF req[r].session \in locked THEN pc = "busy" /\ locked' = locked
               ELSE pc = "granted" /\ locked' = locked \cup {req[r].session}
      BY <2>5 DEF TryLock
    <3>2. /\ MemReq' = [MemReq EXCEPT ![r].pc = pc]
          /\ UNCHANGED <<MemStore, MemBrief>>
      BY <2>1, <3>1, PlaceStep DEF PCs, Answered, Running
    <3>3. Memory!TryLock(r)
      BY <3>1, <3>2, SwapFacts DEF Memory!TryLock, MemReq
    <3> QED
      BY <2>1, <2>2, <2>5, <3>2, <3>3 DEF Memory!LookUpBrief, MemReq, MemStore, MemBrief
  <2> QED
    BY <1>3, <2>3, <2>4, <2>5 DEF LookUpBrief
<1> QED
  BY <1>1, <1>2, <1>3

LEMMA SwapTakeBundle ==
  ASSUME NEW r, OneAtATime(r), TypeInv, TypeInv', SwapInv(r), TakeBundle(r)
  PROVE  Memory!TakeBundle(r)
<1> Requests = {r} /\ FileBacked
  BY DEF OneAtATime
<1> DEFINE mem == [MemReq[r] EXCEPT !.pc = "synthesizing", !.bundle = lastBundle]
<1>0. /\ req[r].pc = "researched" /\ req[r].saving = "no" /\ Memory!At(r, "researched")
      /\ req' = [req EXCEPT ![r].pc = "synthesizing", ![r].bundle = lastBundle]
      /\ UNCHANGED <<store, brief, locked, lastBundle>>
      /\ lastBundle \in Sessions \cup {None}
  BY MemorySees DEF TakeBundle, At, TypeInv, TypeOK
<1>1. /\ req'[r] \in RequestRecords /\ req'[r].pc = "synthesizing"
      /\ req'[r].session = req[r].session /\ req'[r].kind = req[r].kind
      /\ req'[r].copy = req[r].copy /\ req'[r].data = req[r].data
      /\ req'[r].bundle = lastBundle /\ req'[r].saving = "no"
  BY <1>0, SwapFacts DEF RequestRecords, PCs, Running
<1>2. /\ mem \in RequestRecords /\ mem.pc = "synthesizing"
      /\ mem.session = MemReq[r].session /\ mem.kind = MemReq[r].kind
      /\ mem.copy = MemReq[r].copy /\ mem.data = MemReq[r].data
      /\ mem.bundle = lastBundle /\ mem.saving = MemReq[r].saving
  BY <1>0, SwapFacts DEF RequestRecords, PCs, Running
<1> HIDE DEF mem
<1>3. mem = View(req'[r])
  <2>1. /\ View(req'[r]) \in RequestRecords /\ View(req'[r]).pc = "synthesizing"
        /\ View(req'[r]).session = req[r].session /\ View(req'[r]).kind = req[r].kind
        /\ View(req'[r]).copy = None /\ View(req'[r]).data = req[r].data
        /\ View(req'[r]).bundle = lastBundle /\ View(req'[r]).saving = "no"
    BY <1>1, ViewFields
  <2>2. /\ mem.session = req[r].session /\ mem.kind = req[r].kind
        /\ mem.copy = None /\ mem.data = req[r].data /\ mem.saving = "no"
    BY <1>2, SwapFacts
  <2> QED
    BY <1>2, <2>1, <2>2, SameFields
<1>4. MemReq' = [MemReq EXCEPT ![r] = mem]
  BY <1>3, RequestStep
<1>5. UNCHANGED <<MemStore, MemBrief>>
  BY <1>0, <1>1, MemoryStays
<1> QED
  BY <1>0, <1>4, <1>5 DEF mem, Memory!TakeBundle, MemReq, MemStore, MemBrief

LEMMA SwapSynthesisReturns ==
  ASSUME NEW r, OneAtATime(r), TypeInv, TypeInv', SwapInv(r), SynthesisReturns(r)
  PROVE  Memory!SynthesisReturns(r)
<1> Requests = {r} /\ FileBacked
  BY DEF OneAtATime
<1> DEFINE mem == [MemReq[r] EXCEPT !.pc = "delivering", !.saving = "no"]
<1>0. /\ req[r].pc = "synthesizing" /\ req[r].saving = "no" /\ Memory!At(r, "synthesizing")
      /\ req' = [req EXCEPT ![r].pc = "delivering", ![r].saving = "open_brief"]
      /\ UNCHANGED <<store, brief, locked, lastBundle>>
  BY MemorySees DEF SynthesisReturns, At, Save
<1>1. /\ req'[r] \in RequestRecords /\ req'[r].pc = "delivering"
      /\ req'[r].session = req[r].session /\ req'[r].kind = req[r].kind
      /\ req'[r].copy = req[r].copy /\ req'[r].data = req[r].data
      /\ req'[r].bundle = req[r].bundle /\ req'[r].saving = "open_brief"
  BY <1>0, SwapFacts DEF RequestRecords, PCs, Running, Savings
<1>2. /\ mem \in RequestRecords /\ mem.pc = "delivering"
      /\ mem.session = MemReq[r].session /\ mem.kind = MemReq[r].kind
      /\ mem.copy = MemReq[r].copy /\ mem.data = MemReq[r].data
      /\ mem.bundle = MemReq[r].bundle /\ mem.saving = "no"
  BY <1>0, SwapFacts DEF RequestRecords, PCs, Running, Savings
<1> HIDE DEF mem
<1>3. mem = View(req'[r])
  <2>1. /\ View(req'[r]) \in RequestRecords /\ View(req'[r]).pc = "delivering"
        /\ View(req'[r]).session = req[r].session /\ View(req'[r]).kind = req[r].kind
        /\ View(req'[r]).copy = None /\ View(req'[r]).data = req[r].data
        /\ View(req'[r]).bundle = req[r].bundle /\ View(req'[r]).saving = "no"
    BY <1>1, ViewFields
  <2>2. /\ mem.session = req[r].session /\ mem.kind = req[r].kind
        /\ mem.copy = None /\ mem.data = req[r].data /\ mem.bundle = req[r].bundle
    BY <1>2, SwapFacts
  <2> QED
    BY <1>2, <2>1, <2>2, SameFields
<1>4. MemReq' = [MemReq EXCEPT ![r] = mem]
  BY <1>3, RequestStep
<1>5. MemStore' = MemStore
  <2>0. store' = store /\ req'[r].session = req[r].session /\ req'[r].copy = req[r].copy
    BY <1>0, <1>1
  <2>1. \A s \in Sessions : MemStore'[s] = MemStore[s]
    BY <2>0, MemoryOf, NextMemoryOf
  <2> QED
    BY <2>1, SameMemStore
<1>6. MemBrief' = [MemBrief EXCEPT ![MemReq[r].session] = Synthesized(r)]
  <2>0. PICK here : here = req[r].session
    OBVIOUS
  <2>1. Synthesized(r)' = Synthesized(r)
    BY <1>1 DEF Synthesized
  <2>2. \A s \in Sessions : MemBrief'[s] = IF s = here THEN Synthesized(r) ELSE MemBrief[s]
    <3>1. /\ brief' = brief /\ req'[r].session = here /\ req[r].session = here
          /\ req'[r].saving \in {"open_brief", "write_brief"}
          /\ req[r].saving \notin {"open_brief", "write_brief"}
      BY <1>0, <1>1, <2>0
    <3>2. \A s \in Sessions :
            MemBrief'[s] = IF here = s THEN Synthesized(r)' ELSE Restored(brief'[s])
      BY <3>1, NextMemoryOf
    <3>3. \A s \in Sessions : MemBrief[s] = Restored(brief[s])
      BY <3>1, MemoryOf
    <3> QED
      BY <2>1, <3>1, <3>2, <3>3
  <2>3. MemBrief' = [MemBrief EXCEPT ![here] = Synthesized(r)]
    BY <2>2, MemDomains
  <2> QED
    BY <2>0, <2>3, SwapFacts
<1>7. Memory!Synthesized(r) = Synthesized(r)
  <2>1. Synthesized(r) = [sources |-> MemReq[r].bundle, data |-> MemReq[r].data,
                          by |-> MemReq[r].kind, whole |-> TRUE]
    BY SwapFacts DEF Synthesized
  <2> QED
    BY <2>1 DEF Memory!Synthesized, MemReq
<1> QED
  BY <1>0, <1>4, <1>5, <1>6, <1>7
  DEF mem, Memory!SynthesisReturns, Memory!Save, MemReq, MemStore, MemBrief



LEMMA SwapEnds ==
  ASSUME NEW r, OneAtATime(r), TypeInv, TypeInv', SwapInv(r),
         SynthesisFails(r) \/ Complete(r)
  PROVE  Memory!SynthesisFails(r) \/ Memory!Complete(r)
<1> Requests = {r} /\ FileBacked
  BY DEF OneAtATime
<1>1. PICK pc \in {"synthesis_failed", "completed"}, status \in {"failed", "complete"} :
        /\ IF SynthesisFails(r) THEN pc = "synthesis_failed" /\ status = "failed"
           ELSE pc = "completed" /\ status = "complete"
  OBVIOUS
<1> DEFINE data  == req[r].data
           new   == [req[r].copy EXCEPT !.status = status]
           local == [req[r] EXCEPT !.pc = pc, !.saving = "open_session"]
           mem   == [MemReq[r] EXCEPT !.pc = pc, !.saving = "no"]
<1>2. /\ req[r] \in RequestRecords /\ MemReq[r] \in RequestRecords
      /\ MemReq[r].data = data /\ data \in SUBSET Fields
      /\ req[r].pc # "idle" /\ req[r].saving = "no" /\ brief' = brief
      /\ UNCHANGED <<locked, lastBundle>>
      /\ pc \in PCs
  BY SwapFacts DEF SynthesisFails, Complete, At, RequestRecords, PCs, Answered
<1>3. new \in SessionRecords /\ Assign(r, new, local)
  <2>1. new \in SessionRecords
    BY <1>2, SwapFacts DEF SessionRecords, Statuses
  <2>2. Assign(r, new, local)
    BY <1>1 DEF SynthesisFails, Complete, SessionOf, Save
  <2> QED
    BY <2>1, <2>2
<1>4. Becomes(local, req[r], pc, data, "open_session")
  BY <1>2 DEF Becomes, RequestRecords
<1>5. Becomes(mem, MemReq[r], pc, data, "no")
  BY <1>2 DEF Becomes, RequestRecords
<1>6. new = [Memory!SessionOf(r) EXCEPT !.status = status]
  BY <1>2, MemorySees
<1> HIDE DEF data, new, local, mem
<1>7. /\ MemReq' = [MemReq EXCEPT ![r] = mem]
      /\ MemStore' = [MemStore EXCEPT ![MemReq[r].session] = new]
      /\ MemBrief' = MemBrief
  <2>1. "open_session" \in {"no", "open_session"}
    OBVIOUS
  <2> QED
    BY <1>2, <1>3, <1>4, <1>5, <2>1, MemoryBecomes
<1>8. CASE SynthesisFails(r)
  <2>1. Memory!At(r, "synthesizing") /\ "llm" \in Faults
    BY <1>8, MemorySees DEF SynthesisFails
  <2> QED
    BY <1>1, <1>2, <1>6, <1>7, <1>8, <2>1
    DEF Memory!SynthesisFails, Memory!Assign, Memory!Save, MemReq, MemStore, MemBrief, mem
<1>9. CASE ~ SynthesisFails(r)
  <2>1. Memory!At(r, "delivering")
    BY <1>9, MemorySees DEF Complete
  <2> QED
    BY <1>1, <1>2, <1>6, <1>7, <1>9, <2>1
    DEF Memory!Complete, Memory!Assign, Memory!Save, MemReq, MemStore, MemBrief, mem
<1> QED
  BY <1>8, <1>9

LEMMA SwapEnterResearch ==
  ASSUME NEW r, Requests = {r}, FileBacked, TypeInv, TypeInv', SwapInv(r),
         req[r].pc # "idle", req[r].saving = "no", brief' = brief,
         NEW data \in SUBSET Fields, EnterResearch(r, data)
  PROVE  Memory!EnterResearch(r, data) /\ MemBrief' = MemBrief
<1> DEFINE saving == IF req[r].copy.status # "researching" THEN "open_session" ELSE "no"
           new    == [req[r].copy EXCEPT !.status = "researching"]
           local  == [req[r] EXCEPT !.pc = "researching", !.data = data, !.saving = saving]
           mem    == [MemReq[r] EXCEPT !.pc = "researching", !.data = data, !.saving = "no"]
<1>1. Assign(r, new, local)
  BY DEF EnterResearch, SessionOf, Save
<1>2. new \in SessionRecords
  BY SwapFacts DEF SessionRecords, Statuses
<1>3. /\ Becomes(local, req[r], "researching", data, saving)
      /\ Becomes(mem, MemReq[r], "researching", data, "no")
  BY DEF Becomes
<1>4. saving \in {"no", "open_session"} /\ "researching" \in PCs
  BY DEF PCs, Running
<1>5. Memory!SessionOf(r) = req[r].copy
  BY MemorySees
<1>6. new = [Memory!SessionOf(r) EXCEPT !.status = "researching"]
  BY <1>5
<1> HIDE DEF saving, new, local, mem
<1>7. /\ MemReq' = [MemReq EXCEPT ![r] = mem]
      /\ MemStore' = [MemStore EXCEPT ![MemReq[r].session] = new]
      /\ MemBrief' = MemBrief
  BY <1>1, <1>2, <1>3, <1>4, MemoryBecomes
<1> QED
  BY <1>6, <1>7
  DEF Memory!EnterResearch, Memory!Assign, Memory!Save, MemReq, MemStore, mem

LEMMA SwapResearch ==
  ASSUME NEW r, OneAtATime(r), TypeInv, TypeInv', SwapInv(r),
         StartRun(r) \/ ContinueAfterIntake(r)
  PROVE  Memory!StartRun(r) \/ Memory!ContinueAfterIntake(r)
<1> Requests = {r} /\ FileBacked
  BY DEF OneAtATime
<1>1. CASE ContinueAfterIntake(r)
  <2>1. /\ req[r].pc # "idle" /\ req[r].saving = "no" /\ brief' = brief
        /\ EnterResearch(r, req[r].data) /\ UNCHANGED <<locked, lastBundle>>
        /\ Memory!At(r, "intake_complete")
    BY <1>1, MemorySees DEF ContinueAfterIntake, At
  <2>2. PICK data \in SUBSET Fields : data = req[r].data /\ data = MemReq[r].data
    BY SwapFacts DEF RequestRecords
  <2>3. Memory!EnterResearch(r, data) /\ MemBrief' = MemBrief
    BY <2>1, <2>2, SwapEnterResearch
  <2> QED
    BY <2>1, <2>2, <2>3 DEF Memory!ContinueAfterIntake, MemReq, MemBrief
<1>2. CASE StartRun(r)
  <2>1. /\ req[r].pc # "idle" /\ req[r].saving = "no" /\ brief' = brief
        /\ UNCHANGED <<locked, lastBundle>>
        /\ Memory!At(r, "granted")
    BY <1>2, MemorySees DEF StartRun, At
  <2>2. PICK data \in SUBSET Fields :
          data = SessionOf(r).filled /\ data = Memory!SessionOf(r).filled
    <3>1. SessionOf(r) = req[r].copy /\ Memory!SessionOf(r) = req[r].copy
      BY <2>1, MemorySees DEF SessionOf
    <3> QED
      BY <2>1, <3>1, SwapFacts DEF SessionRecords
  <2>3. CASE FallbackComplete(data)
    <3>1. Memory!EnterResearch(r, data) /\ MemBrief' = MemBrief
      BY <1>2, <2>1, <2>2, <2>3, SwapEnterResearch DEF StartRun
    <3>2. Memory!FallbackComplete(Memory!SessionOf(r).filled)
      BY <2>2, <2>3, SameJourney
    <3> QED
      BY <2>1, <2>2, <3>1, <3>2 DEF Memory!StartRun, MemBrief
  <2>4. CASE ~ FallbackComplete(data)
    <3>1. req' = [req EXCEPT ![r].pc = "not_ready"] /\ UNCHANGED store
      BY <1>2, <2>2, <2>4 DEF StartRun
    <3>2. /\ MemReq' = [MemReq EXCEPT ![r].pc = "not_ready"]
          /\ UNCHANGED <<MemStore, MemBrief>>
      BY <2>1, <3>1, PlaceStep DEF PCs, Answered
    <3>3. ~ Memory!FallbackComplete(Memory!SessionOf(r).filled)
      BY <2>2, <2>4, SameJourney
    <3> QED
      BY <2>1, <3>2, <3>3 DEF Memory!StartRun, MemReq, MemStore, MemBrief
  <2> QED
    BY <2>3, <2>4
<1> QED
  BY <1>1, <1>2

\* r begins and ends: its copy of the session is what the file holds.
LEMMA SwapArrives ==
  ASSUME NEW r, OneAtATime(r), TypeInv, TypeInv', SwapInv(r), NEW s \in Sessions,
         ReceiveMessage(r, s) \/ LookUpSession(r, s)
  PROVE  Memory!ReceiveMessage(r, s) \/ Memory!LookUpSession(r, s)
<1> Requests = {r} /\ FileBacked
  BY DEF OneAtATime
<1>1. PICK pc \in {"extracting", "looked_up"}, kind \in {"message", "pipeline"} :
        /\ IF ReceiveMessage(r, s) THEN pc = "extracting" /\ kind = "message"
           ELSE pc = "looked_up" /\ kind = "pipeline"
  OBVIOUS
<1> DEFINE local == [Idle EXCEPT !.pc = pc, !.kind = kind, !.session = s, !.copy = store[s]]
           mem   == [Idle EXCEPT !.pc = pc, !.kind = kind, !.session = s, !.copy = None]
<1>2. /\ req[r].pc = "idle" /\ req[r].saving = "no" /\ store[s] \in SessionRecords
      /\ UNCHANGED <<store, brief, locked, lastBundle>>
      /\ req' = [req EXCEPT ![r] = local]
  BY <1>1 DEF ReceiveMessage, LookUpSession, At
<1>3. /\ Idle \in RequestRecords /\ Idle.saving = "no" /\ Idle.copy = None
      /\ pc \in PCs
  BY IdleType, <1>1 DEF Idle, PCs
<1>4. /\ local \in RequestRecords /\ local.pc = pc /\ local.kind = kind /\ local.session = s
      /\ local.copy = store[s] /\ local.data = Idle.data /\ local.bundle = Idle.bundle
      /\ local.saving = "no"
  BY <1>2, <1>3 DEF RequestRecords
<1>5. /\ mem \in RequestRecords /\ mem.pc = pc /\ mem.kind = kind /\ mem.session = s
      /\ mem.copy = None /\ mem.data = Idle.data /\ mem.bundle = Idle.bundle
      /\ mem.saving = "no"
  BY <1>3 DEF RequestRecords
<1> HIDE DEF local, mem
<1>6. req'[r] = local
  BY <1>2, SwapFacts
<1>7. mem = View(req'[r])
  <2>1. /\ View(local) \in RequestRecords /\ View(local).pc = pc /\ View(local).data = Idle.data
        /\ View(local).session = s /\ View(local).kind = kind
        /\ View(local).bundle = Idle.bundle /\ View(local).copy = None /\ View(local).saving = "no"
    BY <1>4, ViewFields
  <2>2. mem = View(local)
    BY <1>5, <2>1, SameFields
  <2> QED
    BY <1>6, <2>2
<1>8. MemReq' = [MemReq EXCEPT ![r] = mem]
  BY <1>7, RequestStep
<1>9. MemStore' = MemStore
  <2>1. /\ store' = store /\ req'[r].session = s /\ req'[r].copy = store[s]
        /\ req[r].copy = None /\ store[s] # None
    BY <1>2, <1>4, <1>6, SwapFacts
  <2>2. \A t \in Sessions : MemStore'[t] = MemStore[t]
    BY <2>1, MemoryOf, NextMemoryOf
  <2> QED
    BY <2>2, SameMemStore
<1>10. MemBrief' = MemBrief
  <2>1. brief' = brief /\ req[r].saving = "no" /\ req'[r].saving = "no"
    BY <1>2, <1>4, <1>6
  <2>2. \A t \in Sessions : MemBrief'[t] = MemBrief[t]
    BY <2>1, MemoryOf, NextMemoryOf
  <2> QED
    BY <2>2, SameMemBrief
<1>11. Memory!At(r, "idle") /\ MemStore[s] \in Memory!SessionRecords /\ Memory!Idle = Idle
  BY <1>2, MemorySees DEF At
<1> QED
  BY <1>1, <1>2, <1>8, <1>9, <1>10, <1>11
  DEF Memory!ReceiveMessage, Memory!LookUpSession, MemReq, MemStore, MemBrief, mem

LEMMA SwapLeaves ==
  ASSUME NEW r, OneAtATime(r), TypeInv, TypeInv', SwapInv(r), Finish(r)
  PROVE  Memory!Finish(r)
<1> Requests = {r} /\ FileBacked
  BY DEF OneAtATime
<1>1. /\ req[r].pc \in Answered /\ req[r].saving = "no"
      /\ locked' = IF Holding(r) THEN locked \ {req[r].session} ELSE locked
      /\ req' = [req EXCEPT ![r] = Idle] /\ UNCHANGED <<store, brief, lastBundle>>
  BY DEF Finish
<1>2. req'[r] = Idle /\ Idle.copy = None /\ Idle.saving = "no" /\ Memory!Idle = Idle
      /\ View(Idle) = Idle
  BY <1>1, SwapFacts, MemorySees DEF Idle
<1>3. MemReq' = [MemReq EXCEPT ![r] = Memory!Idle]
  <2>1. Memory!Idle = View(req'[r])
    BY <1>2
  <2>2. PICK mem : mem = Memory!Idle
    OBVIOUS
  <2>3. MemReq' = [MemReq EXCEPT ![r] = mem]
    BY <2>1, <2>2, RequestStep
  <2> QED
    BY <2>2, <2>3
<1>4. MemStore' = MemStore
  <2>1. /\ store' = store /\ req'[r].copy = None /\ req[r].pc # "idle"
        /\ store[req[r].session] = req[r].copy
    BY <1>1, <1>2 DEF SwapInv, Answered
  <2>2. \A t \in Sessions : MemStore'[t] = MemStore[t]
    BY <2>1, MemoryOf, NextMemoryOf
  <2> QED
    BY <2>2, SameMemStore
<1>5. MemBrief' = MemBrief
  <2>1. brief' = brief /\ req[r].saving = "no" /\ req'[r].saving = "no"
    BY <1>1, <1>2
  <2>2. \A t \in Sessions : MemBrief'[t] = MemBrief[t]
    BY <2>1, MemoryOf, NextMemoryOf
  <2> QED
    BY <2>2, SameMemBrief
<1>6. Memory!Holding(r) <=> Holding(r)
  <2>1. Holding(r) <=> MemReq[r].kind = "pipeline" /\ MemReq[r].pc \in Running
    BY SwapFacts DEF Holding
  <2> QED
    BY <2>1 DEF Memory!Holding, Memory!Running, Running, MemReq
<1>7. /\ MemReq[r].pc \in Memory!Answered /\ MemReq[r].saving = "no"
      /\ MemReq[r].session = req[r].session
  BY <1>1, SwapFacts DEF Memory!Answered, Answered
<1> QED
  BY <1>1, <1>3, <1>4, <1>5, <1>6, <1>7 DEF Memory!Finish, MemReq, MemStore, MemBrief

LEMMA SwapCreates ==
  ASSUME NEW r, OneAtATime(r), TypeInv, TypeInv', SwapInv(r), NEW s \in Sessions, CreateSession(s)
  PROVE  Memory!CreateSession(s)
<1> Requests = {r} /\ FileBacked
  BY DEF OneAtATime
<1>1. /\ store[s] = None /\ store' = [store EXCEPT ![s] = NewSession]
      /\ UNCHANGED <<brief, locked, lastBundle, req>>
  BY DEF CreateSession
<1>2. req[r].copy = None \/ req[r].session # s
  BY <1>1, PipelineAssumption, SwapFacts DEF SwapInv
<1>3. MemStore[s] = None
  BY <1>1, <1>2, MemoryOf
<1>4. MemStore' = [MemStore EXCEPT ![s] = NewSession]
  <2>1. \A t \in Sessions : MemStore'[t] = IF t = s THEN NewSession ELSE MemStore[t]
    BY <1>1, <1>2, SwapFacts, MemoryOf, NextMemoryOf
  <2> QED
    BY <2>1, MemDomains
<1>5. MemReq' = MemReq /\ MemBrief' = MemBrief
  <2>1. MemReq' = MemReq
    BY <1>1 DEF MemReq
  <2>2. Synthesized(r)' = Synthesized(r)
    BY <1>1 DEF Synthesized
  <2>3. \A t \in Sessions : MemBrief'[t] = MemBrief[t]
    BY <1>1, <2>2, MemoryOf, NextMemoryOf
  <2> QED
    BY <2>1, <2>3, SameMemBrief
<1>6. Memory!NewSession = NewSession
  BY DEF Memory!NewSession, NewSession
<1> QED
  BY <1>1, <1>3, <1>4, <1>5, <1>6 DEF Memory!CreateSession, MemReq, MemStore, MemBrief

\* Opening and writing a file change nothing in memory.
LEMMA SwapFiles ==
  ASSUME NEW r, OneAtATime(r), TypeInv, TypeInv', SwapInv(r), OpenFile(r) \/ WriteFile(r)
  PROVE  UNCHANGED <<MemStore, MemBrief, locked, lastBundle, MemReq>>
<1> Requests = {r} /\ FileBacked
  BY DEF OneAtATime
<1>1. /\ req[r].pc # "idle" /\ UNCHANGED <<locked, lastBundle>>
      /\ req[r].saving \in {"open_session", "write_session", "open_brief", "write_brief"}
  BY SwapFacts DEF OpenFile, WriteFile
<1>2. PICK saving : req' = [req EXCEPT ![r].saving = saving]
  BY DEF OpenFile, WriteFile
<1>3. /\ req'[r] \in RequestRecords /\ req'[r].pc = req[r].pc
      /\ req'[r].session = req[r].session /\ req'[r].kind = req[r].kind
      /\ req'[r].copy = req[r].copy /\ req'[r].data = req[r].data
      /\ req'[r].bundle = req[r].bundle /\ req'[r].saving = saving
  BY <1>2, SwapFacts DEF RequestRecords, TypeInv, TypeOK
<1>4. MemReq' = MemReq
  <2>1. /\ View(req'[r]) \in RequestRecords /\ View(req'[r]).pc = req[r].pc
        /\ View(req'[r]).data = req[r].data
        /\ View(req'[r]).session = req[r].session /\ View(req'[r]).kind = req[r].kind
        /\ View(req'[r]).bundle = req[r].bundle /\ View(req'[r]).copy = None
        /\ View(req'[r]).saving = "no"
    BY <1>3, ViewFields
  <2>2. MemReq[r] = View(req'[r])
    BY <2>1, SwapFacts, SameFields
  <2> QED
    BY <2>2, NextMemoryOf, MemDomains
<1>5. MemStore' = MemStore
  <2>1. \A t \in Sessions : t # req[r].session => store'[t] = store[t]
    BY SwapFacts DEF OpenFile, WriteFile
  <2>2. req[r].copy # None
    BY <1>1, SwapFacts
  <2>3. \A t \in Sessions : MemStore'[t] = MemStore[t]
    BY <1>3, <2>1, <2>2, MemoryOf, NextMemoryOf
  <2> QED
    BY <2>3, SameMemStore
<1>6. MemBrief' = MemBrief
  <2>1. Synthesized(r)' = Synthesized(r)
    BY <1>3 DEF Synthesized
  <2>2. \A t \in Sessions : t # req[r].session => brief'[t] = brief[t]
    BY SwapFacts DEF OpenFile, WriteFile
  <2>3. CASE req[r].saving \in {"open_session", "write_session"}
    <3>1. brief' = brief /\ saving \in {"no", "write_session"}
      BY <1>3, <2>3, SwapFacts DEF OpenFile, WriteFile, RequestRecords
    <3>2. \A t \in Sessions : MemBrief'[t] = MemBrief[t]
      BY <1>3, <2>3, <3>1, MemoryOf, NextMemoryOf
    <3> QED
      BY <3>2, SameMemBrief
  <2>4. CASE req[r].saving = "open_brief"
    <3>1. saving = "write_brief"
      BY <1>3, <2>4, SwapFacts DEF OpenFile, WriteFile, RequestRecords
    <3>2. \A t \in Sessions : MemBrief'[t] = MemBrief[t]
      BY <1>3, <2>1, <2>2, <2>4, <3>1, MemoryOf, NextMemoryOf
    <3> QED
      BY <3>2, SameMemBrief
  <2>5. CASE req[r].saving = "write_brief"
    <3>1. saving = "no" /\ Restored(brief'[req[r].session]) = Synthesized(r)
      <4>1. /\ brief[req[r].session] = Truncated /\ WriteFile(r)
            /\ req' = [req EXCEPT ![r].saving = "no"]
        BY <1>1, <2>5 DEF SwapInv, OpenFile, WriteFile
      <4>2. brief' = [brief EXCEPT ![req[r].session] = Serialized(Synthesized(r))]
        BY <2>5, <4>1 DEF WriteFile, Overlay
      <4>3. saving = "no"
        BY <1>3, <4>1, SwapFacts DEF RequestRecords
      <4>4. Synthesized(r) \in BriefRecords /\ Synthesized(r).whole = TRUE
        <5>1. req[r] \in RequestRecords /\ req[r].bundle \in Sessions
          BY <2>5, SwapFacts DEF TypeInv, TypeOK, WellFormed
        <5> QED
          BY <5>1 DEF Synthesized, BriefRecords, RequestRecords
      <4>5. Restored(Serialized(Synthesized(r))) = Synthesized(r)
        BY <4>4, RestoredSerialized
      <4>6. brief'[req[r].session] = Serialized(Synthesized(r))
        BY <4>2, SwapFacts
      <4> QED
        BY <4>3, <4>5, <4>6
    <3>2. \A t \in Sessions : MemBrief'[t] = MemBrief[t]
      BY <1>3, <2>2, <2>5, <3>1, MemoryOf, NextMemoryOf
    <3> QED
      BY <3>2, SameMemBrief
  <2> QED
    BY <1>1, <2>3, <2>4, <2>5
<1> QED
  BY <1>1, <1>4, <1>5, <1>6

LEMMA SwapInit ==
  ASSUME NEW r, OneAtATime(r), Init
  PROVE  Memory!Init
<1> Requests = {r}
  BY DEF OneAtATime
<1>1. req[r] = Idle /\ Idle.copy = None /\ Idle.saving = "no"
  BY DEF Init, Idle
<1>2. MemStore = [s \in Sessions |-> None] /\ MemBrief = [s \in Sessions |-> None]
  <2>1. Restored(None) = None
    BY RestoredKeeps
  <2>2. \A s \in Sessions : MemStore[s] = None /\ MemBrief[s] = None
    BY <1>1, <2>1, MemoryOf DEF Init
  <2> QED
    BY <2>2, MemDomains
<1>3. MemReq = [q \in Requests |-> Memory!Idle]
  <2>1. Memory!Idle = Idle
    BY DEF Memory!Idle, Idle
  <2>2. View(Idle) = Idle
    BY IdleType, ViewFields, SameFields DEF Idle
  <2>3. MemReq[r] = Memory!Idle
    BY <1>1, <2>1, <2>2, MemoryOf
  <2>4. MemReq = [q \in Requests |-> MemReq[q]]
    BY MemDomains
  <2> QED
    BY <2>3, <2>4
<1> QED
  BY <1>2, <1>3 DEF Init, Memory!Init, MemReq, MemStore, MemBrief

LEMMA SwapStep ==
  ASSUME NEW r, OneAtATime(r), TypeInv, TypeInv', SwapInv(r), [Next]_vars
  PROVE  [Memory!Next]_(Memory!vars)
<1> DEFINE Abs == Memory!Next \/ UNCHANGED <<MemStore, MemBrief, locked, lastBundle, MemReq>>
<1> SUFFICES Abs
  BY DEF Memory!vars, MemStore, MemBrief, MemReq
<1> r \in Requests /\ Requests = {r} /\ FileBacked /\ \A f \in Faults : f = "llm"
  BY DEF OneAtATime
<1>1. ASSUME Memory!Serve(r) PROVE Abs
  BY <1>1 DEF Memory!Next
<1>2. ASSUME NEW s \in Sessions, CreateSession(s) PROVE Abs
  BY <1>2, SwapCreates DEF Memory!Next
<1>3. ASSUME NEW s \in Sessions, ReceiveMessage(r, s) \/ LookUpSession(r, s) PROVE Abs
  BY <1>3, SwapArrives DEF Memory!Next
<1>4. ASSUME NEW found \in SUBSET Fields, ExtractionReturns(r, found) PROVE Abs
  BY <1>1, <1>4, SwapExtraction, SameJourney DEF Memory!Serve
<1>5. CASE ExtractionFails(r) \/ LookUpBrief(r) \/ ResearchEnds(r)
  BY <1>1, <1>5, SwapPlaces DEF Memory!Serve
<1>6. CASE StartRun(r) \/ ContinueAfterIntake(r)
  BY <1>1, <1>6, SwapResearch DEF Memory!Serve
<1>7. CASE TakeBundle(r)
  BY <1>1, <1>7, SwapTakeBundle DEF Memory!Serve
<1>8. CASE SynthesisReturns(r)
  BY <1>1, <1>8, SwapSynthesisReturns DEF Memory!Serve
<1>9. CASE SynthesisFails(r) \/ Complete(r)
  BY <1>1, <1>9, SwapEnds DEF Memory!Serve
<1>10. CASE Finish(r)
  BY <1>1, <1>10, SwapLeaves DEF Memory!Serve
<1>11. CASE OpenFile(r) \/ WriteFile(r)
  BY <1>11, SwapFiles
<1>12. CASE BriefUnreadable(r) \/ DiskError(r) \/ Disconnect(r) \/ Crash
  BY <1>12 DEF BriefUnreadable, DiskError, Disconnect, Crash, At, SwapInv
<1>13. CASE UNCHANGED vars
  <2>1. UNCHANGED <<MemStore, MemBrief, MemReq>>
    BY <1>13 DEF vars, MemStore, MemBrief, MemReq, LogicalSession, LogicalBrief, Synthesized
  <2> QED
    BY <1>13, <2>1 DEF vars
<1> QED
  BY <1>2, <1>3, <1>4, <1>5, <1>6, <1>7, <1>8, <1>9, <1>10, <1>11, <1>12, <1>13
  DEF Next, Serve

LEMMA SwapInvFrame ==
  ASSUME NEW r, SwapInv(r), UNCHANGED vars PROVE SwapInv(r)'
BY DEF SwapInv, Readable, vars

\* With requests that come one at a time and no fault but a model call that
\* fails, the pipeline over files is the pipeline over memory but for the
\* research results of stored briefs, which a file loses: every run of the one,
\* with what its request has yet to write counted as stored and those results
\* put back, is a run of the other.
THEOREM AdaptersSwap ==
  ASSUME NEW r, OneAtATime(r)
  PROVE  Spec => SwapButForResults
<1>1. Init => SwapInv(r)
  BY SwapInvInit DEF OneAtATime
<1>2. TypeInv /\ TypeInv' /\ SwapInv(r) /\ [Next]_vars => SwapInv(r)'
  BY SwapInvStep, SwapInvFrame
<1>3. Init => Memory!Init
  BY SwapInit
<1>4. TypeInv /\ TypeInv' /\ SwapInv(r) /\ [Next]_vars => [Memory!Next]_(Memory!vars)
  BY SwapStep
<1> QED
  BY <1>1, <1>2, <1>3, <1>4, TypeInvariant, PTL DEF Spec, SwapButForResults, Memory!Spec

=============================================================================
