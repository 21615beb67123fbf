---------------------------- MODULE BriefPipeline ----------------------------
(***************************************************************************)
(* The core of Brief Scout: the two endpoints that run the brief pipeline  *)
(* (POST .../message and POST .../pipeline, interfaces/api/routes.py), the *)
(* BriefGenerationPipeline they run, the sessions and briefs they store    *)
(* and the objects every request shares: the per-session locks and the one *)
(* ResearchPipeline with its last_bundle.                                  *)
(*                                                                         *)
(* The server is one asyncio event loop.  An action is what a request does *)
(* between two points where it may be suspended (an await on a model call, *)
(* on a file or on the client's socket), so actions interleave exactly     *)
(* where the coroutines may.                                               *)
(*                                                                         *)
(* A session is kept in memory (FileBacked = FALSE), where get_session     *)
(* returns the stored object itself, so what one request assigns every     *)
(* other request sees at once, or in files (FileBacked = TRUE), where a    *)
(* request works on its own copy and saving truncates the file, suspends,  *)
(* and then writes it.                                                     *)
(***************************************************************************)
EXTENDS Optional, Journey, FiniteSets

CONSTANTS
  Sessions,     \* session ids
  Requests,     \* requests in flight; each is reused once it has ended
  FileBacked,   \* the storage adapter: file_system (TRUE) or in_memory
  Faults,       \* what may go wrong: see FaultKinds
  Truncated,    \* a file opened for writing and not written yet
  Corrupt       \* a file that holds the remains of two overlapping writes

FaultKinds == {"llm", "disk", "disconnect", "crash"}

Statuses == {"intaking", "researching", "complete", "failed"}

SessionRecords ==
  [status : Statuses, filled : SUBSET Fields, asked : SUBSET Fields]

\* A brief: the session whose research it was written from (Brief.sources),
\* the intake data it was written from, the endpoint whose run stored it, and
\* whether the results in its sources are still those of the research.
BriefRecords ==
  [sources : Sessions, data : SUBSET Fields, by : {"message", "pipeline"},
   whole : BOOLEAN]

ASSUME PipelineAssumption ==
  /\ Sessions # {}
  /\ FileBacked \in BOOLEAN
  /\ Faults \subseteq FaultKinds
  /\ None \notin Sessions
  /\ {None, Truncated, Corrupt} \cap (SessionRecords \cup BriefRecords) = {}
  /\ None # Truncated /\ None # Corrupt /\ Truncated # Corrupt

VARIABLES
  store,        \* what get_session would read, per session
  brief,        \* what get_brief would read, per session
  locked,       \* the sessions whose asyncio.Lock is locked
  lastBundle,   \* ResearchPipeline._last_bundle: whose research it holds
  req           \* the local state of each request

vars == <<store, brief, locked, lastBundle, req>>

\* Where a request stands.  A request in one of Answered has nothing left to
\* do but send what it yielded last and leave.
Answered == {"replying", "brief_found", "busy", "not_ready", "completed",
             "synthesis_failed", "failed", "intake_failed", "error"}

Running == {"granted", "not_ready", "researching", "researched",
            "synthesizing", "delivering", "completed", "synthesis_failed",
            "failed", "error"}

PCs == {"idle", "extracting", "intake_complete", "looked_up",
        "brief_unreadable"} \cup Running \cup Answered

\* The file operation a request waits for; "no" when it waits for none.
Savings == {"no", "open_session", "write_session", "open_brief",
            "write_brief"}

RequestRecords ==
  [pc : PCs, kind : {"message", "pipeline"}, session : Sessions,
   copy : SessionRecords \cup {None}, data : SUBSET Fields,
   bundle : Sessions \cup {None}, saving : Savings]

Idle == [pc |-> "idle", kind |-> "message",
         session |-> CHOOSE s \in Sessions : TRUE, copy |-> None,
         data |-> {}, bundle |-> None, saving |-> "no"]

NewSession == [status |-> "intaking", filled |-> {}, asked |-> {}]

Init ==
  /\ store = [s \in Sessions |-> None]
  /\ brief = [s \in Sessions |-> None]
  /\ locked = {}
  /\ lastBundle = None
  /\ req = [r \in Requests |-> Idle]

-----------------------------------------------------------------------------
(* Helpers *)

\* r may take its next step: it waits at `pc` and for no file.
At(r, pc) == req[r].pc = pc /\ req[r].saving = "no"

\* The ChatSession object the coroutine of r holds.
SessionOf(r) == IF FileBacked THEN req[r].copy ELSE store[req[r].session]

\* r continues as `local` and its session object becomes `new`.
Assign(r, new, local) ==
  IF FileBacked
    THEN /\ req' = [req EXCEPT ![r] = [local EXCEPT !.copy = new]]
         /\ UNCHANGED store
    ELSE /\ req' = [req EXCEPT ![r] = local]
         /\ store' = [store EXCEPT ![req[r].session] = new]

\* `await save_...`: in memory the object is in place already and nothing
\* suspends; on disk the file is opened and then written.
Save(operation) == IF FileBacked THEN operation ELSE "no"

\* r runs for the /pipeline endpoint and is between acquire and release.
Holding(r) == req[r].kind = "pipeline" /\ req[r].pc \in Running

\* The brief synthesis.execute returned to r.
Synthesized(r) ==
  [sources |-> req[r].bundle, data |-> req[r].data, by |-> req[r].kind,
   whole |-> TRUE]

\* model_dump_json: ResearchBundle.results is declared dict[str, BaseModel],
\* so each result is written by the fields of BaseModel, of which there are
\* none, and is read back empty.
Serialized(b) == [b EXCEPT !.whole = FALSE]

-----------------------------------------------------------------------------
(* POST /chat/sessions.  Nobody knows the id before the save has finished, *)
(* so the save is one step.                                                *)

CreateSession(s) ==
  /\ store[s] = None
  /\ store' = [store EXCEPT ![s] = NewSession]
  /\ UNCHANGED <<brief, locked, lastBundle, req>>

-----------------------------------------------------------------------------
(* POST /chat/{session_id}/message.  A session that cannot be read is      *)
(* answered 404, which changes nothing.                                    *)

ReceiveMessage(r, s) ==
  /\ At(r, "idle")
  /\ store[s] \in SessionRecords
  /\ req' = [req EXCEPT ![r] = [Idle EXCEPT
               !.pc = "extracting", !.kind = "message", !.session = s,
               !.copy = IF FileBacked THEN store[s] ELSE None]]
  /\ UNCHANGED <<store, brief, locked, lastBundle>>

\* Variant: the extracted fields replace what was known.
ExtractionReplaces(r, found) ==
  LET done == JourneyComplete(found, SessionOf(r).asked)
  IN  /\ At(r, "extracting")
      /\ Assign(r,
           [status |-> "intaking", filled |-> found,
            asked |-> AskedAfter(found, SessionOf(r).asked)],
           [req[r] EXCEPT
             !.pc = IF done THEN "intake_complete" ELSE "replying",
             !.data = IF done THEN found ELSE {},
             !.saving = Save("open_session")])
      /\ UNCHANGED <<brief, locked, lastBundle>>

\* The extractor found the fields `found`: merge them, ask the next question
\* or finish the interview, and save.
ExtractionReturns(r, found) ==
  LET old    == SessionOf(r)
      filled == old.filled \cup found
      done   == JourneyComplete(filled, old.asked)
  IN  /\ At(r, "extracting")
      /\ Assign(r,
           [status |-> "intaking", filled |-> filled,
            asked |-> AskedAfter(filled, old.asked)],
           [req[r] EXCEPT
             !.pc = IF done THEN "intake_complete" ELSE "replying",
             !.data = IF done THEN filled ELSE {},
             !.saving = Save("open_session")])
      /\ UNCHANGED <<brief, locked, lastBundle>>

\* A BriefScoutError: the reply asks to rephrase and nothing is saved.
ExtractionFails(r) ==
  /\ At(r, "extracting")
  /\ "llm" \in Faults
  /\ req' = [req EXCEPT ![r].pc = "replying"]
  /\ UNCHANGED <<store, brief, locked, lastBundle>>

-----------------------------------------------------------------------------
(* POST /chat/{session_id}/pipeline                                        *)

LookUpSession(r, s) ==
  /\ At(r, "idle")
  /\ store[s] \in SessionRecords
  /\ req' = [req EXCEPT ![r] = [Idle EXCEPT
               !.pc = "looked_up", !.kind = "pipeline", !.session = s,
               !.copy = IF FileBacked THEN store[s] ELSE None]]
  /\ UNCHANGED <<store, brief, locked, lastBundle>>

\* Variant: the lock is taken without a test.
TryLockUntested(r) ==
  /\ locked' = locked \cup {req[r].session}
  /\ req' = [req EXCEPT ![r].pc = "granted"]

\* Variant: a request waits for the lock instead of answering busy.
TryLockWaiting(r) ==
  /\ req[r].session \notin locked
  /\ locked' = locked \cup {req[r].session}
  /\ req' = [req EXCEPT ![r].pc = "granted"]

\* No brief: test the session's lock and take it, with no await in between.
TryLock(r) ==
  LET s == req[r].session
  IN  \/ /\ s \in locked
         /\ req' = [req EXCEPT ![r].pc = "busy"]
         /\ UNCHANGED locked
      \/ /\ s \notin locked
         /\ locked' = locked \cup {s}
         /\ req' = [req EXCEPT ![r].pc = "granted"]

\* Variant: the lock is tested and taken before the brief is looked up.
LookUpBriefOnce(r) ==
  /\ At(r, "looked_up")
  /\ TryLock(r)
  /\ UNCHANGED <<store, brief, lastBundle>>

\* A missing file is known without an await, so the lock is tested at once.
\* An unreadable file counts as no brief, but reading it suspended.
LookUpBrief(r) ==
  /\ At(r, "looked_up")
  /\ LET b == brief[req[r].session]
     IN  \/ b = None /\ TryLock(r)
         \/ /\ b \in {Truncated, Corrupt}
            /\ req' = [req EXCEPT ![r].pc = "brief_unreadable"]
            /\ UNCHANGED locked
         \/ /\ b \in BriefRecords
            /\ req' = [req EXCEPT ![r].pc = "brief_found"]
            /\ UNCHANGED locked
  /\ UNCHANGED <<store, brief, lastBundle>>

BriefUnreadable(r) ==
  /\ At(r, "brief_unreadable")
  /\ TryLock(r)
  /\ UNCHANGED <<store, brief, lastBundle>>

-----------------------------------------------------------------------------
(* BriefGenerationPipeline.run                                             *)

\* Research starts; the status is saved only when it changes.
EnterResearch(r, data) ==
  LET old == SessionOf(r)
  IN  Assign(r, [old EXCEPT !.status = "researching"],
             [req[r] EXCEPT
               !.pc = "researching", !.data = data,
               !.saving = IF old.status # "researching"
                            THEN Save("open_session") ELSE "no"])

\* Variant: the run resumes without a completeness check.
StartRunUnchecked(r) ==
  /\ At(r, "granted")
  /\ EnterResearch(r, SessionOf(r).filled)
  /\ UNCHANGED <<brief, locked, lastBundle>>

\* The body of the /pipeline stream starts: the run resumes from the session.
StartRun(r) ==
  /\ At(r, "granted")
  /\ IF FallbackComplete(SessionOf(r).filled)
       THEN EnterResearch(r, SessionOf(r).filled)
       ELSE /\ req' = [req EXCEPT ![r].pc = "not_ready"]
            /\ UNCHANGED store
  /\ UNCHANGED <<brief, locked, lastBundle>>

\* The body of the message stream starts: the run goes on after its intake.
ContinueAfterIntake(r) ==
  /\ At(r, "intake_complete")
  /\ EnterResearch(r, req[r].data)
  /\ UNCHANGED <<brief, locked, lastBundle>>

\* research.stream: the steps have ended, each with a result or a failure,
\* their events have been sent and the shared pipeline keeps the bundle.  The
\* stream's last event is sent after that.
ResearchEnds(r) ==
  /\ At(r, "researching")
  /\ lastBundle' = req[r].session
  /\ req' = [req EXCEPT ![r].pc = "researched"]
  /\ UNCHANGED <<store, brief, locked>>

\* The last event has been sent: the run reads last_bundle back.  It is never
\* None here, so `or await execute(...)` is never taken (see WellFormed).
TakeBundle(r) ==
  /\ At(r, "researched")
  /\ req' = [req EXCEPT ![r].pc = "synthesizing", ![r].bundle = lastBundle]
  /\ UNCHANGED <<store, brief, locked, lastBundle>>

\* Variant: the brief is sent without being saved.
SynthesisUnsaved(r) ==
  /\ At(r, "synthesizing")
  /\ req' = [req EXCEPT ![r].pc = "delivering"]
  /\ UNCHANGED <<store, brief, locked, lastBundle>>

SynthesisReturns(r) ==
  /\ At(r, "synthesizing")
  /\ req' = [req EXCEPT ![r].pc = "delivering",
                        ![r].saving = Save("open_brief")]
  /\ brief' = IF FileBacked THEN brief
              ELSE [brief EXCEPT ![req[r].session] = Synthesized(r)]
  /\ UNCHANGED <<store, locked, lastBundle>>

SynthesisFails(r) ==
  /\ At(r, "synthesizing")
  /\ "llm" \in Faults
  /\ Assign(r, [SessionOf(r) EXCEPT !.status = "failed"],
            [req[r] EXCEPT !.pc = "synthesis_failed",
                           !.saving = Save("open_session")])
  /\ UNCHANGED <<brief, locked, lastBundle>>

\* Variant: the final status is not saved.
CompleteUnsaved(r) ==
  /\ At(r, "delivering")
  /\ Assign(r, [SessionOf(r) EXCEPT !.status = "complete"],
            [req[r] EXCEPT !.pc = "completed"])
  /\ UNCHANGED <<brief, locked, lastBundle>>

\* The brief event has been sent.
Complete(r) ==
  /\ At(r, "delivering")
  /\ Assign(r, [SessionOf(r) EXCEPT !.status = "complete"],
            [req[r] EXCEPT !.pc = "completed",
                           !.saving = Save("open_session")])
  /\ UNCHANGED <<brief, locked, lastBundle>>

\* Variant: the lock is released by every response, whoever took it.
FinishReleases(r) ==
  /\ req[r].pc \in Answered
  /\ req[r].saving = "no"
  /\ locked' = locked \ {req[r].session}
  /\ req' = [req EXCEPT ![r] = Idle]
  /\ UNCHANGED <<store, brief, lastBundle>>

\* The response ends; _wrapped_generator's finally releases the lock.
Finish(r) ==
  /\ req[r].pc \in Answered
  /\ req[r].saving = "no"
  /\ locked' = IF Holding(r) THEN locked \ {req[r].session} ELSE locked
  /\ req' = [req EXCEPT ![r] = Idle]
  /\ UNCHANGED <<store, brief, lastBundle>>

-----------------------------------------------------------------------------
(* FileSystemStorageAdapter.save_session and save_brief                    *)

\* open(..., "w") truncates the file whatever it holds.
OpenFile(r) ==
  LET s == req[r].session
  IN  /\ \/ /\ req[r].saving = "open_session"
            /\ store' = [store EXCEPT ![s] = Truncated]
            /\ req' = [req EXCEPT ![r].saving = "write_session"]
            /\ UNCHANGED brief
         \/ /\ req[r].saving = "open_brief"
            /\ brief' = [brief EXCEPT ![s] = Truncated]
            /\ req' = [req EXCEPT ![r].saving = "write_brief"]
            /\ UNCHANGED store
      /\ UNCHANGED <<locked, lastBundle>>

\* What a file holds once `new` is written at its start.  If another request
\* has written since this one truncated it, the tail of a longer text stays.
Overlay(old, new) == IF old = Truncated THEN {new} ELSE {new, Corrupt}

\* Variant: save_brief writes to the file of the session.
WriteFileMisplaced(r) ==
  LET s == req[r].session
  IN  /\ \/ /\ req[r].saving = "write_session"
            /\ \E text \in Overlay(store[s], req[r].copy) :
                 store' = [store EXCEPT ![s] = text]
         \/ /\ req[r].saving = "write_brief"
            /\ \E text \in Overlay(store[s], Serialized(Synthesized(r))) :
                 store' = [store EXCEPT ![s] = text]
      /\ req' = [req EXCEPT ![r].saving = "no"]
      /\ UNCHANGED <<brief, locked, lastBundle>>

WriteFile(r) ==
  LET s == req[r].session
  IN  /\ \/ /\ req[r].saving = "write_session"
            /\ \E text \in Overlay(store[s], req[r].copy) :
                 store' = [store EXCEPT ![s] = text]
            /\ UNCHANGED brief
         \/ /\ req[r].saving = "write_brief"
            /\ \E text \in Overlay(brief[s], Serialized(Synthesized(r))) :
                 brief' = [brief EXCEPT ![s] = text]
            /\ UNCHANGED store
      /\ req' = [req EXCEPT ![r].saving = "no"]
      /\ UNCHANGED <<locked, lastBundle>>

\* Variant: a save that fails is tried again.
DiskErrorRetried(r) ==
  /\ "disk" \in Faults
  /\ req[r].saving \in {"write_session", "write_brief"}
  /\ req' = [req EXCEPT ![r].saving =
               IF @ = "write_session" THEN "open_session" ELSE "open_brief"]
  /\ UNCHANGED <<store, brief, locked, lastBundle>>

\* A save raises OSError.  run() catches it, marks the session failed and
\* saves that; if that save fails too, the error leaves the generator.
DiskError(r) ==
  LET pc == req[r].pc
  IN  /\ "disk" \in Faults
      /\ req[r].saving # "no"
      /\ \/ /\ pc \in {"failed", "intake_failed"}
            /\ req' = [req EXCEPT ![r].pc = "error", ![r].saving = "no"]
         \/ /\ pc \notin {"failed", "intake_failed"}
            /\ req' = [req EXCEPT
                 ![r].pc = IF pc \in {"replying", "intake_complete"}
                             THEN "intake_failed" ELSE "failed",
                 ![r].copy.status = "failed",
                 ![r].saving = "open_session"]
      /\ UNCHANGED <<store, brief, locked, lastBundle>>

-----------------------------------------------------------------------------
(* The client leaves, the process dies                                     *)

\* The points where the response is being streamed.  Until a save made
\* before the first event has finished, there is no stream to cancel.
Streaming(r) ==
  \/ req[r].pc = "intake_complete" /\ req[r].saving = "no"
  \/ req[r].pc \in Running

\* The stream is cancelled at an await or a yield, which no `except
\* Exception` catches.  The finally block releases the lock, unless the body
\* had not started: then there is no finally block to run.
Disconnect(r) ==
  /\ "disconnect" \in Faults
  /\ Streaming(r)
  /\ locked' = IF Holding(r) /\ req[r].pc # "granted"
                 THEN locked \ {req[r].session} ELSE locked
  /\ req' = [req EXCEPT ![r] = Idle]
  /\ UNCHANGED <<store, brief, lastBundle>>

\* The process restarts: files stay as they are, everything else is new.
Crash ==
  /\ "crash" \in Faults
  /\ store' = IF FileBacked THEN store ELSE [s \in Sessions |-> None]
  /\ brief' = IF FileBacked THEN brief ELSE [s \in Sessions |-> None]
  /\ locked' = {}
  /\ lastBundle' = None
  /\ req' = [r \in Requests |-> Idle]

-----------------------------------------------------------------------------
\* What the server does for r once the client has asked.
Serve(r) ==
  \/ \E found \in SUBSET Fields : ExtractionReturns(r, found)
  \/ ExtractionFails(r)
  \/ LookUpBrief(r)
  \/ BriefUnreadable(r)
  \/ StartRun(r)
  \/ ContinueAfterIntake(r)
  \/ ResearchEnds(r)
  \/ TakeBundle(r)
  \/ SynthesisReturns(r)
  \/ SynthesisFails(r)
  \/ Complete(r)
  \/ Finish(r)
  \/ OpenFile(r)
  \/ WriteFile(r)
  \/ DiskError(r)

Next ==
  \/ \E s \in Sessions : CreateSession(s)
  \/ \E r \in Requests, s \in Sessions :
       ReceiveMessage(r, s) \/ LookUpSession(r, s)
  \/ \E r \in Requests : Serve(r) \/ Disconnect(r)
  \/ Crash

Spec == Init /\ [][Next]_vars

\* Every await of a run ends: a model call returns or raises, a research
\* step is cut off by its timeout, file operations end, a client that does
\* not read is disconnected.  Clients owe nothing.
FairSpec == Spec /\ \A r \in Requests : WF_vars(Serve(r))

-----------------------------------------------------------------------------
(* Properties *)

TypeOK ==
  /\ store \in [Sessions -> SessionRecords \cup {None, Truncated, Corrupt}]
  /\ brief \in [Sessions -> BriefRecords \cup {None, Truncated, Corrupt}]
  /\ locked \subseteq Sessions
  /\ lastBundle \in Sessions \cup {None}
  /\ req \in [Requests -> RequestRecords]

\* The /pipeline endpoint never runs the pipeline twice at once for a
\* session (routes.py: the per-session locks), whatever fails in between.
ExclusiveRuns ==
  \A q, r \in Requests :
    /\ Holding(q) /\ Holding(r)
    /\ req[q].session = req[r].session
    => q = r

\* The state of the endpoint's contract: a locked session has a run, which
\* has spent its right to store a brief once it delivers one.
RunState(s) ==
  IF s \notin locked THEN "none"
  ELSE IF \E r \in Requests :
            /\ Holding(r) /\ req[r].session = s
            /\ req[r].pc \in {"delivering", "completed"}
    THEN "spent" ELSE "open"

BriefHolder(s) == IF brief[s] \in BriefRecords THEN brief[s].by ELSE "none"

Contract == INSTANCE EndpointContract WITH
  run    <- [s \in Sessions |-> RunState(s)],
  holder <- [s \in Sessions |-> BriefHolder(s)]

\* The in-memory server keeps the promise of an idempotent /pipeline endpoint
\* (EndpointContract): at most one run per session at a time, started only
\* without a brief, storing at most one and replacing none but a message's.
KeepsContract == Contract!ContractSpec

\* A session marked complete has a brief: save_brief comes before the save
\* of the COMPLETE status in every run, and nothing takes a brief away.  (Its
\* file may have become unreadable by a later save.)
CompleteHasBrief ==
  \A s \in Sessions :
    store[s] \in SessionRecords /\ store[s].status = "complete"
    => brief[s] # None

\* What the user has told the interview is never lost, however messages and
\* runs of one session overlap (process_message merges into the session's
\* current data after its await, never into data read before it).
IntakeOnlyGrows ==
  [][\A s \in Sessions :
       store[s] \in SessionRecords
       => /\ store'[s] \in SessionRecords
          /\ store[s].filled \subseteq store'[s].filled]_vars

\* A brief is written from intake data that passed a completeness check, and
\* says nothing its session has not been told.
BriefFromCompleteIntake ==
  \A s \in Sessions :
    brief[s] \in BriefRecords
    => /\ FallbackComplete(brief[s].data)
       /\ store[s] \in SessionRecords
       /\ brief[s].data \subseteq store[s].filled

\* Every request gets its response: nothing in a run waits for another
\* request, not even for a lock.
EveryRequestAnswered ==
  \A r \in Requests : (req[r].pc # "idle") ~> (req[r].pc = "idle")

\* routes.py, run_pipeline's docstring: "If the pipeline is already running
\* for this session, returns a pipeline_busy error event" -- so a busy reply
\* means that some request is running the pipeline for the session.
BusyMeansRunning ==
  [][\A r \in Requests :
       req'[r].pc = "busy" /\ req[r].pc # "busy"
       => \E q \in Requests :
            Holding(q) /\ req[q].session = req'[r].session]_vars

\* routes.py, the comment on the locks: "so the idempotent pipeline endpoint
\* can reject concurrent runs" -- so a run of the /pipeline endpoint never
\* starts while the session's pipeline runs for a message.
NoRunBesideAMessageRun ==
  [][\A r \in Requests :
       req'[r].pc = "granted" /\ req[r].pc # "granted"
       => ~ \E q \in Requests :
              /\ req[q].kind = "message"
              /\ req[q].session = req'[r].session
              /\ req[q].pc \in {"researching", "researched",
                                "synthesizing"}]_vars

\* brief_generation_pipeline.py hands synthesis "all research results" of
\* this run: a brief's sources are its own session's research.
OwnResearch ==
  \A s \in Sessions : brief[s] \in BriefRecords => brief[s].sources = s

\* test_storage_adapters.py: "save_brief and get_brief should round-trip a
\* Brief" -- so a brief that can be read has the research it was stored with.
BriefsRoundTrip ==
  \A s \in Sessions : brief[s] \in BriefRecords => brief[s].whole

\* storage/__init__.py: the adapters can be swapped transparently -- so with
\* no fault and no request in flight, a created session can be read.
QuietSessionsReadable ==
  (\A r \in Requests : req[r].pc = "idle")
  => \A s \in Sessions : store[s] \notin {Truncated, Corrupt}

-----------------------------------------------------------------------------
(* What the proofs need besides the properties *)

\* Where r stands determines what it holds.
WellFormed(r) ==
  /\ req[r].pc # "idle" => SessionOf(r) \in SessionRecords
  /\ ~ FileBacked => req[r].copy = None
  /\ req[r].saving # "no" => FileBacked /\ req[r].pc # "idle"
  /\ req[r].saving \in {"open_brief", "write_brief"}
     => req[r].pc = "delivering"
  /\ req[r].pc = "researched" => lastBundle \in Sessions
  /\ req[r].pc \in {"synthesizing", "delivering"}
     => req[r].bundle \in Sessions

TypeInv == TypeOK /\ \A r \in Requests : WellFormed(r)

\* Only a message is in intake, and only intake and a run save.
Placed(r) ==
  /\ req[r].pc \in {"extracting", "intake_complete", "replying",
                   "intake_failed"}
     => req[r].kind = "message"
  /\ req[r].saving # "no"
     => req[r].pc \in Running \cup {"intake_complete", "replying",
                                   "intake_failed"}

\* The session of a run that holds its lock is locked, and for that one run.
LockInv ==
  /\ \A r \in Requests : Placed(r)
  /\ \A r \in Requests : Holding(r) => req[r].session \in locked
  /\ ExclusiveRuns

\* r has seen its session's brief stored: it has stored one, or it works on
\* a copy of a complete session.
SawBrief(r) ==
  \/ req[r].copy \in SessionRecords /\ req[r].copy.status = "complete"
  \/ /\ req[r].pc \in {"delivering", "completed"}
     /\ req[r].saving # "open_brief"

BriefInv ==
  /\ CompleteHasBrief
  /\ \A r \in Requests : SawBrief(r) => brief[req[r].session] # None

\* In memory every brief can be read, and a run that has yet to store its
\* brief finds none but a message's.
ContractInv ==
  /\ \A s \in Sessions : brief[s] \notin {Truncated, Corrupt}
  /\ \A r \in Requests :
       /\ req[r].pc # "brief_unreadable"
       /\ /\ Holding(r)
          /\ req[r].pc \in {"granted", "researching", "researched",
                            "synthesizing"}
          => BriefHolder(req[r].session) # "pipeline"

\* In memory, the data a run works with passed a completeness check and are
\* still known to its session.
DataInv ==
  /\ BriefFromCompleteIntake
  /\ \A r \in Requests :
       req[r].pc \in {"intake_complete", "researching", "researched",
                      "synthesizing"}
       => /\ FallbackComplete(req[r].data)
          /\ req[r].data \subseteq store[req[r].session].filled

=============================================================================
