# Brief Scout in TLA+

Brief Scout interviews a user about a brand (intake), runs research steps with
a language model, writes a creative brief (synthesis) and stores it. This
directory holds a TLA+ model of the service, the TLC configurations that check
it and the theorems about it that TLAPS proves.

All paths below are relative to `src/src/brief_scout/`.

## 1. Inventory

### Components, their state and their operations

| Component | State | Operations |
| --- | --- | --- |
| HTTP endpoints (`interfaces/api/routes.py`) | `_pipeline_locks`, one `asyncio.Lock` per session; the local state of every request | create session, send message, run pipeline, get brief, health |
| Brief pipeline (`application/services/brief_generation_pipeline.py`) | none of its own; it writes `session.status` | `run`: intake, research, synthesis, delivery |
| Intake use case (`application/use_cases/intake_use_case.py`) | writes `session.intake_data`, `asked_optional_questions`, `status`, `messages` | `process_message` |
| Journey (`domain/models/journey.py`) | none | `next_field`, `is_complete` |
| Storage adapters (`infrastructure/storage/`) | dictionaries, or one JSON file per session and per brief | save and get of each, `list_sessions` |
| Research pipeline (`application/services/research_pipeline.py`) | `_last_bundle` and a semaphore, shared by all sessions | `stream`, `execute` |
| Synthesis (`application/use_cases/synthesis_use_case.py`) | none | `execute` |
| LLM providers (`infrastructure/llm/langchain_base.py`, `circuit_breaker.py`, the Claude, OpenAI and Kimi adapters) | breaker state, failure count and time; the last usage; the Claude adapter's `_last_system` | `complete`, `complete_structured`, retries |
| Token tracking (`infrastructure/llm/token_tracking_adapter.py`) | a list of records, one per call | wraps a provider or the cache |
| LLM cache (`infrastructure/llm/cached_llm.py`) | an SQLite table, one connection, one lock | lookup, store with eviction, `clear`, `close` |
| Fake LLM (`infrastructure/llm/fake_llm_adapter.py`, fixtures, demo player) | the loaded fixtures and demo turns | `complete`, `complete_structured` |
| Intake data services (`domain/services/`, the differ, extractor and renderer of `application/services/`) | none; they work on the session's data and messages | extract with retries, merge, compare, check, acknowledge |
| Research steps (`application/services/research_steps/`, the classifier, the search tool, the prompt builder) | shared step objects without state; `ResearchBundle.results` | `execute` of each of the five steps |
| Telemetry (`infrastructure/telemetry/`) | pending writes, open spans, correlation id | log, record, spans, flush |
| Configuration and start (`infrastructure/config/`, `infrastructure/factories/`, `main.py`) | the raw configuration, the validated one, the wired adapters | load, merge, interpolate, validate, `reload`, `create_app` |

The endpoints look a session up in storage and hand the object to the brief
pipeline, which calls intake, research and synthesis and saves the session and
the brief between them. Everything is built once in `main.py` and shared by all
requests: one pipeline, one research pipeline, one LLM adapter, one storage
adapter. Requests are coroutines of one event loop, so they interleave only at
an `await` or at a `yield` of a stream, and what is between two of those is
atomic.

### What is hard

* Requests of one session overlap: the lock of `run_pipeline` guards its own
  runs only, a message may run the same pipeline beside them.
* Requests of different sessions overlap in the shared objects: `_last_bundle`,
  the semaphore, the breaker, the cache.
* Over memory the requests of a session share one `ChatSession` object; over
  files each has a copy, and a save truncates the file, suspends and writes.
* A stream is cancelled when its client leaves, at any `await` or `yield`, or
  before its generator has taken a step.
* Model calls fail, saves fail, the handler of a failed save saves again, and
  the process restarts with whatever the files hold.
* Retries of one call are interleaved with attempts of others, over one breaker
  and over fields of the adapter that are written before an await and read after
  it.
* The cache works in threads: a caller that is cancelled gives the lock back
  while its thread goes on in the shared connection.
* Messages of one session overlap at the extraction, and retries of one build
  their prompt over a conversation the others have prolonged.
* The telemetry's writes are tasks nobody waits for; flushes take them over.

### What makes each component correct

* Endpoints: a session has one run of the endpoint at a time; a run starts only
  without a brief; every request is answered. (That a busy reply means a run is
  promised and not kept: `leaked_lock`.)
* Pipeline: a brief is written from complete intake data and from its own
  research; a session marked complete has a brief.
* Intake: nothing the user has said is lost; an optional question is asked at
  most once.
* Storage: the adapters can be swapped, which holds but for the research results
  of a brief; what was saved can be read.
* Research pipeline: each step has a result or a failure, no more than the limit
  run at once, no slot is lost, every run ends, and a cancelled one leaves nothing
  behind.
* LLM providers: no attempt while the provider is down and none refused while it
  is up; a bounded number of attempts; each call's own prompt and usage; every
  call returns.
* LLM cache: a hit is an answer to the caller's own request and not expired, the
  limit holds, the least recently used rows go first, the lock is never lost.
* Intake services: an answer is never lost or changed; the question asked fits the
  data; the data implement the sets of fields the rest works with. (That a reply
  acknowledges only what is new is promised and not kept: `stale_acknowledgement`.)
* Fake LLM: the answer does not depend on the order in which files are found, unless
  two fixtures match a call equally well; a demo turn is answered with its own
  mapping.
* Research steps: a prompt holds the values of its own run; the synthesis is told
  of exactly what succeeded, in its own run unless another has published meanwhile.
* Telemetry: a flush covers what was recorded before it; a span is completed once,
  for the request that started it.
* Start: what runs is what the files say, or the start fails; both views of the
  configuration come from one read.

## 2. Plan

1. `Journey`, `BriefPipeline`, `EndpointContract`, `FilesRefineMemory` (done):
   the endpoints with everything they share. It comes first because it is where
   user data can be lost or mixed up.
2. `BriefPipelineProofs`, `MemoryProofs` (done): types, exclusive runs, "complete has a
   brief"; over memory the refinement of `EndpointContract`, growing intake data and
   briefs from complete data; and that files refine memory as long as requests come
   one at a time.
3. `ResearchPipeline`, `ResearchPhase`, `ResearchProofs` (done): the concurrent
   steps, the semaphore shared by runs, the per-step timeout inside it,
   cancellation; and that to its caller all this is one step.
4. `LlmCalls`, `LlmCallsProofs` (done): concurrent calls of a provider, retries,
   breaker, token tracking.
5. `LlmCache`, `LlmCacheProofs` (done): the cache down to the SQL statements of
   interleaved threads.
6. `IntakeServices`, `Interview`, `IntakeServicesProofs` (done): the values of
   the fields and their merge, shown to implement the sets of fields of `Journey`.
7. `ResearchSteps` (done): what flows through a run of research and synthesis.
8. `Startup`, `FakeLlm`, `Telemetry`, `MCServices` (done); the theorems about them
   and about `ResearchSteps` are in `ServicesProofs` (done).
9. `Lists`, `ListsProofs` (done): the lists these are written with, and the
   lemmas about them that stand in for induction over sequences.

Left: the cache reopened over an existing file, and a cache without expiry
(`TTL` 0).

## 3. Modules

| Module | What it is |
| --- | --- |
| `Journey` | the journey's field lists, the next question, the two definitions of "complete" |
| `BriefPipeline` | the endpoints, the pipeline, the stores and the shared objects; its properties |
| `EndpointContract` | the abstract promise of the idempotent pipeline endpoint |
| `FilesRefineMemory` | the file adapter read as the memory adapter, with what a brief loses in its file put back |
| `BriefPipelineProofs` | theorems about `BriefPipeline` and the lemmas they rest on |
| `MemoryProofs` | theorems about the memory adapter: `BriefPipeline` implements `EndpointContract`; intake data; briefs; and that the file adapter implements it for requests that come one at a time |
| `ResearchPipeline` | the concurrent runs of the shared research pipeline, down to the tasks of the steps |
| `ResearchPhase` | the abstract promise of research: what `BriefPipeline` takes it for |
| `ResearchProofs` | theorems about `ResearchPipeline` |
| `LlmCalls` | concurrent calls of one provider adapter with its breaker and the token tracker |
| `LlmCache` | the response cache: its lock, its threads and its table |
| `Interview` | what an interview promises over sets of fields |
| `IntakeServices` | the values, merge, differ, checker, renderer and retries of intake |
| `ResearchSteps` | categories, searches, prompts, results and synthesis of overlapping runs |
| `FakeLlm` | the fake adapter, its fixtures and the demo journey |
| `Startup` | configuration, factories and `create_app` |
| `Telemetry` | the file adapter of the telemetry |
| `Optional` | Python's `None`, for the components that are put together |
| `Lists` | lists and list comprehensions |
| `ListsProofs` | induction over numbers and sequences; lemmas about lists |
| `LlmCallsProofs`, `LlmCacheProofs`, `IntakeServicesProofs` | theorems about these components |
| `ServicesProofs` | theorems about `Telemetry`, `ResearchSteps`, `Startup` and `FakeLlm` |
| `MCBriefPipeline`, `MCResearchPipeline`, `MCLlmCalls`, `MCServices` | the small instances for TLC |
| `MCAdapters` | the storage adapters compared and the provider adapters, in one instance |

The modules meet where the code's components do, and each takes the other for
what has been shown of it: research is one step in `BriefPipeline` because
`ResearchPipeline` implements `ResearchPhase`; intake data are sets of fields
there because `IntakeServices` implements `Interview`, which is `Journey` in
motion; an extraction, a step or the adapter behind the cache comes back because
of `LlmCalls!EveryCallReturns`.

### How `BriefPipeline` corresponds to the code

An action is what a request does from one suspension to the next. `req[r].pc`
says at which `await` or `yield` it is suspended:

| pc | Suspended in |
| --- | --- |
| `extracting` | the extraction call of `process_message` |
| `intake_complete` | the intake event of a message stream |
| `looked_up` | the handler, before it looks up the brief |
| `brief_unreadable` | the read of a brief file that cannot be parsed |
| `granted` | the lock is acquired, the generator has not started |
| `researching` | the save of the status, then the research steps |
| `researched` | the last event of `research.stream` |
| `synthesizing` | the synthesis call |
| `delivering` | the save of the brief, then its events |
| `completed`, `failed`, `synthesis_failed`, `error`, `not_ready`, ... | the last event or the response |

`req[r].saving` says which file operation a request waits for; over memory a
save does not suspend and `saving` is always `"no"`. `store` and `brief` are what
`get_session` and `get_brief` would find; over memory `store[s]` is the very
object every request of `s` works on (`SessionOf`), over files each has
`req[r].copy`. `locked` is the set of locked locks, `lastBundle` says whose
research the shared pipeline holds. A request record is reused when its
request has ended.

Data are abstracted to what the properties tell apart. Intake data are the set
of the non-empty fields; a research bundle is the session it was made for; a
brief is the session of its sources, the intake data it was written from,
the endpoint that stored it, and whether its sources are `whole`. A brief that
has gone through a file is not: `ResearchBundle.results` is declared as a
dictionary of `BaseModel`, pydantic serialises a member by its declared type, and
the results are read back empty (`Serialized`, `briefs_round_trip`). The merge is a union, because
`IntakeDataMerger.merge` never empties a field. A file is absent, whole,
truncated, or the remains of two overlapping writes (`Corrupt`), which a later
`open(..., "w")` clears. If one write ends before another on the same file and
the file was not truncated in between, the text of the second lies over the
text of the first and the result may or may not be readable (`Overlay`).

`Disconnect` cancels a stream wherever it is suspended. `except Exception` does
not catch the cancellation, so neither status nor files change, and the
`finally` of `_wrapped_generator` releases the lock -- unless the generator
has not started (`granted`), because an async generator that was never started
has no `finally` to run. `DiskError` is an `OSError` of a save: `run` catches it
and saves the status `failed`, and if that save fails too the error leaves the
generator.

`Restart`s (`Crash`) keep the files and lose everything else. Session creation is
one step, because nobody knows the new session's id before it has been answered.

### How `ResearchPipeline` corresponds to the code

`run[r]` is a call of `stream` or `execute`. Its `pc` is `started` at the first
yield, `gathering` in `asyncio.gather`, `telling` at the yield of a step's event
and `complete` at the last yield or after the return. `task[<<r, s>>]` is the
task that `gather` makes of `_run_step` for the s-th step: `created`, `waiting` in
`async with self._semaphore`, `woken` (a slot has been handed to it, and the event
loop has yet to resume it), `executing`, or ended. `free` and `queue` are the
semaphore.

asyncio is not part of the repository; what is modelled of it is what the code
relies on. A slot given back goes to the first waiter that is not cancelled;
a waiter that is cancelled after it was handed a slot gives it back;
cancelling a `gather` cancels its tasks, and `gather` raises only when all of
them have ended; a step that returns or raises while it is being cancelled may
still do so. A newcomer never overtakes a waiter. No semaphore at all
(`max_concurrent_calls` of `None` or 0) is a limit of as many slots as tasks.

A caller is cancelled at any suspension (`Cancel`), which at a yield simply
ends the generator. `_last_bundle` names the run that published it, and
`BundleIsWhatSucceeded` compares it with the tasks; that a caller then reads the
bundle of another run is the subject of `OwnResearch` in `BriefPipeline`. There,
research is a single step; `PublishesInOneStep` is what makes that sound.

### How `LlmCalls` corresponds to the code

`call[c]` is a call of `complete` or `complete_structured` through the token
tracker. Its `pc` is `scheduled` when `wait_for` has made the attempt a task which
has not run yet, `sent` when the client has the request, and `backing off` in the
`sleep` between attempts. Python 3.11 makes that task; on 3.12 the attempt goes on
at once, which is one of the model's behaviours. The supported versions are
3.11 and 3.12.

A request is made of named texts (whose, and which part of the prompt), so that a
text that is missing or another call's shows. `_last_system` is written
in `complete` and read in `_call_client`, a suspension later: `foreign_system`. An
error is what its message says, because the adapters decide by its wording
whether to retry; only Claude's knows the spelling "rate limit". Time is what the
breaker sees of it: ticks since the last failure. `streak` is a history variable:
the failures since the last success, which `BreakerDecides` compares the breaker
with. An open breaker refuses an attempt with
`CircuitBreakerOpenError`; the native structured path of OpenAI and Kimi lets it
escape as it is, all others wrap it. An answer that cannot be parsed has used
tokens, but none are recorded.

### How `LlmCache` corresponds to the code

A caller waits for the lock, works (its thread does) or asks the adapter. A thread
executes one SQL statement after the other: select, then touch or delete; insert,
then count, then evict; delete all; close. `of` names the caller it works for, or
`None` once that has been cancelled: `asyncio.Lock` is released, the thread goes
on. The connection is opened with `check_same_thread=False`, and SQLite makes
single statements atomic, but nothing keeps statements of two threads apart. What
this does, and does not, break:

* two stores may each count the other's row and evict for it, so more rows than
  needed may go; the limit holds but for rows of stores under way;
* a late touch may set `accessed` back behind that of a newer lookup, so
  `RecentlyUsedStays` speaks only of a table on which no two threads have worked at
  once. The history it looks at, `used`, has the time each row was last stored or
  found, taken where the row is inserted or read and not where `accessed` is written;
  it is `None` from the first overlap on.

### How `IntakeServices` corresponds to the code

A turn is a message from its arrival to its reply; `Receive` is what happens
before the first await, `ExtractionReturns` what happens after it. `previous` is the
snapshot the differ compares with. `AttemptFails` builds the prompt again over the
messages as they are then, while the configuration, and with it the demo turn,
stays; a `BriefScoutError` is not retried. Strings, lists and objects are merged
as `field_type_registry` does: a string only into a blank, a list by appending
what is new and not empty. `ImplementsInterview` maps the values to the set of
non-empty fields.

When the differ reports nothing new, the renderer acknowledges the last field
that has an answer, though its docstring (`journey_renderer.py:41-45`) and that of the
acknowledgement service (`journey_acknowledgement_service.py:17-19`) say that only
fields provided in the latest turn are acknowledged; the differ's empty list is
taken there for "not given". That is the run `stale_acknowledgement`. There is a second
way to break the same promise: a turn that another has overtaken compares with a
snapshot older than what that one was told, and acknowledges it again. `RepliesFit`
therefore claims no more than what the question says of the data: never the
field it asks for, never one without an answer, required exactly when the checker
misses one. Types that are not in the registry are
outside the model (`FieldsAssumption`): the merge raises `ValueError` for them.
`FieldsAssumption` also says that no field is listed twice, and
`ExtractionsAssumption` that an extraction has a value of its type for each field,
as `IntakeData` demands of it.

### How `ResearchSteps` corresponds to the code

A run that has all its outcomes publishes its bundle (`Publish`) and is suspended
at the last event of the stream; what is synthesised is `lastBundle` as it is then.
`since` is a history variable: the runs that have published from a run's own
publication to its synthesis, itself among them. `SynthesisKnowsResults` says that
the prompt has the successful steps of one of these, once each, and nothing else:
of its own run when no other came between, and never a mixture of two. That it
may be another's is `foreign_research`.

A task goes from classifying (two of the five steps, and only if the classifier
has a model) to searching, asking and its end. A text is a sequence of words,
slots and values, so that `ResearchPromptBuilder.build`, which replaces one
placeholder after the other, can also replace one that an answer has brought in:
`OwnPrompt` excludes only that. `StepsAssumption` says what the texts are: a slot is
its key and no more, an interview has a text for each field a step asks for, and
what it answers is marked as its own. The templates of `config/default.yaml` have no
`{search_results}`, so that what a search finds does not reach a prompt in the
shipped configuration; and the registry builds the classifier without a model, so
that `LlmCategories` is empty there. Both are constants here, and both cases are
checked.

### How `FakeLlm`, `Startup` and `Telemetry` correspond to the code

`FakeLlm!Load` takes any of the files in any order, because `rglob` fixes none, and leaves
out those that cannot be parsed; JSON that is no mapping has no `get`, and the
`AttributeError` ends the construction. A default fixture is looked for under `default`,
but the one of the repository lies in `default/default.json` and is named after
its path: an unmatched prompt is answered with an empty response. A strategy of
`FixtureMatcher.match` is a list of the fixtures it may give, in the order it looks
at them; the lists of the strategies are put one after the other, and the head of
that is the answer. `SameForAnyOrder` exempts only the two cases in which the first
of several decides: names that end in the override when none is equal to it, and
equal keyword scores when no name was matched. `DemoTurnsInOrder` compares the name
of a turn's fixture and the mapping it answers with. `FixturesAssumption` says that demo
turns have names of their own and that no file of the directory is called by one
(`demo_turn_1.json` at its top would be, and `DemoTurnsInOrder` could not tell them apart).

`Startup` goes through `create_app` step by step; each step may end the start with the
error the code raises. An unset `BRIEF_SCOUT_ENV` is the environment `development`, so that
its overlay is read; only a variable set to nothing means none (`EnvironmentOf`). A mapping is a function from paths to leaves
(`FilesAssumption`: each path has a key). A legacy
`adapter_class` is taken for the id as it stands, so that a configuration with
nothing else fails in the factory. `Reload` reads the raw text before it is
validated: after a reload of an invalid file `get_provider_config` answers from
it while `app_config` raises. A placeholder whose variable is not set stays
as it is. `_build_tavily` only tests whether the key is empty, so a Tavily tool is built
with the text `${KEY}` as its key, although `search_tool_factory.py:22` and `:54` speak of an
available key; `StartsAsConfigured` follows the code there and says so. A journey file
that is no mapping starts the service without a question; `fields` that are not a list end
the start with a validation error. After a reload of an invalid file only the raw
configuration exists, and `OneConfiguration` has nothing to compare until the next one.

In `Telemetry`, an entry is scheduled, open, and then written or lost. Its own
correlation id, `by`, is that of whoever causes it; the data of a span's completion name
the one it was started in, `of`. An id that no span has (0) may be ended too. `flush` takes the
pending set over and clears it in one step, so a second flush that starts
meanwhile returns at once: `FlushCovers` says what is left of the promise, that
what was pending is then waited for by the first. Nothing in the service calls
`flush`; what is pending when it exits is lost.

### Constants, assumptions, bounds

`JourneyAssumption` and `PipelineAssumption` say what the proofs use: the field
lists are disjoint sequences, the fallback looks at fields of the journey, the
three marks for absent, truncated and corrupt are no sessions and no briefs.
Nothing is assumed of the number of sessions, requests or fields. The model
has no counters, so the only bounds are the instances of `MCBriefPipeline`:

* one or two fields: `brand_name` is required and known to the fallback check,
  `first_name` is required and unknown to it, `additional_context` is optional.
  Every other field of the journey behaves like one of the three;
* one session and two or three requests where requests of a session interfere;
  two sessions where sessions do. A third request lets one request hold the
  lock, one be refused and a message run beside them, at the same time;
* any request record is reused without limit, so histories are unbounded;
* for research two runs, two steps, two slots: four tasks compete, of which two
  execute and two wait, of the same run or of both, and each may be cancelled,
  cut off or handed a slot while another run starts or ends.

`ResearchAssumption` asks for a positive limit and a number of steps; nothing is
assumed of the number of runs.

A behaviour of `MCAdapters` is one of two parts: `files`, two sessions and one request
over files, and `calls`, which is `MCLlmCalls`. That has two calls that go on for ever, each of the three providers, and
a context with an item of either role. `MaxRetries` 2 and `Threshold` 3 let one call
open the breaker alone, both open it together, and one meet it open between its
attempts; `Recovery` 2 separates "just failed", "still down" and "half open". Counters stop
at their thresholds, beyond which the code does not tell values apart.

A behaviour of `MCServices` is one of these parts, chosen in its first state; the
variables of the other components keep their initial values:

| Part | Instance | For the sake of |
| --- | --- | --- |
| `races` | 1 caller, 1 request, 2 threads, time up to 2 | orphaned threads and expiry at, before and after its instant |
| `overlaps` | 1 caller, 3 requests of which two differ only in the schema, 2 threads, time stands still | orphaned threads and eviction |
| `contention` | 2 callers, 2 requests, 1 thread, time stands still | waiting for the lock, cancelled waiters, close; liveness |
| `eviction` | 1 caller, 3 requests, 1 thread, time up to 2 | which row goes |
| `start` | nine documents and three broken files, each as base and as overlay; five journey files; three values of `BRIEF_SCOUT_ENV` | each failure, each override, reload |
| `intake` | a field of each type, 4 extractions, 2 turns, 3 messages, 1 retry | overlapping turns, blanks and repeated items |
| `fake` | any of 5 fixture files in any order, 2 demo journeys | shared keywords, shared endings, files that are none, turns before the first and past the last |
| `two runs` | 2 runs of one step with a classifying model | shared classifier, a placeholder in an answer, a bundle replaced before its synthesis |
| `one run` | 1 run of three steps without such a model | the keyword fallback, failures, synthesis |
| `flushing`, `spanning` | 2 flushers, 2 entries; 2 requests, 1 span, 3 entries | flushes that overlap; a span ended twice or never started |

In the four parts of the cache the table holds 2 rows (`MaxEntries`) and a row lives
1 tick (`TTL`). While the application runs, `default.yaml` is edited into one of
three files (`EditedFiles`): one that is not valid, one that is not YAML, and one
with other settings.

`MaxTime`, `MaxTurns`, the telemetry's `MaxRecorded` and `MaxSpans` bound what grows; the proofs
take them for arbitrary numbers. `MCServices` extends the components, so that the
assumptions of each are evaluated for these instances and its properties are
the very ones the theorems are about.

## 4. Runs

| Run | Instance | What it shows |
| --- | --- | --- |
| `pipeline_memory` | 1 session, 3 requests, memory; model calls fail, clients leave | `KeepsContract` (the endpoint implements `EndpointContract`), `ExclusiveRuns`, `CompleteHasBrief`, `BriefFromCompleteIntake`, `IntakeOnlyGrows`, `EveryRequestAnswered` |
| `files_concurrent` | 1 session, 2 requests, files; every fault | `TypeOK`, `ExclusiveRuns`, `CompleteHasBrief`, `EveryRequestAnswered` |
| `research_shared_slots` | 2 runs, 2 steps, 2 slots; failures, timeouts, cancellations | `AtMostLimit`, `LeavesNothing`, `BundleIsWhatSucceeded`, `PublishesInOneStep`, `EveryRunEnds`, `TypeOK` |
| `adapters` | 2 sessions, 1 request, files, model calls fail; or 2 calls, 3 providers, 2 retries, threshold 3, recovery 2 | `SwapButForResults`: with one request at a time the file adapter implements the memory adapter, but for the research results of stored briefs; `CallsTypeOK`, `WholePrompt`, `UsageIsOwn`, `BreakerDecides`, `EveryCallReturns` |
| `services` | the parts of `MCServices` | the cache: `HitIsOwnAnswer`, `FreshHit`, `StoreKeepsLimit`, `RecentlyUsedStays`, `ContendersGetOn`; the start: `StartsAsConfigured`, `OneConfiguration`; intake: `AnswersKept`, `ImplementsInterview`, `RepliesFit`, `OwnDemoTurn`, `EveryMessageAnswered`; the fake: `SameForAnyOrder`, `DemoTurnsInOrder`; the steps: `OwnPrompt`, `SynthesisKnowsResults`; the telemetry: `FlushCovers`, `SpansEndOnce` |
| `foreign_system` | 2 calls of the Claude adapter | violated: a request may carry the system prompt of another call |
| `foreign_research` | 2 sessions, 2 requests, memory, no fault | violated: a brief may hold the research of another session |
| `leaked_lock` | 1 session, 2 requests, memory | violated: a busy reply although nothing runs, after a client left before its stream started |
| `message_beside_run` | 1 session, 2 requests, memory | violated: the endpoint starts a run beside the run of a message |
| `overlapping_saves` | 1 session, 2 requests, files, no fault | violated: with nothing in flight and nothing failed, a session cannot be read |
| `briefs_round_trip` | 1 session, 1 request, files, no fault | violated: a brief that is read back has lost its research results |
| `stale_acknowledgement` | the parts of `MCServices` | violated: a reply acknowledges a field that its turn did not provide |

`IntakeOnlyGrows`, `KeepsContract` and `BriefFromCompleteIntake` are checked over
memory only, because over files they do not hold: requests with copies of their
own overwrite each other's data, and an unreadable brief file counts as no
brief. `SwapButForResults` says that this takes concurrency: one request at a
time behaves as over memory, but for what a brief loses in its file.
`CompleteHasBrief` says that a complete session has a brief file, readable or not;
what an unreadable one leads to is a new run, which `ExclusiveRuns` covers.

What `BreakerDecides` does not exclude is that many calls probe a half-open breaker at
once, as they do. `WholePrompt` compares texts and not their order, and lets a request of
Claude's have another call's system prompt; `OwnSystem` does not, and is violated.
`FreshHit` says that nothing expired is used, not that nothing is dropped too early.

One disagreement needs no run: the pipeline endpoint checks a session with a
fallback that looks at `brand_name`, `competitors`, `primary_goal` and `target_customer`
(`brief_generation_pipeline.py:43`), while `first_name` is "required" too in
`config/journey.yaml`, which `domain/models/journey.py:40` explains as "must be filled before
research can start". Research may start without it. `Journey` has both checks.

The violated properties state what a docstring or a comment of the code says;
`PROJECT.json` quotes it. The run of `OwnResearch` needs no failure: two sessions
researched at the same time suffice.

### Fairness

`FairSpec` asks that a request the client has started goes on (`WF_vars(Serve(r))`).
The event loop resumes every coroutine whose `await` has ended, and every
`await` of a run ends: research steps are cut off by their timeout, model calls
by theirs, file operations end, and the lock is never awaited while it is
locked, because it is tested right before. What is left is an assumption on the
client: it reads its stream, or its connection is closed. Nothing is asked of
clients otherwise (new requests, disconnects), nor of crashes, nor that a
failure ever happens or stops happening.

In `ResearchPipeline`, `TaskMoves` and `RunMoves` are fair: the event loop resumes
what can go on, timers fire and cancellations arrive. `StepEnds` is not: a step
may hang for ever, and `EveryRunEnds` rests on the timeout alone. That a run only
begins to use up its time once its step has a slot does not matter for this,
since each step ahead of it is bounded too.

In `LlmCalls`, a scheduled attempt is sent, an attempt that is not answered is cut off
by `wait_for`, and a back-off ends. That a provider answers is not assumed; nor does
anything move the clock, since a refused call returns.

In `contention` (`MCServices!FairCache`, which is `LlmCache!CacheFairness` there), threads run,
the event loop hands the lock to its first waiter, and the adapter comes back.
The executor always has a thread in time, because orphaned threads end. In
`IntakeServices`, an extraction comes back, with a result or an error; which, and
how often an attempt fails, is not assumed: `EveryMessageAnswered` rests on the
bound of the retries.

The `services` run does not check for deadlock: a start may fail, and a fake adapter
or a run of steps that has ended has nothing left to do.

## 5. Proofs

`BriefPipelineProofs` proves, for every journey, every set of sessions and of
requests, both adapters and any combination of faults:

* `TypeCorrect` -- `Spec => []TypeOK`. The invariant is `TypeInv`: `TypeOK` and, for
  each request, what its place says it holds (`WellFormed`): a request in flight
  has a session object, one that waits for a brief's save is delivering, a
  bundle has been taken before synthesis. Without it a brief could be written
  from no bundle. It also shows that the `or await execute(...)` after
  `last_bundle` is never reached.
* `ExclusiveRunsHold` -- `Spec => []ExclusiveRuns`. `ExclusiveRuns` is not inductive: a
  second run could be granted if the first one's session were not locked.
  `LockInv` adds that the session of every run that holds its lock is locked,
  and that only messages are in intake (`Placed`), so that no step but `TryLock`
  makes a request hold a lock. Each action is then one of three kinds
  (`RequestMoves`): the request moves within what it holds, it leaves, or it is
  granted the lock, which needs an unlocked session. The leaked lock does not
  matter here: it locks too much, never too little.
* `CompleteHasBriefHolds` -- `Spec => []CompleteHasBrief`. The strengthening,
  `BriefInv`, says that whoever has seen a session's brief stored (`SawBrief`: it
  has stored one itself, or works on a copy marked complete) finds one: a stored
  brief may be truncated or overlaid but never becomes absent, short of a
  restart that takes the session with it.

The lemma `FirstMissingIsFirst` shows that the question the interview asks next
is the first one missing.

`MemoryProofs` proves `ContractKept`, the refinement of `EndpointContract`, for
the memory adapter and any faults. Its invariant `ContractInv` says that a run
which has yet to deliver finds no brief of the endpoint, and that nothing in
memory is unreadable. `RunState` of a session changes only with the request
that holds its lock, which `ExclusiveRuns` makes unique; each action is then
matched with `Start`, `Deliver`, `End`, `MessageDelivers`, `Restart` or a stutter.
The contract is about runs and briefs; it says nothing of busy replies, which
`leaked_lock` shows to be wrong at times, and lets messages deliver whenever they do.

It also proves, for the memory adapter, `IntakeKept` (without restarts, no
step shrinks a session's data) and `BriefsFromCompleteIntake`, whose
invariant `DataInv` follows the data of a run from the check it passed to the
brief. The latter assumes that the fields of the fallback check are required
fields of the journey: if the journey could be complete without one of them, a
message would run the pipeline on data the fallback calls incomplete. In the
shipped journey they are.

Its last theorem is `AdaptersSwap`, the refinement `SwapButForResults`: with one request
in flight at a time and no fault but a failing model call, the file adapter
implements the memory adapter, but for the research results of stored briefs, for any
journey and any number of sessions. The sessions in memory are what the request
has in its copy and the files have otherwise; the briefs are those of the files with
their results put back (`Restored`), but for one that is being saved.
`SwapInv` is what makes that a memory: only the file the request is writing is
truncated, every other one can be read, and between its saves its copy is what the
file holds, so that the next request, which reads the file, goes on where this
one ended. Each action over files is then matched with the same action over memory,
and opening and writing a file with a stutter. The hypotheses (`OneAtATime`) are those
of the run: with a second request, or with a disk error, it is false, as
`overlapping_saves` shows for the former.

`ResearchProofs` proves five theorems for any number of runs, steps and slots.

* `AtMostLimitHolds` and `ResearchTypeCorrect`: the limit is not inductive, since
  it does not say how many slots are free. `SlotInv` does: free slots and slots
  held (by an executing task or by a woken one) add up to the limit. Every
  action adds a holder, removes one or swaps two.
* `LeavesNothingHolds`: from `RunInv` (a run that is not gathering has no live
  task) and `QueueInv` (the queue holds waiting tasks, each once). Without the
  second part a task could be handed a slot twice.
* `BundlesHoldWhatSucceeded`: `RunInv` says that what a stream has collected is
  what succeeded among the steps it has told of, however long it is suspended.
* `ResearchIsOneStep`: the refinement of `ResearchPhase`.

`LlmCallsProofs` proves `LlmTypeCorrect`, `UsageIsOwnHolds`, `BreakerDecidesHolds` and `WholePromptHolds`
for any number of calls, retries, threshold and recovery time. The first three rest
on one invariant, `LlmInv`.
`BreakerDecides` needs its part `BreakerInv`: the three fields of the breaker are
always in step with the failures there were: open only with a full streak,
half open only when the time is over, the count that of the streak. Usage needs
that `last_usage` is written and read in one step, so that what a call finds
there is its own or what an answer without usage left. `WholePrompt` needs
`SystemInv`: once a call of Claude's is under way, some call's system parameter is stored,
with all its texts. Whose it is cannot be told, as `foreign_system` shows; all else in
a request is the call's own.

`LlmCacheProofs` proves `HitIsOwnAnswerHolds`, `FreshHitHolds`, `StoreKeepsLimitHolds` and
`RecentlyUsedStaysHolds` for any number of callers, requests and threads, the first three
from `CacheInv`:

* a row is stored under the key of the request it answers, and expires `TTL` after
  it was created (`TableInv`);
* a thread that still has a caller has the one that holds the lock, works on its
  key, and is the only such thread (`Serves`); orphaned threads are unconstrained
  but for what they have read (`GoodThread`). Without `Serves` a lookup could come
  back to a caller that asks something else by now;
* `LimitInv`: what a thread is about to evict brings the table back to the limit,
  but for the rows of the other stores under way. It is about cardinalities of
  the table and of the set of storing threads, each of which a statement changes by
  at most one.

`RecentlyUsedStaysHolds` adds `UsedInv`: until two threads work at once, every row's
`accessed` is the time it was last used, but for the row that the thread at work has
found and is about to touch. A store that evicts is that thread, so nothing is left to
touch and the order of `accessed` is the order of use.

`IntakeServicesProofs` proves, for any journey, extractions, blanks, turns and
retries:

* `AnswersKeptHolds`: no step of any turn loses or changes an answer. Its invariant
  `DataInv` is the type of the data (each field has a value of its kind), without which
  the merge of a list or of an object could not be unfolded; the rest is what
  `MergeString`, `MergeList` and `MergeObject` keep, each a lemma of its own.
* `OwnDemoTurnHolds`, from `TurnsInv`: a turn's own message is among the messages, and what
  was counted when it arrived is not changed by what is appended later.
* `RepliesFitHolds`, from `RepliesInv`: a reply fits the data as they are now, and not only
  those it was written from, which later turns keep because they empty nothing. When
  it is written, the checker and the journey have to agree on which required fields
  are missing, and the differ and the renderer on what there is to acknowledge.
* `ImplementsInterviewHolds`: the values refine the sets of fields of `Interview`, and with
  it the data of `BriefPipeline`. `AskedInv` says that what has been asked are optional
  questions of the journey; the heart of the proof is that a merged field is empty
  exactly when it was and the extraction has nothing for it.

`ServicesProofs` proves, for any values of the constants:

* `SynthesisKnowsResultsHolds` (any finite set of steps): the last bundle is that of a run
  whose steps are over, and that run is in `since` of every run that has published and
  not yet gone on, because each publication enters it there. That a set's sequence has
  each member once is the lemma `SetAsSequence`.
* `OwnPromptHolds`. `PromptInv` says that a category is one of the run's own and that a
  prompt under way is what `BuildPrompt` makes of the template and of the run's values.
  That replacing key after key comes to putting all values in at once is
  `BuildPromptSubstitutes`, by induction over the keys: to fill a set of keys and then one
  more is to fill all of them (`FillingTwice`), as long as no value has a placeholder in
  it; that all parts are the run's own needs no such condition.
* `FlushCoversHolds` (an entry that is not over is pending or waited for, and what was
  recorded before a flush is never pending again) and `SpansEndOnceHolds` (a completed
  span is open no longer, and an open one is known under the request that started it; an id
  that no span has is never completed).
* `OneConfigurationHolds`: the raw configuration and the validated one are of one read.
* `StartsAsConfiguredHolds`, an action property: what begins to run has its telemetry,
  storage, LLM adapter, default provider, cache, search tool and research steps from the
  overlay if that has them, else from the default file, else from the defaults, with
  placeholders replaced where their variables are set. `StartInv` follows the two files
  from their reading to the validated configuration, and the parts built so far; that
  a setting, or any other path, is in the merged configuration what the overlay or else
  the base has there is `MergedSetting`. An overlay that puts a section in the place of a
  setting, or a value in that of a section, is found out before the start is over
  (`NothingReplaced`), which needs that what is above a key is that key or a shorter one
  (`AboveKey`).
* `SameForAnyOrderHolds` and `DemoTurnsInOrderHolds`, from `FakeInv`: the fixtures are those of the
  directory, the demo turns are the mappings of the file, and a call was answered by
  `Match`, with the name and the content of what that found. That the order does not tell is `MatchSame`: whatever
  strategy finds a fixture finds the same one in any order, unless two are as good.

`ListsProofs` is what these proofs have in common. The library's induction theorems
take an operator, which the provers cannot instantiate; here the induction
hypothesis is a set (`Induction`, `InductionUpTo`, `InductionOverSequences`), and a function
defined by recursion exists by `RecursionExists`. From these follow what `Those` (a list
comprehension), `FlattenSeq` and `Expanded` (a list of which each member is replaced by a
list) return for every list. `Those` is a definition of this project because
`SelectSeq` is one the provers cannot unfold.

Checked by TLC only:

* liveness (`EveryRequestAnswered`, `EveryRunEnds`, `EveryCallReturns`, `ContendersGetOn`,
  `EveryMessageAnswered`), which is outside what the proof system handles.

Every invariant and every action property of the passing runs, and every
refinement, is a theorem. The instances of the runs are instances of the
theorems, whose hypotheses are theirs: the memory adapter for `ContractKept`,
`IntakeKept` (which also leaves restarts out) and `BriefsFromCompleteIntake` (which also
asks that the fallback fields are required ones), `OneAtATime` for `AdaptersSwap`.

## 6. Not modelled

* Text: the wording of prompts and replies, `brief_markdown_renderer`, the description
  of a JSON schema, templates, token estimates, prices and the summary of usage.
  Where a conversion decides something (whether an answer can be parsed, whether a
  field is blank), the model has the decision.
* Ports, DTOs and protocols, the re-exports of `__init__` files, `dependencies.py`:
  declarations. The records of the modules are what the code does with them.
* Reading endpoints (`GET .../brief`, health), `list_sessions`, `get_prompt_template`, the hit and
  miss counters: they change nothing, or nothing reads them.
* Logging that is not the telemetry adapter's; `structured_logger`, which nothing in `src`
  uses; the telemetry's synchronous fallback without an event loop.
* A cache opened over a file that another process left, with more rows than the
  limit. The first store would bring it back to the limit; the model starts with
  an empty table. The application never calls `close`; the model does.
* The lazy creation of a provider's client and its parameters, and the client
  libraries themselves: a request is answered, fails, or hangs.
* Ranges and types of single settings: validation is modelled as far as a section
  or a value is missing or of the wrong shape.
* `session.messages` over restarts: the history grows with every message and only
  feeds prompts.

Several workers on one data directory are not modelled: the storage package
calls the file adapter one for single-instance deployments.
