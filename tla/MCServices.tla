------------------------------ MODULE MCServices ------------------------------
(***************************************************************************)
(* The model checker's instances of the components that share no state     *)
(* with each other or with the pipeline: the response cache, the start,    *)
(* the intake services, the fake adapter, the research steps and the       *)
(* telemetry.  A behaviour is one of them, chosen at the beginning; the    *)
(* variables of the others keep their initial values.  The cache, the      *)
(* steps and the telemetry are looked at in parts that leave some of their *)
(* constants' elements idle.                                               *)
(***************************************************************************)
EXTENDS TLC, LlmCache, Startup, IntakeServices, FakeLlm, ResearchSteps, Telemetry

CONSTANTS c1, c2, t1, t2, u1, u2, f1, f2

VARIABLE part

vars == <<part, cacheVars, startupVars, intakeVars, fakeVars, stepsVars, telemetryVars>>

-----------------------------------------------------------------------------
(* The cache: one caller whose cancelled calls leave threads at work, once *)
(* with rows that expire and once with more requests than the table holds; *)
(* two callers that contend for the lock; rows that are used and evicted.  *)
Request(prompt, schema) == [prompt |-> prompt, schema |-> schema, config |-> "default"]

AllRequests == {Request("p", "text"), Request("p", "Brief"), Request("q", "Brief")}
CacheCallers == {c1, c2}
CacheThreads == {t1, t2}

FirstThread == {CHOOSE t \in Threads : TRUE}
Use(callers, requests, threads, time) ==
  [callers |-> callers, requests |-> requests, threads |-> threads, time |-> time]
CacheParts ==
  [races      |-> Use({c1}, {Request("p", "text")}, Threads, 2),
   overlaps   |-> Use({c1}, Requests, Threads, 0),
   contention |-> Use({c1, c2}, {Request("p", "text"), Request("p", "Brief")}, FirstThread, 0),
   eviction   |-> Use({c1}, Requests, FirstThread, 2)]

\* What a part of the cache leaves idle stays idle.
Within(use) ==
  /\ now' <= use.time
  /\ \A c \in Callers : caller'[c].pc # "ready" =>
       c \in use.callers /\ caller'[c].request \in use.requests \union {None}
  /\ \A t \in Threads : thread'[t] # IdleThread => t \in use.threads

InCache(A) ==
  /\ part \in DOMAIN CacheParts /\ A /\ Within(CacheParts[part])
  /\ UNCHANGED <<part, startupVars, intakeVars, fakeVars, stepsVars, telemetryVars>>

-----------------------------------------------------------------------------
(* The start: configurations that start, fail in each of the ways there    *)
(* are, and override each other.                                           *)
Hooks == <<"prompts", "research_steps", "hooks">>
FakeId == <<"llm_providers", "fake", "adapter_id">>

Documents ==
  {(FakeId :> "fake") @@ (Hooks :> "template")
     @@ (<<"llm_providers", "kimi", "adapter_class">> :> "kimi.KimiAdapter")
     @@ (<<"search", "provider">> :> "tavily") @@ (<<"search", "api_key">> :> "${KEY}"),
   <<"default_llm_provider">> :> "kimi",
   (<<"default_llm_provider">> :> "openai")
     @@ (<<"llm_providers", "openai", "adapter_id">> :> "openai")
     @@ (<<"llm_cache", "enabled">> :> "true"),
   (<<"storage_adapter">> :> "file_system") @@ (<<"search", "api_key">> :> ""),
   <<"storage_adapter">> :> "postgres",
   <<"storage_adapter", "kind">> :> "file_system",
   <<"telemetry", "adapter">> :> "otel",
   <<"search">> :> None,
   (<<"llm_providers", "fake", "model">> :> "demo")
     @@ (<<"prompts", "research_", "hooks">> :> "template")}

Mapping(doc) == [is |-> "mapping", doc |-> doc]
NoDocument(is) == [is |-> is, doc |-> [p \in {} |-> None]]

ConfigFiles ==
  {Mapping(doc) : doc \in Documents}
    \union {NoDocument("missing"), NoDocument("malformed"), NoDocument("no mapping")}

\* While the application runs, default.yaml is edited into one of these.
EditedFiles == {Mapping(<<"search">> :> None), NoDocument("malformed"),
                Mapping((<<"default_llm_provider">> :> "openai")
                          @@ (<<"llm_providers", "openai", "adapter_id">> :> "openai")
                          @@ (<<"llm_cache", "enabled">> :> "true"))}
StartWithin == at = "running" => files'.default \in EditedFiles \union {files.default}

JourneyDocuments ==
  {Mapping(<<"journey", "fields">> :> "fields"), Mapping(<<"journey", "fields">> :> None),
   Mapping(<<"journey">> :> None),
   NoDocument("missing"), NoDocument("malformed")}

-----------------------------------------------------------------------------
(* The intake: a field of each type, asked for or not, and extractions     *)
(* with blank and repeated items.                                          *)
FieldOf(name, type, required, ask) ==
  [name |-> name, type |-> type, required |-> required, ask |-> ask,
   acknowledged |-> ask, properties |-> IF type = "object" THEN {"explore"} ELSE {}]
Extraction(brand, url, rivals, explore, more) ==
  [brand |-> brand, url |-> url, rivals |-> rivals, creative |-> [explore |-> explore],
   more |-> more]

FieldList == <<FieldOf("brand", "string", TRUE, TRUE),
               FieldOf("url", "string", FALSE, FALSE),
               FieldOf("rivals", "list", TRUE, TRUE),
               FieldOf("creative", "object", FALSE, TRUE),
               FieldOf("more", "string", FALSE, TRUE)>>
ExtractionSet == {Extraction("a", " ", <<>>, <<>>, ""),
                  Extraction("b", "u", <<"p", "", "p">>, <<>>, ""),
                  Extraction("", "", <<"q", " ">>, <<"x">>, " "),
                  Extraction(" ", "", <<>>, <<"y">>, "m")}

Interviewers == {u1, u2}
BlankStrings == {"", " "}

-----------------------------------------------------------------------------
(* The fake adapter: some of two fixtures that share a keyword and the end *)
(* of their names, a default that is not where it is looked for, a file    *)
(* that cannot be parsed and one that is no mapping; and a demo journey    *)
(* with an entry that is no mapping.                                       *)
Fixture(name, keywords, response) ==
  [is |-> "fixture", name |-> name, keywords |-> keywords, response |-> response]

FixtureFiles ==
  {Fixture(<<"brand_audit", "nike">>, {"nike", "audit"},
           Response("text", "fenced object", {"Audit"})),
   Fixture(<<"synthesis", "nike">>, {"nike"}, Response("object", "members", {"Brief"})),
   Fixture(<<"default", "default">>, {}, Response("text", "words", {})),
   [is |-> "malformed", name |-> <<"broken">>, keywords |-> {"nike"}, response |-> NoText],
   [is |-> "no mapping", name |-> <<"list">>, keywords |-> {}, response |-> NoText]}
DemoJourneys ==
  {<<>>, <<Response("object", "members", {"Intake"}), Response("text", "words", {}),
           Response("object", "nothing", {})>>}
DemoNameList == <<"demo_turn_1", "demo_turn_2", "demo_turn_3">>
DefaultFixture == <<"default">>
PromptSet == {{}, {"nike"}, {"nike", "audit"}}
OverrideSet == {None, <<"nike">>, <<"synthesis", "nike">>, <<"demo_turn_2">>}
SchemaSet == {"Intake", "Audit"}

-----------------------------------------------------------------------------
(* The research steps: two runs at one step, whose category a model may    *)
(* infer, the second with a placeholder in an answer; and one run at three.*)
Slot(key) == <<"slot", key>>
Text(words) == <<"text", words>>
Value(r, field) == <<<<"value", r, field>>>>

TemplateOf ==
  [trend_pulse |-> <<Text("trends for"), Slot("brand_name"), Slot("category"),
                     Slot("primary_goal"), Slot("search_results")>>,
   competitor_scan |-> <<Slot("competitors"), Text("of"), Slot("brand_name"), Slot("rating")>>,
   brand_audit |-> <<Slot("brand_name"), Slot("brand_url")>>]
AnswersOf(r) ==
  [brand_name |-> IF r = 1 THEN Value(1, "brand") ELSE Append(Value(2, "brand"), Slot("category")),
   brand_url |-> <<>>, primary_goal |-> Value(r, "goal"), competitors |-> <<>>]
KeywordMap == <<[category |-> "apparel", words |-> {"shoe", "wear"}],
                [category |-> "technology", words |-> {"app"}],
                [category |-> "food", words |-> {"food"}]>>
WordsOf == <<{"shoe"}, {"app", "food"}>>

Interviews == [r \in {1, 2} |-> AnswersOf(r)]
StepSet == {"trend_pulse", "competitor_scan", "brand_audit"}

\* In one part the second run does not begin; in the other the other steps
\* fail and the first begins then.
Idle(t) == t[2] # "trend_pulse"
StepsWithin ==
  CASE part = "one run"  -> \A t \in Tasks : t[1] = 2 => work'[t].pc = "ready"
    [] part = "two runs" ->
         /\ \A t \in Tasks : work'[t].pc \in {"asking", "done"} => ~Idle(t)
         /\ \A t \in Tasks : work'[t].pc # "ready" /\ ~Idle(t) =>
              \A u \in Tasks : Idle(u) => work'[u].pc = "failed"

-----------------------------------------------------------------------------
(* The telemetry: two callers of flush; spans of two requests.             *)
LevelOrder == <<"DEBUG", "INFO", "WARNING">>
FlushCallers == {f1, f2}

TelemetryWithin ==
  CASE part = "flushing" ->
         Len(entry') <= 2 /\ (\A i \in DOMAIN entry' : entry'[i].by = "r") /\ started' = 0
    [] part = "spanning" -> flush' = flush

-----------------------------------------------------------------------------
Parts == DOMAIN CacheParts
           \union {"start", "intake", "fake", "two runs", "one run", "flushing", "spanning"}

Init ==
  /\ part \in Parts
  /\ CacheInit /\ StartInit /\ IntakeInit /\ FakeInit /\ StepsInit /\ TelemetryInit
  /\ asksModel => part = "two runs"

Next ==
  \/ InCache(CacheNext)
  \/ /\ part = "start" /\ StartNext /\ StartWithin
     /\ UNCHANGED <<part, cacheVars, intakeVars, fakeVars, stepsVars, telemetryVars>>
  \/ /\ part = "intake" /\ IntakeNext
     /\ UNCHANGED <<part, cacheVars, startupVars, fakeVars, stepsVars, telemetryVars>>
  \/ /\ part = "fake" /\ FakeNext
     /\ UNCHANGED <<part, cacheVars, startupVars, intakeVars, stepsVars, telemetryVars>>
  \/ /\ part \in {"two runs", "one run"} /\ StepsNext /\ StepsWithin
     /\ UNCHANGED <<part, cacheVars, startupVars, intakeVars, fakeVars, telemetryVars>>
  \/ /\ part \in {"flushing", "spanning"} /\ TelemetryNext /\ TelemetryWithin
     /\ UNCHANGED <<part, cacheVars, startupVars, intakeVars, fakeVars, stepsVars>>

\* LlmCache!CacheFairness in the part whose liveness is checked.
Contending(A) == part = "contention" /\ InCache(A)
FairCache ==
  /\ \A t \in Threads : WF_vars(Contending(Statement(t)))
  /\ \A c \in Callers : /\ WF_vars(Contending(Enter(c)))
                        /\ WF_vars(Contending(AdapterAnswers(c) \/ AdapterFails(c)))

Spec == Init /\ [][Next]_vars /\ FairCache /\ IntakeFairness

-----------------------------------------------------------------------------
\* The properties are those of the components, but for one of the cache.
\* No caller of the cache waits forever (LlmCache!EveryCallerGetsOn).
ContendersGetOn ==
  \A c \in Callers :
    (part = "contention" /\ caller[c].pc # "ready") ~> (caller[c].pc = "ready")

=============================================================================
