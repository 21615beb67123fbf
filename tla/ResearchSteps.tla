---------------------------- MODULE ResearchSteps ----------------------------
(***************************************************************************)
(* What flows through a run of research and synthesis: the five steps of   *)
(* the registry with the category they infer, the search they make and the *)
(* prompt they send, the bundle of their results, and the prompt of the    *)
(* synthesis.  The step objects, the classifier, the search tool and the   *)
(* bundle published last are shared by the runs of all sessions.  When the *)
(* steps run, wait for a slot or are cut off is ResearchPipeline; here any *)
(* of them may fail.                                                       *)
(*                                                                         *)
(* A text is a sequence of parts, tuples that begin with "text" (words of  *)
(* a template), "slot" (a placeholder in braces), "value" (an answer of    *)
(* somebody's interview), "category", "found" or "no results".             *)
(***************************************************************************)
EXTENDS Optional, FiniteSets, Lists

CONSTANTS
  Steps,        \* of the registry's five, those that are looked at
  Runs,         \* runs of the pipeline, each with an interview of its own
  Templates,    \* a text for each step: the user part of its prompt
  Intake,       \* Intake[r][field]: the text a run's interview has there
  Words,        \* Words[r]: the keywords that brand, rivals and target hold
  Keywords,     \* the keyword map: a sequence of [category, words]
  LlmCategories \* what a classifying model may answer

VARIABLES
  asksModel,    \* CategoryClassifier._llm is not None
  work,         \* the local state of each run's task for each step
  results,      \* what each run has collected for its bundle
  lastBundle,   \* ResearchPipeline._last_bundle
  synthesis,    \* the prompt each run's synthesis has sent, and how it ended
  since         \* history: who published from a run's own bundle to its synthesis

bundleVars == <<results, lastBundle, synthesis, since>>
stepsVars == <<asksModel, work, bundleVars>>

(***************************************************************************)
(* The steps                                                               *)
(***************************************************************************)
\* The keys of the variables a step passes on, in their order.
Keys(step) ==
  CASE step = "brand_audit"     -> <<"brand_name", "brand_url", "search_results">>
    [] step = "competitor_scan" -> <<"brand_name", "competitors", "search_results">>
    [] step = "trend_pulse"     -> <<"brand_name", "category", "primary_goal",
                                     "search_results">>
    [] step = "customer_voice"  -> <<"brand_name", "category", "target_customer",
                                     "search_results">>
    [] step = "hook_mining"     -> <<"brand_name", "target_customer", "primary_goal",
                                     "search_results">>

Classifies(step) == "category" \in ToSet(Keys(step))

\* A placeholder is its key and no more; what an interview answers is of its
\* own run, and it answers whatever the steps ask of it.
IsPart(part) == part[1] = "slot" => part = <<"slot", part[2]>>

ASSUME StepsAssumption ==
  /\ Steps \subseteq {"brand_audit", "competitor_scan", "trend_pulse", "customer_voice",
                     "hook_mining"}
  /\ \A step \in Steps :
       /\ IsList(Templates[step])
       /\ \A part \in ToSet(Templates[step]) : IsPart(part) /\ part[1] \notin {"value", "found"}
       /\ \A r \in Runs, key \in ToSet(Keys(step)) \ {"category", "search_results"} :
            /\ key \in DOMAIN Intake[r]
            /\ IsList(Intake[r][key])
            /\ \A part \in ToSet(Intake[r][key]) :
                 IsPart(part) /\ part[1] # "found" /\ (part[1] = "value" => part[2] = r)

(***************************************************************************)
(* The category: the model's, if it is one of the list, else that of the   *)
(* first keyword found.                                                    *)
(***************************************************************************)
Categories == {Keywords[i].category : i \in DOMAIN Keywords} \union {"general"}

CategoryByKeywords(words) ==
  LET hits == SelectSeq(Keywords, LAMBDA k : k.words \intersect words # {}) IN
  IF hits = <<>> THEN "general" ELSE Head(hits).category

\* A model that fails counts as one that answers "general".
Classified(answer, words) ==
  IF answer \in Categories THEN answer ELSE CategoryByKeywords(words)

(***************************************************************************)
(* ResearchPromptBuilder.build replaces one key after the other, in what   *)
(* earlier ones have put there too.                                        *)
(***************************************************************************)
Replace(text, key, value) ==
  FlattenSeq([i \in DOMAIN text |->
    IF text[i] = <<"slot", key>> THEN value ELSE <<text[i]>>])

BuildPrompt(template, keys, value) ==
  LET text[i \in 0 .. Len(keys)] ==
        IF i = 0 THEN template ELSE Replace(text[i - 1], keys[i], value[keys[i]])
  IN  text[Len(keys)]

\* The value of a variable for run r; an empty list of competitors is unknown.
ValueOf(r, key, w) ==
  CASE key = "category"       -> <<<<"category", w.category>>>>
    [] key = "search_results" -> <<w.found>>
    [] key = "competitors" /\ Intake[r][key] = <<>> -> <<<<"text", "unknown">>>>
    [] OTHER                  -> Intake[r][key]

(***************************************************************************)
(* A task                                                                  *)
(***************************************************************************)
Tasks == Runs \X Steps
Fresh == [pc |-> "ready", category |-> None, found |-> None, prompt |-> <<>>]

StepsInit ==
  /\ asksModel \in BOOLEAN
  /\ work = [t \in Tasks |-> Fresh]
  /\ results = [r \in Runs |-> {}]
  /\ lastBundle = None
  /\ synthesis = [r \in Runs |-> [is |-> "none", prompt |-> <<>>]]
  /\ since = [r \in Runs |-> {}]

\* The search is asked for, once there is a category if the step needs one.
Asking(t, category) ==
  work' = [work EXCEPT ![t].pc = "searching", ![t].category = category]

BeginStep(t) ==
  /\ work[t].pc = "ready"
  /\ IF Classifies(t[2]) /\ asksModel
       THEN work' = [work EXCEPT ![t].pc = "classifying"]
       ELSE Asking(t, IF Classifies(t[2]) THEN CategoryByKeywords(Words[t[1]]) ELSE None)
  /\ UNCHANGED <<asksModel, bundleVars>>

\* Mutant: the category is kept for the classifier's next call.
ClassifyKeeping(t, answer) ==
  /\ work[t].pc = "classifying"
  /\ LET kept == {work[u].category : u \in {v \in Tasks : work[v].category # None}} IN
     Asking(t, IF kept # {} THEN CHOOSE c \in kept : TRUE
               ELSE Classified(answer, Words[t[1]]))
  /\ UNCHANGED <<asksModel, bundleVars>>
Classify(t, answer) ==
  /\ work[t].pc = "classifying"
  /\ Asking(t, Classified(answer, Words[t[1]]))
  /\ UNCHANGED <<asksModel, bundleVars>>

\* _search_context, the prompt and the call of the model.
SearchReturns(t, something) ==
  LET found == IF something THEN <<"found", t[1]>> ELSE <<"no results">>
      w == [work[t] EXCEPT !.found = found]
      value == [key \in ToSet(Keys(t[2])) |-> ValueOf(t[1], key, w)]
  IN
  /\ work[t].pc = "searching"
  /\ work' = [work EXCEPT ![t] = [w EXCEPT !.pc = "asking",
                !.prompt = BuildPrompt(Templates[t[2]], Keys(t[2]), value)]]
  /\ UNCHANGED <<asksModel, bundleVars>>

\* The answer fits the step's schema and is put in the bundle under its name.
StepReturns(t) ==
  /\ work[t].pc = "asking"
  /\ work' = [work EXCEPT ![t].pc = "done"]
  /\ results' = [results EXCEPT ![t[1]] = @ \union {t[2]}]
  /\ UNCHANGED <<asksModel, lastBundle, synthesis, since>>

\* A search that fails fails its step, as a model that fails does.
StepFails(t) ==
  /\ work[t].pc \in {"searching", "asking"}
  /\ work' = [work EXCEPT ![t].pc = "failed"]
  /\ UNCHANGED <<asksModel, bundleVars>>

(***************************************************************************)
(* The bundle and the synthesis: a member for each result, none for a step *)
(* that failed.                                                            *)
(***************************************************************************)
Bundle(r) == {<<"result", r, step>> : step \in results[r]}
Flattened(bundle) == SetToSeq(bundle)

Finished(r) == \A step \in Steps : work[<<r, step>>].pc \in {"done", "failed"}

Publishes(r, bundle) ==
  /\ synthesis[r].is = "none" /\ Finished(r)
  /\ lastBundle' = bundle
  /\ synthesis' = [synthesis EXCEPT ![r].is = "published"]
  /\ since' = [q \in Runs |-> IF q = r THEN {r}
                              ELSE IF synthesis[q].is = "published" THEN since[q] \union {r}
                              ELSE since[q]]
  /\ UNCHANGED <<asksModel, work, results>>

\* stream has all outcomes; its caller is then told, and goes on later.
\* Mutant: the last bundle is updated rather than replaced.
PublishInPlace(r) ==
  Publishes(r, IF lastBundle = None THEN Bundle(r) ELSE lastBundle \union Bundle(r))
Publish(r) == Publishes(r, Bundle(r))

\* What is synthesised is the last bundle by then.
Synthesize(r) ==
  /\ synthesis[r].is = "published"
  /\ synthesis' = [synthesis EXCEPT ![r] = [is |-> "asking", prompt |-> Flattened(lastBundle)]]
  /\ UNCHANGED <<asksModel, work, results, lastBundle, since>>

SynthesisEnds(r, how) ==
  /\ synthesis[r].is = "asking"
  /\ synthesis' = [synthesis EXCEPT ![r].is = how]
  /\ UNCHANGED <<asksModel, work, results, lastBundle, since>>

StepsNext ==
  \/ \E t \in Tasks :
       \/ BeginStep(t)
       \/ \E answer \in LlmCategories : Classify(t, answer)
       \/ \E something \in BOOLEAN : SearchReturns(t, something)
       \/ StepReturns(t)
       \/ StepFails(t)
  \/ \E r \in Runs :
       Publish(r) \/ Synthesize(r) \/ \E how \in {"brief", "SynthesisError"} : SynthesisEnds(r, how)

StepsSpec == StepsInit /\ [][StepsNext]_stepsVars

-----------------------------------------------------------------------------
\* However runs overlap, a step's prompt is its template with the values of
\* its own run put in, all at once: in no prompt is there another run's
\* value or category, and the order of the keys does not tell, unless an
\* answer of the interview itself has a placeholder in it.
Substituted(template, value) ==
  FlattenSeq([i \in DOMAIN template |->
    IF template[i][1] = "slot" /\ template[i][2] \in DOMAIN value
      THEN value[template[i][2]] ELSE <<template[i]>>])

Plain(text) == \A i \in DOMAIN text : text[i][1] # "slot"

OwnCategories(r) ==
  {CategoryByKeywords(Words[r])}
    \union (IF asksModel THEN LlmCategories \intersect Categories ELSE {})

OwnPrompt ==
  \A t \in Tasks : work[t].pc \in {"asking", "done"} =>
    LET r == t[1]  step == t[2]
        template == Templates[step]
        values(c) == [key \in ToSet(Keys(step)) |->
                        ValueOf(r, key, [category |-> c, found |-> work[t].found])]
    IN  /\ (\A key \in ToSet(Keys(step)) \intersect DOMAIN Intake[r] : Plain(Intake[r][key]))
             => \E c \in OwnCategories(r) : work[t].prompt = Substituted(template, values(c))
        /\ \A i \in DOMAIN work[t].prompt :
             work[t].prompt[i][1] \in {"value", "found"} => work[t].prompt[i][2] = r

\* A synthesis is told of the steps that succeeded in one run, and of no
\* other, so that what failed is missing and is not an empty finding; that
\* run is its own, or one that published its bundle before it went on.
Prompted(r) == synthesis[r].is \notin {"none", "published"}
SynthesisKnowsResults ==
  \A r \in Runs : Prompted(r) =>
    /\ \E q \in since[r] : ToSet(synthesis[r].prompt) =
         {<<"result", q, step>> : step \in {s \in Steps : work[<<q, s>>].pc = "done"}}
    /\ Len(synthesis[r].prompt) = Cardinality(ToSet(synthesis[r].prompt))

=============================================================================
