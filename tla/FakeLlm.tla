------------------------------ MODULE FakeLlm ------------------------------
(***************************************************************************)
(* The fake adapter: fixtures loaded once from a directory, an optional    *)
(* demo journey with one cumulative extraction per turn, the matcher that  *)
(* picks a fixture for a prompt, and what the two calls make of it.  The   *)
(* directory is walked in an order the file system chooses.                *)
(*                                                                         *)
(* A fixture's name is the sequence of its path's parts, a prompt the set  *)
(* of the keywords that its user text contains.                            *)
(***************************************************************************)
EXTENDS Optional, FiniteSets, Lists

CONSTANTS
  Directory,    \* the files there may be: [is, name, keywords, response]
  DemoFiles,    \* choices for the demo journey: sequences of what "turns" lists
  DemoNames,    \* DemoNames[n] is the fixture name "demo_turn_n"
  DefaultName,
  Prompts,
  Overrides,    \* choices for fixture_name: paths, or None
  Schemas

\* A demo turn has a name of its own, and no file is called by one.
ASSUME FixturesAssumption ==
  /\ IsFiniteSet(Directory) /\ \A f \in Directory : IsFiniteSet(f.keywords)
  /\ \A demo \in DemoFiles : IsList(demo) /\ Len(demo) <= Len(DemoNames)
  /\ IsList(DemoNames)
  /\ \A i, j \in DOMAIN DemoNames : DemoNames[i] = DemoNames[j] => i = j
  /\ \A i \in DOMAIN DemoNames :
       <<DemoNames[i]>> \notin {f.name : f \in Directory} \union {DefaultName}

VARIABLES
  fixtures,     \* FixtureRepository._fixtures and _keyword_index, in order
  turns,        \* DemoJourneyPlayer._demo_turns
  demoFile,     \* history: the demo journey these were loaded from
  call          \* the last call and what it led to

fakeVars == <<fixtures, turns, demoFile, call>>

(***************************************************************************)
(* A response is an object that fits some schemas, a text that may hold    *)
(* one, or something else.                                                 *)
(***************************************************************************)
Response(is, holds, fits) == [is |-> is, holds |-> holds, fits |-> fits]
NoText == Response("text", "nothing", {})

Mappings(demo) == Those(demo, {t \in ToSet(demo) : t.is = "object"})

(***************************************************************************)
(* What finds a fixture or none gives a list of those it may be, of which  *)
(* the first is taken.                                                     *)
(***************************************************************************)
\* DemoJourneyPlayer.build_fixture, for a one-based turn.
\* Mutant: the index is one too low, and before the first is the last.
BuildFixtureBefore(n) ==
  IF turns = <<>> \/ n < 1 \/ n > Len(turns) THEN <<>>
  ELSE <<[name |-> <<DemoNames[n]>>,
          response |-> turns[IF n = 1 THEN Len(turns) ELSE n - 1]]>>
BuildFixture(n) ==
  IF turns = <<>> \/ n < 1 \/ n > Len(turns) THEN <<>>
  ELSE <<[name |-> <<DemoNames[n]>>, response |-> turns[n]]>>

Named(loaded, name) == Those(loaded, {f \in ToSet(loaded) : f.name = name})

\* FixtureRepository.create_default
CreateDefault(loaded) ==
  IF Named(loaded, DefaultName) # <<>> THEN Head(Named(loaded, DefaultName))
  ELSE [name |-> DefaultName, response |-> NoText]

(***************************************************************************)
(* FixtureMatcher.match: the first strategy that finds one.                *)
(***************************************************************************)
ByTurn(turn) == IF turn = None THEN <<>> ELSE BuildFixture(turn)

ByTurnName(override) ==
  LET n == {i \in DOMAIN DemoNames : <<DemoNames[i]>> = override} IN
  IF n = {} THEN <<>> ELSE BuildFixture(CHOOSE i \in n : TRUE)

\* The fixture of that very name, else the first whose name ends in it.
ByName(loaded, override) ==
  Named(loaded, override)
    \o Those(loaded, {f \in ToSet(loaded) : IsSuffix(override, f.name)})

Score(f, prompt) == Cardinality(f.keywords \intersect prompt)

\* The first of the best, unless the best is zero.
\* Mutant: the first that scores at all.
BestByKeywordsFirst(loaded, prompt) ==
  LET matching == Those(loaded, {f \in ToSet(loaded) : Score(f, prompt) > 0}) IN
  IF matching = <<>> THEN CreateDefault(loaded) ELSE Head(matching)
BestByKeywords(loaded, prompt) ==
  LET best == Those(loaded, {f \in ToSet(loaded) :
                Score(f, prompt) > 0 /\ \A g \in ToSet(loaded) :
                                          Score(g, prompt) <= Score(f, prompt)})
  IN  IF best = <<>> THEN CreateDefault(loaded) ELSE Head(best)

Match(loaded, prompt, override, turn) ==
  LET told == IF override = None THEN ByTurn(turn)
              ELSE ByTurn(turn) \o ByTurnName(override) \o ByName(loaded, override)
  IN  IF told = <<>> THEN BestByKeywords(loaded, prompt) ELSE Head(told)

\* complete_structured: an object is validated; a text is stripped of code
\* fences, parsed, and what it holds validated.  All that fails is an
\* LLMCallError.
StructuredOutcome(response, schema) ==
  IF \/ response.is = "object" /\ response.holds = "members"
     \/ response.is = "text" /\ response.holds \in {"object", "fenced object"}
    THEN IF schema \in response.fits THEN schema ELSE "LLMCallError"
    ELSE "LLMCallError"

FakeInit ==
  /\ fixtures = None
  /\ turns = <<>>
  /\ demoFile = <<>>
  /\ call = [is |-> "none"]

\* __init__: a file that cannot be read or parsed is left out, and so is
\* what the demo journey lists that is no mapping; a file with JSON that is
\* no mapping has no get(), and the error ends the construction.
Load(order, demo) ==
  /\ call.is = "none"
  /\ IF \E f \in ToSet(order) : f.is = "no mapping"
       THEN call' = [is |-> "AttributeError"] /\ UNCHANGED <<fixtures, turns, demoFile>>
       ELSE /\ fixtures' = Those(order, {f \in ToSet(order) : f.is = "fixture"})
            /\ turns' = Mappings(demo)
            /\ demoFile' = demo
            /\ UNCHANGED call

\* One call is enough: the adapter keeps nothing from one to the next.
Answer(kind, prompt, override, turn, outcome) ==
  /\ fixtures # None /\ call.is = "none"
  /\ LET fixture == Match(fixtures, prompt, override, turn) IN
     call' = [is |-> kind, prompt |-> prompt, override |-> override, turn |-> turn,
              fixture |-> fixture.name, response |-> fixture.response,
              outcome |-> outcome]
  /\ UNCHANGED <<fixtures, turns, demoFile>>

Complete(prompt, override, turn) ==
  Answer("complete", prompt, override, turn, "text")

CompleteStructured(prompt, override, turn, schema) ==
  Answer("structured", prompt, override, turn,
    StructuredOutcome(Match(fixtures, prompt, override, turn).response, schema))

TurnNumbers == {None} \union (0 .. Len(DemoNames))

FakeNext ==
  \/ /\ fixtures = None      \* it is constructed once
     /\ \E present \in SUBSET Directory, demo \in DemoFiles :
          \E order \in SetToSeqs(present) : Load(order, demo)
  \/ \E prompt \in Prompts, override \in Overrides, turn \in TurnNumbers :
       \/ Complete(prompt, override, turn)
       \/ \E schema \in Schemas : CompleteStructured(prompt, override, turn, schema)

FakeSpec == FakeInit /\ [][FakeNext]_fakeVars

-----------------------------------------------------------------------------
Answered == call.is \in {"complete", "structured"}

\* The adapter is deterministic: unless two fixtures match a call equally
\* well, the order the files were found in does not tell which answers it.
\* By name those that only end in it are equal, by keywords those that
\* score the same; keywords count only where no name is matched.
Rivals(f, g) ==
  IF call.override # None /\ \E h \in ToSet(fixtures) : IsSuffix(call.override, h.name)
    THEN /\ f.name # call.override /\ g.name # call.override
         /\ IsSuffix(call.override, f.name) /\ IsSuffix(call.override, g.name)
    ELSE Score(f, call.prompt) > 0 /\ Score(f, call.prompt) = Score(g, call.prompt)
SameForAnyOrder ==
  Answered =>
    \/ \E f, g \in ToSet(fixtures) : f # g /\ Rivals(f, g) /\ f.name = call.fixture
    \/ \A order \in SetToSeqs(ToSet(fixtures)) :
         Match(order, call.prompt, call.override, call.turn).name = call.fixture

\* A demo interview is answered with the mappings of its file, in their
\* order and one for each turn from the first on; a turn that the file does
\* not have is not answered by the demo.
DemoTurnsInOrder ==
  Answered /\ call.turn # None /\ call.override = None =>
    LET told == Mappings(demoFile) IN
    IF call.turn \in DOMAIN told
      THEN call.fixture = <<DemoNames[call.turn]>> /\ call.response = told[call.turn]
      ELSE call.fixture \notin {<<DemoNames[i]>> : i \in DOMAIN told}

=============================================================================
