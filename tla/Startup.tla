------------------------------ MODULE Startup ------------------------------
(***************************************************************************)
(* The composition root (main.py, create_app), the configuration adapter   *)
(* (infrastructure/config) and the factories it uses.  create_app goes     *)
(* through its steps in order and the first failure ends it; afterwards    *)
(* the configuration adapter lives on, and answers from what it has read   *)
(* until it is told to reload.                                             *)
(*                                                                         *)
(* A YAML mapping is the function from the paths of its leaves to their    *)
(* values; None is a key without a value, a name in a "${...}" placeholder *)
(* is a member of Placeholders.                                            *)
(***************************************************************************)
EXTENDS Optional, Naturals, Sequences, SequencesExt

CONSTANTS
  Files,        \* the choices for default.yaml and the environment's file
  JourneyFiles, \* the choices for journey.yaml and its overlay
  Placeholders, \* values that stand for an environment variable
  StepNames     \* the research steps of the registry

NoSettings == [p \in {} |-> None]
File(is, doc) == [is |-> is, doc |-> doc]
Missing == File("missing", NoSettings)
Malformed == File("malformed", NoSettings)      \* not YAML
NoMapping == File("no mapping", NoSettings)     \* YAML, but a list or a scalar

\* A value is under a key, and under each key that leads to it.
IsPath(p) == p \in Seq(ToSet(p)) /\ p # <<>>

ASSUME FilesAssumption == \A file \in Files : \A p \in DOMAIN file.doc : IsPath(p)

VARIABLES
  files,        \* default.yaml and the overlay of the environment, on disk
  environ,      \* variable: what BRIEF_SCOUT_ENV is; env: the environment
                \* it names; secrets: the placeholders' variables are set
  raw,          \* YAMLConfigAdapter._raw_config
  appConfig,    \* its cached_property app_config
  app,          \* the adapters wired so far
  at            \* the step create_app is at, "running", or an error

startupVars == <<files, environ, raw, appConfig, app, at>>

(***************************************************************************)
(* Reading and merging                                                     *)
(***************************************************************************)
\* YamlLoader.load; anything but a mapping is a ConfigError.
Loads(file) == file.is = "mapping"

Under(path, doc) == {p \in DOMAIN doc : IsPrefix(path, p)}
Clash(p, q) == IsPrefix(p, q) \/ IsPrefix(q, p)

\* ConfigMerger.merge: mappings are merged, any other value of the overlay
\* (None included) takes the place of what the base has there.
\* Mutant: the base's own values win.
MergeConfigBaseWins(base, overlay) ==
  [p \in DOMAIN base \union {q \in DOMAIN overlay : \A b \in DOMAIN base : ~Clash(b, q)}
     |-> IF p \in DOMAIN base THEN base[p] ELSE overlay[p]]
MergeConfig(base, overlay) ==
  [p \in DOMAIN overlay \union {q \in DOMAIN base : \A o \in DOMAIN overlay : ~Clash(o, q)}
     |-> IF p \in DOMAIN overlay THEN overlay[p] ELSE base[p]]

\* YamlFileJourneySource._merge: a key without a value changes nothing.
MergeJourney(base, overlay) ==
  LET says == {p \in DOMAIN overlay :
                 overlay[p] # None \/ (\A b \in DOMAIN base : ~Clash(b, p))}
  IN  MergeConfig(base, [p \in says |-> overlay[p]])

\* A placeholder whose variable is set becomes its value; others stay.
Interpolate(doc, set) ==
  [p \in DOMAIN doc |-> IF doc[p] \in Placeholders /\ set THEN "value" ELSE doc[p]]

\* YamlFileConfigSource.load: the overlay is read if there is an environment
\* and a file of its name.
Overlaid == environ.env # "" /\ files.overlay # Missing
SourceLoads == Loads(files.default) /\ (Overlaid => Loads(files.overlay))
Source ==
  Interpolate(IF Overlaid
                THEN MergeConfig(files.default.doc, files.overlay.doc) ELSE files.default.doc,
              environ.secrets)

(***************************************************************************)
(* Validation: a section must be a mapping and a setting must have a       *)
(* value that is none, or else be absent and take its default.             *)
(***************************************************************************)
Sections == {<<"llm_providers">>, <<"prompts">>, <<"telemetry">>, <<"search">>,
             <<"llm_cache">>}

Settings == {<<"default_llm_provider">>, <<"storage_adapter">>, <<"telemetry", "adapter">>,
             <<"search", "provider">>, <<"search", "api_key">>, <<"llm_cache", "enabled">>}

ValidProvider(doc, name) ==
  LET p == <<"llm_providers", name>>
      id == Append(p, "adapter_id")
  IN  /\ p \notin DOMAIN doc /\ \A q \in Under(p, doc) : doc[q] # None
      /\ Under(id, doc) \subseteq {id}

Providers(doc) == {p[2] : p \in {q \in DOMAIN doc : Len(q) >= 2 /\ q[1] = "llm_providers"}}

Valid(doc) ==
  /\ Sections \intersect DOMAIN doc = {}
  /\ \A path \in Settings : Under(path, doc) \subseteq {path}
  /\ \A name \in Providers(doc) : ValidProvider(doc, name)
  /\ \A p \in DOMAIN doc : doc[p] = None =>
       p[1] = "prompts" /\ p[2] \in {"research_steps", "research_"}

Setting(doc, path, default) == IF path \in DOMAIN doc THEN doc[path] ELSE default

\* PromptsConfig: the catalog research_steps and the legacy keys beside it
\* (research_x is the path <<"prompts", "research_", "x">>); what is not a
\* template is dropped.
ResearchPrompts(doc) ==
  {p[3] : p \in {q \in DOMAIN doc :
     Len(q) = 3 /\ q[2] \in {"research_steps", "research_"} /\ doc[q] = "template"}}

\* LLMProviderConfig: a legacy class path is taken for the id as it stands,
\* and so is a mapping, which is no adapter's id.
AdapterId(doc, name) ==
  LET id == Setting(doc, <<"llm_providers", name, "adapter_id">>, "")
      class == <<"llm_providers", name, "adapter_class">>
  IN  IF id # "" THEN id
      ELSE IF Under(class, doc) \subseteq {class} THEN Setting(doc, class, "")
      ELSE "a mapping"

(***************************************************************************)
(* The configuration adapter.  Reading app_config loads and validates once *)
(* and keeps both results; a failed validation keeps the raw one.          *)
(***************************************************************************)
ReadConfig ==
  IF appConfig # None
    THEN UNCHANGED <<raw, appConfig>>
    ELSE IF SourceLoads
      THEN /\ raw' = Source
           /\ appConfig' = IF Valid(Source) THEN Source ELSE None
      ELSE UNCHANGED <<raw, appConfig>>

\* get_provider_config looks the provider up in the raw configuration.
FoundIn(doc, name) == doc # None /\ name \in Providers(doc)

\* Someone asks the adapter for a provider, at any time.
GetProvider ==
  /\ at = "running" /\ raw = None
  /\ ReadConfig
  /\ UNCHANGED <<files, environ, app, at>>

\* Mutant: reload forgets the raw configuration only.
ReloadRaw ==
  /\ at = "running"
  /\ raw' = None
  /\ UNCHANGED appConfig
  /\ UNCHANGED <<files, environ, app, at>>
Reload ==
  /\ at = "running"
  /\ raw' = None
  /\ appConfig' = None
  /\ UNCHANGED <<files, environ, app, at>>

(***************************************************************************)
(* The factories                                                           *)
(***************************************************************************)
TelemetryAdapters == {"local_file"}
StorageAdapters == {"in_memory", "file_system"}
LlmAdapters == {"fake", "openai", "kimi", "claude"}

BuildTavily(key) == IF key = "" THEN "fake" ELSE "tavily"
SearchTool(doc) ==
  IF Setting(doc, <<"search", "provider">>, "fake") = "tavily"
    THEN BuildTavily(Setting(doc, <<"search", "api_key">>, "")) ELSE "fake"

(***************************************************************************)
(* create_app                                                              *)
(***************************************************************************)
Nothing == [telemetry |-> None, storage |-> None, llm |-> None, cached |-> FALSE,
            tracked |-> FALSE, questions |-> FALSE, search |-> None, steps |-> {}]

StartInit ==
  /\ files = [f \in {"default", "overlay"} |-> Missing]
  /\ environ = [variable |-> "unset", env |-> "", secrets |-> FALSE]
  /\ raw = None /\ appConfig = None
  /\ app = Nothing
  /\ at = "begin"

\* BRIEF_SCOUT_ENV: unset, set to nothing, or the name of an environment.
Variables == {"unset", "empty", "production"}
EnvironmentOf(variable) ==
  CASE variable = "unset" -> "development"
    [] variable = "empty" -> ""
    [] OTHER              -> variable

\* A process starts over whatever is on disk.  One that fails is over: it
\* leaves nothing behind for the next.
BeginStart(default, overlay, variable, secrets) ==
  /\ at = "begin"
  /\ files' = [default |-> default, overlay |-> overlay]
  /\ environ' = [variable |-> variable, env |-> EnvironmentOf(variable), secrets |-> secrets]
  /\ at' = "config"
  /\ UNCHANGED <<raw, appConfig, app>>

LoadConfig ==
  /\ at = "config"
  /\ ReadConfig
  /\ at' = IF appConfig' = None THEN "ConfigError" ELSE "telemetry"
  /\ UNCHANGED <<files, environ, app>>

CreateTelemetry ==
  LET id == Setting(appConfig, <<"telemetry", "adapter">>, "local_file") IN
  /\ at = "telemetry"
  /\ IF id \in TelemetryAdapters
       THEN at' = "storage" /\ app' = [app EXCEPT !.telemetry = id]
       ELSE at' = "ValueError" /\ UNCHANGED app
  /\ UNCHANGED <<files, environ, raw, appConfig>>

CreateStorage ==
  LET id == Setting(appConfig, <<"storage_adapter">>, "in_memory") IN
  /\ at = "storage"
  /\ IF id \in StorageAdapters
       THEN at' = "llm" /\ app' = [app EXCEPT !.storage = id]
       ELSE at' = "ValueError" /\ UNCHANGED app
  /\ UNCHANGED <<files, environ, raw, appConfig>>

\* The default provider's adapter, looked up in the raw configuration.
CreateLlm ==
  LET name == Setting(appConfig, <<"default_llm_provider">>, "fake")
      id == IF AdapterId(raw, name) = "" THEN "fake" ELSE AdapterId(raw, name)
  IN
  /\ at = "llm"
  /\ IF ~FoundIn(raw, name)
       THEN at' = "KeyError" /\ UNCHANGED app
       ELSE IF id \in LlmAdapters
              THEN at' = "wrap" /\ app' = [app EXCEPT !.llm = id]
              ELSE at' = "ValueError" /\ UNCHANGED app
  /\ UNCHANGED <<files, environ, raw, appConfig>>

\* The cache goes around the adapter and the tracker, if it is asked for,
\* around both.
WrapLlm(tracked) ==
  /\ at = "wrap"
  /\ app' = [app EXCEPT
       !.cached = (Setting(appConfig, <<"llm_cache", "enabled">>, "false") = "true"),
       !.tracked = tracked]
  /\ at' = "journey"
  /\ UNCHANGED <<files, environ, raw, appConfig>>

\* The journey's fields, where they are given, are a list.
Fields == <<"journey", "fields">>
ValidJourney(doc) == \A p \in Under(Fields, doc) : p = Fields /\ doc[p] # None

\* A journey file that is not a mapping counts as an empty one; a file that
\* is not YAML ends the start, and so do fields that are not a list.
LoadJourney(file, overlay) ==
  LET merges == environ.env # "" /\ overlay # Missing
      doc == IF merges THEN MergeJourney(file.doc, overlay.doc) ELSE file.doc
  IN
  /\ at = "journey"
  /\ CASE file = Missing -> at' = "FileNotFoundError" /\ UNCHANGED app
       [] file = Malformed \/ (file # Missing /\ merges /\ overlay = Malformed) ->
            at' = "YAMLError" /\ UNCHANGED app
       [] OTHER ->
            IF ValidJourney(doc)
              THEN /\ at' = "wire"
                   /\ app' = [app EXCEPT !.questions = (Fields \in DOMAIN doc)]
              ELSE at' = "ValidationError" /\ UNCHANGED app
  /\ UNCHANGED <<files, environ, raw, appConfig>>

\* Services, use cases and the research pipeline with its steps; a prompt
\* that is not configured is a KeyError of the registry.
Wire ==
  /\ at = "wire"
  /\ IF StepNames \subseteq ResearchPrompts(appConfig)
       THEN /\ app' = [app EXCEPT !.search = SearchTool(appConfig), !.steps = StepNames]
            /\ at' = "running"
       ELSE at' = "KeyError" /\ UNCHANGED app
  /\ UNCHANGED <<files, environ, raw, appConfig>>

\* An operator edits a file of the running application.
Edit(default) ==
  /\ at = "running"
  /\ files' = [files EXCEPT !.default = default]
  /\ UNCHANGED <<environ, raw, appConfig, app, at>>

StartNext ==
  \/ \E default, overlay \in Files, variable \in Variables, secrets \in BOOLEAN :
       BeginStart(default, overlay, variable, secrets)
  \/ LoadConfig \/ CreateTelemetry \/ CreateStorage \/ CreateLlm
  \/ \E tracked \in BOOLEAN : WrapLlm(tracked)
  \/ \E file, overlay \in JourneyFiles : LoadJourney(file, overlay)
  \/ Wire
  \/ GetProvider \/ Reload
  \/ \E default \in Files : Edit(default)

StartSpec == StartInit /\ [][StartNext]_startupVars

-----------------------------------------------------------------------------
\* What runs is what the files say when it starts, with the environment's
\* values for their placeholders: of each setting the overlay's value, else
\* the default file's, else the model's own.  The overlay counts unless
\* BRIEF_SCOUT_ENV is set to nothing, and nothing starts where it puts a
\* section in the place of a setting or a value in that of a section.  (A
\* placeholder whose variable is not set is a value like any other: Tavily
\* is then built with the text "${KEY}" for a key.)
StartsAsConfigured ==
  [][at # "running" /\ at' = "running" =>
       LET overlay == IF environ.variable # "empty" /\ files.overlay # Missing
                        THEN Interpolate(files.overlay.doc, environ.secrets) ELSE NoSettings
           base == Interpolate(files.default.doc, environ.secrets)
           says(path, default) ==
             IF path \in DOMAIN overlay THEN overlay[path]
             ELSE IF path \in DOMAIN base /\ \A o \in DOMAIN overlay : ~Clash(o, path)
               THEN base[path]
             ELSE default
           provider == says(<<"default_llm_provider">>, "fake")
           id == says(<<"llm_providers", provider, "adapter_id">>, "")
           class == says(<<"llm_providers", provider, "adapter_class">>, "")
           searches == /\ says(<<"search", "provider">>, "fake") = "tavily"
                       /\ says(<<"search", "api_key">>, "") # ""
       IN  /\ app'.telemetry = says(<<"telemetry", "adapter">>, "local_file")
           /\ app'.storage = says(<<"storage_adapter">>, "in_memory")
           /\ app'.llm = (IF id # "" THEN id ELSE IF class # "" THEN class ELSE "fake")
           /\ provider \in Providers(base) \union Providers(overlay)
           /\ app'.cached = (says(<<"llm_cache", "enabled">>, "false") = "true")
           /\ app'.search = (IF searches THEN "tavily" ELSE "fake")
           /\ app'.steps = StepNames
           /\ \A s \in Settings, o \in DOMAIN overlay : Clash(o, s) => o = s
           /\ \A s \in Sections : s \notin DOMAIN overlay]_startupVars

\* The two views of the configuration are of one read: a provider is looked
\* up in the same text that app_config was validated from.
OneConfiguration ==
  appConfig # None => raw = appConfig

=============================================================================
