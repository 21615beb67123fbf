SPECIFICATION Spec
CONSTANTS
  c1 = c1
  c2 = c2
  t1 = t1
  t2 = t2
  u1 = u1
  u2 = u2
  f1 = f1
  f2 = f2
  None = None
  Callers <- CacheCallers
  Requests <- AllRequests
  Threads <- CacheThreads
  MaxEntries = 2
  TTL = 1
  MaxTime = 2
  Files <- ConfigFiles
  JourneyFiles <- JourneyDocuments
  Placeholders = {"${KEY}"}
  StepNames = {"hooks"}
  JourneyFields <- FieldList
  Extractions <- ExtractionSet
  Blanks <- BlankStrings
  Turns <- Interviewers
  MaxRetries = 1
  MaxTurns = 3
  Directory <- FixtureFiles
  DemoFiles <- DemoJourneys
  DemoNames <- DemoNameList
  DefaultName <- DefaultFixture
  Prompts <- PromptSet
  Overrides <- OverrideSet
  Schemas <- SchemaSet
  Steps <- StepSet
  Runs = {1, 2}
  Templates <- TemplateOf
  Intake <- Interviews
  Words <- WordsOf
  Keywords <- KeywordMap
  LlmCategories = {"food", "odd"}
  Contexts = {"r", "s"}
  Flushers <- FlushCallers
  Levels <- LevelOrder
  MinLevel = "DEBUG"
  MaxRecorded = 3
  MaxSpans = 1
PROPERTIES
  AcknowledgesNews
CHECK_DEADLOCK FALSE
