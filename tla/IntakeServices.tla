---------------------------- MODULE IntakeServices ----------------------------
(***************************************************************************)
(* One turn of the intake interview with the data it works on: the         *)
(* extractor and its retries, the merger with its field types, the differ, *)
(* the completeness checker, the journey's choice of the next field and    *)
(* the fields the reply acknowledges.  BriefPipeline reduces an IntakeData *)
(* to the set of its non-empty fields; here a field has its value, and the *)
(* turns of one session, kept in memory, overlap at the extractor's await. *)
(*                                                                         *)
(* A string field is one of a few strings, a list field a sequence of      *)
(* them, an object field a function from its properties to sequences.      *)
(***************************************************************************)
EXTENDS Lists

CONSTANTS
  JourneyFields,  \* IntakeJourney.fields, see FieldRecord
  Extractions,    \* what the model may extract: a value for each field
  Blanks,         \* the strings that strip() leaves empty, "" among them
  Turns,          \* requests that may be at work on the session together
  MaxRetries,     \* of extract
  MaxTurns        \* bound on the messages of the session

Types == {"string", "list", "object"}       \* those of the default registry
FieldRecord(f) ==
  /\ f.type \in Types
  /\ f.required \in BOOLEAN /\ f.ask \in BOOLEAN
  /\ f.acknowledged \in BOOLEAN             \* it has an acknowledgement_template
  /\ f.type = "object" => f.properties # {} \* all of them lists, as in journey.yaml

HasType(f, value) ==
  /\ f.type = "list" => IsList(value)
  /\ f.type = "object" =>
       DOMAIN value = f.properties /\ \A p \in f.properties : IsList(value[p])

\* A field is an attribute of IntakeData and is listed once.
ASSUME FieldsAssumption ==
  /\ IsList(JourneyFields)
  /\ \A i \in DOMAIN JourneyFields : FieldRecord(JourneyFields[i])
  /\ \A i, j \in DOMAIN JourneyFields : JourneyFields[i].name = JourneyFields[j].name => i = j
  /\ "" \in Blanks
  /\ MaxRetries \in Nat /\ MaxTurns \in Nat

\* An extraction is validated against IntakeData.
ASSUME ExtractionsAssumption ==
  \A found \in Extractions : \A f \in ToSet(JourneyFields) :
    f.name \in DOMAIN found /\ HasType(f, found[f.name])

VARIABLES
  data,         \* ChatSession.intake_data
  asked,        \* ChatSession.asked_optional_questions
  messages,     \* the roles of ChatSession.messages
  turn,         \* the local state of each turn
  reply         \* the last answer of each turn

intakeVars == <<data, asked, messages, turn, reply>>

Names(fields) == [i \in DOMAIN fields |-> fields[i].name]
Field(name) == CHOOSE f \in ToSet(JourneyFields) : f.name = name

RequiredOnes == Those(JourneyFields, {f \in ToSet(JourneyFields) : f.required})
OptionalOnes == Those(JourneyFields, {f \in ToSet(JourneyFields) : ~f.required /\ f.ask})

(***************************************************************************)
(* The journey                                                             *)
(***************************************************************************)
\* JourneyField.is_empty: only a string is stripped first.
IsEmpty(f, value) ==
  CASE f.type = "list"   -> value = <<>>
    [] f.type = "object" -> \A p \in f.properties : value[p] = <<>>
    [] OTHER             -> value \in Blanks

EmptyOnes(fields, values) ==
  Those(fields, {f \in ToSet(fields) : IsEmpty(f, values[f.name])})

\* next_field, as the sequence of what is left to ask.
LeftToAsk(values, before) ==
  EmptyOnes(RequiredOnes, values)
    \o EmptyOnes(Those(OptionalOnes,
                       {f \in ToSet(OptionalOnes) : f.name \notin ToSet(before)}), values)

\* CompletenessChecker.check: the confidence is filled / total.
Check(values) ==
  LET missing == Names(EmptyOnes(RequiredOnes, values))
      total == IF RequiredOnes = <<>> THEN 1 ELSE Len(RequiredOnes)
  IN  [missing |-> missing, complete |-> missing = <<>>,
       filled |-> total - Len(missing), total |-> total]

(***************************************************************************)
(* The merger and its field types                                          *)
(***************************************************************************)
MergeString(existing, extracted) ==
  IF existing \notin Blanks THEN existing
  ELSE IF extracted \notin Blanks THEN extracted ELSE ""

\* An empty item and one the list already has are left out; a blank item
\* is not empty.  Mutant: the extracted items replace those there were.
Collected(existing, extracted) ==
  LET merged[i \in 0 .. Len(extracted)] ==
        IF i = 0 THEN existing
        ELSE IF extracted[i] # "" /\ extracted[i] \notin ToSet(merged[i - 1])
          THEN Append(merged[i - 1], extracted[i]) ELSE merged[i - 1]
  IN  merged[Len(extracted)]

MergeListReplacing(existing, extracted) ==
  IF extracted = <<>> THEN existing ELSE Collected(<<>>, extracted)
MergeList(existing, extracted) == Collected(existing, extracted)

\* Mutant: the registry's own handler for objects, a placeholder, is used.
MergeObjectPlaceholder(f, existing, extracted) == existing
MergeObject(f, existing, extracted) ==
  [p \in f.properties |-> MergeList(existing[p], extracted[p])]

MergeField(f, existing, extracted) ==
  CASE f.type = "object" -> MergeObject(f, existing, extracted)
    [] f.type = "list"   -> MergeList(existing, extracted)
    [] OTHER             -> MergeString(existing, extracted)

MergeData(existing, extracted) ==
  [name \in DOMAIN existing |-> MergeField(Field(name), existing[name], extracted[name])]

\* IntakeDataDiffer.newly_filled_fields
NewlyFilled(previous, current) ==
  Those(JourneyFields, {f \in ToSet(JourneyFields) :
                          IsEmpty(f, previous[f.name]) /\ ~IsEmpty(f, current[f.name])})

(***************************************************************************)
(* JourneyRenderer.render_question: the fields the question acknowledges.  *)
(* An empty list of newly filled fields is taken for one that was not      *)
(* given: the last field that has an answer and something to say is        *)
(* acknowledged again.                                                     *)
(***************************************************************************)
\* Mutant: the field that is asked for is not left out.
AcknowledgedAll(question, values, news) ==
  LET sayable == Those(JourneyFields, {f \in ToSet(JourneyFields) : f.acknowledged})
  IN  IF news # <<>> THEN Names(Those(sayable, ToSet(news)))
        ELSE IF sayable = <<>> THEN <<>> ELSE <<Last(sayable).name>>
Acknowledged(question, values, news) ==
  LET sayable == Those(JourneyFields, {f \in ToSet(JourneyFields) :
                   f # question /\ f.acknowledged /\ ~IsEmpty(f, values[f.name])})
  IN  IF news # <<>> THEN Names(Those(sayable, ToSet(news)))
        ELSE IF sayable = <<>> THEN <<>> ELSE <<Last(sayable).name>>

(***************************************************************************)
(* A turn                                                                  *)
(***************************************************************************)
EmptyValue(f) ==
  CASE f.type = "list" -> <<>>
    [] f.type = "object" -> [p \in f.properties |-> <<>>]
    [] OTHER -> ""
NoData == [name \in ToSet(Names(JourneyFields)) |-> EmptyValue(Field(name))]

Resting == [pc |-> "idle", own |-> 0, previous |-> NoData, attempt |-> 0, demo |-> 0]
NoReply == [is |-> "none"]

IntakeInit ==
  /\ data = NoData
  /\ asked = <<>>
  /\ messages = <<>>
  /\ turn = [t \in Turns |-> Resting]
  /\ reply = [t \in Turns |-> NoReply]

UserTurns(roles) == Len(Those(roles, {"user"}))

\* The message is appended, the data is kept for the differ, and the demo
\* turn is counted, all before the first await.
Receive(t) ==
  /\ turn[t].pc = "idle" /\ UserTurns(messages) < MaxTurns
  /\ messages' = Append(messages, "user")
  /\ turn' = [turn EXCEPT ![t] =
       [pc |-> "extracting", own |-> Len(messages'), previous |-> data,
        attempt |-> 0, demo |-> UserTurns(messages')]]
  /\ reply' = [reply EXCEPT ![t] = NoReply]
  /\ UNCHANGED <<data, asked>>

\* The extraction has come back; merge, differ, checker, question and save.
ExtractionReturns(t, found) ==
  LET merged == MergeData(data, found)
      news == NewlyFilled(turn[t].previous, merged)
      left == LeftToAsk(merged, asked)
      result == Check(merged)
  IN
  /\ turn[t].pc = "extracting"
  /\ data' = merged
  /\ IF left # <<>>
       THEN /\ asked' = IF Head(left).required \/ Contains(asked, Head(left).name)
                          THEN asked ELSE Append(asked, Head(left).name)
            /\ reply' = [reply EXCEPT ![t] =
                 [is |-> "question", field |-> Head(left).name, check |-> result,
                  acknowledged |-> Acknowledged(Head(left), merged, news)]]
       ELSE /\ reply' = [reply EXCEPT ![t] = [is |-> "researching", check |-> result]]
            /\ UNCHANGED asked
  /\ messages' = Append(messages, "assistant")
  /\ turn' = [turn EXCEPT ![t] = Resting]

\* A BriefScoutError, or one error too many: nothing is saved, and the
\* answer does not enter the conversation.
GiveUp(t) ==
  /\ reply' = [reply EXCEPT ![t] = [is |-> "rephrase"]]
  /\ turn' = [turn EXCEPT ![t] = Resting]

ExtractionFails(t) ==
  /\ turn[t].pc = "extracting"
  /\ GiveUp(t)
  /\ UNCHANGED <<data, asked, messages>>

\* Any other error: the prompt is built again, over the conversation as it
\* is now and with a note, and sent with the same configuration.
\* Mutants: the last attempt is followed by the first; the demo turn is
\* counted anew.
AttemptFailsAnew(t) ==
  /\ turn[t].pc = "extracting"
  /\ turn' = [turn EXCEPT ![t].attempt = (@ + 1) % (MaxRetries + 1)]
  /\ UNCHANGED <<data, asked, messages, reply>>
AttemptFailsCounting(t) ==
  /\ turn[t].pc = "extracting"
  /\ IF turn[t].attempt < MaxRetries
       THEN /\ turn' = [turn EXCEPT ![t].attempt = @ + 1,
                                    ![t].demo = UserTurns(messages)]
            /\ UNCHANGED reply
       ELSE GiveUp(t)
  /\ UNCHANGED <<data, asked, messages>>
AttemptFails(t) ==
  /\ turn[t].pc = "extracting"
  /\ IF turn[t].attempt < MaxRetries
       THEN turn' = [turn EXCEPT ![t].attempt = @ + 1] /\ UNCHANGED reply
       ELSE GiveUp(t)
  /\ UNCHANGED <<data, asked, messages>>

ExtractionEnds(t) ==
  \/ AttemptFails(t)
  \/ ExtractionFails(t)
  \/ \E found \in Extractions : ExtractionReturns(t, found)

IntakeNext == \E t \in Turns : Receive(t) \/ ExtractionEnds(t)

\* A call of the model comes back (LlmCalls, LlmCache).
IntakeFairness == \A t \in Turns : WF_intakeVars(ExtractionEnds(t))

IntakeSpec == IntakeInit /\ [][IntakeNext]_intakeVars /\ IntakeFairness

-----------------------------------------------------------------------------
\* However turns overlap, an answer is never lost or changed: a string keeps
\* its first populated value, a list and each property only grow at the end
\* and have no item twice.
Grows(old, new) ==
  /\ IsPrefix(old, new)
  /\ \A i, j \in DOMAIN new : new[i] = new[j] => i = j
AnswersKept ==
  [][\A f \in ToSet(JourneyFields) :
       LET old == data[f.name]  new == data'[f.name] IN
       CASE f.type = "list"   -> Grows(old, new)
         [] f.type = "object" -> \A p \in f.properties : Grows(old[p], new[p])
         [] OTHER             -> old \notin Blanks => new = old]_intakeVars

\* The sets of fields that the rest of the project works with are right
\* about the data: emptiness, merging and the choice of the question amount
\* to the union with the fields in which something was found.
Found(values) ==
  {f.name : f \in {g \in ToSet(JourneyFields) :
     CASE g.type = "list"   -> ToSet(values[g.name]) \ {""} # {}
       [] g.type = "object" -> \E p \in g.properties : ToSet(values[g.name][p]) \ {""} # {}
       [] OTHER             -> values[g.name] \notin Blanks}}
Sets == INSTANCE Interview WITH
          RequiredFields <- Names(RequiredOnes),
          OptionalFields <- Names(OptionalOnes),
          FallbackFields <- {},
          Unasked <- {f.name : f \in {g \in ToSet(JourneyFields) : ~g.required /\ ~g.ask}},
          filled <- {f.name : f \in {g \in ToSet(JourneyFields) : ~IsEmpty(g, data[g.name])}},
          asked <- ToSet(asked)
ImplementsInterview ==
  /\ Sets!Spec
  /\ [][\A t \in Turns, x \in Extractions :
         ExtractionReturns(t, x) => Sets!Turn(Found(x))]_intakeVars

\* A question never acknowledges the field it asks for, nor one without an
\* answer; it is a required one exactly when the checker misses a field, and
\* research starts only when all required ones are there.  Whether what is
\* acknowledged is news is another matter: see AcknowledgesNews.
RepliesFit ==
  \A t \in Turns :
    /\ reply[t].is = "question" =>
         /\ ~Contains(reply[t].acknowledged, reply[t].field)
         /\ Field(reply[t].field).required <=> ~reply[t].check.complete
         /\ \A i \in DOMAIN reply[t].acknowledged :
              ~IsEmpty(Field(reply[t].acknowledged[i]), data[reply[t].acknowledged[i]])
    /\ reply[t].is = "researching" =>
         reply[t].check.complete /\ reply[t].check.filled = reply[t].check.total

\* JourneyAcknowledgementService: a question acknowledges "only those [fields]
\* newly provided in the latest turn".  The code does not keep to it: a turn
\* that provides nothing acknowledges an old field, and one that was overtaken
\* what other turns were told since it began.
AcknowledgesNews ==
  [][\A t \in Turns :
       (turn[t].pc = "extracting" /\ reply'[t].is = "question") =>
         \A name \in ToSet(reply'[t].acknowledged) :
           IsEmpty(Field(name), data[name])]_intakeVars

\* The demo turn a message is extracted with is its own number among the
\* user's messages, in a retry too and whatever has been sent meanwhile.
OwnDemoTurn ==
  \A t \in Turns : turn[t].pc = "extracting" =>
    turn[t].demo = UserTurns(SubSeq(messages, 1, turn[t].own))

\* Every message is answered.
EveryMessageAnswered ==
  \A t \in Turns : (turn[t].pc = "extracting") ~> (turn[t].pc = "idle")

=============================================================================
