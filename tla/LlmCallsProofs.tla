--------------------------- MODULE LlmCallsProofs ---------------------------
(***************************************************************************)
(* Theorems about LlmCalls, for any callers, prompts, retry limit,         *)
(* threshold and recovery time.                                            *)
(***************************************************************************)
EXTENDS LlmCalls, ListsProofs

(***************************************************************************)
(* What the breaker's fields say of each other, and of the failures there  *)
(* really were.                                                            *)
(***************************************************************************)
BreakerInv ==
  /\ failures = streak
  /\ breaker = "closed" => failures < Threshold
  /\ breaker # "closed" => failures = Threshold /\ sinceFailure # None
  /\ breaker = "half_open" => sinceFailure = Recovery

\* A call holds its request only while the provider has it, has no outcome
\* while it is under way, backs off only before an attempt it may make, and
\* is counted by its own usage or an estimate.
GoodRecord(c, record) ==
  /\ record.pc # "sent" => record.request = None
  /\ record.pc # "ready" => record.outcome = None
  /\ record.pc = "backing off" => record.attempt < MaxRetries
  /\ record.counted \in {None, Estimate, c}

CallsInv ==
  /\ call \in [Calls -> CallRecords]
  /\ \A c \in Calls : GoodRecord(c, call[c])

SharedInv ==
  /\ provider \in Providers
  /\ breaker \in {"closed", "open", "half_open"}
  /\ failures \in 0..Threshold /\ streak \in 0..Threshold
  /\ sinceFailure \in (0..Recovery) \union {None}
  /\ lastSystem \in SystemParams \union {None}
  /\ lastUsage \in Calls \union {None, Zero}

LlmInv == SharedInv /\ CallsInv /\ BreakerInv

LEMMA LlmInvImplies ==
  ASSUME LlmInv
  PROVE  CallsTypeOK /\ UsageIsOwn
<1>1. CallsTypeOK
  BY DEF LlmInv, SharedInv, CallsInv, GoodRecord, CallsTypeOK
<1>2. UsageIsOwn
  BY DEF LlmInv, CallsInv, GoodRecord, UsageIsOwn
<1> QED
  BY <1>1, <1>2

-----------------------------------------------------------------------------
(* Types *)

\* The request a call sends is made of its own prompt and of a system text
\* that some call has left.
LEMMA RequestType ==
  ASSUME NEW c \in Calls, NEW structured \in BOOLEAN,
         lastSystem \in SystemParams \union {None}, provider \in Providers
  PROVE  Request(PromptOf(c, structured)) \in WireRequests
<1> DEFINE p == PromptOf(c, structured)
<1>1. p \in AllPrompts
  BY DEF AllPrompts
<1> HIDE DEF p
<1>2. ClaudeRequest(p) \in WireRequests
  BY <1>1 DEF ClaudeRequest, WireRequests
<1>3. OpenAIRequest(p) \in WireRequests
  BY <1>1 DEF OpenAIRequest, WireRequests
<1>4. KimiRequest(p) \in WireRequests
  BY <1>1 DEF KimiRequest, WireRequests
<1>5. Request(p) \in WireRequests
  BY <1>2, <1>3, <1>4, LlmAssumption DEF Request
<1> QED
  BY <1>5 DEF p

\* What a call has become when it is not under way.
LEMMA IdleType ==
  /\ IdleCall \in CallRecords
  /\ IdleCall.pc = "ready" /\ IdleCall.request = None /\ IdleCall.counted = None
  /\ IdleCall.outcome = None
BY LlmAssumption DEF IdleCall, CallRecords, Outcomes

LEMMA EndedType ==
  ASSUME CallsInv, NEW c \in Calls, NEW outcome \in Outcomes,
         NEW counted \in Calls \union {None, Estimate}
  PROVE  /\ Ended(c, outcome, counted) \in CallRecords
         /\ Ended(c, outcome, counted).pc = "ready"
         /\ Ended(c, outcome, counted).request = None
         /\ Ended(c, outcome, counted).outcome = outcome
         /\ Ended(c, outcome, counted).counted = counted
<1>1. call[c].structured \in BOOLEAN
  BY DEF CallsInv, CallRecords
<1> QED
  BY <1>1, IdleType DEF Ended, IdleCall, CallRecords

\* Whatever the provider answers has one of the outcomes.
LEMMA OutcomeType ==
  ASSUME NEW structured \in BOOLEAN, NEW answer \in Answers, provider \in Providers
  PROVE  Outcome(structured, answer) \in Outcomes
BY LlmAssumption DEF Outcome, CompleteOutcome, StructuredOutcome, OpenAIStructuredOutcome,
  KimiStructuredOutcome, Parsed, ClaudeContent, Answers, Outcomes

LEMMA UpToThresholdType ==
  ASSUME NEW n \in 0..Threshold
  PROVE  /\ UpToThreshold(n) \in 0..Threshold
         /\ UpToThreshold(n) < Threshold => n < Threshold
BY LlmAssumption DEF UpToThreshold

\* An action of one caller changes the record of no other.
LEMMA CallerMoves ==
  ASSUME CallsInv, NEW c \in Calls,
         call' = [call EXCEPT ![c] = call'[c]],
         call'[c] \in CallRecords, GoodRecord(c, call'[c])
  PROVE  CallsInv'
<1>1. \A d \in Calls : call'[d] = IF d = c THEN call'[c] ELSE call[d]
  BY DEF CallsInv
<1>2. call' \in [Calls -> CallRecords]
  BY DEF CallsInv
<1>3. \A d \in Calls : GoodRecord(d, call'[d])
  BY <1>1 DEF CallsInv
<1> QED
  BY <1>2, <1>3 DEF CallsInv

-----------------------------------------------------------------------------
(* The breaker *)

\* Every change of the breaker is a success, a failure, a reading of its
\* state or the passing of time.
LEMMA SuccessInv ==
  ASSUME RecordSuccess, streak' = 0
  PROVE  /\ breaker' \in {"closed", "open", "half_open"}
         /\ failures' \in 0..Threshold /\ streak' \in 0..Threshold
         /\ sinceFailure' \in (0..Recovery) \union {None}
         /\ BreakerInv'
BY LlmAssumption DEF RecordSuccess, BreakerInv

LEMMA FailureInv ==
  ASSUME LlmInv, RecordFailure, streak' = UpToThreshold(streak)
  PROVE  /\ breaker' \in {"closed", "open", "half_open"}
         /\ failures' \in 0..Threshold /\ streak' \in 0..Threshold
         /\ sinceFailure' \in (0..Recovery) \union {None}
         /\ BreakerInv'
<1>1. failures' \in 0..Threshold /\ failures' = streak' /\ sinceFailure' = 0
  BY UpToThresholdType DEF LlmInv, SharedInv, BreakerInv, RecordFailure
<1>2. CASE failures' >= Threshold
  BY <1>1, <1>2, LlmAssumption DEF RecordFailure, BreakerInv
<1>3. CASE ~ (failures' >= Threshold)
  <2>1. failures < Threshold
    <3>1. failures \in 0..Threshold /\ failures' = UpToThreshold(failures)
      BY DEF LlmInv, SharedInv, RecordFailure
    <3>2. failures' < Threshold
      BY <1>1, <1>3, LlmAssumption
    <3> QED
      BY <3>1, <3>2, UpToThresholdType
  <2>2. breaker' = "closed"
    BY <1>3, <2>1, LlmAssumption DEF LlmInv, SharedInv, BreakerInv, RecordFailure
  <2> QED
    BY <1>1, <1>3, <2>2, LlmAssumption DEF BreakerInv
<1> QED
  BY <1>2, <1>3

\* Reading keeps what is known of the breaker, and tells whether the
\* provider is down.
LEMMA ReadingInv ==
  ASSUME LlmInv
  PROVE  /\ State \in {"closed", "open", "half_open"}
         /\ State = "open" <=> ProviderIsDown
         /\ breaker' = State /\ UNCHANGED <<failures, sinceFailure, streak>>
              => BreakerInv'
<1> USE LlmAssumption DEF LlmInv, SharedInv, BreakerInv, State
<1>1. State \in {"closed", "open", "half_open"}
  OBVIOUS
<1>2. State = "open" <=> ProviderIsDown
  BY DEF ProviderIsDown
<1>3. breaker' = State /\ UNCHANGED <<failures, sinceFailure, streak>> => BreakerInv'
  OBVIOUS
<1> QED
  BY <1>1, <1>2, <1>3

-----------------------------------------------------------------------------
(* The actions *)

\* The breaker's answer to an attempt of c, which may be its first.
LEMMA AttemptInv ==
  ASSUME LlmInv, NEW c \in Calls, NEW structured \in BOOLEAN,
         NEW attempt \in 0..MaxRetries, Attempt(c, structured, attempt),
         UNCHANGED <<provider, failures, sinceFailure, lastUsage, streak>>,
         lastSystem' \in SystemParams \union {None}
  PROVE  LlmInv'
<1>1. BreakerInv' /\ breaker' \in {"closed", "open", "half_open"}
  BY ReadingInv DEF Attempt
<1>2. SharedInv'
  BY <1>1 DEF LlmInv, SharedInv
<1>3. CallsInv'
  <2> DEFINE refused == [IdleCall EXCEPT !.structured = structured, !.outcome = Refusal(structured)]
             going == [IdleCall EXCEPT !.structured = structured, !.attempt = attempt,
                                   !.pc = "scheduled"]
  <2>1. Refusal(structured) \in Outcomes
    BY DEF Refusal, Outcomes
  <2>2. refused \in CallRecords /\ GoodRecord(c, refused)
    BY <2>1, IdleType DEF IdleCall, CallRecords, GoodRecord, Waiting
  <2>3. going \in CallRecords /\ GoodRecord(c, going)
    BY IdleType DEF IdleCall, CallRecords, GoodRecord, Waiting
  <2>4. /\ call' = [call EXCEPT ![c] = call'[c]]
        /\ call'[c] \in {refused, going}
    BY DEF Attempt, LlmInv, CallsInv
  <2> HIDE DEF refused, going
  <2> QED
    BY <2>2, <2>3, <2>4, CallerMoves DEF LlmInv
<1> QED
  BY <1>1, <1>2, <1>3 DEF LlmInv

LEMMA InitInv == CallsInit => LlmInv
<1> SUFFICES ASSUME CallsInit PROVE LlmInv
  OBVIOUS
<1>1. SharedInv
  BY LlmAssumption DEF CallsInit, SharedInv
<1>2. CallsInv
  BY IdleType DEF CallsInit, CallsInv, GoodRecord, IdleCall
<1>3. BreakerInv
  BY LlmAssumption DEF CallsInit, BreakerInv
<1> QED
  BY <1>1, <1>2, <1>3 DEF LlmInv

LEMMA BeginInv ==
  ASSUME LlmInv, NEW c \in Calls, NEW structured \in BOOLEAN, Begin(c, structured)
  PROVE  LlmInv'
<1>1. lastSystem' \in SystemParams \union {None}
  <2>1. PromptOf(c, structured) \in AllPrompts
    BY DEF AllPrompts
  <2>2. BuildSystemParam(PromptOf(c, structured)) \in SystemParams
    BY <2>1 DEF SystemParams
  <2> QED
    BY <2>2 DEF Begin, LlmInv, SharedInv
<1>2. 0 \in 0..MaxRetries
  BY LlmAssumption
<1> QED
  BY <1>1, <1>2, AttemptInv DEF Begin

LEMMA RetryKeepsInv ==
  ASSUME LlmInv, NEW c \in Calls, Retry(c)
  PROVE  LlmInv'
<1>1. call[c].structured \in BOOLEAN /\ call[c].attempt \in 0..MaxRetries
  BY DEF LlmInv, CallsInv, CallRecords
<1>2. call[c].attempt < MaxRetries
  BY DEF Retry, LlmInv, CallsInv, GoodRecord
<1>3. call[c].attempt + 1 \in 0..MaxRetries
  BY <1>1, <1>2, LlmAssumption
<1>4. lastSystem' \in SystemParams \union {None}
  BY DEF Retry, LlmInv, SharedInv
<1> QED
  BY <1>1, <1>3, <1>4, AttemptInv DEF Retry

\* An action that touches nothing but the caller's own record.
LEMMA OnlyCallMoves ==
  ASSUME LlmInv, CallsInv',
         UNCHANGED <<provider, breaker, failures, sinceFailure, lastSystem,
                     lastUsage, streak>>
  PROVE  LlmInv'
BY DEF LlmInv, SharedInv, BreakerInv

LEMMA SendInv ==
  ASSUME LlmInv, NEW c \in Calls, Send(c)
  PROVE  LlmInv'
<1>1. call[c] \in CallRecords /\ GoodRecord(c, call[c]) /\ call[c].pc = "scheduled"
  BY DEF Send, LlmInv, CallsInv
<1>2. Request(PromptOf(c, call[c].structured)) \in WireRequests
  BY <1>1, RequestType DEF LlmInv, SharedInv, CallRecords
<1>3. /\ call' = [call EXCEPT ![c] = call'[c]]
      /\ call'[c] = [call[c] EXCEPT !.pc = "sent",
                        !.request = Request(PromptOf(c, call[c].structured))]
  BY DEF Send, LlmInv, CallsInv
<1>4. call'[c] \in CallRecords /\ GoodRecord(c, call'[c])
  BY <1>1, <1>2, <1>3 DEF CallRecords, GoodRecord, Waiting
<1>5. CallsInv'
  BY <1>3, <1>4, CallerMoves DEF LlmInv
<1> QED
  BY <1>5, OnlyCallMoves DEF Send

\* The record of a call that has ended.
LEMMA EndedGood ==
  ASSUME LlmInv, NEW c \in Calls, NEW outcome \in Outcomes,
         NEW counted \in {None, Estimate, c},
         call' = [call EXCEPT ![c] = Ended(c, outcome, counted)]
  PROVE  CallsInv'
<1>1. counted \in Calls \union {None, Estimate}
  OBVIOUS
<1>2. Ended(c, outcome, counted) \in CallRecords /\ GoodRecord(c, Ended(c, outcome, counted))
  <2>1. /\ Ended(c, outcome, counted) \in CallRecords
        /\ Ended(c, outcome, counted).pc = "ready"
        /\ Ended(c, outcome, counted).request = None
        /\ Ended(c, outcome, counted).counted = counted
    BY <1>1, EndedType DEF LlmInv
  <2> QED
    BY <2>1 DEF GoodRecord
<1>3. /\ call' = [call EXCEPT ![c] = call'[c]]
      /\ call'[c] = Ended(c, outcome, counted)
  BY DEF LlmInv, CallsInv
<1> QED
  BY <1>2, <1>3, CallerMoves DEF LlmInv

LEMMA CancelInv ==
  ASSUME LlmInv, NEW c \in Calls, Cancel(c)
  PROVE  LlmInv'
<1>1. CallsInv'
  BY EndedGood DEF Cancel, Outcomes
<1> QED
  BY <1>1, OnlyCallMoves DEF Cancel

LEMMA AnswerInv ==
  ASSUME LlmInv, NEW c \in Calls, NEW answer \in Answers, NEW usage \in {c, Zero},
         Answer(c, answer, usage)
  PROVE  LlmInv'
<1> DEFINE structured == call[c].structured
           outcome == Outcome(structured, answer)
           counted == IF outcome = "returned" THEN ResolveUsage(lastUsage') ELSE None
<1>1. structured \in BOOLEAN /\ outcome \in Outcomes
  BY OutcomeType DEF LlmInv, SharedInv, CallsInv, CallRecords
<1>2. counted \in {None, Estimate, c}
  <2>1. CASE KeepsUsage(structured, answer)
    BY <2>1 DEF Answer, ResolveUsage
  <2>2. CASE ~ KeepsUsage(structured, answer)
    <3>1. outcome = "other error"
      BY <2>2, LlmAssumption DEF KeepsUsage, Outcome, StructuredOutcome, LlmInv, SharedInv,
        OpenAIStructuredOutcome, KimiStructuredOutcome
    <3> QED
      BY <3>1
  <2> QED
    BY <2>1, <2>2
<1>3. call' = [call EXCEPT ![c] = Ended(c, outcome, counted)]
  BY DEF Answer
<1> HIDE DEF structured, outcome, counted
<1>4. CallsInv'
  BY <1>1, <1>2, <1>3, EndedGood
<1>5. SharedInv' /\ BreakerInv'
  BY SuccessInv DEF Answer, LlmInv, SharedInv
<1> QED
  BY <1>4, <1>5 DEF LlmInv

LEMMA FailInv ==
  ASSUME LlmInv, NEW c \in Calls, NEW error \in Errors, Fail(c, error)
  PROVE  LlmInv'
<1>1. call[c] \in CallRecords /\ GoodRecord(c, call[c]) /\ call[c].pc = "sent"
  BY DEF Fail, LlmInv, CallsInv
<1>2. CallsInv'
  <2>1. CASE IsRetryable(error) /\ call[c].attempt < MaxRetries
    <3>1. /\ call' = [call EXCEPT ![c] = call'[c]]
          /\ call'[c] = [call[c] EXCEPT !.pc = "backing off", !.request = None]
      BY <2>1 DEF Fail, LlmInv, CallsInv
    <3>2. call'[c] \in CallRecords /\ GoodRecord(c, call'[c])
      BY <1>1, <2>1, <3>1 DEF CallRecords, GoodRecord, Waiting
    <3> QED
      BY <3>1, <3>2, CallerMoves DEF LlmInv
  <2>2. CASE ~ (IsRetryable(error) /\ call[c].attempt < MaxRetries)
    BY <2>2, EndedGood DEF Fail, Outcomes
  <2> QED
    BY <2>1, <2>2
<1>3. SharedInv' /\ BreakerInv'
  BY FailureInv DEF Fail, LlmInv, SharedInv
<1> QED
  BY <1>2, <1>3 DEF LlmInv

LEMMA TickInv ==
  ASSUME LlmInv, Tick
  PROVE  LlmInv'
<1>1. CallsInv'
  BY DEF LlmInv, Tick, CallsInv
<1>2. SharedInv' /\ BreakerInv'
  BY LlmAssumption DEF LlmInv, Tick, SharedInv, BreakerInv
<1> QED
  BY <1>1, <1>2 DEF LlmInv

LEMMA StepInv == LlmInv /\ [CallsNext]_callsVars => LlmInv'
<1> SUFFICES ASSUME LlmInv, [CallsNext]_callsVars PROVE LlmInv'
  OBVIOUS
<1>1. ASSUME NEW c \in Calls, NEW structured \in BOOLEAN, Begin(c, structured)
      PROVE  LlmInv'
  BY <1>1, BeginInv
<1>2. ASSUME NEW c \in Calls, Send(c) PROVE LlmInv'
  BY <1>2, SendInv
<1>3. ASSUME NEW c \in Calls, NEW answer \in Answers, NEW usage \in {c, Zero},
             Answer(c, answer, usage)
      PROVE  LlmInv'
  BY <1>3, AnswerInv
<1>4. ASSUME NEW c \in Calls, NEW error \in Errors, Fail(c, error) PROVE LlmInv'
  BY <1>4, FailInv
<1>5. ASSUME NEW c \in Calls, Retry(c) PROVE LlmInv'
  BY <1>5, RetryKeepsInv
<1>6. ASSUME NEW c \in Calls, Cancel(c) PROVE LlmInv'
  BY <1>6, CancelInv
<1>7. CASE Tick
  BY <1>7, TickInv
<1>8. CASE UNCHANGED callsVars
  BY <1>8 DEF callsVars, LlmInv, SharedInv, CallsInv, GoodRecord, BreakerInv
<1> QED
  BY <1>1, <1>2, <1>3, <1>4, <1>5, <1>6, <1>7, <1>8 DEF CallsNext

LEMMA LlmInvHolds == CallsSpec => []LlmInv
BY InitInv, StepInv, PTL DEF CallsSpec

-----------------------------------------------------------------------------
(* WireRequests *)

Texts == [of : Calls, part : {"system", "json", "user", "context"}, item : Nat]
Messages == [role : {"system", "user", "assistant"}, content : Seq(Texts)]

\* A prompt's texts and messages.
LEMMA PromptType ==
  ASSUME NEW c \in Calls, NEW structured \in BOOLEAN
  PROVE  LET p == PromptOf(c, structured) IN
         /\ p.system \in Seq(Texts) /\ p.user \in Seq(Texts)
         /\ p.context \in Seq(Messages)
<1>1. \A part \in {"system", "json", "user", "context"}, i \in Nat : Text(c, part, i) \in Texts
  BY DEF Text, Texts
<1>2. /\ <<Text(c, "system", 0)>> \in Seq(Texts)
      /\ <<Text(c, "user", 0)>> \in Seq(Texts)
      /\ Append(<<Text(c, "system", 0)>>, Text(c, "json", 0)) \in Seq(Texts)
  BY <1>1
<1>3. Prompt(c).context \in Seq(Messages)
  <2>1. Len(Context) \in Nat /\ DOMAIN Context = 1 .. Len(Context)
    BY LlmAssumption, LenProperties
  <2>2. ASSUME NEW i \in 1 .. Len(Context)
        PROVE  Message(Context[i], <<Text(c, "context", i)>>) \in Messages
    <3>1. Context[i] \in {"system", "user", "assistant"}
      BY LlmAssumption, ElementOfSeq
    <3>2. <<Text(c, "context", i)>> \in Seq(Texts)
      BY <1>1, <2>1
    <3> QED
      BY <3>1, <3>2 DEF Message, Messages
  <2>3. Prompt(c).context = [i \in 1 .. Len(Context) |->
                               Message(Context[i], <<Text(c, "context", i)>>)]
    BY <2>1 DEF Prompt
  <2>4. Prompt(c).context \in [1 .. Len(Context) -> Messages]
    BY <2>2, <2>3
  <2> QED
    BY <2>1, <2>4, SeqDef
<1>4. /\ Prompt(c).system = <<Text(c, "system", 0)>>
      /\ Prompt(c).user = <<Text(c, "user", 0)>>
  BY DEF Prompt
<1>5. /\ Inject(Prompt(c), c).system = Append(Prompt(c).system, Text(c, "json", 0))
      /\ Inject(Prompt(c), c).user = Prompt(c).user
      /\ Inject(Prompt(c), c).context = Prompt(c).context
  BY DEF Inject, Prompt
<1> QED
  BY <1>2, <1>3, <1>4, <1>5 DEF PromptOf

\* The system parameter holds the system text and the system items.
LEMMA SystemParamHolds ==
  ASSUME NEW p, p.system \in Seq(Texts), p.context \in Seq(Messages)
  PROVE  /\ ToSet(p.system) \subseteq ToSet(BuildSystemParam(p))
         /\ \A m \in ToSet(p.context) :
              IsSystem(m) => ToSet(m.content) \subseteq ToSet(BuildSystemParam(p))
<1> DEFINE items == SystemItems(p)
           contents == [i \in DOMAIN items |-> items[i].content]
<1>1. items \in Seq(Messages) /\ ToSet(items) = {m \in ToSet(p.context) : IsSystem(m)}
  <2>1. /\ items \in Seq(Messages \intersect {m \in ToSet(p.context) : IsSystem(m)})
        /\ ToSet(items) = ToSet(p.context) \intersect {m \in ToSet(p.context) : IsSystem(m)}
    BY MembersOfThose DEF SystemItems
  <2>2. ToSet(items) \subseteq Messages /\ items \in Seq(ToSet(items))
    BY <2>1, MembersType
  <2>3. items \in Seq(Messages)
    BY <2>2
  <2> QED
    BY <2>1, <2>3
<1> HIDE DEF items
<1>2. Len(items) \in Nat /\ DOMAIN items = 1 .. Len(items) /\ \A i \in DOMAIN items : items[i] \in Messages
  BY <1>1, LenProperties, ElementOfSeq
<1>3. contents \in Seq(Seq(Texts))
  <2>1. contents \in [1 .. Len(items) -> Seq(Texts)]
    BY <1>2 DEF Messages
  <2> QED
    BY <1>2, <2>1, SeqDef
<1>4. \A m \in ToSet(items) : m.content \in ToSet(contents)
  BY DEF ToSet
<1> HIDE DEF contents
<1>5. /\ FlattenSeq(contents) \in Seq(Texts)
      /\ ToSet(FlattenSeq(contents)) = UNION {ToSet(x) : x \in ToSet(contents)}
  BY <1>3, FlattenType, MembersOfFlatten
<1>6. BuildSystemParam(p) = p.system \o FlattenSeq(contents)
  BY DEF BuildSystemParam, items, contents
<1>7. ToSet(BuildSystemParam(p)) = ToSet(p.system) \union ToSet(FlattenSeq(contents))
  BY <1>5, <1>6, MembersOfConcat
<1> QED
  BY <1>1, <1>4, <1>5, <1>7

\* The messages of a request are the user text and the context's items; the
\* system items and the system text are missing from Claude's.
LEMMA MessagesHold ==
  ASSUME NEW p, p.system \in Seq(Texts), p.user \in Seq(Texts), p.context \in Seq(Messages)
  PROVE  /\ ToSet(ClaudeMessages(p)) =
              {m \in ToSet(p.context) : ~IsSystem(m)} \union {Message("user", p.user)}
         /\ ToSet(OpenAIMessages(p)) =
              ToSet(p.context) \union {Message("system", p.system), Message("user", p.user)}
         /\ KimiMessages(p) = OpenAIMessages(p)
<1>1. PICK user, system, ctx :
        user = Message("user", p.user) /\ system = Message("system", p.system) /\ ctx = p.context
  OBVIOUS
<1>2. user \in Messages /\ system \in Messages /\ ctx \in Seq(Messages)
  BY <1>1 DEF Message, Messages
<1>3. /\ OtherItems(p) \in Seq(Messages)
      /\ ToSet(OtherItems(p)) = {m \in ToSet(p.context) : ~IsSystem(m)}
  <2>1. /\ OtherItems(p) \in Seq(Messages \intersect {m \in ToSet(p.context) : ~IsSystem(m)})
        /\ ToSet(OtherItems(p)) = ToSet(p.context) \intersect {m \in ToSet(p.context) : ~IsSystem(m)}
    BY MembersOfThose DEF OtherItems
  <2>2. ToSet(OtherItems(p)) \subseteq Messages /\ OtherItems(p) \in Seq(ToSet(OtherItems(p)))
    BY <2>1, MembersType
  <2>3. OtherItems(p) \in Seq(Messages)
    BY <2>2
  <2> QED
    BY <2>1, <2>3
<1>4. ToSet(ClaudeMessages(p)) = ToSet(OtherItems(p)) \union {user}
  BY <1>1, <1>2, <1>3, MembersOfAppend DEF ClaudeMessages
<1>5. PICK first, last : first = <<system>> /\ last = <<user>>
  OBVIOUS
<1>6. /\ first \in Seq(Messages) /\ last \in Seq(Messages)
      /\ ToSet(last) = {user} /\ ToSet(first) = {system}
  BY <1>2, <1>5, MembersOfOne
<1>7. PICK both : both = first \o ctx
  OBVIOUS
<1>8. both \in Seq(Messages)
  BY <1>2, <1>6, <1>7, ConcatProperties
<1>9. ToSet(first \o ctx) = ToSet(first) \union ToSet(ctx)
  BY <1>2, <1>6, MembersOfConcat
<1>10. ToSet(both \o last) = ToSet(both) \union ToSet(last)
  BY <1>6, <1>8, MembersOfConcat
<1>11. OpenAIMessages(p) = both \o last /\ KimiMessages(p) = OpenAIMessages(p)
  BY <1>1, <1>5, <1>7 DEF OpenAIMessages, KimiMessages
<1> QED
  BY <1>1, <1>3, <1>4, <1>6, <1>7, <1>9, <1>10, <1>11

\* What WholePrompt says of a call.
Whole(c) ==
  LET p == PromptOf(c, call[c].structured)
      messages == ToSet(call[c].request.messages)
  IN  /\ Message("user", p.user) \in messages
      /\ \A m \in ToSet(p.context) :
           m \in messages \/ (provider = "claude" /\ IsSystem(m))
      /\ IF provider = "claude"
           THEN \E d \in Calls, structured \in BOOLEAN :
                  LET q == PromptOf(d, structured)
                      system == ToSet(call[c].request.system)
                  IN  /\ ToSet(q.system) \subseteq system
                      /\ \A m \in ToSet(q.context) :
                           IsSystem(m) => ToSet(m.content) \subseteq system
           ELSE Message("system", p.system) \in messages

\* A system parameter has been stored before any call of Claude is under way.
SystemInv ==
  provider = "claude" => \A c \in Calls : call[c].pc # "ready" => lastSystem \in SystemParams

WholeInv == LlmInv /\ SystemInv /\ \A c \in Calls : call[c].pc = "sent" => Whole(c)

LEMMA SendWhole ==
  ASSUME LlmInv, SystemInv, NEW c \in Calls, Send(c)
  PROVE  Whole(c)'
<1> DEFINE p == PromptOf(c, call[c].structured)
<1>1. /\ call[c].structured \in BOOLEAN /\ call'[c].structured = call[c].structured
      /\ call'[c].request = Request(p) /\ provider' = provider
      /\ call[c].pc = "scheduled" /\ provider \in {"claude", "openai", "kimi"}
  BY LlmAssumption DEF Send, LlmInv, CallsInv, CallRecords, SharedInv
<1>2. p.system \in Seq(Texts) /\ p.user \in Seq(Texts) /\ p.context \in Seq(Messages)
  BY <1>1, PromptType
<1> HIDE DEF p
<1>3. CASE provider = "claude"
  <2>1. PICK d \in Calls, structured \in BOOLEAN :
          lastSystem = BuildSystemParam(PromptOf(d, structured))
    BY <1>1, <1>3 DEF SystemInv, SystemParams, AllPrompts
  <2>2. PICK q : q = PromptOf(d, structured)
    OBVIOUS
  <2>3. q.system \in Seq(Texts) /\ q.context \in Seq(Messages)
    BY <2>2, PromptType
  <2>4. /\ ToSet(q.system) \subseteq ToSet(lastSystem)
        /\ \A m \in ToSet(q.context) : IsSystem(m) => ToSet(m.content) \subseteq ToSet(lastSystem)
    BY <2>1, <2>2, <2>3, SystemParamHolds
  <2>5. call'[c].request.system = lastSystem /\ call'[c].request.messages = ClaudeMessages(p)
    BY <1>1, <1>3 DEF Request, ClaudeRequest
  <2>6. ToSet(call'[c].request.messages) =
          {m \in ToSet(p.context) : ~IsSystem(m)} \union {Message("user", p.user)}
    BY <1>2, <2>5, MessagesHold
  <2> QED
    BY <1>1, <1>3, <2>2, <2>4, <2>5, <2>6 DEF Whole, p
<1>4. CASE provider # "claude"
  <2>1. call'[c].request.messages = OpenAIMessages(p)
    BY <1>1, <1>2, <1>4, MessagesHold DEF Request, OpenAIRequest, KimiRequest
  <2>2. ToSet(call'[c].request.messages) =
          ToSet(p.context) \union {Message("system", p.system), Message("user", p.user)}
    BY <1>2, <2>1, MessagesHold
  <2> QED
    BY <1>1, <1>4, <2>2 DEF Whole, p
<1> QED
  BY <1>3, <1>4

\* What else happens leaves the calls that have sent their request alone.
LEMMA KeepsWhole ==
  ASSUME WholeInv, LlmInv', SystemInv', provider' = provider,
         \A d \in Calls : call'[d].pc = "sent" => call'[d] = call[d]
  PROVE  WholeInv'
<1>1. ASSUME NEW d \in Calls, call'[d].pc = "sent" PROVE Whole(d)'
  <2>1. Whole(d) /\ call'[d] = call[d]
    BY <1>1 DEF WholeInv
  <2> QED
    BY <2>1 DEF Whole
<1> QED
  BY <1>1 DEF WholeInv

LEMMA GoesOnWhole ==
  ASSUME WholeInv, LlmInv', UNCHANGED <<provider, lastSystem>>,
         \A d \in Calls : call'[d].pc # "ready" => call[d].pc # "ready",
         \A d \in Calls : call'[d].pc = "sent" => call'[d] = call[d]
  PROVE  WholeInv'
<1>1. SystemInv'
  BY DEF WholeInv, SystemInv, SystemParams, AllPrompts
<1> QED
  BY <1>1, KeepsWhole

LEMMA WholeStep == WholeInv /\ [CallsNext]_callsVars => WholeInv'
<1> SUFFICES ASSUME WholeInv, [CallsNext]_callsVars PROVE WholeInv'
  OBVIOUS
<1>1. LlmInv /\ LlmInv'
  BY StepInv DEF WholeInv
<1>2. /\ DOMAIN call = Calls /\ DOMAIN call' = Calls
      /\ \A c \in Calls : call[c] \in CallRecords
  BY <1>1 DEF LlmInv, CallsInv
<1>3. ASSUME NEW c \in Calls, NEW structured \in BOOLEAN, Begin(c, structured)
      PROVE  WholeInv'
  <2>1. /\ provider' = provider
        /\ provider = "claude" => lastSystem' = BuildSystemParam(PromptOf(c, structured))
        /\ provider # "claude" => lastSystem' = lastSystem
    BY <1>3 DEF Begin
  <2>2. provider = "claude" => lastSystem' \in SystemParams
    BY <2>1 DEF SystemParams, AllPrompts
  <2>3. SystemInv'
    BY <2>1, <2>2 DEF SystemInv, SystemParams, AllPrompts
  <2>4. \A d \in Calls : call'[d].pc = "sent" => call'[d] = call[d]
    BY <1>2, <1>3 DEF Begin, Attempt, IdleCall
  <2> QED
    BY <1>1, <2>1, <2>3, <2>4, KeepsWhole
<1>4. ASSUME NEW c \in Calls, Send(c) PROVE WholeInv'
  <2>1. Whole(c)'
    BY <1>4, SendWhole DEF WholeInv
  <2>2. /\ UNCHANGED <<provider, lastSystem>> /\ call[c].pc = "scheduled"
        /\ \A d \in Calls : d # c => call'[d] = call[d]
    BY <1>2, <1>4 DEF Send
  <2>3. SystemInv'
    BY <2>2 DEF WholeInv, SystemInv, SystemParams, AllPrompts
  <2>4. ASSUME NEW d \in Calls, d # c, call'[d].pc = "sent" PROVE Whole(d)'
    <3>1. Whole(d) /\ call'[d] = call[d]
      BY <2>2, <2>4 DEF WholeInv
    <3> QED
      BY <2>2, <3>1 DEF Whole
  <2> QED
    BY <1>1, <2>1, <2>3, <2>4 DEF WholeInv
<1>5. ASSUME NEW c \in Calls, NEW answer \in Answers, NEW usage \in {c, Zero},
             Answer(c, answer, usage)
      PROVE  WholeInv'
  <2>1. UNCHANGED <<provider, lastSystem>> /\ \A d \in Calls : d # c => call'[d] = call[d]
    BY <1>2, <1>5 DEF Answer
  <2>2. call'[c].pc = "ready"
    BY <1>2, <1>5 DEF Answer, Ended, IdleCall
  <2> QED
    BY <1>1, <2>1, <2>2, GoesOnWhole
<1>6. ASSUME NEW c \in Calls, NEW error \in Errors, Fail(c, error) PROVE WholeInv'
  <2>1. UNCHANGED <<provider, lastSystem>> /\ \A d \in Calls : d # c => call'[d] = call[d]
    BY <1>2, <1>6 DEF Fail
  <2>2. call[c].pc = "sent" /\ call'[c].pc \in {"backing off", "ready"}
    BY <1>2, <1>6 DEF Fail, Ended, IdleCall, CallRecords
  <2> QED
    BY <1>1, <2>1, <2>2, GoesOnWhole
<1>7. ASSUME NEW c \in Calls, Retry(c) PROVE WholeInv'
  <2>1. /\ UNCHANGED <<provider, lastSystem>> /\ \A d \in Calls : d # c => call'[d] = call[d]
        /\ call[c].pc = "backing off"
    BY <1>2, <1>7 DEF Retry, Attempt
  <2>2. call'[c].pc \in {"scheduled", "ready"}
    BY <1>2, <1>7 DEF Retry, Attempt, IdleCall
  <2> QED
    BY <1>1, <2>1, <2>2, GoesOnWhole
<1>8. ASSUME NEW c \in Calls, Cancel(c) PROVE WholeInv'
  <2>1. UNCHANGED <<provider, lastSystem>> /\ \A d \in Calls : d # c => call'[d] = call[d]
    BY <1>2, <1>8 DEF Cancel
  <2>2. call'[c].pc = "ready"
    BY <1>2, <1>8 DEF Cancel, Ended, IdleCall
  <2> QED
    BY <1>1, <2>1, <2>2, GoesOnWhole
<1>9. CASE Tick \/ UNCHANGED callsVars
  <2>1. UNCHANGED <<provider, lastSystem, call>>
    BY <1>9 DEF Tick, callsVars
  <2> QED
    BY <1>1, <2>1, GoesOnWhole
<1> QED
  BY <1>3, <1>4, <1>5, <1>6, <1>7, <1>8, <1>9 DEF CallsNext

-----------------------------------------------------------------------------
(* The theorems *)

\* Every variable keeps its type; in particular no call makes more than
\* MaxRetries + 1 attempts, whatever other calls do to the breaker.
THEOREM LlmTypeCorrect == CallsSpec => []CallsTypeOK
<1>1. LlmInv => CallsTypeOK
  BY LlmInvImplies
<1> QED
  BY <1>1, LlmInvHolds, PTL

\* What is recorded as the usage of a call is its own or an estimate,
\* however the calls of the one adapter interleave.
THEOREM UsageIsOwnHolds == CallsSpec => []UsageIsOwn
<1>1. LlmInv => UsageIsOwn
  BY LlmInvImplies
<1> QED
  BY <1>1, LlmInvHolds, PTL

\* However calls overlap, what goes over the wire has the whole prompt: all
\* texts of the call itself, or, where Claude's system parameter is another
\* call's, all system texts of that one.  Their order is not compared.
THEOREM WholePromptHolds == CallsSpec => []WholePrompt
<1>1. CallsInit => WholeInv
  <2> SUFFICES ASSUME CallsInit PROVE WholeInv
    OBVIOUS
  <2>1. \A c \in Calls : call[c].pc = "ready"
    BY DEF CallsInit, IdleCall
  <2> QED
    BY <2>1, InitInv DEF WholeInv, SystemInv
<1>2. WholeInv => WholePrompt
  BY DEF WholeInv, Whole, WholePrompt
<1> QED
  BY <1>1, <1>2, WholeStep, PTL DEF CallsSpec

\* No attempt starts while the provider is down and none is refused while
\* it is not: the breaker's three fields are always in step with the
\* failures there were.
THEOREM BreakerDecidesHolds == CallsSpec => BreakerDecides
<1> DEFINE Decides(c) ==
       /\ (call[c].pc # "scheduled" /\ call'[c].pc = "scheduled") => ~ProviderIsDown
       /\ (call[c].pc \in {"ready", "backing off"} /\ call'[c].pc = "ready"
              /\ call'[c] # call[c])
            => ProviderIsDown \/ call'[c].outcome = "cancelled"
<1>1. LlmInv /\ [CallsNext]_callsVars => [\A c \in Calls : Decides(c)]_callsVars
  <2> SUFFICES ASSUME LlmInv, CallsNext, NEW d \in Calls
               PROVE  Decides(d)
    BY DEF callsVars
  <2> USE DEF LlmInv, CallsInv
  <2>1. ASSUME NEW c \in Calls, NEW structured \in BOOLEAN, NEW attempt,
               Attempt(c, structured, attempt)
        PROVE  Decides(d)
    <3>1. CASE State = "open"
      BY <2>1, <3>1, ReadingInv DEF Attempt, IdleCall
    <3>2. CASE State # "open"
      BY <2>1, <3>2, ReadingInv DEF Attempt, IdleCall
    <3> QED
      BY <3>1, <3>2
  <2>2. ASSUME NEW c \in Calls, NEW structured \in BOOLEAN, Begin(c, structured)
        PROVE  Decides(d)
    BY <2>1, <2>2 DEF Begin
  <2>3. ASSUME NEW c \in Calls, Retry(c) PROVE Decides(d)
    BY <2>1, <2>3 DEF Retry, CallRecords
  <2>4. ASSUME NEW c \in Calls, Send(c) PROVE Decides(d)
    BY <2>4 DEF Send, CallRecords
  <2>5. ASSUME NEW c \in Calls, NEW answer \in Answers, NEW usage \in {c, Zero},
               Answer(c, answer, usage)
        PROVE  Decides(d)
    BY <2>5 DEF Answer, Ended, IdleCall
  <2>6. ASSUME NEW c \in Calls, NEW error \in Errors, Fail(c, error) PROVE Decides(d)
    BY <2>6 DEF Fail, Ended, IdleCall, CallRecords
  <2>7. ASSUME NEW c \in Calls, Cancel(c) PROVE Decides(d)
    BY <2>7 DEF Cancel, Ended, IdleCall
  <2>8. CASE Tick
    BY <2>8 DEF Tick
  <2> QED
    BY <2>2, <2>3, <2>4, <2>5, <2>6, <2>7, <2>8 DEF CallsNext
<1> QED
  BY <1>1, LlmInvHolds, PTL DEF CallsSpec, BreakerDecides

=============================================================================
