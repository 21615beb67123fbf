------------------------------ MODULE LlmCalls ------------------------------
(***************************************************************************)
(* Calls of a real language model (infrastructure/llm/langchain_base.py    *)
(* with its circuit breaker, the Claude, OpenAI and Kimi adapters, and the *)
(* token tracker around them).  The application has one adapter, so its    *)
(* concurrent calls share one breaker, one _last_usage and, for Claude,    *)
(* one _last_system.                                                       *)
(*                                                                         *)
(* A call makes at most MaxRetries + 1 attempts.  It suspends when an      *)
(* attempt is scheduled (wait_for wraps it in a task on Python 3.11; on    *)
(* 3.12 the attempt goes on at once, one of the behaviours below), while   *)
(* the provider works, and while it backs off.  Between two suspensions it *)
(* runs alone.                                                             *)
(***************************************************************************)
EXTENDS Optional, Naturals, Sequences, Lists

CONSTANTS
  Calls,        \* callers; each makes one call after another
  Providers,    \* the adapters the factory may have chosen
  Context,      \* the roles of the prompt's context items, in their order
  MaxRetries,   \* max_retries of the adapter
  Threshold,    \* failure_threshold of the breaker
  Recovery      \* recovery_timeout, in ticks of the clock

ASSUME LlmAssumption ==
  /\ Providers \subseteq {"claude", "openai", "kimi"}
  /\ Context \in Seq({"system", "user", "assistant"})
  /\ MaxRetries \in Nat
  /\ Threshold \in Nat \ {0}
  /\ Recovery \in Nat \ {0}
  /\ None \notin Nat

VARIABLES
  provider,     \* the adapter the application uses
  breaker,      \* CircuitBreaker._state
  failures,     \* CircuitBreaker._failures, counted up to Threshold
  sinceFailure, \* the time since _last_failure_time, counted up to Recovery
  lastSystem,   \* ClaudeAdapter._last_system
  lastUsage,    \* LangChainBaseAdapter._last_usage: the call it is of
  call,         \* the local state of each caller
  streak        \* history: the attempts that failed since one succeeded

callsVars == <<provider, breaker, failures, sinceFailure, lastSystem, lastUsage,
          call, streak>>

Zero == "zero"                    \* a usage of no tokens
Estimate == "estimate"            \* the tracker's own count

(***************************************************************************)
(* Prompts.  A text is named by the call it belongs to and its place in    *)
(* the prompt: "system", "json" (what the injector appends to the system   *)
(* text), "user", or 1, 2, ... for the context items.                      *)
(***************************************************************************)
Text(c, part, item) == [of |-> c, part |-> part, item |-> item]
Message(role, content) == [role |-> role, content |-> content]

Prompt(c) ==
  [system  |-> <<Text(c, "system", 0)>>,
   user    |-> <<Text(c, "user", 0)>>,
   context |-> [i \in DOMAIN Context |->
                  Message(Context[i], <<Text(c, "context", i)>>)]]

\* The schema's description and the order to answer in JSON.
Inject(prompt, c) == [prompt EXCEPT !.system = Append(@, Text(c, "json", 0))]

PromptOf(c, structured) == IF structured THEN Inject(Prompt(c), c) ELSE Prompt(c)

IsSystem(message) == message.role = "system"
SystemItems(prompt) ==
  Those(prompt.context, {message \in ToSet(prompt.context) : IsSystem(message)})
OtherItems(prompt) ==
  Those(prompt.context, {message \in ToSet(prompt.context) : ~IsSystem(message)})

\* Claude takes the system texts as a parameter of their own.
\* Mutant: the system items of the context are dropped.
BuildSystemParamBare(prompt) == prompt.system
BuildSystemParam(prompt) ==
  LET items == SystemItems(prompt)
  IN  prompt.system \o FlattenSeq([i \in DOMAIN items |-> items[i].content])

ClaudeMessages(prompt) ==
  Append(OtherItems(prompt), Message("user", prompt.user))

OpenAIMessages(prompt) ==
  <<Message("system", prompt.system)>> \o prompt.context
    \o <<Message("user", prompt.user)>>

KimiMessages(prompt) ==
  <<Message("system", prompt.system)>> \o prompt.context
    \o <<Message("user", prompt.user)>>

\* What goes over the wire; Claude's reads the adapter's field.
ClaudeRequest(prompt) ==
  [system |-> lastSystem, messages |-> ClaudeMessages(prompt)]
OpenAIRequest(prompt) ==
  [system |-> None, messages |-> OpenAIMessages(prompt)]
KimiRequest(prompt) ==
  [system |-> None, messages |-> KimiMessages(prompt)]

Request(prompt) ==
  CASE provider = "claude" -> ClaudeRequest(prompt)
    [] provider = "openai" -> OpenAIRequest(prompt)
    [] provider = "kimi"   -> KimiRequest(prompt)

(***************************************************************************)
(* Errors of an attempt, by what their message says.  Only the Claude      *)
(* adapter also knows the spelling "rate limit".                           *)
(***************************************************************************)
Errors == {"timeout", "rate_limit", "rate limit", "unavailable", "refused"}

ClaudeRetries(error) ==
  error \in {"timeout", "rate_limit", "rate limit", "unavailable"}
OpenAIRetries(error) == error \in {"timeout", "rate_limit", "unavailable"}
KimiRetries(error) == error \in {"timeout", "rate_limit", "unavailable"}

IsRetryable(error) ==
  CASE provider = "claude" -> ClaudeRetries(error)
    [] provider = "openai" -> OpenAIRetries(error)
    [] provider = "kimi"   -> KimiRetries(error)

(***************************************************************************)
(* Answers: a JSON object of the schema, other text, no text, or no choice *)
(* at all; and what a call makes of each once the attempt succeeded.       *)
(***************************************************************************)
Answers == {"object", "prose", "empty", "no choice"}

ClaudeContent(answer) == IF answer = "no choice" THEN "empty" ELSE answer

Parsed(content) == IF content = "object" THEN "returned" ELSE "call error"

\* complete: any text is an answer, but choices[0] fails without choices.
CompleteOutcome(answer) ==
  IF provider # "claude" /\ answer = "no choice" THEN "call error" ELSE "returned"

OpenAIStructuredOutcome(answer) ==
  CASE answer = "no choice" -> "other error"
    [] answer = "empty"     -> "call error"
    [] OTHER                -> Parsed(answer)
KimiStructuredOutcome(answer) ==
  CASE answer = "no choice" -> "other error"
    [] answer = "empty"     -> "call error"
    [] OTHER                -> Parsed(answer)

StructuredOutcome(answer) ==
  CASE provider = "claude" -> Parsed(ClaudeContent(answer))
    [] provider = "openai" -> OpenAIStructuredOutcome(answer)
    [] provider = "kimi"   -> KimiStructuredOutcome(answer)

Outcome(structured, answer) ==
  IF structured THEN StructuredOutcome(answer) ELSE CompleteOutcome(answer)

\* Without choices OpenAI's native path fails before it keeps the usage.
KeepsUsage(structured, answer) ==
  ~(structured /\ provider # "claude" /\ answer = "no choice")

\* complete turns the breaker's refusal into an LLMCallError; the native
\* structured path of OpenAI and Kimi lets it through.
Refusal(structured) ==
  IF structured /\ provider # "claude" THEN "breaker open" ELSE "call error"

Outcomes == {None, "returned", "call error", "breaker open", "other error", "cancelled"}

(***************************************************************************)
(* The circuit breaker                                                     *)
(***************************************************************************)
\* Reading the state moves an open breaker to half_open once it is time.
State ==
  IF breaker = "open" /\ sinceFailure # None /\ sinceFailure >= Recovery
    THEN "half_open" ELSE breaker

\* Mutant: one success does not forget the failures before it.
RecordSuccessKeeping ==
  /\ breaker' = "closed"
  /\ sinceFailure' = None
  /\ UNCHANGED failures
RecordSuccess ==
  /\ breaker' = "closed"
  /\ failures' = 0
  /\ sinceFailure' = None

UpToThreshold(n) == IF n < Threshold THEN n + 1 ELSE Threshold

RecordFailure ==
  /\ failures' = UpToThreshold(failures)
  /\ sinceFailure' = 0
  /\ breaker' = IF failures' >= Threshold THEN "open" ELSE breaker

(***************************************************************************)
(* A call                                                                  *)
(***************************************************************************)
Waiting == {"scheduled", "sent", "backing off"}

IdleCall == [pc |-> "ready", structured |-> FALSE, attempt |-> 0, request |-> None,
         outcome |-> None, counted |-> None]

Ended(c, outcome, counted) ==
  [IdleCall EXCEPT !.structured = call[c].structured, !.outcome = outcome,
               !.counted = counted]

CallsInit ==
  /\ provider \in Providers
  /\ breaker = "closed" /\ failures = 0 /\ sinceFailure = None
  /\ lastSystem = None /\ lastUsage = None
  /\ call = [c \in Calls |-> IdleCall]
  /\ streak = 0

\* The breaker lets the attempt through, or the call ends at once.
Attempt(c, structured, attempt) ==
  /\ breaker' = State
  /\ call' = [call EXCEPT ![c] =
       IF State = "open"
         THEN [IdleCall EXCEPT !.structured = structured, !.outcome = Refusal(structured)]
         ELSE [IdleCall EXCEPT !.structured = structured, !.attempt = attempt,
                           !.pc = "scheduled"]]

\* complete or complete_structured up to its first attempt.
Begin(c, structured) ==
  /\ call[c].pc = "ready"
  /\ lastSystem' = IF provider = "claude"
                     THEN BuildSystemParam(PromptOf(c, structured)) ELSE lastSystem
  /\ Attempt(c, structured, 0)
  /\ UNCHANGED <<provider, failures, sinceFailure, lastUsage, streak>>

\* _call_client hands the request to the provider.
Send(c) ==
  /\ call[c].pc = "scheduled"
  /\ call' = [call EXCEPT ![c].pc = "sent",
                          ![c].request = Request(PromptOf(c, call[c].structured))]
  /\ UNCHANGED <<provider, breaker, failures, sinceFailure, lastSystem,
                 lastUsage, streak>>

\* TokenTrackingLLM: what is recorded for a call that returns, from the
\* usage the adapter reports at that moment.
ResolveUsage(reported) == IF reported \in {None, Zero} THEN Estimate ELSE reported

\* The provider answers; nothing suspends until the caller has its result
\* and the tracker its record.
\* Mutant: structured calls do not keep the usage they were told.
AnswerForgettingUsage(c, answer, usage) ==
  LET structured == call[c].structured IN
  /\ call[c].pc = "sent"
  /\ RecordSuccess
  /\ lastUsage' = IF ~structured THEN usage ELSE lastUsage
  /\ call' = [call EXCEPT ![c] =
       Ended(c, Outcome(structured, answer),
             IF Outcome(structured, answer) = "returned"
               THEN ResolveUsage(lastUsage') ELSE None)]
  /\ streak' = 0
  /\ UNCHANGED <<provider, lastSystem>>
Answer(c, answer, usage) ==
  LET structured == call[c].structured IN
  /\ call[c].pc = "sent"
  /\ RecordSuccess
  /\ lastUsage' = IF KeepsUsage(structured, answer) THEN usage ELSE lastUsage
  /\ call' = [call EXCEPT ![c] =
       Ended(c, Outcome(structured, answer),
             IF Outcome(structured, answer) = "returned"
               THEN ResolveUsage(lastUsage') ELSE None)]
  /\ streak' = 0
  /\ UNCHANGED <<provider, lastSystem>>

\* The attempt fails; the call backs off, or ends with an LLMCallError.
\* Mutant: the last attempt is followed by another.
FailRetrying(c, error) ==
  /\ call[c].pc = "sent"
  /\ RecordFailure
  /\ call' = IF IsRetryable(error)
               THEN [call EXCEPT ![c].pc = "backing off", ![c].request = None]
               ELSE [call EXCEPT ![c] = Ended(c, "call error", None)]
  /\ streak' = UpToThreshold(streak)
  /\ UNCHANGED <<provider, lastSystem, lastUsage>>
Fail(c, error) ==
  /\ call[c].pc = "sent"
  /\ RecordFailure
  /\ call' = IF IsRetryable(error) /\ call[c].attempt < MaxRetries
               THEN [call EXCEPT ![c].pc = "backing off", ![c].request = None]
               ELSE [call EXCEPT ![c] = Ended(c, "call error", None)]
  /\ streak' = UpToThreshold(streak)
  /\ UNCHANGED <<provider, lastSystem, lastUsage>>

\* The back-off is over: the breaker is asked again.
\* Mutant: a retry waits until the breaker lets it through.
RetryWaiting(c) ==
  /\ call[c].pc = "backing off"
  /\ State # "open"
  /\ Attempt(c, call[c].structured, call[c].attempt + 1)
  /\ UNCHANGED <<provider, failures, sinceFailure, lastSystem, lastUsage, streak>>
Retry(c) ==
  /\ call[c].pc = "backing off"
  /\ Attempt(c, call[c].structured, call[c].attempt + 1)
  /\ UNCHANGED <<provider, failures, sinceFailure, lastSystem, lastUsage, streak>>

\* The task of the call is cancelled (the client left, or a research step
\* ran out of time): CancelledError is no Exception, nothing is recorded.
Cancel(c) ==
  /\ call[c].pc \in Waiting
  /\ call' = [call EXCEPT ![c] = Ended(c, "cancelled", None)]
  /\ UNCHANGED <<provider, breaker, failures, sinceFailure, lastSystem,
                 lastUsage, streak>>

\* time.monotonic
Tick ==
  /\ sinceFailure # None /\ sinceFailure < Recovery
  /\ sinceFailure' = sinceFailure + 1
  /\ UNCHANGED <<provider, breaker, failures, lastSystem, lastUsage, call, streak>>

CallsNext ==
  \/ \E c \in Calls :
       \/ \E structured \in BOOLEAN : Begin(c, structured)
       \/ Send(c)
       \/ \E answer \in Answers, usage \in {c, Zero} : Answer(c, answer, usage)
       \/ \E error \in Errors : Fail(c, error)
       \/ Retry(c)
       \/ Cancel(c)
  \/ Tick

CallsSpec == CallsInit /\ [][CallsNext]_callsVars

(***************************************************************************)
(* The event loop runs what is ready and its timers go off: a provider may *)
(* never answer, but wait_for ends the attempt, and a back-off ends.       *)
(***************************************************************************)
CallsFairness ==
  \A c \in Calls : /\ WF_callsVars(Send(c)) /\ WF_callsVars(Fail(c, "timeout"))
                   /\ WF_callsVars(Retry(c))

CallsFairSpec == CallsSpec /\ CallsFairness

-----------------------------------------------------------------------------
\* Every prompt of a call there can be.
AllPrompts == {PromptOf(c, structured) : c \in Calls, structured \in BOOLEAN}

SystemParams == {BuildSystemParam(p) : p \in AllPrompts}

WireRequests ==
  [system : SystemParams \union {None},
   messages : {ClaudeMessages(p) : p \in AllPrompts}
                \union {OpenAIMessages(p) : p \in AllPrompts}
                \union {KimiMessages(p) : p \in AllPrompts}]

CallRecords ==
  [pc : Waiting \union {"ready"}, structured : BOOLEAN, attempt : 0..MaxRetries,
   request : WireRequests \union {None}, outcome : Outcomes,
   counted : Calls \union {None, Estimate}]

\* Every variable keeps its type; a call holds its request only while the
\* provider has it, and a call that is under way has no outcome yet.
CallsTypeOK ==
  /\ provider \in Providers
  /\ breaker \in {"closed", "open", "half_open"}
  /\ failures \in 0..Threshold /\ streak \in 0..Threshold
  /\ sinceFailure \in (0..Recovery) \union {None}
  /\ lastSystem \in SystemParams \union {None}
  /\ lastUsage \in Calls \union {None, Zero}
  /\ call \in [Calls -> CallRecords]
  /\ \A c \in Calls :
       /\ call[c].pc # "sent" => call[c].request = None
       /\ call[c].pc # "ready" => call[c].outcome = None

\* Threshold attempts in a row failed, the last of them a short time ago.
ProviderIsDown ==
  streak = Threshold /\ sinceFailure # None /\ sinceFailure < Recovery

\* raise_if_open guards every attempt, of every call: none starts while the
\* provider is down, also not after a probe of the half-open breaker has
\* failed or as a retry, and none is refused while it is not.
BreakerDecides ==
  [][\A c \in Calls :
       /\ (call[c].pc # "scheduled" /\ call'[c].pc = "scheduled") => ~ProviderIsDown
       /\ (call[c].pc \in {"ready", "backing off"} /\ call'[c].pc = "ready"
              /\ call'[c] # call[c])
            => ProviderIsDown \/ call'[c].outcome = "cancelled"]_callsVars

\* The texts of a request: a whole system prompt with its system context
\* items, of some call (see OwnSystem), and every other message of its own.
WholePrompt ==
  \A c \in Calls : call[c].pc = "sent" =>
    LET p == PromptOf(c, call[c].structured)
        messages == ToSet(call[c].request.messages)
    IN  /\ Message("user", p.user) \in messages
        /\ \A m \in ToSet(p.context) :
             m \in messages \/ (provider = "claude" /\ IsSystem(m))
        /\ IF provider = "claude"
             THEN \E d \in Calls, structured \in BOOLEAN :
                    LET q == PromptOf(d, structured)
                        system == ToSet(call[c].request.system)
                    IN  /\ ToSet(q.system) \subseteq system
                        /\ \A m \in ToSet(q.context) :
                             IsSystem(m) => ToSet(m.content) \subseteq system
             ELSE Message("system", p.system) \in messages

\* The Claude adapter stores the system prompt "so _call_client can pass it
\* separately": a request carries the system prompt of its own call.
OwnSystem ==
  \A c \in Calls : (call[c].pc = "sent" /\ provider = "claude") =>
    call[c].request.system = BuildSystemParam(PromptOf(c, call[c].structured))

\* What the tracker records for a call is that call's own usage or an
\* estimate of it, never what another call has left in last_usage.
UsageIsOwn ==
  \A c \in Calls : call[c].counted \in {None, Estimate, c}

\* Every call comes back, with a result or an error, though the provider
\* may never answer: no attempt is without a timeout, no retry without end.
EveryCallReturns ==
  \A c \in Calls : (call[c].pc \in Waiting) ~> (call[c].pc = "ready")

=============================================================================
