------------------------------ MODULE Telemetry ------------------------------
(***************************************************************************)
(* The telemetry adapter (infrastructure/telemetry): every entry that is   *)
(* recorded becomes a task of its own that opens the day's file and        *)
(* appends a line; flush waits for the tasks that are pending; spans live  *)
(* in a dictionary until they are ended.                                   *)
(*                                                                         *)
(* Entries are numbered in the order they are recorded in.                 *)
(***************************************************************************)
EXTENDS Naturals, SequencesExt

CONSTANTS
  Contexts,     \* requests, named by the correlation id the middleware sets
  Flushers,     \* callers of flush
  Levels,       \* the levels in their order
  MinLevel,     \* the adapter's log_level
  MaxRecorded,   \* bound on the entries
  MaxSpans      \* bound on the spans

VARIABLES
  entry,        \* what each entry says and where its task stands
  pending,      \* _pending: the tasks nobody waits for yet
  spans,        \* the open spans: the context each was started in, by number
  started,      \* the number of spans so far
  flush         \* the local state of each flusher

telemetryVars == <<entry, pending, spans, started, flush>>

Scheduled == {"scheduled", "open"}
Over == {"written", "lost"}

ReadyFlusher == [pc |-> "ready", waits |-> {}, before |-> {}]

TelemetryInit ==
  /\ entry = <<>>
  /\ pending = {}
  /\ spans = [s \in {} |-> ""]
  /\ started = 0
  /\ flush = [f \in Flushers |-> ReadyFlusher]

Rank(level) == CHOOSE i \in DOMAIN Levels : Levels[i] = level
Recorded(level) == Rank(level) >= Rank(MinLevel)

\* log and record_event: an entry above the minimum is scheduled.  Its own
\* correlation id, by, is that of the caller; its data may name another, of.
Record(c, level, says, of, span) ==
  IF Recorded(level)
    THEN /\ entry' = Append(entry, [says |-> says, by |-> c, of |-> of, span |-> span,
                                    at |-> "scheduled"])
         /\ pending' = pending \union {Len(entry')}
    ELSE UNCHANGED <<entry, pending>>

Room == Len(entry) < MaxRecorded

Log(c, level) ==
  /\ Room /\ Recorded(level)
  /\ Record(c, level, "message", "", 0)
  /\ UNCHANGED <<spans, started, flush>>

StartSpan(c) ==
  /\ Room /\ started < MaxSpans
  /\ started' = started + 1
  /\ spans' = [s \in DOMAIN spans \union {started'} |->
                 IF s = started' THEN c ELSE spans[s]]
  /\ Record(c, "DEBUG", "span started", "", started')
  /\ UNCHANGED <<flush>>

\* Mutant: the span is looked up and stays.
EndSpanKeeping(c, s) ==
  /\ Room /\ s \in 0..started
  /\ UNCHANGED spans
  /\ IF s \in DOMAIN spans
       THEN Record(c, "DEBUG", "span completed", spans[s], s)
       ELSE Record(c, "WARNING", "span not found", "", s)
  /\ UNCHANGED <<started, flush>>
\* The data of the entry name the context the span was started in; ending an
\* id that is not open, or that nobody started (0), is a warning.
EndSpan(c, s) ==
  /\ Room /\ s \in 0..started
  /\ spans' = [x \in DOMAIN spans \ {s} |-> spans[x]]
  /\ IF s \in DOMAIN spans
       THEN Record(c, "DEBUG", "span completed", spans[s], s)
       ELSE Record(c, "WARNING", "span not found", "", s)
  /\ UNCHANGED <<started, flush>>

(***************************************************************************)
(* JsonlWriter.write: opening and writing are calls of a thread; an        *)
(* OSError of either loses the entry.                                      *)
(***************************************************************************)
Ends(i, at) ==
  /\ entry' = [entry EXCEPT ![i].at = at]
  /\ pending' = pending \ {i}
  /\ UNCHANGED <<spans, started, flush>>

Open(i) ==
  /\ entry[i].at = "scheduled"
  /\ entry' = [entry EXCEPT ![i].at = "open"]
  /\ UNCHANGED <<pending, spans, started, flush>>

Write(i) == entry[i].at = "open" /\ Ends(i, "written")

WriteFails(i) == entry[i].at \in Scheduled /\ Ends(i, "lost")

(***************************************************************************)
(* flush                                                                   *)
(***************************************************************************)
\* Mutant: the set is cleared before it is copied.
FlushCleared(f) ==
  /\ flush[f].pc = "ready"
  /\ flush' = [flush EXCEPT ![f] = [pc |-> IF pending = {} THEN "returned" ELSE "waiting",
                                    waits |-> {}, before |-> DOMAIN entry]]
  /\ pending' = {}
  /\ UNCHANGED <<entry, spans, started>>
Flush(f) ==
  /\ flush[f].pc = "ready"
  /\ flush' = [flush EXCEPT ![f] = [pc |-> IF pending = {} THEN "returned" ELSE "waiting",
                                    waits |-> pending, before |-> DOMAIN entry]]
  /\ pending' = {}
  /\ UNCHANGED <<entry, spans, started>>

FlushReturns(f) ==
  /\ flush[f].pc = "waiting"
  /\ \A i \in flush[f].waits : entry[i].at \in Over
  /\ flush' = [flush EXCEPT ![f].pc = "returned"]
  /\ UNCHANGED <<entry, pending, spans, started>>

\* A flush that is cancelled cancels the writes it waits for.
FlushCancelled(f) ==
  /\ flush[f].pc = "waiting"
  /\ flush' = [flush EXCEPT ![f] = ReadyFlusher]
  /\ entry' = [i \in DOMAIN entry |->
                 IF i \in flush[f].waits /\ entry[i].at \in Scheduled
                   THEN [entry[i] EXCEPT !.at = "lost"] ELSE entry[i]]
  /\ UNCHANGED <<pending, spans, started>>

FlushAgain(f) ==
  /\ flush[f].pc = "returned"
  /\ flush' = [flush EXCEPT ![f] = ReadyFlusher]
  /\ UNCHANGED <<entry, pending, spans, started>>

TelemetryNext ==
  \/ \E c \in Contexts :
       \/ \E level \in ToSet(Levels) : Log(c, level)
       \/ StartSpan(c)
       \/ \E s \in 0..MaxSpans : EndSpan(c, s)
  \/ \E i \in 1..Len(entry) : Open(i) \/ Write(i) \/ WriteFails(i)
  \/ \E f \in Flushers : Flush(f) \/ FlushReturns(f) \/ FlushCancelled(f) \/ FlushAgain(f)

TelemetrySpec == TelemetryInit /\ [][TelemetryNext]_telemetryVars

-----------------------------------------------------------------------------
\* When flush returns, each entry that was recorded before it was called is
\* in the file or lost, or else another flush had begun to wait for it.
FlushCovers ==
  \A f \in Flushers : flush[f].pc = "returned" =>
    \A i \in flush[f].before :
      \/ entry[i].at \in Over
      \/ \E g \in Flushers \ {f} : flush[g].pc = "waiting" /\ i \in flush[g].waits

\* A span is completed once, whoever ends it and how often, and the data of
\* the entry of its completion name the request that started it.  (The
\* entry's own correlation id is that of the request that ended it.)
SpansEndOnce ==
  \A i, j \in DOMAIN entry :
    /\ entry[i].says = "span completed" /\ entry[j].says = "span completed"
         /\ entry[i].span = entry[j].span => i = j
    /\ entry[i].says = "span started" /\ entry[j].says = "span completed"
         /\ entry[i].span = entry[j].span => entry[i].by = entry[j].of

=============================================================================
