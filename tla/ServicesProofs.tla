--------------------------- MODULE ServicesProofs ---------------------------
(***************************************************************************)
(* Theorems about the components that work beside the pipeline: the start, *)
(* the telemetry, the research steps and the fake adapter, each for any    *)
(* values of its constants.                                                *)
(***************************************************************************)
EXTENDS Startup, Telemetry, ResearchSteps, FakeLlm, FiniteSetTheorems, ListsProofs

-----------------------------------------------------------------------------
(* The telemetry.                                                          *)
(* Types *)
Places == Scheduled \union Over
EntryRecords ==
  [says : {"message", "span started", "span completed", "span not found"},
   by : Contexts, of : Contexts \union {""}, span : Nat, at : Places]

RecordType ==
  /\ entry \in Seq(EntryRecords)
  /\ started \in Nat
  /\ \A s \in DOMAIN spans : spans[s] \in Contexts

(***************************************************************************)
(* Flushes.  An entry that is not yet over is pending or waited for, and   *)
(* what was recorded before a flush is never pending again.                *)
(***************************************************************************)
WaitedFor(i) ==
  \E f \in Flushers : flush[f].pc = "waiting" /\ i \in flush[f].waits

EntriesInv ==
  \A i \in DOMAIN entry : entry[i].at \in Scheduled => i \in pending \/ WaitedFor(i)

FlushersInv ==
  /\ DOMAIN flush = Flushers
  /\ \A f \in Flushers :
       flush[f].pc \in {"waiting", "returned"} =>
         flush[f].before \subseteq DOMAIN entry \ pending

(***************************************************************************)
(* Spans.  A completed span is open no longer, and an open one is known    *)
(* under the request that started it.                                      *)
(***************************************************************************)
Numbers == 1..started

SpanEntryInv(i) ==
  /\ entry[i].says \in {"span started", "span completed"} => entry[i].span \in Numbers
  /\ entry[i].says = "span completed" => entry[i].span \notin DOMAIN spans
  /\ entry[i].says = "span started" /\ entry[i].span \in DOMAIN spans
       => entry[i].by = spans[entry[i].span]

SpansInv ==
  /\ DOMAIN spans \subseteq Numbers
  /\ \A i \in DOMAIN entry : SpanEntryInv(i)
  /\ SpansEndOnce

TelemetryInv == RecordType /\ EntriesInv /\ FlushersInv /\ SpansInv

-----------------------------------------------------------------------------
(* What a step makes of the entries *)

\* One entry more, scheduled and pending.
Adds(says, c, of, span) ==
  LET n == Len(entry) + 1 IN
  /\ entry' \in Seq(EntryRecords)
  /\ DOMAIN entry' = DOMAIN entry \union {n} /\ n \notin DOMAIN entry
  /\ \A i \in DOMAIN entry : entry'[i] = entry[i]
  /\ entry'[n] = [says |-> says, by |-> c, of |-> of, span |-> span, at |-> "scheduled"]
  /\ pending' = pending \union {n}

\* The same entries, though some may have got elsewhere.
FlusherMoves ==
  /\ entry' \in Seq(EntryRecords)
  /\ DOMAIN entry' = DOMAIN entry
  /\ \A i \in DOMAIN entry :
       /\ entry'[i].says = entry[i].says /\ entry'[i].by = entry[i].by
       /\ entry'[i].of = entry[i].of
       /\ entry'[i].span = entry[i].span
       /\ entry'[i].at \in Scheduled => entry[i].at \in Scheduled

LEMMA EntryParts ==
  ASSUME NEW x, NEW says, NEW c, NEW of, NEW span, NEW place,
         x = [says |-> says, by |-> c, of |-> of, span |-> span, at |-> place]
  PROVE  x.says = says /\ x.by = c /\ x.of = of /\ x.span = span
OBVIOUS

LEMMA Interval ==
  ASSUME NEW n \in Nat
  PROVE  1..(n + 1) = 1..n \union {n + 1} /\ n + 1 \notin 1..n
<1>1. n + 1 \notin 1..n
  OBVIOUS
<1>2. ASSUME NEW i PROVE i \in 1..(n + 1) <=> i \in 1..n \union {n + 1}
  OBVIOUS
<1> QED
  BY <1>1, <1>2

LEMMA Appended ==
  ASSUME NEW S, NEW q \in Seq(S), NEW e \in S
  PROVE  /\ Append(q, e) \in Seq(S) /\ Len(Append(q, e)) = Len(q) + 1
         /\ DOMAIN Append(q, e) = DOMAIN q \union {Len(q) + 1}
         /\ Len(q) + 1 \notin DOMAIN q
<1>1. Append(q, e) \in Seq(S) /\ Len(Append(q, e)) = Len(q) + 1
  BY AppendProperties
<1>2. /\ Len(q) \in Nat /\ DOMAIN q = 1..Len(q)
      /\ DOMAIN Append(q, e) = 1..Len(Append(q, e))
  BY <1>1, LenProperties
<1> QED
  BY <1>1, <1>2, Interval

LEMMA AppendedOld ==
  ASSUME NEW S, NEW q \in Seq(S), NEW e \in S, NEW i \in DOMAIN q
  PROVE  Append(q, e)[i] = q[i]
BY AppendProperties, LenProperties

LEMMA AppendedNew ==
  ASSUME NEW S, NEW q \in Seq(S), NEW e \in S
  PROVE  Append(q, e)[Len(q) + 1] = e
BY AppendProperties

LEMMA EntryAppended ==
  ASSUME NEW S, entry \in Seq(S), NEW e \in S
  PROVE  /\ \A i \in DOMAIN entry : Append(entry, e)[i] = entry[i]
         /\ Append(entry, e)[Len(entry) + 1] = e
<1>1. \A i \in DOMAIN entry : Append(entry, e)[i] = entry[i]
  BY AppendedOld, SMT
<1>2. Append(entry, e)[Len(entry) + 1] = e
  BY AppendedNew, SMT
<1> QED
  BY <1>1, <1>2

LEMMA RecordFacts ==
  ASSUME RecordType, NEW c \in Contexts, NEW level, NEW of \in Contexts \union {""},
         NEW span \in Nat,
         NEW says \in {"message", "span started", "span completed", "span not found"},
         Record(c, level, says, of, span)
  PROVE  UNCHANGED <<entry, pending>> \/ Adds(says, c, of, span)
<1>1. CASE ~ Recorded(level)
  BY <1>1 DEF Record
<1>2. CASE Recorded(level)
  <2>1. PICK new \in EntryRecords :
             /\ new = [says |-> says, by |-> c, of |-> of, span |-> span, at |-> "scheduled"]
             /\ entry' = Append(entry, new) /\ pending' = pending \union {Len(entry')}
    BY <1>2 DEF Record, EntryRecords, Places, Scheduled
  <2>2. entry \in Seq(EntryRecords)
    BY DEF RecordType
  <2>3. /\ entry' \in Seq(EntryRecords) /\ Len(entry') = Len(entry) + 1
        /\ DOMAIN entry' = DOMAIN entry \union {Len(entry) + 1}
        /\ Len(entry) + 1 \notin DOMAIN entry
        /\ \A i \in DOMAIN entry : entry'[i] = entry[i]
        /\ entry'[Len(entry) + 1] = new
    <3>1. /\ Append(entry, new) \in Seq(EntryRecords)
          /\ Len(Append(entry, new)) = Len(entry) + 1
          /\ DOMAIN Append(entry, new) = DOMAIN entry \union {Len(entry) + 1}
          /\ Len(entry) + 1 \notin DOMAIN entry
      BY <2>2, Appended
    <3>2. \A i \in DOMAIN entry : Append(entry, new)[i] = entry[i]
      BY <2>2, EntryAppended, Zenon
    <3>3. Append(entry, new)[Len(entry) + 1] = new
      BY <2>2, EntryAppended, Zenon
    <3> QED
      BY <2>1, <3>1, <3>2, <3>3
  <2> QED
    BY <2>1, <2>3, Zenon DEF Adds
<1> QED
  BY <1>1, <1>2

LEMMA PlaceFacts ==
  ASSUME RecordType, NEW i \in 1..Len(entry), NEW place \in Places,
         place \in Over \/ entry[i].at \in Scheduled,
         entry' = [entry EXCEPT ![i].at = place]
  PROVE  FlusherMoves /\ entry'[i].at = place /\ \A j \in DOMAIN entry : j # i => entry'[j] = entry[j]
<1> DEFINE new == [entry[i] EXCEPT !.at = place]
<1>1. DOMAIN entry = 1..Len(entry) /\ entry[i] \in EntryRecords
  BY LenProperties, ElementOfSeq DEF RecordType
<1>2. /\ new \in EntryRecords /\ new.says = entry[i].says /\ new.by = entry[i].by
      /\ new.of = entry[i].of /\ new.span = entry[i].span /\ new.at = place
  BY <1>1 DEF EntryRecords
<1>3. entry' = [entry EXCEPT ![i] = new]
  BY <1>1
<1> HIDE DEF new
<1>4. /\ entry' \in Seq(EntryRecords) /\ Len(entry') = Len(entry)
      /\ \A j \in 1..Len(entry) : entry'[j] = IF j = i THEN new ELSE entry[j]
  BY <1>2, <1>3, ExceptSeq DEF RecordType
<1>5. DOMAIN entry' = DOMAIN entry
  BY <1>1, <1>4, LenProperties
<1>6. place \in Scheduled => entry[i].at \in Scheduled
  BY DEF Scheduled, Over
<1> QED
  BY <1>1, <1>2, <1>4, <1>5, <1>6 DEF FlusherMoves

-----------------------------------------------------------------------------
(* Flushes *)

LEMMA RecordKeepsFlushes ==
  ASSUME TelemetryInv, NEW c \in Contexts, NEW level, NEW of \in Contexts \union {""},
         NEW span \in Nat,
         NEW says \in {"message", "span started", "span completed", "span not found"},
         Record(c, level, says, of, span), UNCHANGED flush
  PROVE  EntriesInv' /\ FlushersInv'
<1>1. CASE UNCHANGED <<entry, pending>>
  BY <1>1 DEF TelemetryInv, EntriesInv, FlushersInv, WaitedFor
<1>2. CASE Adds(says, c, of, span)
  <2>1. EntriesInv'
    BY <1>2 DEF Adds, TelemetryInv, EntriesInv, WaitedFor
  <2>2. FlushersInv'
    BY <1>2 DEF Adds, TelemetryInv, FlushersInv
  <2> QED
    BY <2>1, <2>2
<1> QED
  BY <1>1, <1>2, RecordFacts DEF TelemetryInv

LEMMA EndsKeepsFlushes ==
  ASSUME TelemetryInv, NEW i \in 1..Len(entry), NEW place \in Over, Ends(i, place)
  PROVE  EntriesInv' /\ FlushersInv' /\ FlusherMoves
<1>1. FlusherMoves /\ entry'[i].at = place
  BY PlaceFacts DEF Ends, Places, TelemetryInv
<1>2. pending' = pending \ {i} /\ flush' = flush /\ place \notin Scheduled
  BY DEF Ends, Scheduled, Over
<1>3. EntriesInv'
  BY <1>1, <1>2 DEF FlusherMoves, TelemetryInv, EntriesInv, WaitedFor
<1>4. FlushersInv'
  BY <1>1, <1>2 DEF FlusherMoves, TelemetryInv, FlushersInv
<1> QED
  BY <1>1, <1>3, <1>4

LEMMA OpenKeepsFlushes ==
  ASSUME TelemetryInv, NEW i \in 1..Len(entry), Open(i)
  PROVE  EntriesInv' /\ FlushersInv' /\ FlusherMoves
<1>1. FlusherMoves
  BY PlaceFacts DEF Open, Places, Scheduled, TelemetryInv
<1>2. pending' = pending /\ flush' = flush
  BY DEF Open
<1>3. EntriesInv'
  BY <1>1, <1>2 DEF FlusherMoves, TelemetryInv, EntriesInv, WaitedFor
<1>4. FlushersInv'
  BY <1>1, <1>2 DEF FlusherMoves, TelemetryInv, FlushersInv
<1> QED
  BY <1>1, <1>3, <1>4

LEMMA FlushKeepsFlushes ==
  ASSUME TelemetryInv, NEW f \in Flushers, Flush(f)
  PROVE  EntriesInv' /\ FlushersInv'
<1>1. /\ flush[f].pc = "ready" /\ pending' = {} /\ entry' = entry
      /\ DOMAIN flush' = Flushers
      /\ \A g \in Flushers : g # f => flush'[g] = flush[g]
      /\ flush'[f].before = DOMAIN entry /\ flush'[f].waits = pending
      /\ pending # {} => flush'[f].pc = "waiting"
  BY DEF Flush, TelemetryInv, FlushersInv
<1>2. EntriesInv'
  <2> SUFFICES ASSUME NEW i \in DOMAIN entry, entry[i].at \in Scheduled
               PROVE  WaitedFor(i)'
    BY <1>1 DEF EntriesInv
  <2>1. CASE i \in pending
    BY <1>1, <2>1 DEF WaitedFor
  <2>2. CASE WaitedFor(i)
    BY <1>1, <2>2 DEF WaitedFor
  <2> QED
    BY <2>1, <2>2 DEF TelemetryInv, EntriesInv
<1>3. FlushersInv'
  BY <1>1 DEF TelemetryInv, FlushersInv
<1> QED
  BY <1>2, <1>3

LEMMA FlushReturnsKeepsFlushes ==
  ASSUME TelemetryInv, NEW f \in Flushers, FlushReturns(f)
  PROVE  EntriesInv' /\ FlushersInv'
<1>1. /\ flush[f].pc = "waiting" /\ UNCHANGED <<entry, pending>>
      /\ \A i \in flush[f].waits : entry[i].at \notin Scheduled
  BY DEF FlushReturns, Scheduled, Over
<1>2. /\ DOMAIN flush' = Flushers
      /\ \A g \in Flushers : g # f => flush'[g] = flush[g]
      /\ flush'[f] = [flush[f] EXCEPT !.pc = "returned"]
  BY DEF FlushReturns, TelemetryInv, FlushersInv
<1>3. flush'[f].before = flush[f].before
  BY <1>2
<1>4. EntriesInv'
  <2> SUFFICES ASSUME NEW i \in DOMAIN entry, entry[i].at \in Scheduled, i \notin pending
               PROVE  WaitedFor(i)'
    BY <1>1 DEF EntriesInv
  <2>1. PICK g \in Flushers : flush[g].pc = "waiting" /\ i \in flush[g].waits
    BY DEF TelemetryInv, EntriesInv, WaitedFor
  <2>2. g # f
    BY <1>1, <2>1
  <2> QED
    BY <1>2, <2>1, <2>2 DEF WaitedFor
<1>5. FlushersInv'
  BY <1>1, <1>2, <1>3 DEF TelemetryInv, FlushersInv
<1> QED
  BY <1>4, <1>5

LEMMA FlushCancelledKeepsFlushes ==
  ASSUME TelemetryInv, NEW f \in Flushers, FlushCancelled(f)
  PROVE  EntriesInv' /\ FlushersInv' /\ FlusherMoves
<1> DEFINE after(i) == IF i \in flush[f].waits /\ entry[i].at \in Scheduled
                         THEN [entry[i] EXCEPT !.at = "lost"] ELSE entry[i]
<1>1. /\ Len(entry) \in Nat /\ DOMAIN entry = 1..Len(entry)
      /\ entry' = [i \in 1..Len(entry) |-> after(i)]
  BY LenProperties DEF FlushCancelled, TelemetryInv, RecordType
<1>2. ASSUME NEW i \in 1..Len(entry)
      PROVE  /\ after(i) \in EntryRecords
             /\ after(i).says = entry[i].says /\ after(i).by = entry[i].by
             /\ after(i).of = entry[i].of
             /\ after(i).span = entry[i].span
             /\ after(i).at \in Scheduled => entry[i].at \in Scheduled /\ i \notin flush[f].waits
  <2>1. entry[i] \in EntryRecords
    BY ElementOfSeq DEF TelemetryInv, RecordType
  <2>2. CASE i \in flush[f].waits /\ entry[i].at \in Scheduled
    BY <2>1, <2>2 DEF EntryRecords, Places, Scheduled, Over
  <2>3. CASE ~ (i \in flush[f].waits /\ entry[i].at \in Scheduled)
    BY <2>1, <2>3
  <2> QED
    BY <2>2, <2>3
<1> HIDE DEF after
<1>3. /\ DOMAIN entry' = DOMAIN entry
      /\ \A i \in DOMAIN entry : entry'[i] = after(i)
  BY <1>1
<1>4. entry' \in Seq(EntryRecords)
  <2>1. entry' \in [1..Len(entry) -> EntryRecords]
    BY <1>1, <1>2
  <2> QED
    BY <1>1, <2>1, SeqDef
<1>5. FlusherMoves
  BY <1>1, <1>2, <1>3, <1>4 DEF FlusherMoves
<1>6. /\ pending' = pending /\ DOMAIN flush' = Flushers /\ flush'[f] = ReadyFlusher
      /\ \A g \in Flushers : g # f => flush'[g] = flush[g]
  BY DEF FlushCancelled, TelemetryInv, FlushersInv
<1>7. EntriesInv'
  <2> SUFFICES ASSUME NEW i \in DOMAIN entry, entry'[i].at \in Scheduled, i \notin pending
               PROVE  WaitedFor(i)'
    BY <1>3, <1>6 DEF EntriesInv
  <2>1. entry[i].at \in Scheduled /\ i \notin flush[f].waits
    BY <1>1, <1>2, <1>3
  <2>2. PICK g \in Flushers : flush[g].pc = "waiting" /\ i \in flush[g].waits
    BY <2>1 DEF TelemetryInv, EntriesInv, WaitedFor
  <2> QED
    BY <1>6, <2>1, <2>2 DEF WaitedFor
<1>8. FlushersInv'
  BY <1>3, <1>6 DEF TelemetryInv, FlushersInv, ReadyFlusher
<1> QED
  BY <1>5, <1>7, <1>8

LEMMA FlushAgainKeepsFlushes ==
  ASSUME TelemetryInv, NEW f \in Flushers, FlushAgain(f)
  PROVE  EntriesInv' /\ FlushersInv'
<1>1. /\ flush[f].pc = "returned" /\ UNCHANGED <<entry, pending>>
      /\ DOMAIN flush' = Flushers /\ flush'[f] = ReadyFlusher
      /\ \A g \in Flushers : g # f => flush'[g] = flush[g]
  BY DEF FlushAgain, TelemetryInv, FlushersInv
<1>2. EntriesInv'
  BY <1>1 DEF TelemetryInv, EntriesInv, WaitedFor
<1>3. FlushersInv'
  BY <1>1 DEF TelemetryInv, FlushersInv, ReadyFlusher
<1> QED
  BY <1>2, <1>3

-----------------------------------------------------------------------------
(* Spans *)

\* The spans there were are no others now.
Numbered ==
  /\ started' \in Nat /\ Numbers \subseteq Numbers' /\ DOMAIN spans' \subseteq Numbers'
  /\ \A s \in DOMAIN spans' : spans'[s] \in Contexts
  /\ \A s \in Numbers \cap DOMAIN spans' : s \in DOMAIN spans /\ spans'[s] = spans[s]

\* What an entry about a span may say of it.
Says(says, c, of, span) ==
  /\ says = "span started" =>
       /\ span \in Numbers' /\ span \notin Numbers
       /\ span \in DOMAIN spans' => c = spans'[span]
  /\ says = "span completed" =>
       span \in DOMAIN spans /\ span \notin DOMAIN spans' /\ of = spans[span]

LEMMA SameKeepsSpans ==
  ASSUME TelemetryInv, FlusherMoves \/ UNCHANGED entry, UNCHANGED <<spans, started>>
  PROVE  RecordType' /\ SpansInv'
<1>1. /\ entry' \in Seq(EntryRecords) /\ DOMAIN entry' = DOMAIN entry
      /\ \A i \in DOMAIN entry :
           /\ entry'[i].says = entry[i].says /\ entry'[i].by = entry[i].by
           /\ entry'[i].of = entry[i].of
           /\ entry'[i].span = entry[i].span
  BY DEF FlusherMoves, TelemetryInv, RecordType
<1>2. RecordType'
  BY <1>1 DEF TelemetryInv, RecordType
<1>3. Numbers' = Numbers /\ spans' = spans
  BY DEF Numbers
<1>4. SpansInv'
  <2>1. \A i \in DOMAIN entry : SpanEntryInv(i)'
    BY <1>1, <1>3 DEF TelemetryInv, SpansInv, SpanEntryInv
  <2>2. SpansEndOnce'
    <3>1. SpansEndOnce
      BY DEF TelemetryInv, SpansInv
    <3> SUFFICES ASSUME NEW i \in DOMAIN entry', NEW j \in DOMAIN entry'
                 PROVE
        /\ entry'[i].says = "span completed" /\ entry'[j].says = "span completed"
             /\ entry'[i].span = entry'[j].span => i = j
        /\ entry'[i].says = "span started" /\ entry'[j].says = "span completed"
             /\ entry'[i].span = entry'[j].span => entry'[i].by = entry'[j].of
      BY DEF SpansEndOnce
    <3>2. /\ i \in DOMAIN entry /\ j \in DOMAIN entry
          /\ entry'[i].says = entry[i].says /\ entry'[i].by = entry[i].by
          /\ entry'[i].of = entry[i].of
          /\ entry'[i].span = entry[i].span
          /\ entry'[j].says = entry[j].says /\ entry'[j].of = entry[j].of
          /\ entry'[j].span = entry[j].span
      BY <1>1
    <3> QED
      BY <3>1, <3>2 DEF SpansEndOnce
  <2> QED
    BY <1>1, <1>3, <2>1, <2>2 DEF TelemetryInv, SpansInv
<1> QED
  BY <1>2, <1>4

LEMMA AddsKeepsSpans ==
  ASSUME TelemetryInv, NEW c \in Contexts, NEW of \in Contexts \union {""}, NEW span \in Nat,
         NEW says,
         Numbered, Says(says, c, of, span),
         Adds(says, c, of, span) \/ UNCHANGED entry
  PROVE  RecordType' /\ SpansInv'
<1>1. RecordType'
  BY DEF Adds, Numbered, TelemetryInv, RecordType
<1>2. Numbers \subseteq Numbers'
  BY DEF Numbered
<1>3. ASSUME NEW i \in DOMAIN entry, entry'[i] = entry[i] PROVE SpanEntryInv(i)'
  <2>1. SpanEntryInv(i)
    BY DEF TelemetryInv, SpansInv
  <2>2. CASE entry[i].says \in {"span started", "span completed"}
    <3>1. entry[i].span \in Numbers /\ entry[i].span \in Numbers'
      BY <1>2, <2>1, <2>2 DEF SpanEntryInv
    <3> QED
      BY <1>3, <2>1, <3>1 DEF SpanEntryInv, Numbered
  <2> QED
    BY <1>3, <2>2 DEF SpanEntryInv
<1>4. CASE UNCHANGED entry
  <2>1. \A i \in DOMAIN entry : SpanEntryInv(i)'
    BY <1>3, <1>4
  <2>2. SpansEndOnce'
    <3>1. SpansEndOnce /\ entry' = entry
      BY <1>4 DEF SpansInv, TelemetryInv
    <3> SUFFICES ASSUME NEW i \in DOMAIN entry', NEW j \in DOMAIN entry'
                 PROVE
        /\ entry'[i].says = "span completed" /\ entry'[j].says = "span completed"
             /\ entry'[i].span = entry'[j].span => i = j
        /\ entry'[i].says = "span started" /\ entry'[j].says = "span completed"
             /\ entry'[i].span = entry'[j].span => entry'[i].by = entry'[j].of
      BY DEF SpansEndOnce
    <3> QED
      BY <3>1 DEF SpansEndOnce
  <2>3. DOMAIN spans' \subseteq Numbers' /\ entry' = entry
    BY <1>4 DEF Numbered
  <2> QED
    BY <1>1, <2>1, <2>2, <2>3 DEF SpansInv
<1>5. CASE Adds(says, c, of, span)
  <2> DEFINE n == Len(entry) + 1
  <2>1. /\ DOMAIN entry' = DOMAIN entry \union {n} /\ n \notin DOMAIN entry
        /\ \A i \in DOMAIN entry : entry'[i] = entry[i]
        /\ entry'[n].says = says /\ entry'[n].by = c /\ entry'[n].of = of
        /\ entry'[n].span = span
    <3>1. /\ DOMAIN entry' = DOMAIN entry \union {n} /\ n \notin DOMAIN entry
          /\ \A i \in DOMAIN entry : entry'[i] = entry[i]
          /\ entry'[n] = [says |-> says, by |-> c, of |-> of, span |-> span,
                          at |-> "scheduled"]
      BY <1>5, Zenon DEF Adds
    <3> HIDE DEF n
    <3>2. PICK new : new = entry'[n]
      OBVIOUS
    <3>3. new.says = says /\ new.by = c /\ new.of = of /\ new.span = span
      <4>1. new = [says |-> says, by |-> c, of |-> of, span |-> span, at |-> "scheduled"]
        BY <3>1, <3>2
      <4> QED
        BY ONLY <4>1, EntryParts
    <3> QED
      BY <3>1, <3>2, <3>3
  <2> HIDE DEF n
  <2>2. ASSUME NEW i \in DOMAIN entry'
        PROVE  SpanEntryInv(i)'
    <3>1. CASE i \in DOMAIN entry
      BY <1>3, <2>1, <3>1
    <3>2. CASE i = n
      <4>1. says = "span completed" => span \in Numbers'
        BY <1>2 DEF Says, TelemetryInv, SpansInv
      <4> QED
        BY <2>1, <3>2, <4>1 DEF SpanEntryInv, Says
    <3> QED
      BY <2>1, <3>1, <3>2
  <2>3. ASSUME NEW i \in DOMAIN entry, SpanEntryInv(i)
        PROVE  /\ entry[i].says = "span completed" /\ says = "span completed"
                    => entry[i].span # span
               /\ entry[i].says = "span started" /\ says = "span completed"
                    /\ entry[i].span = span => entry[i].by = of
               /\ says = "span started" /\ entry[i].says = "span completed"
                    => entry[i].span # span
    <3>1. says = "span started" /\ entry[i].says = "span completed" => entry[i].span # span
      BY <1>2, <2>3 DEF SpanEntryInv, Says
    <3> QED
      BY <2>3, <3>1 DEF SpanEntryInv, Says
  <2>4. \A i \in DOMAIN entry : SpanEntryInv(i)
    BY DEF TelemetryInv, SpansInv
  <2>5. SpansEndOnce'
    <3> SUFFICES ASSUME NEW i \in DOMAIN entry', NEW j \in DOMAIN entry'
                 PROVE
        /\ entry'[i].says = "span completed" /\ entry'[j].says = "span completed"
             /\ entry'[i].span = entry'[j].span => i = j
        /\ entry'[i].says = "span started" /\ entry'[j].says = "span completed"
             /\ entry'[i].span = entry'[j].span => entry'[i].by = entry'[j].of
      BY DEF SpansEndOnce
    <3>1. CASE i \in DOMAIN entry /\ j \in DOMAIN entry
      BY <2>1, <3>1 DEF TelemetryInv, SpansInv, SpansEndOnce
    <3>2. CASE i \in DOMAIN entry /\ j = n
      BY <2>1, <2>3, <2>4, <3>2
    <3>3. CASE i = n /\ j \in DOMAIN entry
      BY <2>1, <2>3, <2>4, <3>3
    <3>4. CASE i = n /\ j = n
      BY <2>1, <3>4
    <3> QED
      BY <2>1, <3>1, <3>2, <3>3, <3>4
  <2> QED
    <3>1. DOMAIN spans' \subseteq Numbers'
      BY DEF Numbered
    <3> QED
      BY <1>1, <2>2, <2>5, <3>1 DEF SpansInv
<1> QED
  BY <1>1, <1>4, <1>5

LEMMA LogKeepsInv ==
  ASSUME TelemetryInv, NEW c \in Contexts, NEW level, Log(c, level)
  PROVE  TelemetryInv'
<1>1. Record(c, level, "message", "", 0) /\ UNCHANGED <<spans, started, flush>>
  BY DEF Log
<1>2. UNCHANGED <<entry, pending>> \/ Adds("message", c, "", 0)
  BY <1>1, RecordFacts DEF TelemetryInv
<1>3. Numbered /\ Says("message", c, "", 0)
  BY <1>1 DEF Numbered, Numbers, Says, TelemetryInv, RecordType, SpansInv
<1> QED
  BY <1>1, <1>2, <1>3, AddsKeepsSpans, RecordKeepsFlushes DEF TelemetryInv

LEMMA StartSpanKeepsInv ==
  ASSUME TelemetryInv, NEW c \in Contexts, StartSpan(c)
  PROVE  TelemetryInv'
<1>1. /\ Record(c, "DEBUG", "span started", "", started') /\ flush' = flush
      /\ started \in Nat /\ started' = started + 1 /\ started' \in DOMAIN spans'
      /\ DOMAIN spans' = DOMAIN spans \union {started'}
      /\ \A s \in DOMAIN spans' : spans'[s] = IF s = started' THEN c ELSE spans[s]
  BY DEF StartSpan, TelemetryInv, RecordType
<1>2. /\ started' \in Nat /\ Numbers' = Numbers \union {started'}
      /\ started' \notin Numbers
  <2>1. started \in Nat /\ started' = started + 1
    BY <1>1
  <2> QED
    BY <2>1, Interval DEF Numbers
<1>3. UNCHANGED <<entry, pending>> \/ Adds("span started", c, "", started')
  BY <1>1, <1>2, RecordFacts DEF TelemetryInv
<1>4. Numbered
  <2>1. DOMAIN spans \subseteq Numbers /\ \A s \in DOMAIN spans : spans[s] \in Contexts
    BY DEF TelemetryInv, RecordType, SpansInv
  <2> QED
    BY <1>1, <1>2, <2>1, Zenon DEF Numbered
<1>5. Says("span started", c, "", started')
  BY <1>1, <1>2, Zenon DEF Says
<1> QED
  BY <1>1, <1>2, <1>3, <1>4, <1>5, AddsKeepsSpans, RecordKeepsFlushes DEF TelemetryInv

LEMMA EndSpanKeepsInv ==
  ASSUME TelemetryInv, NEW c \in Contexts, NEW s \in Nat, EndSpan(c, s)
  PROVE  TelemetryInv'
<1>1. /\ started' = started /\ flush' = flush
      /\ spans' = [x \in DOMAIN spans \ {s} |-> spans[x]]
  BY DEF EndSpan
<1>2. Numbered
  BY <1>1 DEF Numbered, Numbers, TelemetryInv, RecordType, SpansInv
<1>3. CASE s \in DOMAIN spans
  <2>1. spans[s] \in Contexts /\ Record(c, "DEBUG", "span completed", spans[s], s)
    BY <1>3 DEF EndSpan, TelemetryInv, RecordType
  <2>2. UNCHANGED <<entry, pending>> \/ Adds("span completed", c, spans[s], s)
    BY <2>1, RecordFacts DEF TelemetryInv
  <2>3. Says("span completed", c, spans[s], s)
    BY <1>1, <1>3 DEF Says
  <2> QED
    BY <1>1, <1>2, <2>1, <2>2, <2>3, AddsKeepsSpans, RecordKeepsFlushes DEF TelemetryInv
<1>4. CASE s \notin DOMAIN spans
  <2>1. Record(c, "WARNING", "span not found", "", s)
    BY <1>4 DEF EndSpan
  <2>2. UNCHANGED <<entry, pending>> \/ Adds("span not found", c, "", s)
    BY <2>1, RecordFacts DEF TelemetryInv
  <2>3. Says("span not found", c, "", s)
    BY DEF Says
  <2> QED
    BY <1>1, <1>2, <2>1, <2>2, <2>3, AddsKeepsSpans, RecordKeepsFlushes DEF TelemetryInv
<1> QED
  BY <1>3, <1>4

-----------------------------------------------------------------------------
(* The invariant *)

LEMMA TelemetryInvInit == TelemetryInit => TelemetryInv
<1> SUFFICES ASSUME TelemetryInit PROVE TelemetryInv
  OBVIOUS
<1>1. RecordType
  BY EmptySeq DEF TelemetryInit, RecordType
<1>2. DOMAIN entry = {}
  BY EmptySeq, LenProperties DEF TelemetryInit
<1>3. EntriesInv /\ SpansInv
  BY <1>2 DEF TelemetryInit, EntriesInv, SpansInv, SpansEndOnce
<1>4. FlushersInv
  BY DEF TelemetryInit, FlushersInv, ReadyFlusher
<1> QED
  BY <1>1, <1>3, <1>4 DEF TelemetryInv

LEMMA TelemetryInvStep == TelemetryInv /\ [TelemetryNext]_telemetryVars => TelemetryInv'
<1> SUFFICES ASSUME TelemetryInv, [TelemetryNext]_telemetryVars PROVE TelemetryInv'
  OBVIOUS
<1>1. ASSUME NEW c \in Contexts, NEW level \in ToSet(Levels), Log(c, level)
      PROVE  TelemetryInv'
  BY <1>1, LogKeepsInv
<1>2. ASSUME NEW c \in Contexts, StartSpan(c) PROVE TelemetryInv'
  BY <1>2, StartSpanKeepsInv
<1>3. ASSUME NEW c \in Contexts, NEW s \in 0..MaxSpans, EndSpan(c, s)
      PROVE  TelemetryInv'
  <2>1. s \in 0..MaxSpans => s \in Nat
    OBVIOUS
  <2> QED
    BY <1>3, <2>1, EndSpanKeepsInv
<1>4. ASSUME NEW i \in 1..Len(entry), Open(i) PROVE TelemetryInv'
  BY <1>4, OpenKeepsFlushes, SameKeepsSpans DEF Open, TelemetryInv
<1>5. ASSUME NEW i \in 1..Len(entry), Write(i) \/ WriteFails(i) PROVE TelemetryInv'
  <2>1. PICK place \in Over : Ends(i, place)
    BY <1>5 DEF Write, WriteFails, Over
  <2>2. UNCHANGED <<spans, started>>
    BY <2>1 DEF Ends
  <2> QED
    BY <2>1, <2>2, EndsKeepsFlushes, SameKeepsSpans DEF TelemetryInv
<1>6. ASSUME NEW f \in Flushers, Flush(f) PROVE TelemetryInv'
  BY <1>6, FlushKeepsFlushes, SameKeepsSpans DEF Flush, TelemetryInv
<1>7. ASSUME NEW f \in Flushers, FlushReturns(f) PROVE TelemetryInv'
  BY <1>7, FlushReturnsKeepsFlushes, SameKeepsSpans DEF FlushReturns, TelemetryInv
<1>8. ASSUME NEW f \in Flushers, FlushCancelled(f) PROVE TelemetryInv'
  BY <1>8, FlushCancelledKeepsFlushes, SameKeepsSpans DEF FlushCancelled, TelemetryInv
<1>9. ASSUME NEW f \in Flushers, FlushAgain(f) PROVE TelemetryInv'
  BY <1>9, FlushAgainKeepsFlushes, SameKeepsSpans DEF FlushAgain, TelemetryInv
<1>10. CASE UNCHANGED telemetryVars
  <2>1. UNCHANGED <<entry, pending, flush, spans, started>>
    BY <1>10 DEF telemetryVars
  <2>2. EntriesInv' /\ FlushersInv'
    BY <2>1 DEF TelemetryInv, EntriesInv, WaitedFor, FlushersInv
  <2> QED
    BY <2>1, <2>2, SameKeepsSpans DEF TelemetryInv
<1> QED
  BY <1>1, <1>2, <1>3, <1>4, <1>5, <1>6, <1>7, <1>8, <1>9, <1>10 DEF TelemetryNext

LEMMA TelemetryInvHolds == TelemetrySpec => []TelemetryInv
BY TelemetryInvInit, TelemetryInvStep, PTL DEF TelemetrySpec

-----------------------------------------------------------------------------
\* When flush returns, what was recorded before it was called is in the file
\* or lost, or another flush waits for it (local_file_adapter flush).
THEOREM FlushCoversHolds == TelemetrySpec => []FlushCovers
<1>1. TelemetryInv => FlushCovers
  <2> SUFFICES ASSUME TelemetryInv, NEW f \in Flushers, flush[f].pc = "returned",
                      NEW i \in flush[f].before, entry[i].at \notin Over
               PROVE  \E g \in Flushers \ {f} : flush[g].pc = "waiting" /\ i \in flush[g].waits
    BY DEF FlushCovers
  <2>1. i \in DOMAIN entry /\ i \notin pending
    BY DEF TelemetryInv, FlushersInv
  <2>2. entry[i] \in EntryRecords
    BY <2>1, ElementOfSeq, LenProperties DEF TelemetryInv, RecordType
  <2>3. entry[i].at \in Scheduled
    BY <2>2 DEF EntryRecords, Places
  <2>4. PICK g \in Flushers : flush[g].pc = "waiting" /\ i \in flush[g].waits
    BY <2>1, <2>3 DEF TelemetryInv, EntriesInv, WaitedFor
  <2> QED
    BY <2>4
<1> QED
  BY <1>1, TelemetryInvHolds, PTL

\* A span is completed once, and the data of the entry of its completion name
\* the request that started it (local_file_adapter start_span and end_span).
THEOREM SpansEndOnceHolds == TelemetrySpec => []SpansEndOnce
<1>1. TelemetryInv => SpansEndOnce
  BY DEF TelemetryInv, SpansInv
<1> QED
  BY <1>1, TelemetryInvHolds, PTL

-----------------------------------------------------------------------------
(* The research steps.                                                     *)
(* Types, as far as they matter *)
IsWork(w) == "pc" \in DOMAIN w
IsSynthesis(s) == "is" \in DOMAIN s /\ "prompt" \in DOMAIN s

WorkType ==
  /\ DOMAIN work = Tasks /\ \A t \in Tasks : IsWork(work[t])
  /\ DOMAIN results = Runs /\ DOMAIN since = Runs
  /\ DOMAIN synthesis = Runs /\ \A r \in Runs : IsSynthesis(synthesis[r])

(***************************************************************************)
(* A run has collected the results of its steps that are done.  The runs   *)
(* that published from a run's own bundle to its synthesis have no step    *)
(* under way, so their bundles are the same for good; the last one is one  *)
(* of theirs while the run has not gone on, and its prompt is afterwards.  *)
(***************************************************************************)
Done(r) == {s \in Steps : work[<<r, s>>].pc = "done"}

ResultsInv == \A r \in Runs : results[r] = Done(r)

RunInv(r) ==
  synthesis[r].is # "none" =>
    /\ since[r] \subseteq Runs /\ \A q \in since[r] : Finished(q)
    /\ synthesis[r].is = "published" => \E q \in since[r] : lastBundle = Bundle(q)
    /\ Prompted(r) => \E q \in since[r] : synthesis[r].prompt = Flattened(Bundle(q))

StepsInv == WorkType /\ ResultsInv /\ \A r \in Runs : RunInv(r)

-----------------------------------------------------------------------------
(* The sequence of a set *)

LEMMA SetAsSequence ==
  ASSUME NEW S, IsFiniteSet(S)
  PROVE  ToSet(SetToSeq(S)) = S /\ Len(SetToSeq(S)) = Cardinality(S)
<1> DEFINE n == Cardinality(S)
           f == SetToSeq(S)
<1>1. n \in Nat /\ ExistsBijection(1..n, S)
  BY FS_CardinalityType
<1>2. \E g \in [1..n -> S] : IsInjective(g)
  BY <1>1 DEF ExistsBijection, Bijection, Injection
<1>3. f \in [1..n -> S] /\ IsInjective(f)
  BY <1>2 DEF SetToSeq
<1> HIDE DEF f
<1>4. f \in Surjection(1..n, S)
  <2>1. f \in Injection(1..n, S)
    BY <1>3 DEF Injection
  <2>2. Cardinality(1..n) = n
    BY <1>1, FS_Interval
  <2> QED
    BY <2>1, <2>2, FS_Injection
<1>5. DOMAIN f = 1..n /\ \A x \in S : \E i \in 1..n : f[i] = x
  BY <1>3, <1>4 DEF Surjection
<1>6. ToSet(f) = S
  BY <1>3, <1>5 DEF ToSet
<1>7. Len(f) = n
  BY <1>1, <1>3, <1>5, LenProperties, SeqDef
<1> QED
  BY <1>6, <1>7 DEF f

LEMMA FlattenedHolds ==
  ASSUME NEW r, results[r] \in SUBSET Steps, IsFiniteSet(Steps)
  PROVE  /\ ToSet(Flattened(Bundle(r))) = Bundle(r)
         /\ Len(Flattened(Bundle(r))) = Cardinality(Bundle(r))
<1> DEFINE all == Bundle(r)
           g == [step \in results[r] |-> <<"result", r, step>>]
<1>1. g \in Surjection(results[r], all)
  BY DEF Surjection, Bundle
<1>2. IsFiniteSet(all)
  BY <1>1, FS_Subset, FS_Surjection
<1> HIDE DEF all
<1>3. ToSet(SetToSeq(all)) = all /\ Len(SetToSeq(all)) = Cardinality(all)
  BY <1>2, SetAsSequence
<1> QED
  BY <1>3 DEF Flattened, all

-----------------------------------------------------------------------------
(* What a step makes of a task *)
TaskMoves(t, pc) ==
  /\ DOMAIN work' = Tasks /\ IsWork(work'[t]) /\ work'[t].pc = pc
  /\ \A u \in Tasks : u # t => work'[u] = work[u]

LEMMA SetWork ==
  ASSUME WorkType, NEW t \in Tasks, NEW new, IsWork(new), work' = [work EXCEPT ![t] = new],
         NEW pc, new.pc = pc
  PROVE  TaskMoves(t, pc)
BY DEF WorkType, TaskMoves

\* The three ways in which the code sets the fields of a task.
LEMMA SetPc ==
  ASSUME WorkType, NEW t \in Tasks, NEW pc,
         work' = [work EXCEPT ![t] = [work[t] EXCEPT !.pc = pc]]
  PROVE  TaskMoves(t, pc)
<1>1. PICK new : new = [work[t] EXCEPT !.pc = pc]
  OBVIOUS
<1>2. IsWork(new) /\ new.pc = pc
  BY <1>1 DEF WorkType, IsWork
<1> QED
  BY <1>1, <1>2, SetWork

LEMMA SetCategory ==
  ASSUME WorkType, NEW t \in Tasks, NEW pc, NEW category,
         work' = [work EXCEPT ![t] = [work[t] EXCEPT !.pc = pc, !.category = category]]
  PROVE  TaskMoves(t, pc)
<1>1. PICK new : new = [work[t] EXCEPT !.pc = pc, !.category = category]
  OBVIOUS
<1>2. IsWork(new) /\ new.pc = pc
  BY <1>1 DEF WorkType, IsWork
<1> QED
  BY <1>1, <1>2, SetWork

LEMMA SetPrompt ==
  ASSUME WorkType, NEW t \in Tasks, NEW pc, NEW found, NEW prompt,
         work' = [work EXCEPT ![t] = [[work[t] EXCEPT !.found = found] EXCEPT
                                        !.pc = pc, !.prompt = prompt]]
  PROVE  TaskMoves(t, pc)
<1>1. PICK new : new = [[work[t] EXCEPT !.found = found] EXCEPT !.pc = pc, !.prompt = prompt]
  OBVIOUS
<1>2. IsWork(new) /\ new.pc = pc
  BY <1>1 DEF WorkType, IsWork
<1> QED
  BY <1>1, <1>2, SetWork

\* What no step of a run that is over has changed.
LEMMA RunFrame ==
  ASSUME NEW r \in Runs, RunInv(r), synthesis'[r] = synthesis[r], since'[r] = since[r],
         lastBundle' = lastBundle \/ synthesis[r].is # "published",
         \A q \in Runs : Finished(q) => Finished(q)' /\ results'[q] = results[q]
  PROVE  RunInv(r)'
<1>1. \A q \in Runs : Finished(q) => Bundle(q)' = Bundle(q)
  BY DEF Bundle
<1>2. Prompted(r)' = Prompted(r)
  BY DEF Prompted
<1> QED
  BY <1>1, <1>2 DEF RunInv, Flattened

\* A task that is not over goes on, or fails.
LEMMA MoveKeepsInv ==
  ASSUME StepsInv, NEW t \in Tasks, NEW pc, pc # "done", TaskMoves(t, pc),
         work[t].pc \notin {"done", "failed"}, UNCHANGED bundleVars
  PROVE  StepsInv'
<1>1. WorkType'
  BY DEF TaskMoves, StepsInv, WorkType, bundleVars
<1>2. PICK run \in Runs, step \in Steps : t = <<run, step>>
  BY DEF Tasks
<1>3. ASSUME NEW r \in Runs PROVE Done(r)' = Done(r)
  <2>1. \A s \in Steps : work'[<<r, s>>].pc = "done" <=> work[<<r, s>>].pc = "done"
    BY DEF TaskMoves, Tasks
  <2> QED
    BY <2>1 DEF Done
<1>4. ResultsInv'
  BY <1>3 DEF StepsInv, ResultsInv, bundleVars
<1>5. ASSUME NEW q \in Runs, Finished(q) PROVE Finished(q)'
  <2>1. \A s \in Steps : <<q, s>> # t /\ <<q, s>> \in Tasks
    BY <1>5 DEF Finished, Tasks
  <2> QED
    BY <1>5, <2>1 DEF Finished, TaskMoves
<1>6. \A r \in Runs : RunInv(r)'
  BY <1>5, RunFrame DEF StepsInv, bundleVars
<1> QED
  BY <1>1, <1>4, <1>6 DEF StepsInv

LEMMA ReturnKeepsInv ==
  ASSUME StepsInv, NEW t \in Tasks, StepReturns(t)
  PROVE  StepsInv'
<1>1. PICK run \in Runs, step \in Steps : t = <<run, step>>
  BY DEF Tasks
<1>2. /\ t[1] = run /\ t[2] = step
  BY <1>1
<1>3. TaskMoves(t, "done") /\ work[t].pc = "asking"
  <2>1. work' = [work EXCEPT ![t] = [work[t] EXCEPT !.pc = "done"]] /\ work[t].pc = "asking"
    BY DEF StepReturns
  <2> QED
    BY <2>1, SetPc DEF StepsInv
<1>4. /\ results'[run] = results[run] \union {step} /\ DOMAIN results' = Runs
      /\ \A r \in Runs : r # run => results'[r] = results[r]
      /\ UNCHANGED <<lastBundle, synthesis, since>>
  BY <1>2 DEF StepReturns, StepsInv, WorkType
<1>5. WorkType'
  BY <1>3, <1>4 DEF TaskMoves, StepsInv, WorkType
<1>6. ASSUME NEW r \in Runs, r # run PROVE Done(r)' = Done(r)
  BY <1>1, <1>3, <1>6 DEF TaskMoves, Done, Tasks
<1>7. Done(run)' = Done(run) \union {step}
  BY <1>1, <1>3 DEF TaskMoves, Done, Tasks
<1>8. ResultsInv'
  BY <1>4, <1>6, <1>7 DEF StepsInv, ResultsInv
<1>9. ASSUME NEW q \in Runs, Finished(q) PROVE Finished(q)' /\ results'[q] = results[q]
  <2>1. q # run
    BY <1>1, <1>3, <1>9 DEF Finished
  <2>2. \A s \in Steps : <<q, s>> # t /\ <<q, s>> \in Tasks
    BY <1>1, <2>1 DEF Tasks
  <2> QED
    BY <1>3, <1>4, <1>9, <2>1, <2>2 DEF Finished, TaskMoves
<1>10. \A r \in Runs : RunInv(r)'
  BY <1>4, <1>9, RunFrame DEF StepsInv
<1> QED
  BY <1>5, <1>8, <1>10 DEF StepsInv

\* Who waits for its synthesis may from now on find the bundle of r.
LEMMA PublishKeepsInv ==
  ASSUME StepsInv, NEW r \in Runs, Publish(r)
  PROVE  StepsInv'
<1>1. /\ UNCHANGED <<work, results>> /\ Finished(r) /\ lastBundle' = Bundle(r)
      /\ synthesis[r].is = "none"
      /\ DOMAIN synthesis' = Runs /\ DOMAIN since' = Runs
      /\ IsSynthesis(synthesis'[r]) /\ synthesis'[r].is = "published"
      /\ \A q \in Runs : q # r => synthesis'[q] = synthesis[q]
      /\ since'[r] = {r}
      /\ \A q \in Runs : q # r /\ synthesis[q].is = "published" =>
                            since'[q] = since[q] \union {r}
      /\ \A q \in Runs : q # r /\ synthesis[q].is # "published" => since'[q] = since[q]
  BY DEF Publish, Publishes, StepsInv, WorkType, IsSynthesis
<1>2. WorkType'
  BY <1>1 DEF StepsInv, WorkType
<1>3. ResultsInv'
  BY <1>1 DEF StepsInv, ResultsInv, Done
<1>4. \A q : Finished(q)' = Finished(q) /\ Bundle(q)' = Bundle(q)
  BY <1>1 DEF Finished, Bundle
<1>5. ASSUME NEW q \in Runs PROVE RunInv(q)'
  <2>1. CASE q = r \/ synthesis[q].is = "published"
    <3>1. synthesis'[q].is = "published" /\ r \in since'[q] /\ lastBundle' = Bundle(r)'
      BY <1>1, <1>4, <2>1
    <3>2. since'[q] \subseteq Runs /\ \A p \in since'[q] : Finished(p)'
      BY <1>1, <1>4, <2>1 DEF StepsInv, RunInv
    <3>3. ~ Prompted(q)'
      BY <3>1 DEF Prompted
    <3> QED
      BY <3>1, <3>2, <3>3 DEF RunInv
  <2>2. CASE q # r /\ synthesis[q].is # "published"
    BY <1>1, <1>4, <2>2, RunFrame DEF StepsInv
  <2> QED
    BY <2>1, <2>2
<1> QED
  BY <1>2, <1>3, <1>5 DEF StepsInv

LEMMA SynthesizeKeepsInv ==
  ASSUME StepsInv, NEW r \in Runs, Synthesize(r)
  PROVE  StepsInv'
<1>1. /\ UNCHANGED <<work, results, lastBundle, since>> /\ synthesis[r].is = "published"
      /\ DOMAIN synthesis' = Runs
      /\ synthesis'[r] = [is |-> "asking", prompt |-> Flattened(lastBundle)]
      /\ \A q \in Runs : q # r => synthesis'[q] = synthesis[q]
  BY DEF Synthesize, StepsInv, WorkType
<1>2. WorkType'
  BY <1>1 DEF StepsInv, WorkType, IsSynthesis
<1>3. ResultsInv'
  BY <1>1 DEF StepsInv, ResultsInv, Done
<1>4. \A q : Finished(q)' = Finished(q) /\ Bundle(q)' = Bundle(q)
  BY <1>1 DEF Finished, Bundle
<1>5. \A q \in Runs : q # r => RunInv(q)'
  BY <1>1, <1>4, RunFrame DEF StepsInv
<1>6. RunInv(r)'
  <2>1. /\ since[r] \subseteq Runs /\ \A q \in since[r] : Finished(q)
        /\ \E q \in since[r] : lastBundle = Bundle(q)
    BY <1>1 DEF StepsInv, RunInv
  <2>2. \E q \in since[r] : synthesis'[r].prompt = Flattened(Bundle(q))
    BY <1>1, <2>1
  <2>3. synthesis'[r].is = "asking"
    BY <1>1
  <2> QED
    BY <1>1, <1>4, <2>1, <2>2, <2>3 DEF RunInv, Flattened
<1> QED
  BY <1>2, <1>3, <1>5, <1>6 DEF StepsInv

LEMMA SynthesisEndsKeepsInv ==
  ASSUME StepsInv, NEW r \in Runs, NEW how \in {"brief", "SynthesisError"},
         SynthesisEnds(r, how)
  PROVE  StepsInv'
<1>1. /\ UNCHANGED <<work, results, lastBundle, since>> /\ synthesis[r].is = "asking"
      /\ DOMAIN synthesis' = Runs
      /\ IsSynthesis(synthesis'[r]) /\ synthesis'[r].prompt = synthesis[r].prompt
      /\ synthesis'[r].is = how
      /\ \A q \in Runs : q # r => synthesis'[q] = synthesis[q]
  BY DEF SynthesisEnds, StepsInv, WorkType, IsSynthesis
<1>2. WorkType'
  BY <1>1 DEF StepsInv, WorkType
<1>3. ResultsInv'
  BY <1>1 DEF StepsInv, ResultsInv, Done
<1>4. \A q : Finished(q)' = Finished(q) /\ Bundle(q)' = Bundle(q)
  BY <1>1 DEF Finished, Bundle
<1>5. \A q \in Runs : q # r => RunInv(q)'
  BY <1>1, <1>4, RunFrame DEF StepsInv
<1>6. RunInv(r)'
  BY <1>1, <1>4 DEF StepsInv, RunInv, Prompted, Flattened
<1> QED
  BY <1>2, <1>3, <1>5, <1>6 DEF StepsInv

-----------------------------------------------------------------------------
(* The invariant *)

LEMMA StepsInvInit == StepsInit => StepsInv
<1> SUFFICES ASSUME StepsInit PROVE StepsInv
  OBVIOUS
<1>1. \A t \in Tasks : work[t] = Fresh
  BY DEF StepsInit
<1>2. WorkType
  BY <1>1 DEF StepsInit, WorkType, Fresh, IsWork, IsSynthesis
<1>3. ResultsInv
  BY <1>1 DEF StepsInit, ResultsInv, Done, Fresh, Tasks
<1>4. \A r \in Runs : RunInv(r)
  BY DEF StepsInit, RunInv
<1> QED
  BY <1>2, <1>3, <1>4 DEF StepsInv

LEMMA StepsInvStep == StepsInv /\ [StepsNext]_stepsVars => StepsInv'
<1> SUFFICES ASSUME StepsInv, [StepsNext]_stepsVars PROVE StepsInv'
  OBVIOUS
<1>1. ASSUME NEW t \in Tasks, BeginStep(t) PROVE StepsInv'
  <2>1. PICK pc \in {"classifying", "searching"} : TaskMoves(t, pc)
    BY <1>1 DEF BeginStep, Asking, TaskMoves, StepsInv, WorkType, IsWork
  <2> QED
    BY <1>1, <2>1, MoveKeepsInv DEF BeginStep
<1>2. ASSUME NEW t \in Tasks, NEW answer, Classify(t, answer) PROVE StepsInv'
  <2>1. TaskMoves(t, "searching")
    <3>1. PICK category : work' = [work EXCEPT ![t] =
                 [work[t] EXCEPT !.pc = "searching", !.category = category]]
      BY <1>2 DEF Classify, Asking
    <3> QED
      BY <3>1, SetCategory DEF StepsInv
  <2> QED
    BY <1>2, <2>1, MoveKeepsInv DEF Classify
<1>3. ASSUME NEW t \in Tasks, NEW something, SearchReturns(t, something) PROVE StepsInv'
  <2>1. PICK found, prompt :
          work' = [work EXCEPT ![t] = [[work[t] EXCEPT !.found = found] EXCEPT
                                         !.pc = "asking", !.prompt = prompt]]
    BY <1>3, Zenon DEF SearchReturns
  <2>2. TaskMoves(t, "asking")
    BY <2>1, SetPrompt DEF StepsInv
  <2> QED
    BY <1>3, <2>2, MoveKeepsInv DEF SearchReturns
<1>4. ASSUME NEW t \in Tasks, StepReturns(t) PROVE StepsInv'
  BY <1>4, ReturnKeepsInv
<1>5. ASSUME NEW t \in Tasks, StepFails(t) PROVE StepsInv'
  <2>1. TaskMoves(t, "failed")
    <3>1. work' = [work EXCEPT ![t] = [work[t] EXCEPT !.pc = "failed"]]
      BY <1>5 DEF StepFails
    <3> QED
      BY <3>1, SetPc DEF StepsInv
  <2> QED
    BY <1>5, <2>1, MoveKeepsInv DEF StepFails
<1>6. ASSUME NEW r \in Runs, Synthesize(r) PROVE StepsInv'
  BY <1>6, SynthesizeKeepsInv
<1>7. ASSUME NEW r \in Runs, NEW how \in {"brief", "SynthesisError"}, SynthesisEnds(r, how)
      PROVE  StepsInv'
  BY <1>7, SynthesisEndsKeepsInv
<1>8. CASE UNCHANGED stepsVars
  <2>1. \A q : Finished(q)' = Finished(q) /\ Bundle(q)' = Bundle(q)
    BY <1>8 DEF stepsVars, bundleVars, Finished, Bundle
  <2>2. \A r \in Runs : RunInv(r)'
    BY <1>8, <2>1, RunFrame DEF stepsVars, bundleVars, StepsInv
  <2> QED
    BY <1>8, <2>2 DEF stepsVars, bundleVars, StepsInv, WorkType, ResultsInv, Done
<1>9. ASSUME NEW r \in Runs, Publish(r) PROVE StepsInv'
  BY <1>9, PublishKeepsInv
<1> QED
  BY <1>1, <1>2, <1>3, <1>4, <1>5, <1>6, <1>7, <1>8, <1>9 DEF StepsNext

-----------------------------------------------------------------------------
\* The prompt of a synthesis has a finding for each step that succeeded in
\* one run, once, and for no other: in its own run, unless others published
\* their bundles between its own and its synthesis, in its own or one of
\* theirs then (brief_generation_pipeline.py, last_bundle).
THEOREM SynthesisKnowsResultsHolds ==
  ASSUME IsFiniteSet(Steps)
  PROVE  StepsSpec => []SynthesisKnowsResults
<1>1. StepsInv => SynthesisKnowsResults
  <2> SUFFICES ASSUME StepsInv, NEW r \in Runs, Prompted(r)
               PROVE
        /\ \E q \in since[r] : ToSet(synthesis[r].prompt) =
             {<<"result", q, step>> : step \in {s \in Steps : work[<<q, s>>].pc = "done"}}
        /\ Len(synthesis[r].prompt) = Cardinality(ToSet(synthesis[r].prompt))
    BY DEF SynthesisKnowsResults
  <2>1. PICK q \in since[r] : synthesis[r].prompt = Flattened(Bundle(q))
    BY DEF StepsInv, RunInv, Prompted
  <2>2. q \in Runs
    BY <2>1 DEF StepsInv, RunInv, Prompted
  <2>3. results[q] = Done(q)
    BY <2>2 DEF StepsInv, ResultsInv
  <2>4. results[q] \in SUBSET Steps
    BY <2>3 DEF Done
  <2>5. /\ ToSet(Flattened(Bundle(q))) = Bundle(q)
        /\ Len(Flattened(Bundle(q))) = Cardinality(Bundle(q))
    BY <2>4, FlattenedHolds
  <2>6. Bundle(q) = {<<"result", q, step>> : step \in Done(q)}
    BY <2>3 DEF Bundle
  <2> QED
    BY <2>1, <2>5, <2>6 DEF Done
<1>2. StepsSpec => []StepsInv
  BY StepsInvInit, StepsInvStep, PTL DEF StepsSpec
<1> QED
  BY <1>1, <1>2, PTL

-----------------------------------------------------------------------------
(* Prompts: texts of the parts in T, of which the placeholders of some keys *)
(* are filled with their values.                                           *)
AreParts(T, keys, value) ==
  /\ \A x \in T : IsPart(x)
  /\ keys \in Seq(ToSet(keys)) /\ DOMAIN value = ToSet(keys)
  /\ \A key \in ToSet(keys) : value[key] \in Seq(T)

Filling(A, value, T) ==
  [x \in T |-> IF x[1] = "slot" /\ x[2] \in A THEN value[x[2]] ELSE <<x>>]

LEMMA FillingType ==
  ASSUME NEW T, NEW keys, NEW value, AreParts(T, keys, value), NEW A \in SUBSET ToSet(keys)
  PROVE  IsExpansion(Filling(A, value, T), T, T)
<1>1. ASSUME NEW x \in T
      PROVE (IF x[1] = "slot" /\ x[2] \in A THEN value[x[2]] ELSE <<x>>) \in Seq(T)
  <2>1. PICK o : o = <<x>>
    OBVIOUS
  <2>2. o \in Seq(T)
    BY <2>1, MembersOfOne
  <2>3. x[2] \in A => value[x[2]] \in Seq(T)
    BY DEF AreParts
  <2> QED
    BY <2>1, <2>2, <2>3
<1> QED
  BY <1>1 DEF IsExpansion, Filling

\* Replace fills the placeholders of one key.
LEMMA ReplaceIsFilling ==
  ASSUME NEW T, NEW keys, NEW value, AreParts(T, keys, value),
         NEW text \in Seq(T), NEW key \in ToSet(keys)
  PROVE  Replace(text, key, value[key]) = Expanded(text, Filling({key}, value, T))
<1>1. PICK h : h = Filling({key}, value, T)
  OBVIOUS
<1>2. ASSUME NEW i \in DOMAIN text
      PROVE (IF text[i] = <<"slot", key>> THEN value[key] ELSE <<text[i]>>) = h[text[i]]
  <2>1. PICK x : x = text[i]
    OBVIOUS
  <2>2. x \in T
    BY <2>1, LenProperties, ElementOfSeq
  <2>3. x = <<"slot", key>> <=> x[1] = "slot" /\ x[2] = key
    BY <2>2 DEF AreParts, IsPart
  <2>4. PICK o : o = <<x>>
    OBVIOUS
  <2>5. h[x] = IF x[1] = "slot" /\ x[2] \in {key} THEN value[x[2]] ELSE o
    BY <1>1, <2>2, <2>4 DEF Filling
  <2> QED
    BY <2>1, <2>3, <2>4, <2>5
<1>3. [i \in DOMAIN text |-> IF text[i] = <<"slot", key>> THEN value[key] ELSE <<text[i]>>]
        = Replaced(text, h)
  BY <1>2 DEF Replaced
<1> QED
  BY <1>1, <1>3 DEF Replace, Expanded

Repeats(f, template, keys, value) ==
  \A i \in 0 .. Len(keys) :
    f[i] = IF i = 0 THEN template ELSE Replace(f[i - 1], keys[i], value[keys[i]])

LEMMA BuildPromptRepeats ==
  ASSUME NEW T, NEW keys, NEW value, AreParts(T, keys, value), NEW template \in Seq(T)
  PROVE  \E f \in [0 .. Len(keys) -> Seq(T)] :
           Repeats(f, template, keys, value) /\ BuildPrompt(template, keys, value) = f[Len(keys)]
<1> DEFINE Rec(f) == f = [i \in 0 .. Len(keys) |-> IF i = 0 THEN template
                            ELSE Replace(f[i - 1], keys[i], value[keys[i]])]
<1>1. PICK step : step = [i \in 1 .. Len(keys) |-> [t \in Seq(T) |->
                            Replace(t, keys[i], value[keys[i]])]]
  OBVIOUS
<1>2. Len(keys) \in Nat /\ \A i \in 1 .. Len(keys) : keys[i] \in ToSet(keys)
  BY LenProperties, ElementOfSeq DEF AreParts
<1>3. ASSUME NEW i \in 1 .. Len(keys), NEW t \in Seq(T)
      PROVE  Replace(t, keys[i], value[keys[i]]) \in Seq(T)
  <2>1. PICK key : key = keys[i]
    OBVIOUS
  <2>2. key \in ToSet(keys) /\ {key} \in SUBSET ToSet(keys)
    BY <1>2, <2>1
  <2>3. PICK h : h = Filling({key}, value, T)
    OBVIOUS
  <2>4. IsExpansion(h, T, T)
    BY <2>2, <2>3, FillingType
  <2>5. Replace(t, key, value[key]) = Expanded(t, h)
    BY <2>2, <2>3, ReplaceIsFilling
  <2>6. Expanded(t, h) \in Seq(T)
    BY <2>4, ExpandedType
  <2> QED
    BY <2>1, <2>5, <2>6
<1>4. step \in [1 .. Len(keys) -> [Seq(T) -> Seq(T)]]
  BY <1>1, <1>3
<1>5. PICK f : f = CHOOSE g : Rec(g)
  OBVIOUS
<1>6. PICK g \in [0 .. Len(keys) -> Seq(T)] : Iterates(g, Len(keys), template, step)
  BY <1>2, <1>4, RecursionExists
<1>7. Rec(g)
  <2>1. ASSUME NEW i \in 0 .. Len(keys), i # 0
        PROVE step[i][g[i - 1]] = Replace(g[i - 1], keys[i], value[keys[i]])
    <3>1. i \in 1 .. Len(keys) /\ i - 1 \in 0 .. Len(keys)
      BY <1>2, <2>1
    <3>2. g[i - 1] \in Seq(T)
      BY <3>1
    <3> QED
      BY <1>1, <3>1, <3>2
  <2> QED BY <1>6, <2>1 DEF Iterates
<1>8. Rec(f)
  BY <1>5, <1>7
<1>9. BuildPrompt(template, keys, value) = f[Len(keys)]
  BY <1>5 DEF BuildPrompt
<1>10. Repeats(f, template, keys, value)
  BY <1>8 DEF Repeats
<1>11. \A i \in 0 .. Len(keys) : f[i] \in Seq(T)
  <2> DEFINE P == {i \in Nat : f[i] \in Seq(T)}
  <2>1. 0 \in P
    <3>1. 0 \in 0 .. Len(keys)
      BY <1>2
    <3>2. f[0] = template
      BY <1>10, <3>1 DEF Repeats
    <3> QED
      BY <3>2
  <2>2. ASSUME NEW i \in 0 .. Len(keys) - 1, i \in P PROVE i + 1 \in P
    <3>1. i + 1 \in 1 .. Len(keys) /\ i + 1 \in 0 .. Len(keys) /\ (i + 1) - 1 = i /\ i + 1 # 0
      BY <1>2
    <3>2. f[i + 1] = Replace(f[i], keys[i + 1], value[keys[i + 1]])
      BY <1>10, <3>1 DEF Repeats
    <3>3. f[i] \in Seq(T) /\ i \in Nat
      BY <1>2, <2>2
    <3>4. f[i + 1] \in Seq(T)
      BY <1>3, <3>1, <3>2, <3>3
    <3> QED
      BY <3>3, <3>4
  <2>3. \A i \in 0 .. Len(keys) : i \in P
    <3> HIDE DEF P
    <3> QED BY <1>2, <2>1, <2>2, InductionUpTo
  <2> QED
    BY <2>3
<1>12. f \in [0 .. Len(keys) -> Seq(T)]
  BY <1>8, <1>11
<1> QED
  BY <1>9, <1>10, <1>12

\* Filling one more key after others fills all of them, unless a value has a
\* placeholder itself.
LEMMA FillingTwice ==
  ASSUME NEW T, NEW keys, NEW value, AreParts(T, keys, value),
         \A key \in ToSet(keys) : Plain(value[key]),
         NEW A \in SUBSET ToSet(keys), NEW key \in ToSet(keys), NEW x \in T
  PROVE  Filling(A \union {key}, value, T)[x] =
           Expanded(Filling(A, value, T)[x], Filling({key}, value, T))
<1>1. PICK f, g, h : /\ f = Filling(A, value, T) /\ g = Filling({key}, value, T)
                     /\ h = Filling(A \union {key}, value, T)
  OBVIOUS
<1>2. PICK o : o = <<x>>
  OBVIOUS
<1>3. /\ f[x] = IF x[1] = "slot" /\ x[2] \in A THEN value[x[2]] ELSE o
      /\ g[x] = IF x[1] = "slot" /\ x[2] = key THEN value[key] ELSE o
      /\ h[x] = IF x[1] = "slot" /\ x[2] \in A \union {key} THEN value[x[2]] ELSE o
  BY <1>1, <1>2 DEF Filling
<1>4. IsExpansion(g, T, T)
  <2>1. {key} \in SUBSET ToSet(keys)
    OBVIOUS
  <2> QED
    BY <1>1, <2>1, FillingType
<1>5. CASE x[1] = "slot" /\ x[2] \in A
  <2>1. PICK v : v = value[x[2]]
    OBVIOUS
  <2>2. v \in Seq(T) /\ Plain(v)
    BY <1>5, <2>1 DEF AreParts
  <2> DEFINE S == {y \in T : y[1] # "slot"}
  <2>3. ToSet(v) \subseteq S
    <3>1. \A i \in DOMAIN v : v[i] \in T
      BY <2>2, LenProperties, ElementOfSeq
    <3> QED
      BY <2>2, <3>1 DEF Plain, ToSet
  <2>4. \A y \in T \intersect S : g[y] = <<y>>
    BY <1>1 DEF Filling
  <2>5. Expanded(v, g) = v
    BY <1>4, <2>2, <2>3, <2>4, ExpandedSame
  <2> QED
    BY <1>1, <1>3, <1>5, <2>1, <2>5
<1>6. CASE ~(x[1] = "slot" /\ x[2] \in A)
  <2>1. Expanded(o, g) = g[x]
    BY <1>2, <1>4, ExpandedOfOne
  <2> QED
    BY <1>1, <1>3, <1>6, <2>1
<1> QED
  BY <1>5, <1>6

LEMMA BuildPromptFills ==
  ASSUME NEW T, NEW keys, NEW value, AreParts(T, keys, value), NEW template \in Seq(T),
         \A key \in ToSet(keys) : Plain(value[key])
  PROVE  BuildPrompt(template, keys, value) = Expanded(template, Filling(ToSet(keys), value, T))
<1>1. PICK f \in [0 .. Len(keys) -> Seq(T)] :
        Repeats(f, template, keys, value) /\ BuildPrompt(template, keys, value) = f[Len(keys)]
  BY BuildPromptRepeats
<1>2. /\ Len(keys) \in Nat /\ DOMAIN keys = 1 .. Len(keys)
      /\ \A i \in 1 .. Len(keys) : keys[i] \in ToSet(keys)
  BY LenProperties, ElementOfSeq DEF AreParts
<1> DEFINE First(n) == {keys[i] : i \in 1 .. n}
           P == {n \in Nat : f[n] = Expanded(template, Filling(First(n), value, T))}
<1>3. 0 \in P
  <2>1. First(0) = {} /\ {} \in SUBSET ToSet(keys)
    OBVIOUS
  <2>2. PICK h : h = Filling({}, value, T)
    OBVIOUS
  <2>3. IsExpansion(h, T, T)
    BY <2>1, <2>2, FillingType
  <2>4. \A x \in T \intersect T : h[x] = <<x>>
    BY <2>2 DEF Filling
  <2>5. ToSet(template) \subseteq T
    BY LenProperties, ElementOfSeq DEF ToSet
  <2>6. Expanded(template, h) = template
    BY <2>3, <2>4, <2>5, ExpandedSame
  <2>7. f[0] = template
    <3>1. 0 \in 0 .. Len(keys)
      BY <1>2
    <3> QED
      BY <1>1, <3>1 DEF Repeats
  <2> QED
    BY <2>1, <2>2, <2>6, <2>7
<1>4. ASSUME NEW n \in 0 .. Len(keys) - 1, n \in P PROVE n + 1 \in P
  <2>1. /\ n \in Nat /\ n + 1 \in Nat /\ n + 1 # 0 /\ (n + 1) - 1 = n
        /\ n \in 0 .. Len(keys) /\ n + 1 \in 0 .. Len(keys) /\ n + 1 \in 1 .. Len(keys)
        /\ 1 .. n \subseteq 1 .. Len(keys) /\ 1 .. n + 1 = 1 .. n \union {n + 1}
    BY <1>2
  <2>2. PICK key : key = keys[n + 1]
    OBVIOUS
  <2>3. PICK A : A = First(n)
    OBVIOUS
  <2>4. key \in ToSet(keys) /\ A \in SUBSET ToSet(keys) /\ First(n + 1) = A \union {key}
    BY <1>2, <2>1, <2>2, <2>3
  <2>5. f[n] = Expanded(template, Filling(A, value, T)) /\ f[n] \in Seq(T)
    BY <1>4, <2>1, <2>3
  <2>6. f[n + 1] = Replace(f[n], key, value[key])
    BY <1>1, <2>1, <2>2 DEF Repeats
  <2>7. PICK u, g, h : /\ u = Filling(A, value, T) /\ g = Filling({key}, value, T)
                       /\ h = Filling(A \union {key}, value, T)
    OBVIOUS
  <2>8. IsExpansion(u, T, T) /\ IsExpansion(g, T, T) /\ IsExpansion(h, T, T)
    <3>1. {key} \in SUBSET ToSet(keys) /\ A \union {key} \in SUBSET ToSet(keys)
      BY <2>4
    <3> QED
      BY <2>4, <2>7, <3>1, FillingType
  <2>9. Replace(f[n], key, value[key]) = Expanded(f[n], g)
    <3>1. PICK text : text = f[n]
      OBVIOUS
    <3>2. Replace(text, key, value[key]) = Expanded(text, Filling({key}, value, T))
      <4>1. text \in Seq(T)
        BY <2>5, <3>1
      <4>2. key \in ToSet(keys)
        BY <2>4
      <4> HIDE DEF P
      <4> QED BY <4>1, <4>2, ReplaceIsFilling
    <3> QED
      BY <2>7, <3>1, <3>2
  <2>10. ASSUME NEW x \in T PROVE h[x] = Expanded(u[x], g)
    <3>1. Filling(A \union {key}, value, T)[x] =
            Expanded(Filling(A, value, T)[x], Filling({key}, value, T))
      <4> HIDE DEF P
      <4> QED BY <2>4, FillingTwice
    <3> QED
      BY <2>7, <3>1
  <2>11. Expanded(Expanded(template, u), g) = Expanded(template, h)
    BY <2>8, <2>10, ExpandedTwice
  <2>12. f[n + 1] = Expanded(template, Filling(First(n + 1), value, T))
    BY <2>4, <2>5, <2>6, <2>7, <2>9, <2>11
  <2> QED
    BY <2>1, <2>12
<1>5. \A n \in 0 .. Len(keys) : n \in P
  <2> HIDE DEF P
  <2> QED BY <1>2, <1>3, <1>4, InductionUpTo
<1>6. Len(keys) \in P /\ First(Len(keys)) = ToSet(keys)
  <2>1. Len(keys) \in 0 .. Len(keys)
    BY <1>2
  <2>2. First(Len(keys)) = ToSet(keys)
    BY <1>2 DEF ToSet
  <2> QED
    BY <1>5, <2>1, <2>2
<1> QED
  BY <1>1, <1>6

\* Replacing key after key puts all values in at once.
LEMMA BuildPromptSubstitutes ==
  ASSUME NEW T, NEW keys, NEW value, AreParts(T, keys, value), NEW template \in Seq(T),
         \A key \in ToSet(keys) : Plain(value[key])
  PROVE  BuildPrompt(template, keys, value) = Substituted(template, value)
<1>1. PICK h : h = Filling(ToSet(keys), value, T)
  OBVIOUS
<1>2. \A i \in DOMAIN template : template[i] \in T
  BY LenProperties, ElementOfSeq
<1>3. Replaced(template, h) =
        [i \in DOMAIN template |->
           IF template[i][1] = "slot" /\ template[i][2] \in DOMAIN value
             THEN value[template[i][2]] ELSE <<template[i]>>]
  BY <1>1, <1>2 DEF Replaced, Filling, AreParts
<1>4. Expanded(template, h) = Substituted(template, value)
  BY <1>3 DEF Expanded, Substituted
<1> QED
  BY <1>1, <1>4, BuildPromptFills

-----------------------------------------------------------------------------
(* The values of a step *)
Values(r, step, category, found) ==
  [key \in ToSet(Keys(step)) |-> ValueOf(r, key, [category |-> category, found |-> found])]

Founds(r) == {<<"found", r>>, <<"no results">>}

IsOwnPart(part, r) == IsPart(part) /\ (part[1] \in {"value", "found"} => part[2] = r)

LEMMA ListOfThree ==
  ASSUME NEW x, NEW y, NEW z
  PROVE  IsList(<<x, y, z>>)
<1>1. PICK s : s = <<x, y, z>>
  OBVIOUS
<1>2. s \in Seq({x, y, z}) /\ Len(s) = 3 /\ s[1] = x /\ s[2] = y /\ s[3] = z
  BY <1>1
<1>3. DOMAIN s = 1 .. 3
  BY <1>2, LenProperties
<1>4. ToSet(s) = {x, y, z}
  BY <1>2, <1>3 DEF ToSet
<1> QED
  BY <1>1, <1>2, <1>4 DEF IsList

LEMMA ListOfFour ==
  ASSUME NEW x, NEW y, NEW z, NEW u
  PROVE  IsList(<<x, y, z, u>>)
<1>1. PICK s : s = <<x, y, z, u>>
  OBVIOUS
<1>2. s \in Seq({x, y, z, u}) /\ Len(s) = 4 /\ s[1] = x /\ s[2] = y /\ s[3] = z /\ s[4] = u
  BY <1>1
<1>3. DOMAIN s = 1 .. 4
  BY <1>2, LenProperties
<1>4. ToSet(s) = {x, y, z, u}
  BY <1>2, <1>3 DEF ToSet
<1> QED
  BY <1>1, <1>2, <1>4 DEF IsList

LEMMA KeysAreListed == \A step \in Steps : IsList(Keys(step))
<1> SUFFICES ASSUME NEW step \in Steps PROVE IsList(Keys(step))
  OBVIOUS
<1>1. CASE step = "brand_audit"
  BY <1>1, ListOfThree DEF Keys
<1>2. CASE step = "competitor_scan"
  BY <1>2, ListOfThree DEF Keys
<1>3. CASE step = "trend_pulse"
  BY <1>3, ListOfFour DEF Keys
<1>4. CASE step = "customer_voice"
  BY <1>4, ListOfFour DEF Keys
<1>5. CASE step = "hook_mining"
  BY <1>5, ListOfFour DEF Keys
<1> QED
  BY <1>1, <1>2, <1>3, <1>4, <1>5, StepsAssumption

\* A text of one part.
LEMMA OnePart ==
  ASSUME NEW r, NEW p, p[1] # "slot", IsOwnPart(p, r)
  PROVE  /\ IsList(<<p>>) /\ Plain(<<p>>)
         /\ \A part \in ToSet(<<p>>) : IsOwnPart(part, r)
<1>1. PICK o : o = <<p>>
  OBVIOUS
<1>2. p \in {p}
  OBVIOUS
<1>3. o \in Seq({p}) /\ ToSet(o) = {p}
  BY <1>1, <1>2, MembersOfOne
<1>4. \A i \in DOMAIN o : o[i] \in {p}
  BY <1>3, LenProperties, ElementOfSeq
<1> QED
  BY <1>1, <1>3, <1>4 DEF IsList, Plain

LEMMA ValueIsOwn ==
  ASSUME NEW r \in Runs, NEW step \in Steps, NEW key \in ToSet(Keys(step)),
         NEW category, NEW found \in Founds(r), NEW value,
         value = Values(r, step, category, found)[key]
  PROVE  /\ IsList(value)
         /\ \A part \in ToSet(value) : IsOwnPart(part, r)
         /\ (key \in DOMAIN Intake[r] => Plain(Intake[r][key])) => Plain(value)
<1>1. value = ValueOf(r, key, [category |-> category, found |-> found])
  BY DEF Values
<1>2. CASE key = "category"
  <2>1. PICK p : p = <<"category", category>>
    OBVIOUS
  <2>2. p[1] # "slot" /\ IsOwnPart(p, r)
    BY <2>1 DEF IsOwnPart, IsPart
  <2>3. value = <<p>>
    BY <1>1, <1>2, <2>1 DEF ValueOf
  <2> QED
    BY <2>2, <2>3, OnePart
<1>3. CASE key = "search_results"
  <2>1. found[1] # "slot" /\ IsOwnPart(found, r)
    <3>1. CASE found = <<"found", r>>
      BY <3>1 DEF IsOwnPart, IsPart
    <3>2. CASE found = <<"no results">>
      BY <3>2 DEF IsOwnPart, IsPart
    <3> QED
      BY <3>1, <3>2 DEF Founds
  <2>2. value = <<found>>
    BY <1>1, <1>3 DEF ValueOf
  <2> QED
    BY <2>1, <2>2, OnePart
<1>4. CASE key = "competitors" /\ Intake[r][key] = <<>>
  <2>1. PICK p : p = <<"text", "unknown">>
    OBVIOUS
  <2>2. p[1] # "slot" /\ IsOwnPart(p, r)
    BY <2>1 DEF IsOwnPart, IsPart
  <2>3. value = <<p>>
    BY <1>1, <1>4, <2>1 DEF ValueOf
  <2> QED
    BY <2>2, <2>3, OnePart
<1>5. CASE key \notin {"category", "search_results"} /\ ~(key = "competitors" /\ Intake[r][key] = <<>>)
  <2>1. value = Intake[r][key]
    BY <1>1, <1>5 DEF ValueOf
  <2>2. /\ key \in DOMAIN Intake[r] /\ IsList(Intake[r][key])
        /\ \A part \in ToSet(Intake[r][key]) :
             IsPart(part) /\ part[1] # "found" /\ (part[1] = "value" => part[2] = r)
    BY <1>5, StepsAssumption
  <2> QED
    BY <2>1, <2>2 DEF IsOwnPart
<1> QED
  BY <1>2, <1>3, <1>4, <1>5

\* The parts of which a step's prompt is built.
Material(r, step, category, found) ==
  ToSet(Templates[step])
    \union UNION {ToSet(Values(r, step, category, found)[key]) : key \in ToSet(Keys(step))}

LEMMA MaterialIsOwn ==
  ASSUME NEW r \in Runs, NEW step \in Steps, NEW category, NEW found \in Founds(r),
         NEW T, T = Material(r, step, category, found),
         NEW value, value = Values(r, step, category, found)
  PROVE  /\ AreParts(T, Keys(step), value)
         /\ Templates[step] \in Seq(T)
         /\ \A part \in T : IsOwnPart(part, r)
<1>1. \A key \in ToSet(Keys(step)) :
        IsList(value[key]) /\ \A part \in ToSet(value[key]) : IsOwnPart(part, r)
  BY ValueIsOwn
<1>2. IsList(Templates[step]) /\ \A part \in ToSet(Templates[step]) : IsOwnPart(part, r)
  BY StepsAssumption DEF IsOwnPart
<1>3. \A part \in T : IsOwnPart(part, r)
  BY <1>1, <1>2 DEF Material
<1>4. \A S, s : s \in Seq(S) /\ S \subseteq T => s \in Seq(T)
  <2> SUFFICES ASSUME NEW S, NEW s \in Seq(S), S \subseteq T PROVE s \in Seq(T)
    OBVIOUS
  <2> QED
    BY LenProperties, ElementOfSeq, SeqDef
<1>5. Templates[step] \in Seq(T)
  <2>1. ToSet(Templates[step]) \subseteq T
    BY DEF Material
  <2> QED
    BY <1>2, <1>4, <2>1 DEF IsList
<1>6. \A key \in ToSet(Keys(step)) : value[key] \in Seq(T)
  <2> SUFFICES ASSUME NEW key \in ToSet(Keys(step)) PROVE value[key] \in Seq(T)
    OBVIOUS
  <2>1. ToSet(value[key]) \subseteq T
    BY DEF Material
  <2> QED
    BY <1>1, <1>4, <2>1 DEF IsList
<1>7. Keys(step) \in Seq(ToSet(Keys(step))) /\ DOMAIN value = ToSet(Keys(step))
  BY KeysAreListed DEF IsList, Values
<1> QED
  BY <1>3, <1>5, <1>6, <1>7 DEF AreParts, IsOwnPart

\* What a prompt of run r is: of its own values, all put in at once.
IsOwn(prompt, r, step, value) ==
  /\ \A i \in DOMAIN prompt : IsOwnPart(prompt[i], r)
  /\ (\A key \in ToSet(Keys(step)) \intersect DOMAIN Intake[r] : Plain(Intake[r][key]))
       => prompt = Substituted(Templates[step], value)

LEMMA PromptIsOwn ==
  ASSUME NEW r \in Runs, NEW step \in Steps, NEW category, NEW found \in Founds(r),
         NEW value, value = Values(r, step, category, found),
         NEW prompt, prompt = BuildPrompt(Templates[step], Keys(step), value)
  PROVE  IsOwn(prompt, r, step, value)
<1>1. PICK T : T = Material(r, step, category, found)
  OBVIOUS
<1>2. PICK keys : keys = Keys(step)
  OBVIOUS
<1>3. PICK template : template = Templates[step]
  OBVIOUS
<1>4. /\ AreParts(T, keys, value) /\ template \in Seq(T)
      /\ \A part \in T : IsOwnPart(part, r)
  BY <1>1, <1>2, <1>3, MaterialIsOwn
<1>5. PICK f \in [0 .. Len(keys) -> Seq(T)] :
        Repeats(f, template, keys, value) /\ BuildPrompt(template, keys, value) = f[Len(keys)]
  BY <1>4, BuildPromptRepeats
<1>6. prompt \in Seq(T)
  <2>1. Len(keys) \in Nat
    BY <1>4, LenProperties DEF AreParts
  <2>2. Len(keys) \in 0 .. Len(keys)
    BY <2>1
  <2>3. prompt = f[Len(keys)]
    BY <1>2, <1>3, <1>5
  <2> QED
    BY <2>2, <2>3
<1>7. \A i \in DOMAIN prompt : IsOwnPart(prompt[i], r)
  <2>1. \A i \in DOMAIN prompt : prompt[i] \in T
    BY <1>6, LenProperties, ElementOfSeq
  <2> QED
    BY <1>4, <2>1
<1>8. ASSUME \A key \in ToSet(keys) \intersect DOMAIN Intake[r] : Plain(Intake[r][key])
      PROVE  prompt = Substituted(template, value)
  <2>1. \A key \in ToSet(keys) : Plain(value[key])
    BY <1>2, <1>8, ValueIsOwn
  <2> QED
    BY <1>2, <1>3, <1>4, <2>1, BuildPromptSubstitutes
<1> QED
  BY <1>2, <1>3, <1>7, <1>8 DEF IsOwn

-----------------------------------------------------------------------------
(***************************************************************************)
(* A task that has a category has one of its own run, and a prompt that is *)
(* under way is the one that this category and what the search found give. *)
(***************************************************************************)
IsTask(t, w) ==
  /\ DOMAIN w = {"pc", "category", "found", "prompt"}
  /\ w.pc = "classifying" => asksModel
  /\ w.pc \in {"searching", "asking", "done"} /\ Classifies(t[2])
       => w.category \in OwnCategories(t[1])
  /\ w.pc \in {"asking", "done"} =>
       /\ w.found \in Founds(t[1])
       /\ w.prompt = BuildPrompt(Templates[t[2]], Keys(t[2]),
                                 Values(t[1], t[2], w.category, w.found))

PromptInv == DOMAIN work = Tasks /\ \A t \in Tasks : IsTask(t, work[t])

LEMMA SetTask ==
  ASSUME PromptInv, NEW t \in Tasks, NEW new, IsTask(t, new),
         work' = [work EXCEPT ![t] = new], asksModel' = asksModel
  PROVE  PromptInv'
<1>1. DOMAIN work' = Tasks /\ \A u \in Tasks : IsTask(u, work'[u])
  BY DEF PromptInv
<1>2. \A u \in Tasks : \A w : IsTask(u, w)' <=> IsTask(u, w)
  BY DEF IsTask, OwnCategories
<1> QED
  BY <1>1, <1>2 DEF PromptInv

LEMMA PromptInvInit == StepsInit => PromptInv
BY DEF StepsInit, PromptInv, IsTask, Fresh

LEMMA PromptInvStep == PromptInv /\ [StepsNext]_stepsVars => PromptInv'
<1> SUFFICES ASSUME PromptInv, [StepsNext]_stepsVars PROVE PromptInv'
  OBVIOUS
<1>1. ASSUME NEW t \in Tasks, BeginStep(t) PROVE PromptInv'
  <2>1. IsTask(t, work[t]) /\ asksModel' = asksModel
    BY <1>1 DEF PromptInv, BeginStep
  <2>2. CASE Classifies(t[2]) /\ asksModel
    <3>1. PICK new : new = [work[t] EXCEPT !.pc = "classifying"]
      OBVIOUS
    <3>2. IsTask(t, new)
      BY <2>1, <2>2, <3>1 DEF IsTask
    <3>3. work' = [work EXCEPT ![t] = new]
      BY <1>1, <2>2, <3>1 DEF BeginStep
    <3> QED
      BY <2>1, <3>2, <3>3, SetTask
  <2>3. CASE ~(Classifies(t[2]) /\ asksModel)
    <3>1. PICK category : category = IF Classifies(t[2]) THEN CategoryByKeywords(Words[t[1]])
                                       ELSE None
      OBVIOUS
    <3>2. PICK new : new = [work[t] EXCEPT !.pc = "searching", !.category = category]
      OBVIOUS
    <3>3. IsTask(t, new)
      BY <2>1, <3>1, <3>2 DEF IsTask, OwnCategories
    <3>4. work' = [work EXCEPT ![t] = new]
      BY <1>1, <2>3, <3>1, <3>2 DEF BeginStep, Asking
    <3> QED
      BY <2>1, <3>3, <3>4, SetTask
  <2> QED
    BY <2>2, <2>3
<1>2. ASSUME NEW t \in Tasks, NEW answer \in LlmCategories, Classify(t, answer) PROVE PromptInv'
  <2>1. IsTask(t, work[t]) /\ work[t].pc = "classifying" /\ asksModel' = asksModel
    BY <1>2 DEF PromptInv, Classify
  <2>2. PICK category : category = Classified(answer, Words[t[1]])
    OBVIOUS
  <2>3. category \in OwnCategories(t[1])
    BY <2>1, <2>2 DEF IsTask, Classified, OwnCategories
  <2>4. PICK new : new = [work[t] EXCEPT !.pc = "searching", !.category = category]
    OBVIOUS
  <2>5. IsTask(t, new)
    BY <2>1, <2>3, <2>4 DEF IsTask
  <2>6. work' = [work EXCEPT ![t] = new]
    BY <1>2, <2>2, <2>4 DEF Classify, Asking
  <2> QED
    BY <2>1, <2>5, <2>6, SetTask
<1>3. ASSUME NEW t \in Tasks, NEW something, SearchReturns(t, something) PROVE PromptInv'
  <2>1. IsTask(t, work[t]) /\ work[t].pc = "searching" /\ asksModel' = asksModel
    BY <1>3 DEF PromptInv, SearchReturns
  <2>2. PICK found : found = IF something THEN <<"found", t[1]>> ELSE <<"no results">>
    OBVIOUS
  <2>3. PICK w : w = [work[t] EXCEPT !.found = found]
    OBVIOUS
  <2>4. /\ DOMAIN w = {"pc", "category", "found", "prompt"} /\ w.pc = "searching"
        /\ w.category = work[t].category /\ w.found = found
    BY <2>1, <2>3 DEF IsTask
  <2>5. PICK value : value = [key \in ToSet(Keys(t[2])) |-> ValueOf(t[1], key, w)]
    OBVIOUS
  <2>6. value = Values(t[1], t[2], w.category, found)
    BY <2>4, <2>5 DEF Values, ValueOf
  <2>7. PICK prompt : prompt = BuildPrompt(Templates[t[2]], Keys(t[2]), value)
    OBVIOUS
  <2>8. PICK new : new = [w EXCEPT !.pc = "asking", !.prompt = prompt]
    OBVIOUS
  <2>9. IsTask(t, new)
    <3>1. /\ DOMAIN new = {"pc", "category", "found", "prompt"} /\ new.pc = "asking"
          /\ new.category = work[t].category /\ new.found = found /\ new.prompt = prompt
      BY <2>4, <2>8
    <3>2. Classifies(t[2]) => new.category \in OwnCategories(t[1])
      BY <2>1, <3>1 DEF IsTask
    <3>3. found \in Founds(t[1])
      BY <2>2 DEF Founds
    <3>4. prompt = BuildPrompt(Templates[t[2]], Keys(t[2]),
                               Values(t[1], t[2], new.category, new.found))
      BY <2>4, <2>6, <2>7, <3>1
    <3> QED
      BY <3>1, <3>2, <3>3, <3>4 DEF IsTask
  <2>10. work' = [work EXCEPT ![t] = new]
    BY <1>3, <2>2, <2>3, <2>5, <2>7, <2>8, Zenon DEF SearchReturns
  <2> QED
    BY <2>1, <2>9, <2>10, SetTask
<1>4. ASSUME NEW t \in Tasks, NEW pc \in {"done", "failed"}, asksModel' = asksModel,
             work[t].pc \in {"searching", "asking"}, pc = "done" => work[t].pc = "asking",
             work' = [work EXCEPT ![t] = [work[t] EXCEPT !.pc = pc]]
      PROVE  PromptInv'
  <2>1. IsTask(t, work[t])
    BY DEF PromptInv
  <2>2. PICK new : new = [work[t] EXCEPT !.pc = pc]
    OBVIOUS
  <2>3. IsTask(t, new)
    <3>1. /\ DOMAIN new = {"pc", "category", "found", "prompt"} /\ new.pc = pc
          /\ new.category = work[t].category /\ new.found = work[t].found
          /\ new.prompt = work[t].prompt
      BY <2>1, <2>2 DEF IsTask
    <3> QED
      BY <1>4, <2>1, <3>1 DEF IsTask
  <2> QED
    BY <1>4, <2>2, <2>3, SetTask
<1>5. ASSUME NEW t \in Tasks, StepReturns(t) PROVE PromptInv'
  BY <1>4, <1>5 DEF StepReturns
<1>6. ASSUME NEW t \in Tasks, StepFails(t) PROVE PromptInv'
  BY <1>4, <1>6 DEF StepFails
<1>7. ASSUME UNCHANGED <<asksModel, work>> PROVE PromptInv'
  BY <1>7 DEF PromptInv, IsTask, OwnCategories
<1>8. ASSUME NEW r \in Runs, Synthesize(r) PROVE PromptInv'
  BY <1>7, <1>8 DEF Synthesize
<1>9. ASSUME NEW r \in Runs, NEW how, SynthesisEnds(r, how) PROVE PromptInv'
  BY <1>7, <1>9 DEF SynthesisEnds
<1>10. CASE UNCHANGED stepsVars
  BY <1>7, <1>10 DEF stepsVars
<1>11. ASSUME NEW r \in Runs, Publish(r) PROVE PromptInv'
  BY <1>7, <1>11 DEF Publish, Publishes
<1> QED
  BY <1>1, <1>2, <1>3, <1>5, <1>6, <1>8, <1>9, <1>10, <1>11 DEF StepsNext

\* The prompt of a step that asks the model has the values of its own run
\* put into the template all at once and nothing of another run, however the
\* runs overlap at the shared step objects, classifier and search tool, for
\* any templates and interviews (research_prompt_builder.py build).
THEOREM OwnPromptHolds == StepsSpec => []OwnPrompt
<1>1. PromptInv => OwnPrompt
  <2> DEFINE OwnAt(t, r, step, prompt) ==
        /\ (\A key \in ToSet(Keys(step)) \intersect DOMAIN Intake[r] : Plain(Intake[r][key]))
             => \E c \in OwnCategories(r) :
                  prompt = Substituted(Templates[step], Values(r, step, c, work[t].found))
        /\ \A i \in DOMAIN prompt : prompt[i][1] \in {"value", "found"} => prompt[i][2] = r
  <2>0. OwnPrompt <=> \A t \in Tasks : work[t].pc \in {"asking", "done"} =>
                        OwnAt(t, t[1], t[2], work[t].prompt)
    BY Zenon DEF OwnPrompt, Values
  <2> SUFFICES ASSUME PromptInv, NEW t \in Tasks, work[t].pc \in {"asking", "done"},
                      NEW r, r = t[1], NEW step, step = t[2], NEW prompt, prompt = work[t].prompt
               PROVE  OwnAt(t, r, step, prompt)
    <3> HIDE DEF OwnAt
    <3> QED BY <2>0
  <2>1. r \in Runs /\ step \in Steps
    BY DEF Tasks
  <2>2. PICK category, found : category = work[t].category /\ found = work[t].found
    OBVIOUS
  <2>3. PICK value : value = Values(r, step, category, found)
    OBVIOUS
  <2>4. /\ found \in Founds(r) /\ prompt = BuildPrompt(Templates[step], Keys(step), value)
        /\ Classifies(step) => category \in OwnCategories(r)
    BY <2>2, <2>3 DEF PromptInv, IsTask
  <2>5. IsOwn(prompt, r, step, value)
    <3>1. found \in Founds(r) /\ prompt = BuildPrompt(Templates[step], Keys(step), value)
      BY <2>4
    <3> QED
      BY <2>1, <2>3, <3>1, PromptIsOwn
  <2>6. \E c \in OwnCategories(r) : value = Values(r, step, c, found)
    <3>1. CASE Classifies(step)
      BY <2>3, <2>4, <3>1
    <3>2. CASE ~Classifies(step)
      <4>1. PICK c : c \in OwnCategories(r)
        BY DEF OwnCategories
      <4>2. Values(r, step, c, found) = value
        BY <2>3, <3>2 DEF Values, ValueOf, Classifies
      <4> QED
        BY <4>1, <4>2
    <3> QED
      BY <3>1, <3>2
  <2> QED
    BY <2>2, <2>5, <2>6 DEF IsOwn, IsOwnPart
<1>2. StepsSpec => []PromptInv
  BY PromptInvInit, PromptInvStep, PTL DEF StepsSpec
<1> QED
  BY <1>1, <1>2, PTL

-----------------------------------------------------------------------------
(* The start.                                                              *)
\* Where create_app is once it has a configuration, and later and later.
Configured == {"telemetry", "storage", "llm", "wrap", "journey", "wire"}
TelemetryChosen == {"storage", "llm", "wrap", "journey", "wire"}
StorageChosen == {"llm", "wrap", "journey", "wire"}
LlmChosen == {"wrap", "journey", "wire"}
Wrapped == {"journey", "wire"}

\* LLMAdapterFactory: the adapter of the provider that a configuration names.
ProviderOf(doc) == Setting(doc, <<"default_llm_provider">>, "fake")
AdapterOf(doc) ==
  IF AdapterId(doc, ProviderOf(doc)) = "" THEN "fake" ELSE AdapterId(doc, ProviderOf(doc))

\* Until the application runs it has what the files said when they were read.
StartInv ==
  /\ DOMAIN app = DOMAIN Nothing
  /\ at \in {"begin", "config"} => appConfig = None
  /\ at \in Configured => raw = Source /\ appConfig = Source /\ Valid(Source)
  /\ at \in Configured \union {"config"} =>
       /\ files.default \in Files /\ files.overlay \in Files
       /\ environ.env # "" <=> environ.variable # "empty"
  /\ at \in TelemetryChosen =>
       app.telemetry = Setting(Source, <<"telemetry", "adapter">>, "local_file")
  /\ at \in StorageChosen =>
       app.storage = Setting(Source, <<"storage_adapter">>, "in_memory")
  /\ at \in LlmChosen =>
       /\ ProviderOf(Source) \in Providers(Source)
       /\ app.llm = AdapterOf(Source) /\ AdapterOf(Source) \in LlmAdapters
  /\ at \in Wrapped =>
       app.cached = (Setting(Source, <<"llm_cache", "enabled">>, "false") = "true")

\* YAMLConfigAdapter: what is read is kept together, and forgotten together.
LEMMA ReadConfigKeepsOne ==
  OneConfiguration /\ ReadConfig => OneConfiguration'
BY DEF OneConfiguration, ReadConfig

LEMMA OneConfigurationStep ==
  OneConfiguration /\ [StartNext]_startupVars => OneConfiguration'
<1> SUFFICES ASSUME OneConfiguration, [StartNext]_startupVars PROVE OneConfiguration'
  OBVIOUS
<1>1. CASE LoadConfig \/ GetProvider
  BY <1>1, ReadConfigKeepsOne DEF LoadConfig, GetProvider
<1>2. CASE Reload
  BY <1>2 DEF Reload, OneConfiguration
<1>3. CASE UNCHANGED <<raw, appConfig>>
  BY <1>3 DEF OneConfiguration
<1>4. QED
  BY <1>1, <1>2, <1>3 DEF StartNext, startupVars, BeginStart, CreateTelemetry, CreateStorage,
     CreateLlm, WrapLlm, LoadJourney, Wire, Edit

\* The validated configuration is of the same read as the raw one, whatever
\* the files hold and however often they are edited and reloaded.
THEOREM OneConfigurationHolds == StartSpec => []OneConfiguration
<1>1. StartInit => OneConfiguration
  BY DEF StartInit, OneConfiguration
<1>2. QED
  BY <1>1, OneConfigurationStep, PTL DEF StartSpec

-----------------------------------------------------------------------------
\* A key that is above another is that key or shorter.
LEMMA AboveKey ==
  ASSUME NEW o, NEW p, IsPath(o), IsPath(p), IsPrefix(o, p)
  PROVE  /\ Len(p) = 1 => o = p
         /\ Len(p) = 2 => o = p \/ o = <<p[1]>>
<1>1. /\ Len(o) \in Nat \ {0} /\ Len(p) \in Nat
      /\ o \in Seq(ToSet(o)) /\ p \in Seq(ToSet(p))
  BY EmptySeq DEF IsPath
<1>2. Len(o) <= Len(p)
  BY DEF IsPrefix
<1>3. \A i \in 1 .. Len(o) : o[i] = p[i]
  <2>1. SubSeq(o, 1, Len(o)) = SubSeq(p, 1, Len(o))
    BY DEF IsPrefix
  <2> QED
    BY <1>1, <1>2, <2>1, SubSeqProperties
<1>4. CASE Len(o) = Len(p)
  <2>1. o = p
    BY <1>1, <1>3, <1>4
  <2> QED
    BY <2>1
<1>5. CASE Len(o) # Len(p)
  <2>1. Len(p) = 2 => Len(o) = 1
    <3>1. \A m, n \in Nat : m <= n /\ m # n /\ m # 0 /\ n = 2 => m = 1
      OBVIOUS
    <3> QED
      BY <1>1, <1>2, <1>5, <3>1, Zenon
  <2>2. Len(p) # 1
    BY <1>1, <1>2, <1>5
  <2>3. Len(o) = 1 => o = <<p[1]>>
    BY <1>1, <1>3
  <2> QED
    BY <2>1, <2>2, <2>3
<1> QED
  BY <1>4, <1>5

LEMMA KeyOne == ASSUME NEW x PROVE IsPath(<<x>>) /\ Len(<<x>>) = 1
<1>1. <<x>> \in Seq({x}) /\ ToSet(<<x>>) = {x} /\ <<x>> # <<>> /\ Len(<<x>>) = 1
  BY MembersOfOne
<1> QED
  BY <1>1 DEF IsPath

LEMMA KeyTwo ==
  ASSUME NEW x, NEW y
  PROVE  IsPath(<<x, y>>) /\ Len(<<x, y>>) = 2 /\ <<x, y>>[1] = x
<1>1. /\ <<x, y>> \in Seq({x, y}) /\ <<x, y>> # <<>> /\ Len(<<x, y>>) = 2
      /\ <<x, y>>[1] = x /\ <<x, y>>[2] = y
  OBVIOUS
<1>2. {x, y} = ToSet(<<x, y>>)
  BY <1>1 DEF ToSet
<1> QED
  BY <1>1, <1>2 DEF IsPath

LEMMA SettingKeys ==
  ASSUME NEW path \in Settings
  PROVE  /\ IsPath(path)
         /\ Len(path) = 1 \/ (Len(path) = 2 /\ <<path[1]>> \in Sections)
<1>1. CASE path = <<"default_llm_provider">>
  BY <1>1, KeyOne DEF IsPath
<1>2. CASE path = <<"storage_adapter">>
  BY <1>2, KeyOne DEF IsPath
<1>3. CASE path = <<"telemetry", "adapter">>
  BY <1>3, KeyTwo DEF Sections
<1>4. CASE path = <<"search", "provider">>
  BY <1>4, KeyTwo DEF Sections
<1>5. CASE path = <<"search", "api_key">>
  BY <1>5, KeyTwo DEF Sections
<1>6. CASE path = <<"llm_cache", "enabled">>
  BY <1>6, KeyTwo DEF Sections
<1> QED
  BY <1>1, <1>2, <1>3, <1>4, <1>5, <1>6 DEF Settings

\* What a merged configuration says: the overlay's value; the base's, where
\* the overlay says nothing of it, above it or below it.
TextOf(base, overlay, path, default) ==
  IF path \in DOMAIN overlay THEN overlay[path]
  ELSE IF path \in DOMAIN base /\ \A o \in DOMAIN overlay : ~Clash(o, path) THEN base[path]
  ELSE default

LEMMA MergedSetting ==
  ASSUME NEW base, NEW overlay, NEW secrets, NEW path, NEW default
  PROVE  Setting(Interpolate(MergeConfig(base, overlay), secrets), path, default) =
           TextOf(Interpolate(base, secrets), Interpolate(overlay, secrets), path, default)
<1> DEFINE merged == MergeConfig(base, overlay)
           source == Interpolate(merged, secrets)
<1>1. /\ DOMAIN source = DOMAIN merged
      /\ \A p \in DOMAIN merged :
           source[p] = IF merged[p] \in Placeholders /\ secrets THEN "value" ELSE merged[p]
  BY DEF Interpolate
<1>2. DOMAIN Interpolate(overlay, secrets) = DOMAIN overlay
      /\ DOMAIN Interpolate(base, secrets) = DOMAIN base
  BY DEF Interpolate
<1>3. CASE path \in DOMAIN overlay
  <2>1. path \in DOMAIN merged /\ merged[path] = overlay[path]
    BY <1>3 DEF MergeConfig
  <2> QED
    BY <1>1, <1>2, <1>3, <2>1 DEF Interpolate, Setting, TextOf
<1>4. CASE path \notin DOMAIN overlay /\ path \in DOMAIN base
           /\ \A o \in DOMAIN overlay : ~Clash(o, path)
  <2>1. path \in DOMAIN merged /\ merged[path] = base[path]
    BY <1>4 DEF MergeConfig
  <2> QED
    BY <1>1, <1>2, <1>4, <2>1 DEF Interpolate, Setting, TextOf
<1>5. CASE path \notin DOMAIN overlay
           /\ ~ (path \in DOMAIN base /\ \A o \in DOMAIN overlay : ~Clash(o, path))
  <2>1. path \notin DOMAIN merged
    BY <1>5 DEF MergeConfig
  <2> QED
    BY <1>1, <1>2, <1>5, <2>1 DEF Setting, TextOf
<1> QED
  BY <1>3, <1>4, <1>5

\* The files as they are read, with the environment's values in them.
BaseText == Interpolate(files.default.doc, environ.secrets)
OverlayText ==
  IF environ.variable # "empty" /\ files.overlay # Missing
    THEN Interpolate(files.overlay.doc, environ.secrets) ELSE NoSettings

LEMMA SourceSetting ==
  ASSUME environ.env # "" <=> environ.variable # "empty", NEW path, NEW default
  PROVE  Setting(Source, path, default) = TextOf(BaseText, OverlayText, path, default)
<1>1. CASE Overlaid
  <2>1. Source = Interpolate(MergeConfig(files.default.doc, files.overlay.doc), environ.secrets)
    BY <1>1 DEF Source
  <2>2. OverlayText = Interpolate(files.overlay.doc, environ.secrets)
        /\ BaseText = Interpolate(files.default.doc, environ.secrets)
    BY <1>1 DEF OverlayText, BaseText, Overlaid
  <2>3. PICK base, overlay, secrets : /\ base = files.default.doc
                                      /\ overlay = files.overlay.doc
                                      /\ secrets = environ.secrets
    OBVIOUS
  <2>4. Setting(Interpolate(MergeConfig(base, overlay), secrets), path, default) =
          TextOf(Interpolate(base, secrets), Interpolate(overlay, secrets), path, default)
    BY ONLY MergedSetting
  <2> QED
    BY <2>1, <2>2, <2>3, <2>4
<1>2. CASE ~ Overlaid
  <2>1. DOMAIN OverlayText = {}
    BY <1>2 DEF Overlaid, OverlayText, NoSettings
  <2>2. Source = BaseText
    BY <1>2 DEF Source, BaseText
  <2> QED
    BY <2>1, <2>2 DEF Setting, TextOf
<1> QED
  BY <1>1, <1>2

LEMMA OverlayInSource ==
  ASSUME environ.env # "" <=> environ.variable # "empty"
  PROVE  DOMAIN OverlayText \subseteq DOMAIN Source
<1>1. CASE Overlaid
  <2>1. DOMAIN files.overlay.doc \subseteq DOMAIN Source
    BY <1>1 DEF Source, Interpolate, MergeConfig
  <2>2. DOMAIN OverlayText = DOMAIN files.overlay.doc
    BY <1>1 DEF OverlayText, Overlaid, Interpolate
  <2> QED
    BY <2>1, <2>2
<1>2. CASE ~ Overlaid
  BY <1>2 DEF Overlaid, OverlayText, NoSettings
<1> QED
  BY <1>1, <1>2

\* Every provider of the merge is one of either file.
LEMMA ProvidersOfSource ==
  ASSUME environ.env # "" <=> environ.variable # "empty"
  PROVE  Providers(Source) \subseteq Providers(BaseText) \union Providers(OverlayText)
<1>1. DOMAIN Source \subseteq DOMAIN BaseText \union DOMAIN OverlayText
  <2>1. DOMAIN BaseText = DOMAIN files.default.doc
    BY DEF BaseText, Interpolate
  <2>2. CASE Overlaid
    <3>1. DOMAIN OverlayText = DOMAIN files.overlay.doc
      BY <2>2 DEF OverlayText, Overlaid, Interpolate
    <3>2. DOMAIN Source \subseteq DOMAIN files.default.doc \union DOMAIN files.overlay.doc
      BY <2>2 DEF Source, Interpolate, MergeConfig
    <3> QED
      BY <2>1, <3>1, <3>2
  <2>3. CASE ~ Overlaid
    BY <2>3 DEF Source, BaseText
  <2> QED
    BY <2>2, <2>3
<1> QED
  BY <1>1 DEF Providers

\* A valid configuration takes no setting from below or above its place.
LEMMA NothingReplaced ==
  ASSUME Valid(Source), files.overlay \in Files,
         environ.env # "" <=> environ.variable # "empty",
         NEW path \in Settings, NEW o \in DOMAIN OverlayText, Clash(o, path)
  PROVE  o = path
<1>1. o \in DOMAIN Source
  BY OverlayInSource
<1>2. IsPath(o)
  BY FilesAssumption DEF OverlayText, Interpolate, NoSettings
<1>3. o \notin Sections
  BY <1>1 DEF Valid
<1>4. CASE IsPrefix(path, o)
  BY <1>1, <1>4 DEF Valid, Under
<1>5. CASE IsPrefix(o, path)
  <2>1. IsPath(path) /\ (Len(path) = 1 \/ (Len(path) = 2 /\ <<path[1]>> \in Sections))
    BY SettingKeys
  <2> QED
    BY <1>2, <1>3, <1>5, <2>1, AboveKey
<1> QED
  BY <1>4, <1>5 DEF Clash

\* While create_app is at work the files and its environment stay.
LEMMA SourceStays ==
  UNCHANGED <<files, environ>> => Source' = Source
BY DEF Source, Overlaid, Interpolate, MergeConfig, Clash

LEMMA ValidStays ==
  UNCHANGED <<files, environ>> /\ Valid(Source) => Valid(Source)'
BY SourceStays DEF Valid, Under, ValidProvider, Providers

LEMMA StartInvInit == StartInit => StartInv
BY DEF StartInit, StartInv, Configured, TelemetryChosen, StorageChosen, LlmChosen, Wrapped,
   Nothing

\* A step of create_app after the configuration is loaded.
LEMMA ConfiguredStays ==
  ASSUME StartInv, UNCHANGED <<files, environ, raw, appConfig>>, DOMAIN app' = DOMAIN app,
         at \in Configured
  PROVE  /\ Source' = Source /\ Valid(Source)' /\ appConfig = Source /\ raw = Source
         /\ DOMAIN app' = DOMAIN Nothing
         /\ raw' = Source' /\ appConfig' = Source'
         /\ (files.default \in Files /\ files.overlay \in Files)'
         /\ (environ.env # "" <=> environ.variable # "empty")'
         /\ AdapterOf(Source)' = AdapterOf(Source) /\ ProviderOf(Source)' = ProviderOf(Source)
         /\ Providers(Source)' = Providers(Source)
         /\ \A path, default : Setting(Source, path, default)' = Setting(Source, path, default)
<1>1. Source' = Source /\ Valid(Source) /\ appConfig = Source /\ raw = Source
  BY SourceStays DEF StartInv, Configured
<1>2. Valid(Source)'
  BY <1>1, ValidStays
<1> QED
  BY <1>1, <1>2 DEF StartInv, Configured, AdapterOf, ProviderOf, Providers, Setting, AdapterId,
     Under

LEMMA StartInvStep == StartInv /\ [StartNext]_startupVars => StartInv'
<1> SUFFICES ASSUME StartInv, [StartNext]_startupVars PROVE StartInv'
  OBVIOUS
<1> USE DEF Configured, TelemetryChosen, StorageChosen, LlmChosen, Wrapped
<1>1. ASSUME NEW default \in Files, NEW overlay \in Files, NEW variable \in Variables,
             NEW secrets \in BOOLEAN, BeginStart(default, overlay, variable, secrets)
      PROVE  StartInv'
  <2>1. environ'.variable = variable /\ environ'.env = EnvironmentOf(variable)
    BY <1>1 DEF BeginStart
  <2>2. EnvironmentOf(variable) # "" <=> variable # "empty"
    BY DEF Variables, EnvironmentOf
  <2> QED
    BY <1>1, <2>1, <2>2 DEF BeginStart, StartInv
<1>2. CASE LoadConfig
  <2>1. Source' = Source
    BY <1>2, SourceStays DEF LoadConfig
  <2>2. CASE appConfig' = None
    BY <1>2, <2>2 DEF LoadConfig, StartInv
  <2>3. CASE appConfig' # None
    <3>1. raw' = Source /\ appConfig' = Source /\ Valid(Source)
      BY <1>2, <2>3 DEF LoadConfig, StartInv, ReadConfig
    <3>2. Valid(Source)'
      BY <1>2, <3>1, ValidStays DEF LoadConfig
    <3> QED
      BY <1>2, <2>1, <2>3, <3>1, <3>2 DEF LoadConfig, StartInv
  <2> QED
    BY <2>2, <2>3
<1>3. CASE CreateTelemetry
  <2>1. \/ at' = "ValueError"
        \/ /\ at' = "storage"
           /\ app' = [app EXCEPT !.telemetry =
                        Setting(appConfig, <<"telemetry", "adapter">>, "local_file")]
    BY <1>3 DEF CreateTelemetry
  <2>2. UNCHANGED <<files, environ, raw, appConfig>> /\ DOMAIN app' = DOMAIN app
        /\ at = "telemetry"
    BY <1>3 DEF CreateTelemetry
  <2>3. appConfig = Source /\ DOMAIN app = DOMAIN Nothing
    BY <2>2 DEF StartInv
  <2>4. at' = "storage" =>
          app'.telemetry = Setting(Source, <<"telemetry", "adapter">>, "local_file")
    BY <2>1, <2>3 DEF Nothing
  <2> QED
    BY <2>1, <2>2, <2>4, ConfiguredStays DEF StartInv
<1>4. CASE CreateStorage
  <2>1. \/ at' = "ValueError"
        \/ /\ at' = "llm"
           /\ app' = [app EXCEPT !.storage =
                        Setting(appConfig, <<"storage_adapter">>, "in_memory")]
    BY <1>4 DEF CreateStorage
  <2>2. UNCHANGED <<files, environ, raw, appConfig>> /\ DOMAIN app' = DOMAIN app
        /\ at = "storage"
    BY <1>4 DEF CreateStorage
  <2>3. appConfig = Source /\ DOMAIN app = DOMAIN Nothing
        /\ app.telemetry = Setting(Source, <<"telemetry", "adapter">>, "local_file")
    BY <2>2 DEF StartInv
  <2>4. at' = "llm" => /\ app'.storage = Setting(Source, <<"storage_adapter">>, "in_memory")
                       /\ app'.telemetry = app.telemetry
    BY <2>1, <2>3 DEF Nothing
  <2> QED
    BY <2>1, <2>2, <2>3, <2>4, ConfiguredStays DEF StartInv
<1>5. CASE CreateLlm
  <2>1. \/ at' \in {"KeyError", "ValueError"}
        \/ /\ at' = "wrap" /\ FoundIn(raw, ProviderOf(appConfig))
           /\ raw = appConfig => /\ AdapterOf(raw) \in LlmAdapters
                                 /\ app' = [app EXCEPT !.llm = AdapterOf(raw)]
    BY <1>5 DEF CreateLlm, ProviderOf, AdapterOf
  <2>2. UNCHANGED <<files, environ, raw, appConfig>> /\ DOMAIN app' = DOMAIN app
        /\ at = "llm"
    BY <1>5 DEF CreateLlm
  <2>3. appConfig = Source /\ raw = Source /\ DOMAIN app = DOMAIN Nothing
        /\ app.telemetry = Setting(Source, <<"telemetry", "adapter">>, "local_file")
        /\ app.storage = Setting(Source, <<"storage_adapter">>, "in_memory")
    BY <2>2 DEF StartInv
  <2>4. at' = "wrap" => /\ ProviderOf(Source) \in Providers(Source)
                        /\ app'.llm = AdapterOf(Source) /\ AdapterOf(Source) \in LlmAdapters
                        /\ app'.telemetry = app.telemetry /\ app'.storage = app.storage
    BY <2>1, <2>3 DEF Nothing, FoundIn
  <2> QED
    BY <2>1, <2>2, <2>3, <2>4, ConfiguredStays DEF StartInv
<1>6. ASSUME NEW tracked \in BOOLEAN, WrapLlm(tracked) PROVE StartInv'
  <2>1. UNCHANGED <<files, environ, raw, appConfig>> /\ DOMAIN app' = DOMAIN app
        /\ at = "wrap" /\ at' = "journey"
    BY <1>6 DEF WrapLlm
  <2>2. appConfig = Source /\ DOMAIN app = DOMAIN Nothing
    BY <2>1 DEF StartInv
  <2>3. /\ app'.telemetry = app.telemetry /\ app'.storage = app.storage /\ app'.llm = app.llm
        /\ app'.cached = (Setting(Source, <<"llm_cache", "enabled">>, "false") = "true")
    BY <1>6, <2>2 DEF WrapLlm, Nothing
  <2> QED
    BY <2>1, <2>2, <2>3, ConfiguredStays DEF StartInv
<1>7. ASSUME NEW file \in JourneyFiles, NEW overlay \in JourneyFiles, LoadJourney(file, overlay)
      PROVE  StartInv'
  <2>1. UNCHANGED <<files, environ, raw, appConfig>> /\ DOMAIN app' = DOMAIN app
        /\ at = "journey"
        /\ at' \in {"wire", "FileNotFoundError", "YAMLError", "ValidationError"}
    BY <1>7 DEF LoadJourney
  <2>2. at' = "wire" => /\ app'.telemetry = app.telemetry /\ app'.storage = app.storage
                        /\ app'.llm = app.llm /\ app'.cached = app.cached
    BY <1>7 DEF LoadJourney, StartInv, Nothing
  <2> QED
    BY <2>1, <2>2, ConfiguredStays DEF StartInv
<1>8. CASE Wire
  BY <1>8 DEF Wire, StartInv
<1>9. CASE GetProvider \/ Reload \/ \E default \in Files : Edit(default)
  <2>1. at' = "running" /\ app' = app
    BY <1>9 DEF GetProvider, Reload, Edit
  <2> QED
    BY <2>1 DEF StartInv
<1>10. CASE UNCHANGED startupVars
  <2>1. UNCHANGED <<files, environ, raw, appConfig>> /\ app' = app /\ at' = at
    BY <1>10 DEF startupVars
  <2>2. CASE at \in Configured
    BY <2>1, <2>2, ConfiguredStays DEF StartInv
  <2>3. CASE at \notin Configured
    BY <2>1, <2>3 DEF StartInv
  <2> QED
    BY <2>2, <2>3
<1> QED
  BY <1>1, <1>2, <1>3, <1>4, <1>5, <1>6, <1>7, <1>8, <1>9, <1>10 DEF StartNext

LEMMA StartInvHolds == StartSpec => []StartInv
BY StartInvInit, StartInvStep, PTL DEF StartSpec

\* Whatever the files, the overlay and the environment are: what begins to
\* run has the telemetry, the storage, the LLM adapter, the cache, the search
\* tool and the research steps that they name, the defaults where they are
\* silent, and nothing runs where the overlay has a section in the place of a
\* setting, or a value in that of a section.
THEOREM StartsAsConfiguredHolds == StartSpec => StartsAsConfigured
<1> DEFINE says(path, default) == TextOf(BaseText, OverlayText, path, default)
           provider == says(<<"default_llm_provider">>, "fake")
           id == says(<<"llm_providers", provider, "adapter_id">>, "")
           class == says(<<"llm_providers", provider, "adapter_class">>, "")
           searches == /\ says(<<"search", "provider">>, "fake") = "tavily"
                       /\ says(<<"search", "api_key">>, "") # ""
           Begins ==
             /\ app'.telemetry = says(<<"telemetry", "adapter">>, "local_file")
             /\ app'.storage = says(<<"storage_adapter">>, "in_memory")
             /\ app'.llm = (IF id # "" THEN id ELSE IF class # "" THEN class ELSE "fake")
             /\ provider \in Providers(BaseText) \union Providers(OverlayText)
             /\ app'.cached = (says(<<"llm_cache", "enabled">>, "false") = "true")
             /\ app'.search = (IF searches THEN "tavily" ELSE "fake")
             /\ app'.steps = StepNames
             /\ \A s \in Settings, o \in DOMAIN OverlayText : Clash(o, s) => o = s
             /\ \A s \in Sections : s \notin DOMAIN OverlayText
<1>1. StartInv /\ [StartNext]_startupVars => (at # "running" /\ at' = "running" => Begins)
  <2> SUFFICES ASSUME StartInv, [StartNext]_startupVars, at # "running", at' = "running"
               PROVE  Begins
    OBVIOUS
  <2>1. Wire /\ StepNames \subseteq ResearchPrompts(appConfig)
    BY DEF StartNext, startupVars, BeginStart, LoadConfig, CreateTelemetry, CreateStorage,
       CreateLlm, WrapLlm, LoadJourney, Wire, GetProvider, Reload, Edit
  <2>2. /\ at = "wire" /\ app'.storage = app.storage /\ app'.cached = app.cached
        /\ app'.telemetry = app.telemetry /\ app'.llm = app.llm
        /\ app'.steps = StepNames /\ app'.search = SearchTool(appConfig)
    BY <2>1 DEF Wire, StartInv, Nothing
  <2>3. Valid(Source) /\ files.overlay \in Files /\ appConfig = Source
        /\ (environ.env # "" <=> environ.variable # "empty")
    BY <2>2 DEF StartInv, Configured
  <2>4. \A path : \A default : Setting(Source, path, default) = says(path, default)
    BY <2>3, SourceSetting
  <2> HIDE DEF says
  <2>5. /\ app'.telemetry = says(<<"telemetry", "adapter">>, "local_file")
        /\ app'.storage = says(<<"storage_adapter">>, "in_memory")
        /\ app'.cached = (says(<<"llm_cache", "enabled">>, "false") = "true")
        /\ ProviderOf(Source) = provider
        /\ provider \in Providers(Source) /\ app'.llm = AdapterOf(Source)
        /\ AdapterOf(Source) \in LlmAdapters
    <3>1. ProviderOf(Source) = provider
      BY <2>4 DEF ProviderOf
    <3>2. /\ app.telemetry = Setting(Source, <<"telemetry", "adapter">>, "local_file")
          /\ app.storage = Setting(Source, <<"storage_adapter">>, "in_memory")
          /\ app.cached = (Setting(Source, <<"llm_cache", "enabled">>, "false") = "true")
          /\ ProviderOf(Source) \in Providers(Source)
          /\ app.llm = AdapterOf(Source) /\ AdapterOf(Source) \in LlmAdapters
      BY <2>2 DEF StartInv, TelemetryChosen, StorageChosen, LlmChosen, Wrapped
    <3> HIDE DEF provider
    <3> QED
      BY <2>2, <2>4, <3>1, <3>2
  <2>6. app'.llm = (IF id # "" THEN id ELSE IF class # "" THEN class ELSE "fake")
    <3>1. AdapterOf(Source) # "a mapping"
      BY <2>5 DEF LlmAdapters
    <3>2. AdapterId(Source, provider) \in
            {IF id # "" THEN id ELSE class, "a mapping"}
      <4>1. /\ Setting(Source, <<"llm_providers", provider, "adapter_id">>, "") = id
            /\ Setting(Source, <<"llm_providers", provider, "adapter_class">>, "") = class
        BY <2>4
      <4> HIDE DEF id, class, provider
      <4> QED
        BY <4>1 DEF AdapterId
    <3> HIDE DEF id, class, provider
    <3> QED
      BY <2>5, <3>1, <3>2 DEF AdapterOf
  <2>7. app'.search = (IF searches THEN "tavily" ELSE "fake")
    BY <2>2, <2>3, <2>4 DEF SearchTool, BuildTavily
  <2>8. provider \in Providers(BaseText) \union Providers(OverlayText)
    BY <2>3, <2>5, ProvidersOfSource
  <2>9. \A s \in Settings, o \in DOMAIN OverlayText : Clash(o, s) => o = s
    BY <2>3, NothingReplaced
  <2>10. \A s \in Sections : s \notin DOMAIN OverlayText
    BY <2>3, OverlayInSource DEF Valid
  <2> HIDE DEF id, class, provider, searches
  <2> QED
    BY <2>2, <2>5, <2>6, <2>7, <2>8, <2>9, <2>10
<1>2. StartSpec => [][at # "running" /\ at' = "running" => Begins]_startupVars
  BY <1>1, StartInvHolds, PTL DEF StartSpec
<1> QED
  BY <1>2 DEF StartsAsConfigured, TextOf, BaseText, OverlayText

-----------------------------------------------------------------------------
(* The fake adapter.                                                       *)
\* The first member of two lists joined is that of the first one with any.
LEMMA FirstOfTwo ==
  ASSUME NEW T, NEW a \in Seq(T), NEW b \in Seq(T)
  PROVE  /\ a \o b \in Seq(T)
         /\ a \o b = <<>> <=> a = <<>> /\ b = <<>>
         /\ Head(a \o b) = IF a # <<>> THEN Head(a) ELSE Head(b)
         /\ ToSet(a \o b) = ToSet(a) \union ToSet(b)
<1>1. PICK c : c = a \o b
  OBVIOUS
<1>2. c \in Seq(T)
  BY <1>1, ConcatProperties
<1>3. /\ c = <<>> <=> a = <<>> /\ b = <<>>
      /\ a # <<>> => Head(c) = Head(a)
      /\ a = <<>> => c = b
  BY <1>1, HeadOfConcat
<1>4. ToSet(c) = ToSet(a) \union ToSet(b)
  BY <1>1, MembersOfConcat
<1> QED
  BY <1>1, <1>2, <1>3, <1>4

\* What is listed without repetition lists all of a finite set.
LEMMA OrderIsComplete ==
  ASSUME NEW S, IsFiniteSet(S), NEW order \in SetToSeqs(S)
  PROVE  order \in Seq(S) /\ ToSet(order) = S
<1> DEFINE n == Cardinality(S)
<1>1. n \in Nat
  BY FS_CardinalityType
<1>2. /\ order \in [1 .. n -> S]
      /\ \A i, j \in 1 .. n : i # j => order[i] # order[j]
  BY DEF SetToSeqs
<1>3. order \in Injection(1 .. n, S)
  BY <1>2 DEF Injection, IsInjective
<1>4. Cardinality(1 .. n) = n
  BY <1>1, FS_Interval
<1>5. order \in Surjection(1 .. n, S)
  BY <1>3, <1>4, FS_Injection
<1>6. ToSet(order) = S
  BY <1>2, <1>5 DEF Surjection, ToSet
<1>7. order \in Seq(S)
  BY <1>1, <1>2, SeqDef
<1> QED
  BY <1>6, <1>7

LEMMA NamedIs ==
  ASSUME NEW F, NEW s \in Seq(F), NEW name
  PROVE  /\ Named(s, name) \in Seq(F)
         /\ ToSet(Named(s, name)) = {f \in ToSet(s) : f.name = name}
         /\ Named(s, name) = <<>> <=> {f \in ToSet(s) : f.name = name} = {}
         /\ Named(s, name) # <<>> => Head(Named(s, name)).name = name
<1>1. PICK S : S = {f \in ToSet(s) : f.name = name}
  OBVIOUS
<1>2. PICK m : m = Named(s, name)
  OBVIOUS
<1>3. m = Those(s, S)
  BY <1>1, <1>2 DEF Named
<1>4. m \in Seq(F \intersect S) /\ ToSet(m) = ToSet(s) \intersect S
  BY <1>3, MembersOfThose
<1>5. m \in Seq(F) /\ ToSet(m) = S
  BY <1>1, <1>4, SeqDef
<1>6. m = <<>> <=> S = {}
  BY <1>5, NoMembers
<1>7. m # <<>> => Head(m) \in S
  BY <1>5, EndsAreMembers
<1> QED
  BY <1>1, <1>2, <1>5, <1>6, <1>7

\* The default's name does not depend on what is loaded.
LEMMA DefaultIs ==
  ASSUME NEW F, NEW s \in Seq(F)
  PROVE  CreateDefault(s).name = DefaultName
BY NamedIs DEF CreateDefault

\* The fixtures that score best, if any scores.
Best(F, prompt) ==
  {f \in F : Score(f, prompt) > 0 /\ \A g \in F : Score(g, prompt) <= Score(f, prompt)}

LEMMA BestIs ==
  ASSUME NEW F, NEW s \in Seq(F), NEW prompt
  PROVE  LET chosen == BestByKeywords(s, prompt)  best == Best(ToSet(s), prompt) IN
         IF best = {} THEN chosen.name = DefaultName ELSE chosen \in best
<1>1. PICK best : best = Best(ToSet(s), prompt)
  OBVIOUS
<1>2. PICK m : m = Those(s, best)
  OBVIOUS
<1>3. m \in Seq(F \intersect best) /\ ToSet(m) = ToSet(s) \intersect best
  BY <1>2, MembersOfThose
<1>4. ToSet(m) = best
  BY <1>1, <1>3 DEF Best
<1>5. m = <<>> <=> best = {}
  BY <1>3, <1>4, NoMembers
<1>6. m # <<>> => Head(m) \in best
  BY <1>3, <1>4, EndsAreMembers
<1>7. BestByKeywords(s, prompt) = IF m = <<>> THEN CreateDefault(s) ELSE Head(m)
  BY <1>1, <1>2 DEF BestByKeywords, Best
<1> QED
  BY <1>1, <1>5, <1>6, <1>7, DefaultIs

\* The names a fixture is called by, and those that end in them.
LEMMA ByNameIs ==
  ASSUME NEW F, NEW s \in Seq(F), NEW override
  PROVE  LET exact == {f \in ToSet(s) : f.name = override}
             ending == {f \in ToSet(s) : IsSuffix(override, f.name)}
             found == ByName(s, override)
         IN  /\ found \in Seq(F)
             /\ found = <<>> <=> exact = {} /\ ending = {}
             /\ exact # {} => Head(found).name = override
             /\ exact = {} /\ ending # {} => Head(found) \in ending
<1>1. PICK ending : ending = {f \in ToSet(s) : IsSuffix(override, f.name)}
  OBVIOUS
<1>2. PICK exact : exact = {f \in ToSet(s) : f.name = override}
  OBVIOUS
<1>3. PICK e, n : e = Named(s, override) /\ n = Those(s, ending)
  OBVIOUS
<1>4. n \in Seq(F \intersect ending) /\ ToSet(n) = ToSet(s) \intersect ending
  BY <1>3, MembersOfThose
<1>5. n \in Seq(F) /\ ToSet(n) = ending
  BY <1>1, <1>4, SeqDef
<1>6. (n = <<>> <=> ending = {}) /\ (n # <<>> => Head(n) \in ending)
  BY <1>5, NoMembers, EndsAreMembers
<1>7. /\ e \in Seq(F) /\ (e = <<>> <=> exact = {})
      /\ e # <<>> => Head(e).name = override
  BY <1>2, <1>3, NamedIs
<1>8. ByName(s, override) = e \o n
  BY <1>1, <1>3 DEF ByName
<1>9. /\ e \o n \in Seq(F)
      /\ e \o n = <<>> <=> e = <<>> /\ n = <<>>
      /\ Head(e \o n) = IF e # <<>> THEN Head(e) ELSE Head(n)
  <2>1. e \in Seq(F) /\ n \in Seq(F)
    BY <1>5, <1>7
  <2> QED
    BY <2>1, FirstOfTwo
<1> QED
  BY <1>1, <1>2, <1>6, <1>7, <1>8, <1>9

-----------------------------------------------------------------------------
(* The match *)
LEMMA BuiltIs ==
  ASSUME NEW n \in Nat, turns \in Seq(ToSet(turns))
  PROVE  /\ BuildFixture(n) \in Seq(ToSet(BuildFixture(n)))
         /\ BuildFixture(n) # <<>> <=> n \in DOMAIN turns
         /\ BuildFixture(n) # <<>> =>
              /\ Head(BuildFixture(n)).name = <<DemoNames[n]>>
              /\ Head(BuildFixture(n)).response = turns[n]
<1>1. PICK b : b = BuildFixture(n)
  OBVIOUS
<1>2. DOMAIN turns = 1 .. Len(turns) /\ Len(turns) \in Nat
  BY LenProperties
<1>3. turns = <<>> <=> Len(turns) = 0
  BY EmptySeq
<1>4. CASE n \in DOMAIN turns
  <2>1. PICK x : x = [name |-> <<DemoNames[n]>>, response |-> turns[n]]
    OBVIOUS
  <2>2. ~ (turns = <<>> \/ n < 1 \/ n > Len(turns))
    BY <1>2, <1>3, <1>4
  <2>3. b = <<x>>
    BY <1>1, <2>1, <2>2 DEF BuildFixture
  <2>4. <<x>> \in Seq({x}) /\ ToSet(<<x>>) = {x}
    BY MembersOfOne
  <2>5. <<x>> # <<>> /\ Head(<<x>>) = x
    BY <2>4, HeadTailProperties, EmptySeq
  <2>6. x.name = <<DemoNames[n]>> /\ x.response = turns[n]
    BY <2>1
  <2> QED
    BY <1>1, <1>4, <2>3, <2>4, <2>5, <2>6
<1>5. CASE n \notin DOMAIN turns
  <2>1. turns = <<>> \/ n < 1 \/ n > Len(turns)
    BY <1>2, <1>5
  <2>2. b = <<>>
    BY <1>1, <2>1 DEF BuildFixture
  <2> QED
    BY <1>1, <1>5, <2>2, EmptySeq
<1> QED
  BY <1>4, <1>5

LEMMA ToldIs ==
  ASSUME turns \in Seq(ToSet(turns)), NEW turn \in TurnNumbers, NEW override
  PROVE  /\ ByTurn(turn) \in Seq(ToSet(ByTurn(turn)))
         /\ ByTurnName(override) \in Seq(ToSet(ByTurnName(override)))
<1>1. DOMAIN DemoNames = 1 .. Len(DemoNames) /\ Len(DemoNames) \in Nat
  BY FixturesAssumption, LenProperties DEF IsList
<1>2. <<>> \in Seq(ToSet(<<>>))
  BY EmptySeq
<1>3. ByTurn(turn) \in Seq(ToSet(ByTurn(turn)))
  <2>1. CASE turn = None
    BY <1>2, <2>1 DEF ByTurn
  <2>2. CASE turn # None
    <3>1. turn \in Nat
      BY <1>1, <2>2 DEF TurnNumbers
    <3> QED
      BY <2>2, <3>1, BuiltIs DEF ByTurn
  <2> QED
    BY <2>1, <2>2
<1>4. ByTurnName(override) \in Seq(ToSet(ByTurnName(override)))
  <2>1. PICK n : n = {i \in DOMAIN DemoNames : <<DemoNames[i]>> = override}
    OBVIOUS
  <2>2. CASE n = {}
    BY <1>2, <2>1, <2>2 DEF ByTurnName
  <2>3. CASE n # {}
    <3>1. PICK i : i = CHOOSE k \in n : TRUE
      OBVIOUS
    <3>2. i \in n
      BY <2>3, <3>1
    <3>3. i \in Nat
      BY <1>1, <2>1, <3>2
    <3>4. ByTurnName(override) = BuildFixture(i)
      BY <2>1, <2>3, <3>1 DEF ByTurnName
    <3> QED
      BY <3>3, <3>4, BuiltIs
  <2> QED
    BY <2>2, <2>3
<1> QED
  BY <1>3, <1>4

\* Two fixtures of those loaded between which the order decides.
Equals(F, f, g, prompt, override) ==
  IF override # None /\ \E h \in F : IsSuffix(override, h.name)
    THEN /\ f.name # override /\ g.name # override
         /\ IsSuffix(override, f.name) /\ IsSuffix(override, g.name)
    ELSE Score(f, prompt) > 0 /\ Score(f, prompt) = Score(g, prompt)

LEMMA KeywordsSame ==
  ASSUME NEW F, NEW s \in Seq(F), NEW t \in Seq(F), ToSet(s) = ToSet(t),
         \A f \in F : IsFiniteSet(f.keywords), NEW prompt
  PROVE  \/ BestByKeywords(t, prompt).name = BestByKeywords(s, prompt).name
         \/ \E f, g \in ToSet(s) : /\ f # g /\ Score(f, prompt) > 0
                                    /\ Score(f, prompt) = Score(g, prompt)
                                    /\ f.name = BestByKeywords(s, prompt).name
<1>1. PICK best : best = Best(ToSet(s), prompt)
  OBVIOUS
<1>2. PICK f, g : f = BestByKeywords(s, prompt) /\ g = BestByKeywords(t, prompt)
  OBVIOUS
<1>3. CASE best = {}
  BY <1>1, <1>2, <1>3, BestIs
<1>4. CASE best # {}
  <2>1. f \in best /\ g \in best
    BY <1>1, <1>2, <1>4, BestIs
  <2>2. f \in ToSet(s) /\ g \in ToSet(s) /\ Score(f, prompt) > 0
    BY <1>1, <2>1 DEF Best
  <2>3. Score(f, prompt) <= Score(g, prompt) /\ Score(g, prompt) <= Score(f, prompt)
    BY <1>1, <2>1, <2>2 DEF Best
  <2>4. ToSet(s) \subseteq F
    BY MembersType
  <2>5. \A h \in F : Score(h, prompt) \in Nat
    BY FS_Intersection, FS_CardinalityType DEF Score
  <2>6. Score(f, prompt) = Score(g, prompt)
    BY <2>2, <2>3, <2>4, <2>5
  <2> QED
    BY <1>2, <2>2, <2>6
<1> QED
  BY <1>3, <1>4

LEMMA MatchSame ==
  ASSUME NEW F, NEW s \in Seq(F), NEW t \in Seq(F), ToSet(s) = ToSet(t),
         \A f \in F : IsFiniteSet(f.keywords), turns \in Seq(ToSet(turns)),
         NEW prompt, NEW override, NEW turn \in TurnNumbers
  PROVE  LET chosen == Match(s, prompt, override, turn).name IN
         \/ Match(t, prompt, override, turn).name = chosen
         \/ \E f, g \in ToSet(s) : /\ f # g /\ Equals(ToSet(s), f, g, prompt, override)
                                    /\ f.name = chosen
<1>1. PICK a, b : a = ByTurn(turn) /\ b = ByTurnName(override)
  OBVIOUS
<1>2. PICK ns, nt : ns = ByName(s, override) /\ nt = ByName(t, override)
  OBVIOUS
<1>3. PICK T : T = ToSet(a) \union ToSet(b) \union F
  OBVIOUS
<1>4. a \in Seq(ToSet(a)) /\ b \in Seq(ToSet(b))
  BY <1>1, ToldIs
<1>5. ns \in Seq(F) /\ nt \in Seq(F)
  BY <1>2, ByNameIs
<1>6. a \in Seq(T) /\ b \in Seq(T) /\ ns \in Seq(T) /\ nt \in Seq(T)
  BY <1>3, <1>4, <1>5, SeqDef
<1>7. PICK p : p = a \o b
  OBVIOUS
<1>8. p \in Seq(T)
  BY <1>6, <1>7, FirstOfTwo
<1>9. /\ p \o ns = <<>> <=> p = <<>> /\ ns = <<>>
      /\ Head(p \o ns) = IF p # <<>> THEN Head(p) ELSE Head(ns)
      /\ p \o nt = <<>> <=> p = <<>> /\ nt = <<>>
      /\ Head(p \o nt) = IF p # <<>> THEN Head(p) ELSE Head(nt)
  BY <1>6, <1>8, FirstOfTwo
<1>10. PICK ms, mt : /\ ms = Match(s, prompt, override, turn)
                     /\ mt = Match(t, prompt, override, turn)
  OBVIOUS
<1>11. PICK ks, kt : ks = BestByKeywords(s, prompt) /\ kt = BestByKeywords(t, prompt)
  OBVIOUS
<1>12. \/ kt.name = ks.name
       \/ override # None /\ \E h \in ToSet(s) : IsSuffix(override, h.name)
       \/ \E f, g \in ToSet(s) : /\ f # g /\ Equals(ToSet(s), f, g, prompt, override)
                                  /\ f.name = ks.name
  BY <1>11, KeywordsSame DEF Equals
<1>13. CASE override = None
  <2>1. /\ ms = IF a = <<>> THEN ks ELSE Head(a)
        /\ mt = IF a = <<>> THEN kt ELSE Head(a)
    BY <1>1, <1>10, <1>11, <1>13 DEF Match
  <2> QED
    BY <1>10, <1>12, <1>13, <2>1
<1>14. CASE override # None
  <2>1. /\ ms = IF p = <<>> /\ ns = <<>> THEN ks ELSE IF p # <<>> THEN Head(p) ELSE Head(ns)
        /\ mt = IF p = <<>> /\ nt = <<>> THEN kt ELSE IF p # <<>> THEN Head(p) ELSE Head(nt)
    BY <1>1, <1>2, <1>7, <1>9, <1>10, <1>11, <1>14 DEF Match
  <2>2. PICK exact, ending : /\ exact = {f \in ToSet(s) : f.name = override}
                             /\ ending = {f \in ToSet(s) : IsSuffix(override, f.name)}
    OBVIOUS
  <2>3. /\ ns = <<>> <=> exact = {} /\ ending = {}
        /\ exact # {} => Head(ns).name = override
        /\ exact = {} /\ ending # {} => Head(ns) \in ending
    BY <1>2, <2>2, ByNameIs
  <2>4. /\ nt = <<>> <=> exact = {} /\ ending = {}
        /\ exact # {} => Head(nt).name = override
        /\ exact = {} /\ ending # {} => Head(nt) \in ending
    <3>1. /\ exact = {f \in ToSet(t) : f.name = override}
          /\ ending = {f \in ToSet(t) : IsSuffix(override, f.name)}
      BY <2>2
    <3> QED
      BY <1>2, <3>1, ByNameIs
  <2>5. CASE p # <<>>
    BY <1>10, <2>1, <2>5
  <2>6. CASE p = <<>> /\ exact # {}
    BY <1>10, <2>1, <2>3, <2>4, <2>6
  <2>7. CASE p = <<>> /\ exact = {} /\ ending = {}
    <3>1. ~ \E h \in ToSet(s) : IsSuffix(override, h.name)
      BY <2>2, <2>7
    <3> QED
      BY <1>10, <1>12, <2>1, <2>3, <2>4, <2>7, <3>1
  <2>8. CASE p = <<>> /\ exact = {} /\ ending # {}
    <3>1. PICK f, g : f = Head(ns) /\ g = Head(nt)
      OBVIOUS
    <3>2. f \in ending /\ g \in ending /\ ms = f /\ mt = g
      BY <2>1, <2>3, <2>4, <2>8, <3>1
    <3>3. f \in ToSet(s) /\ g \in ToSet(s) /\ f.name # override /\ g.name # override
      BY <2>2, <2>8, <3>2
    <3>4. Equals(ToSet(s), f, g, prompt, override)
      BY <1>14, <2>2, <3>2, <3>3 DEF Equals
    <3> QED
      BY <1>10, <3>2, <3>3, <3>4
  <2> QED
    BY <2>5, <2>6, <2>7, <2>8
<1> QED
  BY <1>13, <1>14

-----------------------------------------------------------------------------
(* The adapter *)
FakeInv ==
  /\ fixtures = None \/ fixtures \in Seq(Directory)
  /\ IsList(demoFile) /\ Len(demoFile) <= Len(DemoNames)
  /\ turns = Mappings(demoFile)
  /\ Answered =>
       /\ fixtures # None
       /\ call.turn \in TurnNumbers
       /\ call.fixture = Match(fixtures, call.prompt, call.override, call.turn).name
       /\ call.response = Match(fixtures, call.prompt, call.override, call.turn).response

LEMMA MappingsIs ==
  ASSUME NEW demo, IsList(demo)
  PROVE  Mappings(demo) \in Seq(ToSet(Mappings(demo)))
<1>1. PICK m, S : S = {d \in ToSet(demo) : d.is = "object"} /\ m = Those(demo, S)
  OBVIOUS
<1>2. m \in Seq(ToSet(demo) \intersect S)
  BY <1>1, MembersOfThose DEF IsList
<1>3. m = Mappings(demo)
  BY <1>1 DEF Mappings
<1> QED
  BY <1>2, <1>3, MembersType

LEMMA FakeInvInit == FakeInit => FakeInv
<1> SUFFICES ASSUME FakeInit PROVE FakeInv
  OBVIOUS
<1>1. PICK e : e = <<>>
  OBVIOUS
<1>2. IsList(e) /\ Len(e) = 0
  BY <1>1, EmptySeq DEF IsList
<1>3. Mappings(e) = e
  BY <1>1, ThoseOfEmpty DEF Mappings
<1>4. Len(DemoNames) \in Nat
  BY FixturesAssumption, LenProperties DEF IsList
<1>5. Len(e) <= Len(DemoNames)
  BY <1>2, <1>4
<1> QED
  BY <1>1, <1>2, <1>3, <1>5 DEF FakeInit, FakeInv, Answered

LEMMA FakeInvStep == FakeInv /\ [FakeNext]_fakeVars => FakeInv'
<1> SUFFICES ASSUME FakeInv, [FakeNext]_fakeVars PROVE FakeInv'
  OBVIOUS
<1>1. ASSUME NEW present \in SUBSET Directory, NEW order \in SetToSeqs(present),
             NEW demo \in DemoFiles, fixtures = None, Load(order, demo),
             ~ \E f \in ToSet(order) : f.is = "no mapping"
      PROVE  FakeInv'
  <2>1. PICK S : S = {f \in ToSet(order) : f.is = "fixture"}
    OBVIOUS
  <2>2. order \in Seq(Directory)
    <3>1. IsFiniteSet(present)
      BY FixturesAssumption, FS_Subset
    <3> QED
      BY <3>1, OrderIsComplete, SeqDef
  <2>3. Those(order, S) \in Seq(Directory \intersect S)
    BY <2>2, MembersOfThose
  <2>4. fixtures' \in Seq(Directory)
    <3>1. fixtures' = Those(order, S)
      BY <1>1, <2>1 DEF Load
    <3> QED
      BY <2>3, <3>1, SeqDef
  <2>5. IsList(demoFile') /\ Len(demoFile') <= Len(DemoNames) /\ turns' = Mappings(demoFile')
    BY <1>1, FixturesAssumption DEF Load
  <2>6. call' = call /\ call.is = "none"
    BY <1>1 DEF Load, FakeInv
  <2> QED
    BY <2>4, <2>5, <2>6 DEF FakeInv, Answered
<1>2. ASSUME NEW kind \in {"complete", "structured"}, NEW prompt, NEW override,
             NEW turn \in TurnNumbers, NEW outcome,
             Answer(kind, prompt, override, turn, outcome)
      PROVE  FakeInv'
  <2>1. PICK f : f = Match(fixtures, prompt, override, turn)
    OBVIOUS
  <2>2. PICK c : c = [is |-> kind, prompt |-> prompt, override |-> override,
                      turn |-> turn, fixture |-> f.name, response |-> f.response,
                      outcome |-> outcome]
    OBVIOUS
  <2>3. call' = c
    BY <1>2, <2>1, <2>2 DEF Answer
  <2>4. /\ c.turn = turn /\ c.prompt = prompt /\ c.override = override
        /\ c.fixture = f.name /\ c.response = f.response
    BY <2>2
  <2>5. fixtures # None /\ fixtures' = fixtures /\ turns' = turns /\ demoFile' = demoFile
    BY <1>2 DEF Answer
  <2>6. /\ call'.turn \in TurnNumbers
        /\ call'.fixture = Match(fixtures, call.prompt, call.override, call.turn)'.name
        /\ call'.response = Match(fixtures, call.prompt, call.override, call.turn)'.response
    BY <2>1, <2>3, <2>4, <2>5 DEF Match, ByTurn, ByTurnName, BuildFixture
  <2> QED
    BY <2>5, <2>6 DEF FakeInv
<1>3. CASE UNCHANGED fakeVars
  BY <1>3 DEF fakeVars, FakeInv, Answered, Match, ByTurn, ByTurnName, BuildFixture
<1>4. ASSUME NEW order, NEW demo, Load(order, demo),
             \E f \in ToSet(order) : f.is = "no mapping"
      PROVE  FakeInv'
  <2>1. PICK c : c = [is |-> "AttributeError"]
    OBVIOUS
  <2>2. call' = c /\ UNCHANGED <<fixtures, turns, demoFile>>
    BY <1>4, <2>1 DEF Load
  <2>3. ~ Answered'
    BY <2>1, <2>2 DEF Answered
  <2> QED
    BY <2>2, <2>3 DEF FakeInv
<1> QED
  BY <1>1, <1>2, <1>3, <1>4 DEF FakeNext, Complete, CompleteStructured

LEMMA FakeInvHolds == FakeSpec => []FakeInv
BY FakeInvInit, FakeInvStep, PTL DEF FakeSpec

\* Whatever files there are and in whichever order they are found: unless
\* two of them match a call equally well, the order does not tell which
\* answers it.
THEOREM SameForAnyOrderHolds == FakeSpec => []SameForAnyOrder
<1>1. FakeInv => SameForAnyOrder
  <2> SUFFICES ASSUME FakeInv, Answered,
                      NEW order \in SetToSeqs(ToSet(fixtures)),
                      Match(order, call.prompt, call.override, call.turn).name # call.fixture
      PROVE  \E f, g \in ToSet(fixtures) : f # g /\ Rivals(f, g) /\ f.name = call.fixture
    BY DEF SameForAnyOrder
  <2>1. PICK s : s = fixtures
    OBVIOUS
  <2>2. s \in Seq(Directory) /\ ToSet(s) \subseteq Directory
    BY <2>1, MembersType DEF FakeInv
  <2>3. IsFiniteSet(ToSet(s))
    BY <2>2, FixturesAssumption, FS_Subset
  <2>4. order \in Seq(ToSet(s)) /\ ToSet(order) = ToSet(s)
    BY <2>1, <2>3, OrderIsComplete
  <2>5. order \in Seq(Directory)
    BY <2>2, <2>4, SeqDef
  <2>6. turns \in Seq(ToSet(turns))
    BY MappingsIs DEF FakeInv
  <2>7. PICK prompt, override, turn :
          prompt = call.prompt /\ override = call.override /\ turn = call.turn
    OBVIOUS
  <2>8. turn \in TurnNumbers /\ call.fixture = Match(s, prompt, override, turn).name
    BY <2>1, <2>7 DEF FakeInv
  <2>9. \E f, g \in ToSet(s) : /\ f # g /\ Equals(ToSet(s), f, g, prompt, override)
                                /\ f.name = Match(s, prompt, override, turn).name
    BY <2>2, <2>4, <2>5, <2>6, <2>7, <2>8, FixturesAssumption, MatchSame
  <2>10. \A f, g : Equals(ToSet(s), f, g, prompt, override) => Rivals(f, g)
    BY <2>1, <2>7 DEF Equals, Rivals
  <2> QED
    BY <2>1, <2>8, <2>9, <2>10
<1> QED
  BY <1>1, FakeInvHolds, PTL

\* The n-th turn of a demo interview is answered with the n-th mapping of its
\* file, whatever else is loaded; a turn past the last is not answered by the
\* demo.
THEOREM DemoTurnsInOrderHolds == FakeSpec => []DemoTurnsInOrder
<1>1. FakeInv => DemoTurnsInOrder
  <2> SUFFICES ASSUME FakeInv, Answered, call.turn # None, call.override = None
               PROVE  LET told == Mappings(demoFile) IN
                      IF call.turn \in DOMAIN told
                        THEN /\ call.fixture = <<DemoNames[call.turn]>>
                             /\ call.response = told[call.turn]
                        ELSE call.fixture \notin {<<DemoNames[i]>> : i \in DOMAIN told}
    BY DEF DemoTurnsInOrder
  <2>1. PICK told : told = Mappings(demoFile)
    OBVIOUS
  <2>2. turns = told /\ turns \in Seq(ToSet(turns))
    BY <2>1, MappingsIs DEF FakeInv
  <2>3. PICK n, a : n = call.turn /\ a = ByTurn(call.turn)
    OBVIOUS
  <2>4. n \in Nat
    <3>1. Len(DemoNames) \in Nat
      BY FixturesAssumption, LenProperties DEF IsList
    <3> QED
      BY <2>3, <3>1 DEF FakeInv, TurnNumbers
  <2>5. a = BuildFixture(n)
    BY <2>3 DEF ByTurn
  <2>6. /\ a # <<>> <=> n \in DOMAIN told
        /\ a # <<>> => Head(a).name = <<DemoNames[n]>> /\ Head(a).response = told[n]
    BY <2>2, <2>4, <2>5, BuiltIs
  <2>7. /\ call.fixture = IF a = <<>> THEN BestByKeywords(fixtures, call.prompt).name
                         ELSE Head(a).name
        /\ a # <<>> => call.response = Head(a).response
    BY <2>3 DEF FakeInv, Match
  <2>8. ASSUME a = <<>>
        PROVE  call.fixture \notin {<<DemoNames[i]>> : i \in DOMAIN told}
    <3>1. PICK s, best : s = fixtures /\ best = Best(ToSet(s), call.prompt)
      OBVIOUS
    <3>2. s \in Seq(Directory) /\ ToSet(s) \subseteq Directory
      BY <3>1, MembersType DEF FakeInv
    <3>3. call.fixture = DefaultName \/ \E f \in Directory : call.fixture = f.name
      BY <2>7, <2>8, <3>1, <3>2, BestIs DEF Best
    <3>4. DOMAIN told \subseteq DOMAIN DemoNames
      <4>1. Len(told) <= Len(demoFile)
        BY <2>1, ThoseIsShorter DEF FakeInv, Mappings, IsList
      <4>2. /\ Len(told) \in Nat /\ Len(demoFile) \in Nat /\ Len(DemoNames) \in Nat
            /\ DOMAIN told = 1 .. Len(told) /\ DOMAIN DemoNames = 1 .. Len(DemoNames)
        BY <2>2, FixturesAssumption, LenProperties DEF FakeInv, IsList
      <4>3. Len(told) <= Len(DemoNames)
        BY <4>1, <4>2 DEF FakeInv
      <4> QED
        BY <4>2, <4>3
    <3> QED
      BY <3>3, <3>4, FixturesAssumption
  <2> QED
    BY <2>1, <2>3, <2>6, <2>7, <2>8
<1> QED
  BY <1>1, FakeInvHolds, PTL

=============================================================================
