--------------------------- MODULE LlmCacheProofs ---------------------------
(***************************************************************************)
(* Theorems about LlmCache, for any callers, requests, threads, limit and  *)
(* time to live.                                                           *)
(***************************************************************************)
EXTENDS LlmCache, FiniteSetTheorems, TLAPS

Jobs == {"get", "put", "clear", "close"}
Keys == {CacheKey(r) : r \in Requests}
Rows == [answer : Requests, created : Nat, expires : Nat, accessed : Nat]
CallerRecords ==
  [pc : {"ready", "waiting", "working", "asking"}, op : Jobs \union {None},
   request : Requests \union {None}]
ThreadRecords ==
  [job : Jobs \union {None},
   step : {None, "first", "touch", "delete", "count", "evict"},
   of : Callers \union {None}, key : Keys \union {None},
   answer : Requests \union {None}, stamp : Nat, created : Nat, over : Nat]

(***************************************************************************)
(* A row lies at the key of the request its answer is to, and expires TTL  *)
(* after it was stored; a connection that is not open shows no rows.       *)
(***************************************************************************)
TableInv ==
  /\ IsFiniteSet(DOMAIN table)
  /\ \A k \in DOMAIN table :
       /\ table[k] \in Rows
       /\ k = CacheKey(table[k].answer)
       /\ TTL > 0 => table[k].expires = table[k].created + TTL
  /\ connection # "open" => DOMAIN table = {}

GoodCaller(record) ==
  /\ record \in CallerRecords
  /\ record.op \in {"get", "put"} \/ record.pc = "asking" => record.request \in Requests

CallersInv ==
  /\ DOMAIN caller = Callers
  /\ \A c \in Callers : GoodCaller(caller[c])

\* What a thread has read or been given.
GoodThread(record) ==
  /\ record \in ThreadRecords
  /\ record.job = "put" \/ (record.job = "get" /\ record.step = "touch")
       => record.answer \in Requests /\ record.key = CacheKey(record.answer)
  /\ record.job = "get" /\ record.step = "touch" /\ TTL > 0
       => record.stamp <= record.created + TTL
  /\ record.job = "put" /\ record.step = "evict" => record.over > 0

\* A thread that still has a caller has the one that holds the lock, works
\* for its request, and is the only such thread.
Serves(t) ==
  thread[t].of # None =>
    /\ owner = thread[t].of
    /\ caller[owner].pc = "working"
    /\ thread[t].job \in {"get", "put"} =>
         caller[owner].request \in Requests /\ thread[t].key = CacheKey(caller[owner].request)
    /\ \A s \in Threads : thread[s].of # None => s = t

ThreadsInv ==
  /\ DOMAIN thread = Threads
  /\ \A t \in Threads : GoodThread(thread[t]) /\ Serves(t)

\* The threads that are in the middle of a store.
Storing == {t \in Threads : At(t, "put", "count") \/ At(t, "put", "evict")}

\* What is about to be evicted brings the table back to the limit, but for
\* the rows of the other stores.
LimitInv ==
  \A t \in Threads :
    MaxEntries > 0 /\ At(t, "put", "evict") =>
      Cardinality(DOMAIN table)
        <= MaxEntries + thread[t].over + Cardinality(Storing \ {t})

CacheInv ==
  /\ now \in Nat /\ TableInv /\ CallersInv /\ ThreadsInv /\ LimitInv

-----------------------------------------------------------------------------
(* Requests, rows and sets of threads *)

\* The key tells requests apart, since it holds all they are made of.
LEMMA KeyInjective ==
  ASSUME NEW r \in Requests, NEW s \in Requests,
         CacheKey(r) = CacheKey(s)
  PROVE  r = s
<1>1. r.prompt = s.prompt /\ r.schema = s.schema /\ r.config = s.config
  BY DEF CacheKey
<1>2. /\ r = [prompt |-> r.prompt, schema |-> r.schema, config |-> r.config]
      /\ s = [prompt |-> s.prompt, schema |-> s.schema, config |-> s.config]
  BY CacheAssumption
<1> QED
  BY <1>1, <1>2

LEMMA LimitsAreNumbers == MaxEntries \in Nat /\ TTL \in Nat
BY CacheAssumption

LEMMA StoringFinite ==
  ASSUME NEW s
  PROVE  /\ IsFiniteSet(Storing \ {s}) /\ IsFiniteSet(Storing)
         /\ Cardinality(Storing \ {s}) \in Nat
<1>1. Storing \subseteq Threads /\ Storing \ {s} \subseteq Threads
  BY DEF Storing
<1> QED
  BY <1>1, FS_Subset, FS_CardinalityType, CacheAssumption

LEMMA IdleFacts ==
  /\ IdleThread \in ThreadRecords /\ GoodThread(IdleThread)
  /\ IdleThread.job = None /\ IdleThread.of = None
  /\ ReadyCaller \in CallerRecords /\ GoodCaller(ReadyCaller)
<1>1. IdleThread \in ThreadRecords
  BY DEF IdleThread, ThreadRecords
<1>2. GoodThread(IdleThread) /\ IdleThread.job = None /\ IdleThread.of = None
  BY <1>1, CacheAssumption DEF IdleThread, GoodThread
<1>3. ReadyCaller \in CallerRecords
  BY DEF ReadyCaller, CallerRecords
<1>4. GoodCaller(ReadyCaller)
  BY <1>3, CacheAssumption DEF ReadyCaller, GoodCaller
<1> QED
  BY <1>1, <1>2, <1>3, <1>4

\* Taking keys out of the table.
LEMMA FewerRows ==
  ASSUME TableInv, DOMAIN table' \subseteq DOMAIN table,
         \A k \in DOMAIN table' : table'[k] = table[k],
         connection' = connection
  PROVE  /\ TableInv'
         /\ Cardinality(DOMAIN table') <= Cardinality(DOMAIN table)
<1>1. /\ IsFiniteSet(DOMAIN table')
      /\ Cardinality(DOMAIN table') <= Cardinality(DOMAIN table)
  BY FS_Subset DEF TableInv
<1> QED
  BY <1>1 DEF TableInv

LEMMA EmptyTable ==
  ASSUME DOMAIN table' = {}
  PROVE  TableInv' /\ Cardinality(DOMAIN table') = 0
<1>1. IsFiniteSet(DOMAIN table') /\ Cardinality(DOMAIN table') = 0
  BY FS_EmptySet
<1> QED
  BY <1>1 DEF TableInv

-----------------------------------------------------------------------------
(* A thread that leaves *)

\* Whoever leaves the critical section, the others are not touched.
LEMMA LeaveKeeps ==
  ASSUME CallersInv, ThreadsInv, NEW t \in Threads, NEW record,
         LeaveAs(t, record), thread[t].of # None => GoodCaller(record)
  PROVE  CallersInv' /\ ThreadsInv'
<1>1. \A s \in Threads : thread'[s] = IF s = t THEN IdleThread ELSE thread[s]
  BY DEF LeaveAs, ThreadsInv
<1>2. DOMAIN thread' = Threads
  BY DEF LeaveAs, ThreadsInv
<1>3. GoodThread(thread[t]) /\ thread[t].of \in Callers \union {None}
  BY DEF ThreadsInv, GoodThread, ThreadRecords
<1>4. CallersInv'
  BY <1>3 DEF LeaveAs, CallersInv
<1>5. ASSUME NEW s \in Threads
      PROVE  GoodThread(thread'[s]) /\ Serves(s)'
  <2>1. GoodThread(thread'[s])
    BY <1>1, IdleFacts DEF ThreadsInv
  <2>2. CASE thread[t].of = None
    BY <1>1, <2>2, IdleFacts DEF LeaveAs, ThreadsInv, Serves
  <2>3. CASE thread[t].of # None
    <3>1. thread'[s].of = None
      BY <1>1, <2>3, IdleFacts DEF ThreadsInv, Serves
    <3> QED
      BY <2>1, <3>1 DEF Serves
  <2> QED
    BY <2>1, <2>2, <2>3
<1> QED
  BY <1>2, <1>4, <1>5 DEF ThreadsInv

LEMMA LeaveKeepsLimit ==
  ASSUME TableInv, TableInv', ThreadsInv, LimitInv,
         NEW t \in Threads, thread' = [thread EXCEPT ![t] = IdleThread],
         \/ Cardinality(DOMAIN table') <= MaxEntries
         \/ t \notin Storing /\ Cardinality(DOMAIN table') <= Cardinality(DOMAIN table)
         \/ t \in Storing /\ Cardinality(DOMAIN table') + 1 <= Cardinality(DOMAIN table)
  PROVE  LimitInv'
<1> SUFFICES ASSUME NEW s \in Threads, MaxEntries > 0, At(s, "put", "evict")'
             PROVE  Cardinality(DOMAIN table')
                      <= MaxEntries + thread'[s].over + Cardinality(Storing' \ {s})
  BY DEF LimitInv
<1>1. \A u \in Threads : thread'[u] = IF u = t THEN IdleThread ELSE thread[u]
  BY DEF ThreadsInv
<1>2. s # t /\ thread'[s] = thread[s]
  BY <1>1, IdleFacts, CacheAssumption DEF At
<1>3. At(s, "put", "evict")
  BY <1>2 DEF At
<1>4. thread[s].over \in Nat
  BY DEF ThreadsInv, GoodThread, ThreadRecords
<1>5. Cardinality(DOMAIN table)
        <= MaxEntries + thread[s].over + Cardinality(Storing \ {s})
  BY <1>3 DEF LimitInv
<1>6. Storing' = Storing \ {t}
  BY <1>1, IdleFacts, CacheAssumption DEF Storing, At
<1>7. Storing' \ {s} = (Storing \ {s}) \ {t}
  BY <1>6
<1>8. /\ Cardinality(Storing \ {s}) \in Nat /\ IsFiniteSet(Storing \ {s})
      /\ Cardinality((Storing \ {s}) \ {t})
           = IF t \in Storing THEN Cardinality(Storing \ {s}) - 1
             ELSE Cardinality(Storing \ {s})
  BY <1>2, StoringFinite, FS_RemoveElement
<1>9. /\ Cardinality(Storing' \ {s}) \in Nat
      /\ Cardinality(DOMAIN table) \in Nat /\ Cardinality(DOMAIN table') \in Nat
  BY <1>7, <1>8, FS_Subset, FS_CardinalityType DEF TableInv
<1>10. MaxEntries \in Nat
  BY LimitsAreNumbers
<1>11. CASE Cardinality(DOMAIN table') <= MaxEntries
  BY <1>2, <1>4, <1>9, <1>10, <1>11
<1>12. CASE t \notin Storing /\ Cardinality(DOMAIN table') <= Cardinality(DOMAIN table)
  BY <1>2, <1>4, <1>5, <1>7, <1>8, <1>9, <1>10, <1>12
<1>13. CASE t \in Storing /\ Cardinality(DOMAIN table') + 1 <= Cardinality(DOMAIN table)
  <2>1. Cardinality(Storing' \ {s}) = Cardinality(Storing \ {s}) - 1
    BY <1>7, <1>8, <1>13
  <2>2. thread'[s].over = thread[s].over
    BY <1>2
  <2> QED
    BY <1>4, <1>5, <1>8, <1>9, <1>10, <1>13, <2>1, <2>2
<1> QED
  BY <1>11, <1>12, <1>13

\* The other steps leave the stores under way where they are.
LEMMA StoringKeepsLimit ==
  ASSUME LimitInv, Storing' = Storing,
         \A t \in Threads : At(t, "put", "evict")' =>
            At(t, "put", "evict") /\ thread'[t].over = thread[t].over,
         DOMAIN table' = DOMAIN table
  PROVE  LimitInv'
BY DEF LimitInv

-----------------------------------------------------------------------------
(* The callers *)

\* A caller that does not work moves, beside the threads and the table.
LEMMA CallerMoves ==
  ASSUME CacheInv, NEW c \in Callers, caller[c].pc # "working",
         caller' = [caller EXCEPT ![c] = caller'[c]], GoodCaller(caller'[c]),
         UNCHANGED <<now, table, connection, owner, thread>>
  PROVE  CacheInv'
<1>1. \A d \in Callers : caller'[d] = IF d = c THEN caller'[c] ELSE caller[d]
  BY DEF CacheInv, CallersInv
<1>2. CallersInv'
  BY <1>1 DEF CacheInv, CallersInv
<1>3. ThreadsInv'
  <2>1. ASSUME NEW t \in Threads
        PROVE  Serves(t)'
    <3>1. CASE thread[t].of = None
      BY <3>1 DEF Serves
    <3>2. CASE thread[t].of # None
      <4>1. thread[t].of \in Callers
        BY <3>2 DEF CacheInv, ThreadsInv, GoodThread, ThreadRecords
      <4>2. Serves(t) /\ owner \in Callers /\ owner # c
        BY <3>2, <4>1 DEF CacheInv, ThreadsInv, Serves
      <4>3. caller'[owner] = caller[owner]
        BY <1>1, <4>2
      <4> QED
        BY <4>2, <4>3 DEF Serves
    <3> QED
      BY <3>1, <3>2
  <2> QED
    BY <2>1 DEF CacheInv, ThreadsInv
<1>4. TableInv' /\ LimitInv' /\ now' \in Nat
  BY DEF CacheInv, TableInv, LimitInv, Storing, At
<1> QED
  BY <1>2, <1>3, <1>4 DEF CacheInv

LEMMA CallInv ==
  ASSUME CacheInv, NEW c \in Callers, NEW r \in Requests, Call(c, r)
  PROVE  CacheInv'
<1> DEFINE new == [[ReadyCaller EXCEPT !.op = "get", !.request = r] EXCEPT !.pc = "waiting"]
<1>1. new \in CallerRecords /\ GoodCaller(new)
  BY DEF ReadyCaller, CallerRecords, GoodCaller, Jobs
<1>2. caller' = [caller EXCEPT ![c] = caller'[c]] /\ caller'[c] = new
  BY DEF Call, Enqueue, CacheInv, CallersInv
<1> QED
  BY <1>1, <1>2, CallerMoves DEF Call

LEMMA MaintainInv ==
  ASSUME CacheInv, NEW c \in Callers, NEW op \in {"clear", "close"},
         Maintain(c, op)
  PROVE  CacheInv'
<1> DEFINE new == [[ReadyCaller EXCEPT !.op = op] EXCEPT !.pc = "waiting"]
<1>1. new \in CallerRecords /\ GoodCaller(new)
  BY DEF ReadyCaller, CallerRecords, GoodCaller, Jobs
<1>2. caller' = [caller EXCEPT ![c] = caller'[c]] /\ caller'[c] = new
  BY DEF Maintain, Enqueue, CacheInv, CallersInv
<1> QED
  BY <1>1, <1>2, CallerMoves DEF Maintain

LEMMA AdapterAnswersInv ==
  ASSUME CacheInv, NEW c \in Callers, AdapterAnswers(c)
  PROVE  CacheInv'
<1> DEFINE new == [[caller[c] EXCEPT !.op = "put"] EXCEPT !.pc = "waiting"]
<1>1. GoodCaller(caller[c]) /\ caller[c].pc = "asking"
  BY DEF AdapterAnswers, CacheInv, CallersInv
<1>2. new \in CallerRecords /\ GoodCaller(new)
  BY <1>1 DEF CallerRecords, GoodCaller, Jobs
<1>3. caller' = [caller EXCEPT ![c] = caller'[c]] /\ caller'[c] = new
  BY DEF AdapterAnswers, Enqueue, CacheInv, CallersInv
<1> QED
  BY <1>1, <1>2, <1>3, CallerMoves DEF AdapterAnswers

LEMMA AdapterFailsInv ==
  ASSUME CacheInv, NEW c \in Callers, AdapterFails(c)
  PROVE  CacheInv'
<1>1. caller' = [caller EXCEPT ![c] = caller'[c]] /\ caller'[c] = ReadyCaller
  BY DEF AdapterFails, CacheInv, CallersInv
<1> QED
  BY <1>1, IdleFacts, CallerMoves DEF AdapterFails

LEMMA EnterInv ==
  ASSUME CacheInv, NEW c \in Callers, Enter(c)
  PROVE  CacheInv'
<1> DEFINE new == [IdleThread EXCEPT !.job = caller[c].op, !.step = "first", !.of = c,
                     !.key = IF caller[c].request = None THEN None
                             ELSE CacheKey(caller[c].request),
                     !.answer = caller[c].request,
                     !.stamp = IF caller[c].op = "put" THEN now ELSE 0]
<1>1. PICK s \in Threads : thread[s] = IdleThread /\ thread' = [thread EXCEPT ![s] = new]
  BY DEF Enter
<1>3. GoodCaller(caller[c]) /\ now \in Nat
  BY DEF CacheInv, CallersInv
<1>4. new.key \in Keys \union {None}
  BY <1>3 DEF IdleThread, GoodCaller, CallerRecords, Keys
<1>5. new \in ThreadRecords
  BY <1>3, <1>4 DEF IdleThread, ThreadRecords, GoodCaller, CallerRecords
<1>6. /\ new.job = caller[c].op /\ new.step = "first" /\ new.of = c
      /\ new.answer = caller[c].request
      /\ new.job \in {"get", "put"} =>
           caller[c].request \in Requests /\ new.key = CacheKey(caller[c].request)
  BY <1>3, CacheAssumption DEF IdleThread, GoodCaller
<1> HIDE DEF new
<1>7. \A t \in Threads : thread'[t] = IF t = s THEN new ELSE thread[t]
  BY <1>1 DEF CacheInv, ThreadsInv
<1>8. CallersInv'
  <2>1. \A d \in Callers : caller'[d] = IF d = c THEN [caller[c] EXCEPT !.pc = "working"]
                                       ELSE caller[d]
    BY DEF Enter, CacheInv, CallersInv
  <2>2. GoodCaller([caller[c] EXCEPT !.pc = "working"])
    BY <1>3 DEF GoodCaller, CallerRecords
  <2> QED
    BY <2>1, <2>2 DEF Enter, CacheInv, CallersInv
<1>9. ThreadsInv'
  <2>1. caller'[c].pc = "working" /\ caller'[c].request = caller[c].request
    BY <1>3 DEF Enter, CacheInv, CallersInv, GoodCaller, CallerRecords
  <2>2. \A t \in Threads \ {s} : thread'[t].of = None
    <3>1. owner = None
      BY DEF Enter
    <3>2. \A t \in Threads : thread[t].of = None
      BY <3>1 DEF CacheInv, ThreadsInv, Serves
    <3> QED
      BY <1>7, <3>2
  <2>3. GoodThread(new)
    BY <1>5, <1>6 DEF GoodThread
  <2>4. Serves(s)'
    <3>1. thread'[s] = new /\ owner' = c
      BY <1>1, <1>7 DEF Enter
    <3>2. \A t \in Threads : thread'[t].of # None => t = s
      BY <2>2
    <3> QED
      BY <1>6, <2>1, <3>1, <3>2 DEF Serves
  <2>5. \A t \in Threads : GoodThread(thread'[t])
    BY <1>7, <2>3 DEF CacheInv, ThreadsInv
  <2>6. \A t \in Threads : Serves(t)'
    BY <2>2, <2>4 DEF Serves
  <2>7. DOMAIN thread' = Threads
    BY <1>1 DEF CacheInv, ThreadsInv
  <2> QED
    BY <2>5, <2>6, <2>7 DEF ThreadsInv
<1>10. LimitInv'
  <2>1. \A t \in Threads :
          /\ At(t, "put", "count")' <=> At(t, "put", "count")
          /\ At(t, "put", "evict")' <=> At(t, "put", "evict")
    BY <1>1, <1>6, <1>7, IdleFacts, CacheAssumption DEF At
  <2>2. Storing' = Storing
    BY <2>1 DEF Storing
  <2>3. \A t \in Threads : At(t, "put", "evict")' =>
          At(t, "put", "evict") /\ thread'[t].over = thread[t].over
    BY <1>1, <1>7, <2>1, IdleFacts, CacheAssumption DEF At
  <2> QED
    BY <2>2, <2>3, StoringKeepsLimit DEF CacheInv, Enter
<1>11. TableInv' /\ now' \in Nat
  BY DEF CacheInv, TableInv, Enter
<1> QED
  BY <1>8, <1>9, <1>10, <1>11 DEF CacheInv

LEMMA CancelInv ==
  ASSUME CacheInv, NEW c \in Callers, Cancel(c)
  PROVE  CacheInv'
<1>1. \A t \in Threads :
        thread'[t] = IF thread[t].of = c THEN [thread[t] EXCEPT !.of = None] ELSE thread[t]
  BY DEF Cancel
<1>2. \A t \in Threads : GoodThread(thread[t]) /\ thread[t] \in ThreadRecords
  BY DEF CacheInv, ThreadsInv, GoodThread
<1>3. ASSUME NEW t \in Threads
      PROVE
        /\ thread'[t] \in ThreadRecords
        /\ thread'[t].of = IF thread[t].of = c THEN None ELSE thread[t].of
        /\ thread'[t].job = thread[t].job /\ thread'[t].step = thread[t].step
        /\ thread'[t].key = thread[t].key /\ thread'[t].answer = thread[t].answer
        /\ thread'[t].stamp = thread[t].stamp /\ thread'[t].created = thread[t].created
        /\ thread'[t].over = thread[t].over
  <2>1. CASE thread[t].of = c
    <3>1. thread'[t] = [thread[t] EXCEPT !.of = None] /\ thread[t] \in ThreadRecords
      BY <1>1, <1>2, <2>1
    <3> QED
      BY <2>1, <3>1 DEF ThreadRecords
  <2>2. CASE thread[t].of # c
    BY <1>1, <1>2, <2>2
  <2> QED
    BY <2>1, <2>2
<1>4. CallersInv'
  BY IdleFacts DEF Cancel, CacheInv, CallersInv
<1>5. ASSUME NEW t \in Threads
      PROVE  GoodThread(thread'[t])
  BY <1>2, <1>3 DEF GoodThread
<1>6. ASSUME NEW t \in Threads
      PROVE  Serves(t)'
  <2>1. CASE thread'[t].of = None
    BY <2>1 DEF Serves
  <2>2. CASE thread'[t].of # None
    <3>1. Serves(t) /\ thread[t].of # None /\ thread[t].of # c
      BY <1>3, <2>2 DEF CacheInv, ThreadsInv
    <3>2. /\ owner = thread[t].of /\ owner' = owner
          /\ caller'[owner] = caller[owner]
      BY <3>1 DEF Serves, Cancel, CacheInv, CallersInv
    <3>3. \A s \in Threads : thread'[s].of # None => s = t
      BY <1>3, <3>1 DEF Serves
    <3> QED
      BY <1>3, <3>1, <3>2, <3>3 DEF Serves
  <2> QED
    BY <2>1, <2>2
<1>7. ThreadsInv'
  BY <1>5, <1>6 DEF ThreadsInv, Cancel
<1>8. LimitInv'
  <2>1. Storing' = Storing
    BY <1>3 DEF Storing, At
  <2>2. \A t \in Threads : At(t, "put", "evict")' =>
          At(t, "put", "evict") /\ thread'[t].over = thread[t].over
    BY <1>3 DEF At
  <2> QED
    BY <2>1, <2>2, StoringKeepsLimit DEF CacheInv, Cancel
<1>9. TableInv' /\ now' \in Nat
  BY DEF CacheInv, TableInv, Cancel
<1> QED
  BY <1>4, <1>7, <1>8, <1>9 DEF CacheInv

LEMMA TickInv ==
  ASSUME CacheInv, Tick
  PROVE  CacheInv'
<1>1. TableInv' /\ CallersInv' /\ LimitInv' /\ now' \in Nat
  BY DEF CacheInv, Tick, TableInv, CallersInv, LimitInv, Storing, At
<1>2. ThreadsInv'
  BY DEF CacheInv, Tick, ThreadsInv, Serves
<1> QED
  BY <1>1, <1>2 DEF CacheInv

-----------------------------------------------------------------------------
(* The statements *)

\* A thread of a connection that shows no rows ends.
LEMMA NoRowsLeaveInv ==
  ASSUME CacheInv, NEW t \in Threads, NEW record,
         LeaveAs(t, record), thread[t].of # None => GoodCaller(record),
         DOMAIN table' = {}, now' = now
  PROVE  CacheInv'
<1>1. TableInv' /\ Cardinality(DOMAIN table') = 0
  BY EmptyTable
<1>2. CallersInv' /\ ThreadsInv'
  BY LeaveKeeps DEF CacheInv
<1>3. LimitInv'
  <2>1. Cardinality(DOMAIN table') <= MaxEntries
    BY <1>1, CacheAssumption
  <2>2. thread' = [thread EXCEPT ![t] = IdleThread]
    BY DEF LeaveAs
  <2> QED
    BY <1>1, <2>1, <2>2, LeaveKeepsLimit DEF CacheInv
<1> QED
  BY <1>1, <1>2, <1>3 DEF CacheInv

\* What a lookup that finds nothing makes of its caller.
LEMMA MissGood ==
  ASSUME CacheInv, NEW t \in Threads, thread[t].job = "get", thread[t].of # None
  PROVE  GoodCaller(Miss(thread[t].of))
<1>1. /\ thread[t].of \in Callers /\ owner = thread[t].of
      /\ caller[owner].request \in Requests
  BY DEF CacheInv, ThreadsInv, GoodThread, ThreadRecords, Serves
<1>2. caller[owner] \in CallerRecords
  BY <1>1 DEF CacheInv, CallersInv, GoodCaller
<1> QED
  BY <1>1, <1>2 DEF Miss, GoodCaller, CallerRecords

LEMMA GoneInv ==
  ASSUME CacheInv, NEW t \in Threads, Gone(t)
  PROVE  CacheInv'
<1>1. DOMAIN table' = {} /\ now' = now
  BY DEF Gone, CacheInv, TableInv
<1>2. CASE At(t, "get", "first") /\ LeaveAs(t, Miss(thread[t].of))
  BY <1>1, <1>2, MissGood, NoRowsLeaveInv DEF At
<1>3. CASE LeaveAs(t, ReadyCaller)
  BY <1>1, <1>3, IdleFacts, NoRowsLeaveInv
<1> QED
  BY <1>2, <1>3 DEF Gone

LEMMA BrokenInv ==
  ASSUME CacheInv, NEW t \in Threads, Broken(t)
  PROVE  CacheInv'
<1>1. DOMAIN table' = {} /\ now' = now
  BY DEF Broken, CacheInv, TableInv
<1> QED
  BY <1>1, IdleFacts, NoRowsLeaveInv DEF Broken

LEMMA CloseInv ==
  ASSUME CacheInv, NEW t \in Threads, CloseConnection(t)
  PROVE  CacheInv'
<1>1. DOMAIN table' = {} /\ now' = now
  BY DEF CloseConnection, NoRows
<1> QED
  BY <1>1, IdleFacts, NoRowsLeaveInv DEF CloseConnection

LEMMA ClearInv ==
  ASSUME CacheInv, NEW t \in Threads, ClearRows(t)
  PROVE  CacheInv'
<1>1. DOMAIN table' = {} /\ now' = now
  BY DEF ClearRows, NoRows
<1> QED
  BY <1>1, IdleFacts, NoRowsLeaveInv DEF ClearRows

\* A thread that is not in a store ends, and leaves no more rows.
LEMMA LookupLeaveInv ==
  ASSUME CacheInv, TableInv', NEW t \in Threads, t \notin Storing,
         NEW record, LeaveAs(t, record), thread[t].of # None => GoodCaller(record),
         Cardinality(DOMAIN table') <= Cardinality(DOMAIN table), now' = now
  PROVE  CacheInv'
<1>1. CallersInv' /\ ThreadsInv'
  BY LeaveKeeps DEF CacheInv
<1>2. thread' = [thread EXCEPT ![t] = IdleThread]
  BY DEF LeaveAs
<1>3. LimitInv'
  BY <1>2, LeaveKeepsLimit DEF CacheInv
<1> QED
  BY <1>1, <1>3 DEF CacheInv

\* A thread goes on to its next statement.
LEMMA ThreadMoves ==
  ASSUME CacheInv, NEW t \in Threads, thread' = [thread EXCEPT ![t] = thread'[t]],
         GoodThread(thread'[t]),
         thread'[t].of = thread[t].of, thread'[t].job = thread[t].job,
         thread'[t].key = thread[t].key,
         UNCHANGED <<owner, caller>>
  PROVE  ThreadsInv' /\ CallersInv'
<1>1. \A s \in Threads :
        /\ thread'[s].of = thread[s].of /\ thread'[s].job = thread[s].job
        /\ thread'[s].key = thread[s].key
        /\ s # t => thread'[s] = thread[s]
  BY DEF CacheInv, ThreadsInv
<1>2. \A s \in Threads : GoodThread(thread'[s])
  BY <1>1 DEF CacheInv, ThreadsInv
<1>3. \A s \in Threads : Serves(s)'
  BY <1>1 DEF CacheInv, ThreadsInv, Serves
<1>4. DOMAIN thread' = Threads
  BY DEF CacheInv, ThreadsInv
<1> QED
  BY <1>2, <1>3, <1>4 DEF CacheInv, ThreadsInv, CallersInv

LEMMA SelectRowInv ==
  ASSUME CacheInv, NEW t \in Threads, SelectRow(t)
  PROVE  CacheInv'
<1> DEFINE k == thread[t].key
<1>1. thread[t].job = "get" /\ GoodThread(thread[t]) /\ t \notin Storing
  BY DEF SelectRow, At, CacheInv, ThreadsInv, Storing
<1>2. TableInv' /\ now' \in Nat /\ table' = table /\ now' = now
  BY DEF SelectRow, CacheInv, TableInv
<1>3. CASE k \notin DOMAIN table
  <2>1. LeaveAs(t, Miss(thread[t].of))
    BY <1>3 DEF SelectRow
  <2>2. Cardinality(DOMAIN table') <= Cardinality(DOMAIN table)
    BY <1>2, FS_CardinalityType DEF TableInv
  <2> QED
    BY <1>1, <1>2, <2>1, <2>2, MissGood, LookupLeaveInv
<1>4. CASE k \in DOMAIN table
  <2> DEFINE new == [thread[t] EXCEPT !.stamp = now, !.answer = table[k].answer,
                       !.created = table[k].created,
                       !.step = IF table[k].expires # 0 /\ now > table[k].expires
                                  THEN "delete" ELSE "touch"]
  <2>1. /\ table[k] \in Rows /\ k = CacheKey(table[k].answer)
        /\ TTL > 0 => table[k].expires = table[k].created + TTL
    BY <1>4 DEF CacheInv, TableInv
  <2>2. now \in Nat
    BY DEF CacheInv
  <2>3. /\ thread' = [thread EXCEPT ![t] = thread'[t]] /\ thread'[t] = new
        /\ UNCHANGED <<owner, caller>>
    BY <1>4 DEF SelectRow, CacheInv, ThreadsInv
  <2>4. new \in ThreadRecords
    BY <1>1, <2>1, <2>2 DEF GoodThread, ThreadRecords, Rows
  <2>5. /\ new.job = "get" /\ new.of = thread[t].of /\ new.key = k
        /\ new.answer = table[k].answer /\ new.stamp = now
        /\ new.created = table[k].created
        /\ new.step = "touch" => ~ (table[k].expires # 0 /\ now > table[k].expires)
    BY <1>1 DEF GoodThread, ThreadRecords
  <2> HIDE DEF new
  <2>6. new.step = "touch" /\ TTL > 0 => new.stamp <= new.created + TTL
    BY <2>1, <2>2, <2>5, CacheAssumption DEF Rows
  <2>7. new.answer \in Requests /\ new.key = CacheKey(new.answer)
    BY <2>1, <2>5 DEF Rows
  <2>8. GoodThread(new)
    BY <2>4, <2>5, <2>6, <2>7 DEF GoodThread
  <2>9. ThreadsInv' /\ CallersInv'
    BY <1>1, <2>3, <2>5, <2>8, ThreadMoves
  <2>10. \A s \in Threads :
           /\ At(s, "put", "count")' <=> At(s, "put", "count")
           /\ At(s, "put", "evict")' <=> At(s, "put", "evict")
           /\ At(s, "put", "evict") => thread'[s] = thread[s]
    <3>1. \A s \in Threads : s # t => thread'[s] = thread[s]
      BY <2>3 DEF CacheInv, ThreadsInv
    <3>2. thread'[t].job = "get" /\ thread[t].job = "get"
      BY <1>1, <2>3, <2>5
    <3> QED
      BY <3>1, <3>2 DEF At
  <2>11. Storing' = Storing
    BY <2>10 DEF Storing
  <2>12. LimitInv'
    BY <1>2, <2>10, <2>11, StoringKeepsLimit DEF CacheInv
  <2> QED
    BY <1>2, <2>9, <2>12 DEF CacheInv
<1> QED
  BY <1>3, <1>4

LEMMA TouchInv ==
  ASSUME CacheInv, NEW t \in Threads, Touch(t)
  PROVE  CacheInv'
<1>1. t \notin Storing /\ GoodThread(thread[t]) /\ now' = now /\ LeaveAs(t, ReadyCaller)
  BY DEF Touch, At, CacheInv, ThreadsInv, Storing
<1>2. DOMAIN table' = DOMAIN table /\ connection' = connection
  BY DEF Touch
<1>3. ASSUME NEW k \in DOMAIN table
      PROVE  /\ table'[k] \in Rows /\ table'[k].answer = table[k].answer
             /\ table'[k].created = table[k].created
             /\ table'[k].expires = table[k].expires
  <2>1. table[k] \in Rows /\ thread[t].stamp \in Nat
    BY <1>1 DEF CacheInv, TableInv, GoodThread, ThreadRecords
  <2>2. table'[k] \in {table[k], [table[k] EXCEPT !.accessed = thread[t].stamp]}
    BY DEF Touch
  <2> QED
    BY <2>1, <2>2 DEF Rows
<1>4. TableInv'
  BY <1>2, <1>3 DEF CacheInv, TableInv
<1>5. Cardinality(DOMAIN table') <= Cardinality(DOMAIN table)
  BY <1>2, FS_CardinalityType DEF CacheInv, TableInv
<1> QED
  BY <1>1, <1>4, <1>5, IdleFacts, LookupLeaveInv

LEMMA DeleteExpiredInv ==
  ASSUME CacheInv, NEW t \in Threads, DeleteExpired(t)
  PROVE  CacheInv'
<1>1. /\ t \notin Storing /\ thread[t].job = "get" /\ now' = now
      /\ LeaveAs(t, Miss(thread[t].of))
  BY DEF DeleteExpired, At, Storing
<1>2. TableInv' /\ Cardinality(DOMAIN table') <= Cardinality(DOMAIN table)
  BY FewerRows DEF DeleteExpired, Without, CacheInv
<1> QED
  BY <1>1, <1>2, MissGood, LookupLeaveInv

-----------------------------------------------------------------------------
(* The store *)

LEMMA InsertInv ==
  ASSUME CacheInv, NEW t \in Threads, Insert(t)
  PROVE  CacheInv'
<1> DEFINE k == thread[t].key
           entry == [answer |-> thread[t].answer, created |-> thread[t].stamp,
                     expires |-> IF TTL > 0 THEN thread[t].stamp + TTL ELSE 0,
                     accessed |-> thread[t].stamp]
<1>1. /\ GoodThread(thread[t]) /\ thread[t].job = "put" /\ thread[t].step = "first"
      /\ t \notin Storing
  BY DEF Insert, At, CacheInv, ThreadsInv, Storing
<1>2. thread[t].answer \in Requests /\ k = CacheKey(thread[t].answer) /\ thread[t].stamp \in Nat
  BY <1>1 DEF GoodThread, ThreadRecords
<1>3. /\ DOMAIN table' = DOMAIN table \union {k} /\ connection' = connection
      /\ connection = "open" /\ now' = now
      /\ \A x \in DOMAIN table' : table'[x] = IF x = k THEN entry ELSE table[x]
  BY DEF Insert
<1>4. /\ entry \in Rows /\ entry.answer = thread[t].answer
      /\ TTL > 0 => entry.expires = entry.created + TTL
  BY <1>2, CacheAssumption DEF Rows
<1> HIDE DEF entry
<1>5. /\ IsFiniteSet(DOMAIN table')
      /\ Cardinality(DOMAIN table') \in Nat /\ Cardinality(DOMAIN table) \in Nat
      /\ Cardinality(DOMAIN table') <= Cardinality(DOMAIN table) + 1
  <2>1. IsFiniteSet(DOMAIN table) /\ Cardinality(DOMAIN table) \in Nat
    BY FS_CardinalityType DEF CacheInv, TableInv
  <2>2. /\ IsFiniteSet(DOMAIN table \union {k})
        /\ Cardinality(DOMAIN table \union {k})
             = IF k \in DOMAIN table THEN Cardinality(DOMAIN table)
               ELSE Cardinality(DOMAIN table) + 1
    BY <2>1, FS_AddElement
  <2> QED
    BY <1>3, <2>1, <2>2
<1>6. TableInv'
  BY <1>2, <1>3, <1>4, <1>5 DEF CacheInv, TableInv
<1>7. CASE MaxEntries > 0
  <2> DEFINE new == [thread[t] EXCEPT !.step = "count"]
  <2>1. /\ thread' = [thread EXCEPT ![t] = thread'[t]] /\ thread'[t] = new
        /\ UNCHANGED <<owner, caller>>
    BY <1>7 DEF Insert, CacheInv, ThreadsInv
  <2>2. new \in ThreadRecords
    BY <1>1 DEF GoodThread, ThreadRecords
  <2>3. /\ new.job = "put" /\ new.step = "count" /\ new.of = thread[t].of
        /\ new.key = k /\ new.answer = thread[t].answer
    BY <1>1 DEF GoodThread, ThreadRecords
  <2> HIDE DEF new
  <2>4. GoodThread(new)
    BY <1>2, <2>2, <2>3 DEF GoodThread
  <2>5. ThreadsInv' /\ CallersInv'
    BY <1>1, <2>1, <2>3, <2>4, ThreadMoves
  <2>6. \A s \in Threads : s # t => thread'[s] = thread[s]
    BY <2>1 DEF CacheInv, ThreadsInv
  <2>7. Storing' = Storing \union {t} /\ ~ At(t, "put", "evict")'
    BY <2>1, <2>3, <2>6 DEF Storing, At
  <2>8. LimitInv'
    <3> SUFFICES ASSUME NEW s \in Threads, At(s, "put", "evict")'
                 PROVE  Cardinality(DOMAIN table')
                          <= MaxEntries + thread'[s].over + Cardinality(Storing' \ {s})
      BY DEF LimitInv
    <3>1. s # t /\ thread'[s] = thread[s] /\ At(s, "put", "evict")
      BY <2>6, <2>7 DEF At
    <3>2. Cardinality(DOMAIN table)
            <= MaxEntries + thread[s].over + Cardinality(Storing \ {s})
      BY <1>7, <3>1 DEF CacheInv, LimitInv
    <3>3. thread[s].over \in Nat
      BY DEF CacheInv, ThreadsInv, GoodThread, ThreadRecords
    <3>4. Storing' \ {s} = (Storing \ {s}) \union {t} /\ t \notin Storing \ {s}
      BY <1>1, <2>7, <3>1
    <3>5. /\ Cardinality((Storing \ {s}) \union {t}) = Cardinality(Storing \ {s}) + 1
          /\ Cardinality(Storing \ {s}) \in Nat
      BY <3>4, StoringFinite, FS_AddElement
    <3> QED
      BY <1>5, <3>1, <3>2, <3>3, <3>4, <3>5, LimitsAreNumbers
  <2> QED
    BY <1>3, <1>6, <2>5, <2>8 DEF CacheInv
<1>8. CASE ~ (MaxEntries > 0)
  <2>1. LeaveAs(t, ReadyCaller)
    BY <1>8 DEF Insert
  <2>2. CallersInv' /\ ThreadsInv'
    BY <2>1, IdleFacts, LeaveKeeps DEF CacheInv
  <2>3. LimitInv'
    BY <1>8 DEF LimitInv
  <2> QED
    BY <1>3, <1>6, <2>2, <2>3 DEF CacheInv
<1> QED
  BY <1>7, <1>8

LEMMA CountInv ==
  ASSUME CacheInv, NEW t \in Threads, Count(t)
  PROVE  CacheInv'
<1> DEFINE total == Cardinality(DOMAIN table)
<1>1. /\ GoodThread(thread[t]) /\ thread[t].job = "put" /\ thread[t].step = "count"
      /\ t \in Storing
  BY DEF Count, At, CacheInv, ThreadsInv, Storing
<1>2. TableInv' /\ table' = table /\ now' = now /\ now' \in Nat
  BY DEF Count, CacheInv, TableInv
<1>3. total \in Nat /\ MaxEntries \in Nat
  BY FS_CardinalityType, CacheAssumption DEF CacheInv, TableInv
<1>4. CASE total > MaxEntries
  <2> DEFINE new == [thread[t] EXCEPT !.step = "evict", !.over = total - MaxEntries]
  <2>1. /\ thread' = [thread EXCEPT ![t] = thread'[t]] /\ thread'[t] = new
        /\ UNCHANGED <<owner, caller>>
    BY <1>4 DEF Count, CacheInv, ThreadsInv
  <2>2. total - MaxEntries \in Nat /\ total - MaxEntries > 0
    BY <1>3, <1>4
  <2>3. new \in ThreadRecords
    BY <1>1, <2>2 DEF GoodThread, ThreadRecords
  <2>4. /\ new.job = "put" /\ new.step = "evict" /\ new.of = thread[t].of
        /\ new.key = thread[t].key /\ new.answer = thread[t].answer
        /\ new.over = total - MaxEntries
    BY <1>1 DEF GoodThread, ThreadRecords
  <2> HIDE DEF new
  <2>5. GoodThread(new)
    BY <1>1, <2>2, <2>3, <2>4 DEF GoodThread
  <2>6. ThreadsInv' /\ CallersInv'
    BY <1>1, <2>1, <2>4, <2>5, ThreadMoves
  <2>7. \A s \in Threads : s # t => thread'[s] = thread[s]
    BY <2>1 DEF CacheInv, ThreadsInv
  <2>8. Storing' = Storing
    BY <1>1, <2>1, <2>4, <2>7 DEF Storing, At
  <2>9. LimitInv'
    <3> SUFFICES ASSUME NEW s \in Threads, MaxEntries > 0, At(s, "put", "evict")'
                 PROVE  Cardinality(DOMAIN table')
                          <= MaxEntries + thread'[s].over + Cardinality(Storing' \ {s})
      BY DEF LimitInv
    <3>1. CASE s = t
      <4>1. Cardinality(Storing \ {s}) \in Nat
        BY StoringFinite
      <4> QED
        BY <1>2, <1>3, <2>1, <2>4, <2>8, <3>1, <4>1
    <3>2. CASE s # t
      BY <1>2, <2>7, <2>8, <3>2 DEF CacheInv, LimitInv, At
    <3> QED
      BY <3>1, <3>2
  <2> QED
    BY <1>2, <2>6, <2>9 DEF CacheInv
<1>5. CASE ~ (total > MaxEntries)
  <2>1. LeaveAs(t, ReadyCaller) /\ thread' = [thread EXCEPT ![t] = IdleThread]
    BY <1>5 DEF Count, LeaveAs
  <2>2. CallersInv' /\ ThreadsInv'
    BY <2>1, IdleFacts, LeaveKeeps DEF CacheInv
  <2>3. Cardinality(DOMAIN table') <= MaxEntries
    BY <1>2, <1>3, <1>5
  <2>4. LimitInv'
    BY <1>2, <2>1, <2>3, LeaveKeepsLimit DEF CacheInv
  <2> QED
    BY <1>2, <2>2, <2>4 DEF CacheInv
<1> QED
  BY <1>4, <1>5

\* An eviction takes as many rows as were counted too many, or all.
LEMMA EvictFacts ==
  ASSUME CacheInv, NEW t \in Threads, Evict(t)
  PROVE  /\ TableInv' /\ now' = now /\ LeaveAs(t, ReadyCaller)
         /\ Cardinality(DOMAIN table) \in Nat /\ Cardinality(DOMAIN table') \in Nat
         /\ \/ Cardinality(DOMAIN table') + thread[t].over = Cardinality(DOMAIN table)
            \/ Cardinality(DOMAIN table') = 0
<1>1. PICK S \in Oldest(thread[t].over) : table' = Without(table, S)
  BY DEF Evict
<1>2. /\ S \subseteq DOMAIN table
      /\ Cardinality(S) = IF thread[t].over < Cardinality(DOMAIN table)
                            THEN thread[t].over ELSE Cardinality(DOMAIN table)
  BY DEF Oldest
<1>3. DOMAIN table' = DOMAIN table \ S /\ \A k \in DOMAIN table' : table'[k] = table[k]
  BY <1>1 DEF Without
<1>4. TableInv'
  BY <1>3, FewerRows DEF Evict, CacheInv
<1>5. IsFiniteSet(DOMAIN table) /\ DOMAIN table \cap S = S
  BY <1>2 DEF CacheInv, TableInv
<1>6. Cardinality(DOMAIN table') = Cardinality(DOMAIN table) - Cardinality(S)
  BY <1>3, <1>5, FS_Difference
<1>7. /\ Cardinality(DOMAIN table) \in Nat /\ Cardinality(DOMAIN table') \in Nat
      /\ thread[t].over \in Nat
  BY <1>4, <1>5, FS_CardinalityType DEF TableInv, CacheInv, ThreadsInv, GoodThread, ThreadRecords
<1>8. now' = now /\ LeaveAs(t, ReadyCaller)
  BY DEF Evict
<1> QED
  BY <1>2, <1>4, <1>6, <1>7, <1>8

LEMMA EvictInv ==
  ASSUME CacheInv, NEW t \in Threads, Evict(t)
  PROVE  CacheInv'
<1>1. t \in Storing /\ thread[t].over \in Nat /\ thread[t].over > 0
  BY DEF Evict, At, Storing, CacheInv, ThreadsInv, GoodThread, ThreadRecords
<1>2. CallersInv' /\ ThreadsInv'
  BY EvictFacts, IdleFacts, LeaveKeeps DEF CacheInv
<1>3. thread' = [thread EXCEPT ![t] = IdleThread]
  BY EvictFacts DEF LeaveAs
<1>4. \/ Cardinality(DOMAIN table') <= MaxEntries
      \/ Cardinality(DOMAIN table') + 1 <= Cardinality(DOMAIN table)
  BY <1>1, EvictFacts, CacheAssumption
<1>5. LimitInv'
  BY <1>1, <1>3, <1>4, EvictFacts, LeaveKeepsLimit DEF CacheInv
<1> QED
  BY <1>2, <1>5, EvictFacts DEF CacheInv

-----------------------------------------------------------------------------
(* The theorems *)

LEMMA InitInv == CacheInit => CacheInv
<1> SUFFICES ASSUME CacheInit PROVE CacheInv
  OBVIOUS
<1>1. TableInv
  BY FS_EmptySet DEF CacheInit, TableInv, NoRows
<1>2. CallersInv
  BY IdleFacts DEF CacheInit, CallersInv
<1>3. ThreadsInv
  BY IdleFacts DEF CacheInit, ThreadsInv, Serves
<1>4. LimitInv
  BY IdleFacts, CacheAssumption DEF CacheInit, LimitInv, At
<1> QED
  BY <1>1, <1>2, <1>3, <1>4 DEF CacheInit, CacheInv

LEMMA StepInv == CacheInv /\ [CacheNext]_cacheVars => CacheInv'
<1> SUFFICES ASSUME CacheInv, [CacheNext]_cacheVars PROVE CacheInv'
  OBVIOUS
<1>1. ASSUME NEW c \in Callers, NEW r \in Requests, Call(c, r) PROVE CacheInv'
  BY <1>1, CallInv
<1>2. ASSUME NEW c \in Callers, NEW op \in {"clear", "close"}, Maintain(c, op) PROVE CacheInv'
  BY <1>2, MaintainInv
<1>3. ASSUME NEW c \in Callers, Enter(c) PROVE CacheInv'
  BY <1>3, EnterInv
<1>4. ASSUME NEW c \in Callers, AdapterAnswers(c) PROVE CacheInv'
  BY <1>4, AdapterAnswersInv
<1>5. ASSUME NEW c \in Callers, AdapterFails(c) PROVE CacheInv'
  BY <1>5, AdapterFailsInv
<1>6. ASSUME NEW c \in Callers, Cancel(c) PROVE CacheInv'
  BY <1>6, CancelInv
<1>7. ASSUME NEW t \in Threads, Statement(t) PROVE CacheInv'
  BY <1>7, GoneInv, BrokenInv, SelectRowInv, TouchInv, DeleteExpiredInv, InsertInv,
     CountInv, EvictInv, ClearInv, CloseInv DEF Statement
<1>8. CASE Tick
  BY <1>8, TickInv
<1>9. CASE UNCHANGED cacheVars
  BY <1>9 DEF cacheVars, CacheInv, TableInv, CallersInv, ThreadsInv, Serves, LimitInv,
     Storing, At
<1> QED
  BY <1>1, <1>2, <1>3, <1>4, <1>5, <1>6, <1>7, <1>8, <1>9 DEF CacheNext

LEMMA CacheInvHolds == CacheSpec => []CacheInv
BY InitInv, StepInv, PTL DEF CacheSpec

\* A lookup finds an answer to the request of the caller it works for,
\* whatever threads of cancelled callers do to the table meanwhile.
THEOREM HitIsOwnAnswerHolds == CacheSpec => []HitIsOwnAnswer
<1>1. CacheInv => HitIsOwnAnswer
  <2> SUFFICES ASSUME CacheInv, NEW t \in Threads, At(t, "get", "touch"),
                      thread[t].of # None
               PROVE  thread[t].answer = caller[thread[t].of].request
    BY DEF HitIsOwnAnswer
  <2>1. thread[t].answer \in Requests /\ thread[t].key = CacheKey(thread[t].answer)
    BY DEF CacheInv, ThreadsInv, GoodThread, At
  <2>2. /\ owner = thread[t].of /\ caller[owner].request \in Requests
        /\ thread[t].key = CacheKey(caller[owner].request)
    BY DEF CacheInv, ThreadsInv, Serves, At
  <2> QED
    BY <2>1, <2>2, KeyInjective
<1> QED
  BY <1>1, CacheInvHolds, PTL

\* A lookup never finds an answer older than TTL, however often the row was
\* found, deleted and stored again.
THEOREM FreshHitHolds == CacheSpec => []FreshHit
<1>1. CacheInv => FreshHit
  BY DEF CacheInv, ThreadsInv, GoodThread, FreshHit, At
<1> QED
  BY <1>1, CacheInvHolds, PTL

\* A store leaves at most MaxEntries rows and those of the stores that are
\* under way in other threads.
THEOREM StoreKeepsLimitHolds == CacheSpec => StoreKeepsLimit
<1>1. CacheInv /\ [CacheNext]_cacheVars => [StoreKeepsLimitStep]_cacheVars
  <2> SUFFICES ASSUME CacheInv, NEW t \in Threads, MaxEntries > 0, Count(t) \/ Evict(t),
                      thread'[t] = IdleThread
               PROVE  Cardinality(DOMAIN table')
                        <= MaxEntries + Cardinality({s \in Threads \ {t} :
                                          At(s, "put", "count") \/ At(s, "put", "evict")})
    BY DEF StoreKeepsLimitStep
  <2>1. {s \in Threads \ {t} : At(s, "put", "count") \/ At(s, "put", "evict")} = Storing \ {t}
    BY DEF Storing
  <2> SUFFICES Cardinality(DOMAIN table') <= MaxEntries + Cardinality(Storing \ {t})
    BY <2>1, Zenon
  <2>2. Cardinality(Storing \ {t}) \in Nat /\ MaxEntries \in Nat
    BY StoringFinite, CacheAssumption
  <2>3. CASE Count(t)
    <3>1. Cardinality(DOMAIN table) \in Nat
      BY FS_CardinalityType DEF CacheInv, TableInv
    <3>2. CASE Cardinality(DOMAIN table) > MaxEntries
      <4>1. thread'[t].step = "evict" /\ thread'[t].job = thread[t].job
            /\ thread[t].job = "put"
        BY <2>3, <3>2 DEF Count, CacheInv, ThreadsInv, GoodThread, ThreadRecords, At
      <4> QED
        BY <4>1, IdleFacts, CacheAssumption
    <3>3. CASE ~ (Cardinality(DOMAIN table) > MaxEntries)
      <4>1. table' = table
        BY <2>3 DEF Count
      <4> QED
        BY <2>2, <3>1, <3>3, <4>1
    <3> QED
      BY <3>2, <3>3
  <2>4. CASE Evict(t)
    <3>1. /\ Cardinality(DOMAIN table) <= MaxEntries + thread[t].over + Cardinality(Storing \ {t})
          /\ thread[t].over \in Nat
      BY <2>4 DEF Evict, CacheInv, LimitInv, ThreadsInv, GoodThread, ThreadRecords
    <3> QED
      BY <2>2, <2>4, <3>1, EvictFacts
  <2> QED
    BY <2>3, <2>4
<1> QED
  BY <1>1, CacheInvHolds, PTL DEF CacheSpec, StoreKeepsLimit

-----------------------------------------------------------------------------
(* When rows were used *)

Alone ==
  \A s, u \in Threads : thread[s] # IdleThread /\ thread[u] # IdleThread => s = u

\* A row tells when it was last used, but for a find that its thread has
\* still to note.
Noted(k) ==
  \/ table[k].accessed = used[k]
  \/ \E t \in Threads : At(t, "get", "touch") /\ thread[t].key = k

\* A thread that found a row goes on to note when.
Finder(t) ==
  At(t, "get", "touch") => thread[t].key \in DOMAIN table /\ used[thread[t].key] = thread[t].stamp

UsedInv ==
  used # None =>
    /\ Alone
    /\ DOMAIN used = DOMAIN table
    /\ \A k \in DOMAIN table : Noted(k)
    /\ \A t \in Threads : Finder(t)

\* Every row tells when it was last used while the only thread at work has
\* no find to note.
LEMMA AllNoted ==
  ASSUME UsedInv, used # None, NEW t \in Threads, thread[t] # IdleThread,
         ~ At(t, "get", "touch")
  PROVE  \A k \in DOMAIN table : table[k].accessed = used[k]
<1> SUFFICES ASSUME NEW k \in DOMAIN table PROVE table[k].accessed = used[k]
  OBVIOUS
<1>1. ASSUME NEW u \in Threads, At(u, "get", "touch") PROVE FALSE
  <2>1. thread[u] # IdleThread
    BY <1>1, IdleFacts, CacheAssumption DEF At
  <2> QED
    BY <1>1, <2>1 DEF UsedInv, Alone
<1> QED
  BY <1>1 DEF UsedInv, Noted

\* The thread at work makes a step after which nothing is left to note.
LEMMA WorkerNotes ==
  ASSUME UsedInv, NEW t \in Threads, thread[t] # IdleThread,
         \A s \in Threads : s # t => thread'[s] = thread[s],
         ~ At(t, "get", "touch")', used = None => used' = None,
         used # None => /\ DOMAIN used' = DOMAIN table'
                        /\ \A k \in DOMAIN table' : table'[k].accessed = used'[k]
  PROVE  UsedInv'
<1> SUFFICES ASSUME used' # None PROVE UsedInv'
  BY DEF UsedInv
<1>1. \A s \in Threads : s # t => thread'[s] = IdleThread
  BY DEF UsedInv, Alone
<1>2. \A s \in Threads : ~ At(s, "get", "touch")'
  BY <1>1, IdleFacts, CacheAssumption DEF At
<1>3. Alone'
  BY <1>1 DEF Alone
<1> QED
  BY <1>2, <1>3 DEF UsedInv, Noted, Finder

\* A thread that leaves, or goes on to another step, is the only one to move.
LEMMA OthersStay ==
  ASSUME ThreadsInv, NEW t \in Threads, NEW new, thread' = [thread EXCEPT ![t] = new]
  PROVE  \A s \in Threads : s # t => thread'[s] = thread[s]
BY DEF ThreadsInv

LEMMA LeaverIdle ==
  ASSUME ThreadsInv, NEW t \in Threads, thread' = [thread EXCEPT ![t] = IdleThread]
  PROVE  ~ At(t, "get", "touch")'
BY IdleFacts, CacheAssumption DEF ThreadsInv, At

LEMMA BusyThread ==
  ASSUME NEW t \in Threads, NEW job \in Jobs, thread[t].job = job
  PROVE  thread[t] # IdleThread
BY IdleFacts, CacheAssumption DEF Jobs

LEMMA SameUsed ==
  ASSUME UsedInv, thread' = thread, table' = table, used' = used
  PROVE  UsedInv'
BY DEF UsedInv, Alone, Noted, Finder, At

\* The callers' steps let every thread be, or take its caller away.
LEMMA CallersUsed ==
  ASSUME CacheInv, UsedInv, NEW c \in Callers,
         \/ \E r \in Requests : Call(c, r)
         \/ \E op \in {"clear", "close"} : Maintain(c, op)
         \/ AdapterAnswers(c) \/ AdapterFails(c)
  PROVE  UsedInv'
<1>1. thread' = thread /\ table' = table /\ used' = used
  BY DEF Call, Maintain, AdapterAnswers, AdapterFails
<1> QED
  BY <1>1, SameUsed

LEMMA CancelUsed ==
  ASSUME CacheInv, UsedInv, NEW c \in Callers, Cancel(c)
  PROVE  UsedInv'
<1>1. table' = table /\ used' = used
  BY DEF Cancel
<1>2. ASSUME NEW t \in Threads
      PROVE  /\ thread'[t].job = thread[t].job /\ thread'[t].step = thread[t].step
             /\ thread'[t].key = thread[t].key /\ thread'[t].stamp = thread[t].stamp
             /\ thread[t] = IdleThread => thread'[t] = IdleThread
  <2>1. thread[t] \in ThreadRecords
    BY DEF CacheInv, ThreadsInv, GoodThread
  <2>2. thread'[t] = IF thread[t].of = c THEN [thread[t] EXCEPT !.of = None] ELSE thread[t]
    BY DEF Cancel
  <2>3. thread[t] = IdleThread => thread[t].of # c
    BY IdleFacts, CacheAssumption
  <2> QED
    BY <2>1, <2>2, <2>3 DEF ThreadRecords
<1>3. \A t \in Threads : At(t, "get", "touch")' <=> At(t, "get", "touch")
  BY <1>2 DEF At
<1> QED
  BY <1>1, <1>2, <1>3 DEF UsedInv, Alone, Noted, Finder

\* A thread that begins beside another ends the history.
LEMMA EnterUsed ==
  ASSUME CacheInv, UsedInv, NEW c \in Callers, Enter(c)
  PROVE  UsedInv'
<1> SUFFICES ASSUME used' # None
             PROVE  UsedInv'
  BY DEF UsedInv
<1>1. (\A t \in Threads : thread[t] = IdleThread) /\ used' = used /\ table' = table
  BY DEF Enter
<1> DEFINE new == [IdleThread EXCEPT !.job = caller[c].op, !.step = "first", !.of = c,
                     !.key = IF caller[c].request = None THEN None
                             ELSE CacheKey(caller[c].request),
                     !.answer = caller[c].request,
                     !.stamp = IF caller[c].op = "put" THEN now ELSE 0]
<1>2. PICK s \in Threads : thread' = [thread EXCEPT ![s] = new]
  BY DEF Enter
<1>7. new.step = "first"
  BY DEF IdleThread
<1> HIDE DEF new
<1>3. \A t \in Threads : t # s => thread'[t] = thread[t]
  BY <1>2, OthersStay DEF CacheInv
<1>4. \A k \in DOMAIN table : table[k].accessed = used[k]
  BY <1>1, IdleFacts, CacheAssumption DEF UsedInv, Noted, At
<1>5. At(s, "get", "touch")' => FALSE
  <2>1. thread'[s].step = "first"
    BY <1>2, <1>7 DEF CacheInv, ThreadsInv
  <2> QED
    BY <2>1 DEF At
<1>6. \A t \in Threads : ~ At(t, "get", "touch")'
  BY <1>1, <1>3, <1>5, IdleFacts, CacheAssumption DEF At
<1> QED
  BY <1>1, <1>3, <1>4, <1>6 DEF UsedInv, Alone, Noted, Finder

-----------------------------------------------------------------------------
(* The statements *)

\* A connection that is not open shows no rows to note anything of.
LEMMA NoRowsUsed ==
  ASSUME CacheInv, UsedInv, NEW t \in Threads, Gone(t) \/ Broken(t)
  PROVE  UsedInv'
<1>1. table' = table /\ used' = used /\ connection # "open"
  BY DEF Gone, Broken
<1>2. DOMAIN table = {}
  BY <1>1 DEF CacheInv, TableInv
<1>3. thread[t] # IdleThread
  BY BusyThread DEF Gone, Broken, At, Jobs
<1>4. thread' = [thread EXCEPT ![t] = IdleThread]
  BY DEF Gone, Broken, LeaveAs
<1>5. (\A s \in Threads : s # t => thread'[s] = thread[s]) /\ ~ At(t, "get", "touch")'
  BY <1>4, OthersStay, LeaverIdle DEF CacheInv
<1> QED
  BY <1>1, <1>2, <1>3, <1>5, WorkerNotes DEF UsedInv

LEMMA SelectRowUsed ==
  ASSUME CacheInv, UsedInv, NEW t \in Threads, SelectRow(t)
  PROVE  UsedInv'
<1> DEFINE k == thread[t].key
           expired == table[k].expires # 0 /\ now > table[k].expires
<1>1. At(t, "get", "first") /\ table' = table
  BY DEF SelectRow
<1>2. thread[t] # IdleThread /\ ~ At(t, "get", "touch")
  BY <1>1, BusyThread DEF At, Jobs
<1>3. used # None => DOMAIN used = DOMAIN table /\ \A m \in DOMAIN table : table[m].accessed = used[m]
  BY <1>2, AllNoted DEF UsedInv
<1>4. \A s \in Threads : s # t => thread'[s] = thread[s]
  BY OthersStay DEF SelectRow, LeaveAs, CacheInv
<1>5. CASE k \notin DOMAIN table \/ expired
  <2>1. used' = used
    BY <1>5 DEF SelectRow
  <2>2. CASE k \notin DOMAIN table
    <3>1. ~ At(t, "get", "touch")'
      BY <2>2, LeaverIdle DEF SelectRow, LeaveAs, CacheInv
    <3> QED
      BY <1>1, <1>2, <1>3, <1>4, <2>1, <3>1, WorkerNotes
  <2>3. CASE k \in DOMAIN table
    <3>1. thread[t] \in ThreadRecords
      BY DEF CacheInv, ThreadsInv, GoodThread
    <3>2. thread'[t] = [thread[t] EXCEPT !.stamp = now, !.answer = table[k].answer,
                          !.created = table[k].created, !.step = "delete"]
      BY <1>5, <2>3 DEF SelectRow, CacheInv, ThreadsInv
    <3>3. ~ At(t, "get", "touch")'
      BY <3>1, <3>2 DEF ThreadRecords, At
    <3> QED
      BY <1>1, <1>2, <1>3, <1>4, <2>1, <3>3, WorkerNotes
  <2> QED
    BY <2>2, <2>3
<1>6. CASE k \in DOMAIN table /\ ~ expired
  <2>1. used' = UsedAt(table, k, now)
    BY <1>6 DEF SelectRow
  <2>2. /\ thread'[t].job = thread[t].job /\ thread'[t].step = "touch"
        /\ thread'[t].key = k /\ thread'[t].stamp = now
    <3>1. thread[t] \in ThreadRecords
      BY DEF CacheInv, ThreadsInv, GoodThread
    <3>2. thread'[t] = [thread[t] EXCEPT !.stamp = now, !.answer = table[k].answer,
                          !.created = table[k].created, !.step = "touch"]
      BY <1>6 DEF SelectRow, CacheInv, ThreadsInv
    <3> QED
      BY <3>1, <3>2 DEF ThreadRecords
  <2>3. At(t, "get", "touch")'
    BY <1>1, <2>2 DEF At
  <2> SUFFICES ASSUME used' # None
               PROVE  UsedInv'
    BY DEF UsedInv
  <2>4. used # None /\ used' = [x \in DOMAIN table |-> IF x = k THEN now ELSE used[x]]
    BY <2>1 DEF UsedAt
  <2>5. Alone'
    BY <1>2, <1>4, <2>4 DEF UsedInv, Alone
  <2>6. \A m \in DOMAIN table' : Noted(m)'
    BY <1>1, <1>3, <2>2, <2>3, <2>4 DEF Noted
  <2>7. \A s \in Threads : At(s, "get", "touch")' => s = t
    BY <1>2, <1>4, <2>4, BusyThread DEF UsedInv, Alone, At, Jobs
  <2>8. \A s \in Threads : Finder(s)'
    BY <1>1, <1>6, <2>2, <2>4, <2>7 DEF Finder
  <2>9. DOMAIN used' = DOMAIN table'
    BY <1>1, <2>4
  <2> QED
    BY <2>5, <2>6, <2>8, <2>9 DEF UsedInv
<1> QED
  BY <1>5, <1>6

\* The row of the find is noted; no other row waits to be.
LEMMA TouchUsed ==
  ASSUME CacheInv, UsedInv, NEW t \in Threads, Touch(t)
  PROVE  UsedInv'
<1> DEFINE k == thread[t].key
<1>1. At(t, "get", "touch") /\ used' = used /\ DOMAIN table' = DOMAIN table
  BY DEF Touch
<1>2. thread[t] # IdleThread
  BY <1>1, BusyThread DEF At, Jobs
<1>3. (\A s \in Threads : s # t => thread'[s] = thread[s]) /\ ~ At(t, "get", "touch")'
  BY OthersStay, LeaverIdle DEF Touch, LeaveAs, CacheInv
<1>4. ASSUME used # None, NEW m \in DOMAIN table
      PROVE  table'[m].accessed = used[m]
  <2>1. \A u \in Threads : At(u, "get", "touch") => u = t
    BY <1>2, <1>4, BusyThread DEF UsedInv, Alone, At, Jobs
  <2>2. (table[m].accessed = used[m] \/ m = k) /\ thread[t].stamp = used[k]
    BY <1>1, <1>4, <2>1 DEF UsedInv, Noted, Finder
  <2>3. table[m] \in Rows
    BY DEF CacheInv, TableInv
  <2>4. CASE m = k
    <3>1. table'[m] = [table[m] EXCEPT !.accessed = thread[t].stamp]
      BY <2>4 DEF Touch
    <3>2. table'[m].accessed = thread[t].stamp
      BY <2>3, <3>1 DEF Rows
    <3> QED
      BY <2>2, <2>4, <3>2
  <2>5. CASE m # k
    BY <2>2, <2>5 DEF Touch
  <2> QED
    BY <2>4, <2>5
<1>5. used # None => /\ DOMAIN used' = DOMAIN table'
                     /\ \A m \in DOMAIN table' : table'[m].accessed = used'[m]
  BY <1>1, <1>4 DEF UsedInv
<1> QED
  BY <1>1, <1>2, <1>3, <1>5, WorkerNotes

\* What the other statements are told about the rows.
LEMMA WorkerKnows ==
  ASSUME CacheInv, UsedInv, NEW t \in Threads, NEW job \in Jobs, NEW step,
         At(t, job, step), step # "touch"
  PROVE  /\ thread[t] # IdleThread
         /\ used # None => /\ DOMAIN used = DOMAIN table
                           /\ \A k \in DOMAIN table : table[k].accessed = used[k]
<1>1. thread[t] # IdleThread /\ ~ At(t, "get", "touch")
  BY BusyThread DEF At
<1> QED
  BY <1>1, AllNoted DEF UsedInv

LEMMA RemovalUsed ==
  ASSUME CacheInv, UsedInv, NEW t \in Threads,
         DeleteExpired(t) \/ Evict(t) \/ ClearRows(t) \/ CloseConnection(t)
  PROVE  UsedInv'
<1>1. PICK job \in Jobs, step \in {"first", "delete", "evict"} : At(t, job, step)
  BY DEF DeleteExpired, Evict, ClearRows, CloseConnection, Jobs
<1>2. /\ thread[t] # IdleThread
      /\ used # None => /\ DOMAIN used = DOMAIN table
                        /\ \A k \in DOMAIN table : table[k].accessed = used[k]
  BY <1>1, WorkerKnows
<1>3. /\ DOMAIN table' \subseteq DOMAIN table
      /\ \A k \in DOMAIN table' : table'[k] = table[k]
  BY DEF DeleteExpired, Evict, ClearRows, CloseConnection, Without, NoRows
<1>4. thread' = [thread EXCEPT ![t] = IdleThread] /\ used' = UsedOf(table')
  BY DEF DeleteExpired, Evict, ClearRows, CloseConnection, LeaveAs
<1>5. (\A s \in Threads : s # t => thread'[s] = thread[s]) /\ ~ At(t, "get", "touch")'
  BY <1>4, OthersStay, LeaverIdle DEF CacheInv
<1>6. used = None => used' = None
  BY <1>4 DEF UsedOf
<1>7. used # None => /\ DOMAIN used' = DOMAIN table'
                     /\ \A k \in DOMAIN table' : table'[k].accessed = used'[k]
  BY <1>2, <1>3, <1>4 DEF UsedOf
<1> QED
  BY <1>2, <1>5, <1>6, <1>7, WorkerNotes

\* The thread of a store leaves, or goes on with it.
LEMMA StoreGoesOn ==
  ASSUME CacheInv, NEW t \in Threads, Insert(t) \/ Count(t)
  PROVE  /\ \A s \in Threads : s # t => thread'[s] = thread[s]
         /\ ~ At(t, "get", "touch")'
<1>1. thread[t] \in ThreadRecords /\ thread[t].job = "put"
  BY DEF Insert, Count, At, CacheInv, ThreadsInv, GoodThread
<1>2. CASE thread' = [thread EXCEPT ![t] = IdleThread]
  BY <1>2, OthersStay, LeaverIdle DEF CacheInv
<1>3. CASE thread' = [thread EXCEPT ![t].step = "count"]
  BY <1>1, <1>3 DEF CacheInv, ThreadsInv, ThreadRecords, At
<1>4. CASE thread' = [thread EXCEPT ![t].step = "evict",
                                    ![t].over = Cardinality(DOMAIN table) - MaxEntries]
  BY <1>1, <1>4 DEF CacheInv, ThreadsInv, ThreadRecords, At
<1> QED
  BY <1>2, <1>3, <1>4 DEF Insert, Count, LeaveAs

LEMMA InsertUsed ==
  ASSUME CacheInv, UsedInv, NEW t \in Threads, Insert(t)
  PROVE  UsedInv'
<1> DEFINE k == thread[t].key
           entry == [answer |-> thread[t].answer, created |-> thread[t].stamp,
                     expires |-> IF TTL > 0 THEN thread[t].stamp + TTL ELSE 0,
                     accessed |-> thread[t].stamp]
<1>1. /\ thread[t] # IdleThread
      /\ used # None => /\ DOMAIN used = DOMAIN table
                        /\ \A m \in DOMAIN table : table[m].accessed = used[m]
  BY WorkerKnows DEF Insert, Jobs
<1>2. /\ table' = [x \in DOMAIN table \union {k} |-> IF x = k THEN entry ELSE table[x]]
      /\ used' = UsedAt(table', k, thread[t].stamp)
  BY DEF Insert
<1>3. entry.accessed = thread[t].stamp
  OBVIOUS
<1> HIDE DEF entry
<1>4. used # None => /\ DOMAIN used' = DOMAIN table'
                     /\ \A m \in DOMAIN table' : table'[m].accessed = used'[m]
  BY <1>1, <1>2, <1>3 DEF UsedAt
<1>5. used = None => used' = None
  BY <1>2 DEF UsedAt
<1> QED
  BY <1>1, <1>4, <1>5, StoreGoesOn, WorkerNotes

LEMMA CountUsed ==
  ASSUME CacheInv, UsedInv, NEW t \in Threads, Count(t)
  PROVE  UsedInv'
<1>1. /\ thread[t] # IdleThread
      /\ used # None => /\ DOMAIN used = DOMAIN table
                        /\ \A m \in DOMAIN table : table[m].accessed = used[m]
  BY WorkerKnows DEF Count, Jobs
<1>2. table' = table /\ used' = used
  BY DEF Count
<1> QED
  BY <1>1, <1>2, StoreGoesOn, WorkerNotes

LEMMA UsedInit == CacheInit => UsedInv
BY IdleFacts, CacheAssumption DEF CacheInit, UsedInv, Alone, Noted, Finder, At, NoRows

LEMMA UsedStep == CacheInv /\ UsedInv /\ [CacheNext]_cacheVars => UsedInv'
<1> SUFFICES ASSUME CacheInv, UsedInv, [CacheNext]_cacheVars PROVE UsedInv'
  OBVIOUS
<1>1. ASSUME NEW c \in Callers, NEW r \in Requests, Call(c, r) PROVE UsedInv'
  BY <1>1, CallersUsed
<1>2. ASSUME NEW c \in Callers, NEW op \in {"clear", "close"}, Maintain(c, op) PROVE UsedInv'
  BY <1>2, CallersUsed
<1>3. ASSUME NEW c \in Callers, Enter(c) PROVE UsedInv'
  BY <1>3, EnterUsed
<1>4. ASSUME NEW c \in Callers, AdapterAnswers(c) \/ AdapterFails(c) PROVE UsedInv'
  BY <1>4, CallersUsed
<1>5. ASSUME NEW c \in Callers, Cancel(c) PROVE UsedInv'
  BY <1>5, CancelUsed
<1>6. ASSUME NEW t \in Threads, Statement(t) PROVE UsedInv'
  BY <1>6, NoRowsUsed, SelectRowUsed, TouchUsed, RemovalUsed, InsertUsed, CountUsed
     DEF Statement
<1>7. CASE Tick \/ UNCHANGED cacheVars
  BY <1>7, SameUsed DEF Tick, cacheVars
<1> QED
  BY <1>1, <1>2, <1>3, <1>4, <1>5, <1>6, <1>7 DEF CacheNext

\* As long as one thread at a time has worked on the table, a store evicts no
\* row that was stored or found later than one it keeps: every find has been
\* noted by the time a store chooses.
THEOREM RecentlyUsedStaysHolds == CacheSpec => RecentlyUsedStays
<1>1. CacheInv /\ UsedInv /\ [CacheNext]_cacheVars => [RecentlyUsedStaysStep]_cacheVars
  <2> SUFFICES ASSUME CacheInv, UsedInv, NEW t \in Threads, Evict(t), used # None,
                      NEW k \in DOMAIN table \ DOMAIN table', NEW m \in DOMAIN table'
               PROVE  used[k] <= used[m]
    BY DEF RecentlyUsedStaysStep
  <2>1. \A x \in DOMAIN table : table[x].accessed = used[x]
    BY WorkerKnows DEF Evict, Jobs
  <2>2. PICK S \in Oldest(thread[t].over) : table' = Without(table, S)
    BY DEF Evict
  <2>3. k \in S /\ m \in DOMAIN table \ S
    BY <2>2 DEF Without
  <2>4. table[k].accessed <= table[m].accessed
    BY <2>2, <2>3 DEF Oldest
  <2> QED
    BY <2>1, <2>3, <2>4
<1>2. CacheSpec => []UsedInv
  BY UsedInit, UsedStep, CacheInvHolds, PTL DEF CacheSpec
<1> QED
  BY <1>1, <1>2, CacheInvHolds, PTL DEF CacheSpec, RecentlyUsedStays

=============================================================================
