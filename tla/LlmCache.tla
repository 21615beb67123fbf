------------------------------ MODULE LlmCache ------------------------------
(***************************************************************************)
(* The response cache (infrastructure/llm/cached_llm.py): a table of a     *)
(* SQLite file, one connection and one asyncio.Lock.  A call looks its key *)
(* up, asks the adapter on a miss, and stores the answer; lookup and store *)
(* are critical sections of their own.  Inside one, a thread of the        *)
(* executor works on the table while the caller waits for it.  A caller    *)
(* that is cancelled there gives the lock back at once but its thread goes *)
(* on, so that the statements of several threads may interleave.           *)
(*                                                                         *)
(* What the adapter does to answer is LlmCalls; here it answers or fails.  *)
(***************************************************************************)
EXTENDS Optional, Naturals, FiniteSets, SequencesExt

CONSTANTS
  Callers,      \* each makes one call of the cache after another
  Requests,     \* records of a prompt, an output_schema and a config
  Threads,      \* of the default executor
  MaxEntries,   \* max_entries; 0 is no limit
  TTL,          \* ttl_seconds; 0 is no expiry
  MaxTime       \* bound on the clock

\* A request is its prompt, its schema and its config, and nothing else.
ASSUME CacheAssumption ==
  /\ \A r \in Requests :
       r = [prompt |-> r.prompt, schema |-> r.schema, config |-> r.config]
  /\ None \notin Callers /\ None \notin Requests
  /\ None \notin {"get", "put", "clear", "close"}
  /\ IsFiniteSet(Threads)
  /\ MaxEntries \in Nat /\ TTL \in Nat /\ MaxTime \in Nat

VARIABLES
  now,          \* time.time
  table,        \* llm_cache as the connection sees it: entries by key
  connection,   \* "open", "closed" by its thread, or "gone": the field is None
  owner,        \* the caller that holds _lock
  queue,        \* those that wait for it, in the order they came
  caller,       \* the local state of each caller
  thread,       \* the statement each thread is at
  used          \* history: when each row was last stored or found, until
                \* two threads work at once; None from then on

cacheVars == <<now, table, connection, owner, queue, caller,
               thread, used>>

\* The provider and model, also in the key, are the same for all calls.
\* Mutant: calls that differ in the schema only share a key.
CacheKeyNoSchema(r) == <<r.prompt, r.config>>
CacheKey(r) == <<r.prompt, r.schema, r.config>>

ReadyCaller == [pc |-> "ready", op |-> None, request |-> None]
IdleThread == [job |-> None, step |-> None, of |-> None, key |-> None,
               answer |-> None, stamp |-> 0, created |-> 0, over |-> 0]
NoRows == [k \in {} |-> None]

CacheInit ==
  /\ now = 0
  /\ table = NoRows
  /\ connection = "open"
  /\ owner = None /\ queue = <<>>
  /\ caller = [c \in Callers |-> ReadyCaller]
  /\ thread = [s \in Threads |-> IdleThread]
  /\ used = NoRows

\* The history for the rows that are left, and once k is used at `time`.
UsedOf(rows) == IF used = None THEN None ELSE [x \in DOMAIN rows |-> used[x]]
UsedAt(rows, k, time) ==
  IF used = None THEN None
  ELSE [x \in DOMAIN rows |-> IF x = k THEN time ELSE used[x]]

(***************************************************************************)
(* The lock and the callers                                                *)
(***************************************************************************)
Enqueue(c, state) ==
  /\ caller' = [caller EXCEPT ![c] = [state EXCEPT !.pc = "waiting"]]
  /\ queue' = Append(queue, c)

\* complete and complete_structured up to the lock.
Call(c, r) ==
  /\ caller[c].pc = "ready"
  /\ Enqueue(c, [ReadyCaller EXCEPT !.op = "get", !.request = r])
  /\ UNCHANGED <<now, table, connection, owner, thread, used>>

\* clear and close up to the lock.
Maintain(c, op) ==
  /\ caller[c].pc = "ready"
  /\ Enqueue(c, [ReadyCaller EXCEPT !.op = op])
  /\ UNCHANGED <<now, table, connection, owner, thread, used>>

\* The lock goes to the caller that has waited longest, and its job to a
\* thread (one that has the lock but no thread yet differs in nothing from
\* one that still waits at the head of the queue).
Enter(c) ==
  /\ owner = None /\ queue # <<>> /\ Head(queue) = c
  /\ \E t \in Threads : thread[t] = IdleThread
  /\ queue' = Tail(queue)
  /\ owner' = c
  /\ caller' = [caller EXCEPT ![c].pc = "working"]
  /\ thread' = [thread EXCEPT ![CHOOSE t \in Threads : thread[t] = IdleThread] =
       [IdleThread EXCEPT !.job = caller[c].op, !.step = "first", !.of = c,
          !.key = IF caller[c].request = None THEN None
                  ELSE CacheKey(caller[c].request),
          !.answer = caller[c].request,
          !.stamp = IF caller[c].op = "put" THEN now ELSE 0]]
  /\ used' = IF \A t \in Threads : thread[t] = IdleThread THEN used ELSE None
  /\ UNCHANGED <<now, table, connection>>

\* The thread of job t is done; if its caller still waits it leaves the
\* critical section and goes on.
LeaveAs(t, state) ==
  /\ thread' = [thread EXCEPT ![t] = IdleThread]
  /\ IF thread[t].of = None
       THEN UNCHANGED <<owner, caller>>
       ELSE /\ owner' = None
            /\ caller' = [caller EXCEPT ![thread[t].of] = state]
  /\ UNCHANGED queue

Miss(c) == [caller[c] EXCEPT !.pc = "asking"]

\* The adapter answers a miss, or raises.
AdapterAnswers(c) ==
  /\ caller[c].pc = "asking"
  /\ Enqueue(c, [caller[c] EXCEPT !.op = "put"])
  /\ UNCHANGED <<now, table, connection, owner, thread, used>>

AdapterFails(c) ==
  /\ caller[c].pc = "asking"
  /\ caller' = [caller EXCEPT ![c] = ReadyCaller]
  /\ UNCHANGED <<now, table, connection, owner, queue, thread, used>>

\* The caller is cancelled where it waits.  A job no thread has taken yet
\* is withdrawn; a thread that works goes on without its caller.
\* Mutant: the lock is not given back.
CancelHolding(c) ==
  /\ caller[c].pc # "ready"
  /\ caller' = [caller EXCEPT ![c] = ReadyCaller]
  /\ queue' = SelectSeq(queue, LAMBDA d : d # c)
  /\ UNCHANGED owner
  /\ thread' = [t \in Threads |-> IF thread[t].of = c
                  THEN [thread[t] EXCEPT !.of = None] ELSE thread[t]]
  /\ UNCHANGED <<now, table, connection, used>>
Cancel(c) ==
  /\ caller[c].pc # "ready"
  /\ caller' = [caller EXCEPT ![c] = ReadyCaller]
  /\ queue' = SelectSeq(queue, LAMBDA d : d # c)
  /\ owner' = IF owner = c THEN None ELSE owner
  /\ thread' = [t \in Threads |-> IF thread[t].of = c
                  THEN [thread[t] EXCEPT !.of = None] ELSE thread[t]]
  /\ UNCHANGED <<now, table, connection, used>>

(***************************************************************************)
(* The statements of a thread.  A connection that is gone makes every job  *)
(* but close a no-op; one that is closed makes every statement fail.       *)
(***************************************************************************)
At(t, job, step) == thread[t].job = job /\ thread[t].step = step

Without(rows, keys) == [k \in DOMAIN rows \ keys |-> rows[k]]

Gone(t) ==
  /\ connection = "gone" /\ thread[t].step = "first"
  /\ \/ At(t, "get", "first") /\ LeaveAs(t, Miss(thread[t].of))
     \/ thread[t].job \in {"put", "clear", "close"} /\ LeaveAs(t, ReadyCaller)
  /\ UNCHANGED <<now, table, connection, used>>

Broken(t) ==
  /\ thread[t] # IdleThread /\ thread[t].job # "close"
  /\ connection = "closed" \/ (connection = "gone" /\ thread[t].step # "first")
  /\ LeaveAs(t, ReadyCaller)
  /\ UNCHANGED <<now, table, connection, used>>

\* _get_response_sync: the SELECT and what the row says.
SelectRow(t) ==
  LET k == thread[t].key IN
  /\ At(t, "get", "first") /\ connection = "open"
  /\ IF k \notin DOMAIN table
       THEN LeaveAs(t, Miss(thread[t].of)) /\ UNCHANGED used
       ELSE /\ used' = IF table[k].expires # 0 /\ now > table[k].expires
                         THEN used ELSE UsedAt(table, k, now)
            /\ thread' = [thread EXCEPT ![t] =
                 [@ EXCEPT !.stamp = now, !.answer = table[k].answer,
                           !.created = table[k].created,
                           !.step = IF table[k].expires # 0 /\ now > table[k].expires
                                      THEN "delete" ELSE "touch"]]
            /\ UNCHANGED <<owner, caller, queue>>
  /\ UNCHANGED <<now, table, connection>>

\* The UPDATE of a hit; the row may be gone meanwhile.
\* Mutant: a hit also prolongs the entry's life.
TouchProlonging(t) ==
  LET k == thread[t].key IN
  /\ At(t, "get", "touch") /\ connection = "open"
  /\ table' = IF k \in DOMAIN table
                THEN [table EXCEPT ![k].accessed = thread[t].stamp,
                                   ![k].expires = thread[t].stamp + TTL] ELSE table
  /\ LeaveAs(t, ReadyCaller)
  /\ UNCHANGED <<now, connection, used>>
\* Mutant: a hit is not noted.
TouchNothing(t) ==
  /\ At(t, "get", "touch") /\ connection = "open"
  /\ UNCHANGED table
  /\ LeaveAs(t, ReadyCaller)
  /\ UNCHANGED <<now, connection, used>>
Touch(t) ==
  LET k == thread[t].key IN
  /\ At(t, "get", "touch") /\ connection = "open"
  /\ table' = IF k \in DOMAIN table
                THEN [table EXCEPT ![k].accessed = thread[t].stamp] ELSE table
  /\ LeaveAs(t, ReadyCaller)
  /\ UNCHANGED <<now, connection, used>>

\* The DELETE of an expired row, or of the one that has replaced it.
DeleteExpired(t) ==
  /\ At(t, "get", "delete") /\ connection = "open"
  /\ table' = Without(table, {thread[t].key})
  /\ LeaveAs(t, Miss(thread[t].of))
  /\ used' = UsedOf(table')
  /\ UNCHANGED <<now, connection>>

\* _store_response_sync: INSERT OR REPLACE.
Insert(t) ==
  LET k == thread[t].key
      entry == [answer |-> thread[t].answer, created |-> thread[t].stamp,
                expires |-> IF TTL > 0 THEN thread[t].stamp + TTL ELSE 0,
                accessed |-> thread[t].stamp]
  IN
  /\ At(t, "put", "first") /\ connection = "open"
  /\ table' = [x \in DOMAIN table \union {k} |-> IF x = k THEN entry ELSE table[x]]
  /\ used' = UsedAt(table', k, thread[t].stamp)
  /\ IF MaxEntries > 0
       THEN /\ thread' = [thread EXCEPT ![t].step = "count"]
            /\ UNCHANGED <<owner, caller, queue>>
       ELSE LeaveAs(t, ReadyCaller)
  /\ UNCHANGED <<now, connection>>

\* SELECT COUNT; nothing more to do when the table is within the limit.
\* Mutant: the table may grow one entry too large.
CountLate(t) ==
  LET total == Cardinality(DOMAIN table) IN
  /\ At(t, "put", "count") /\ connection = "open"
  /\ IF total > MaxEntries + 1
       THEN /\ thread' = [thread EXCEPT ![t].step = "evict",
                                        ![t].over = total - MaxEntries]
            /\ UNCHANGED <<owner, caller, queue>>
       ELSE LeaveAs(t, ReadyCaller)
  /\ UNCHANGED <<now, table, connection, used>>
Count(t) ==
  LET total == Cardinality(DOMAIN table) IN
  /\ At(t, "put", "count") /\ connection = "open"
  /\ IF total > MaxEntries
       THEN /\ thread' = [thread EXCEPT ![t].step = "evict",
                                        ![t].over = total - MaxEntries]
            /\ UNCHANGED <<owner, caller, queue>>
       ELSE LeaveAs(t, ReadyCaller)
  /\ UNCHANGED <<now, table, connection, used>>

\* The rows the DELETE may choose: the n that were accessed longest ago.
Oldest(n) ==
  {S \in SUBSET DOMAIN table :
     /\ Cardinality(S) = IF n < Cardinality(DOMAIN table)
                           THEN n ELSE Cardinality(DOMAIN table)
     /\ \A k \in S, m \in DOMAIN table \ S : table[k].accessed <= table[m].accessed}

Evict(t) ==
  /\ At(t, "put", "evict") /\ connection = "open"
  /\ \E S \in Oldest(thread[t].over) : table' = Without(table, S)
  /\ LeaveAs(t, ReadyCaller)
  /\ used' = UsedOf(table')
  /\ UNCHANGED <<now, connection>>

ClearRows(t) ==
  /\ At(t, "clear", "first") /\ connection = "open"
  /\ table' = NoRows
  /\ LeaveAs(t, ReadyCaller)
  /\ used' = UsedOf(table')
  /\ UNCHANGED <<now, connection>>

\* close: the thread closes the connection, its caller then drops it; no
\* job sees the rows again.
CloseConnection(t) ==
  /\ At(t, "close", "first") /\ connection # "gone"
  /\ connection' = IF thread[t].of = None THEN "closed" ELSE "gone"
  /\ table' = NoRows /\ used' = UsedOf(table')
  /\ LeaveAs(t, ReadyCaller)
  /\ UNCHANGED now

\* time.time
Tick ==
  /\ now < MaxTime
  /\ now' = now + 1
  /\ UNCHANGED <<table, connection, owner, queue, caller, thread, used>>

Statement(t) ==
  \/ Gone(t) \/ Broken(t)
  \/ SelectRow(t) \/ Touch(t) \/ DeleteExpired(t)
  \/ Insert(t) \/ Count(t) \/ Evict(t)
  \/ ClearRows(t) \/ CloseConnection(t)

CacheNext ==
  \/ \E c \in Callers :
       \/ \E r \in Requests : Call(c, r)
       \/ \E op \in {"clear", "close"} : Maintain(c, op)
       \/ Enter(c)
       \/ AdapterAnswers(c)
       \/ AdapterFails(c)
       \/ Cancel(c)
  \/ \E t \in Threads : Statement(t)
  \/ Tick

\* Threads run, the loop grants the lock, and a call of the adapter comes
\* back (LlmCalls!EveryCallReturns).
CacheFairness ==
  /\ \A t \in Threads : WF_cacheVars(Statement(t))
  /\ \A c \in Callers :
       WF_cacheVars(Enter(c)) /\ WF_cacheVars(AdapterAnswers(c) \/ AdapterFails(c))

CacheSpec == CacheInit /\ [][CacheNext]_cacheVars /\ CacheFairness

-----------------------------------------------------------------------------
\* The cache key covers what tells calls apart: what a lookup has found for
\* a caller is an answer to that caller's own request.
HitIsOwnAnswer ==
  \A t \in Threads : At(t, "get", "touch") /\ thread[t].of # None =>
    thread[t].answer = caller[thread[t].of].request

\* What a lookup finds was stored no longer than TTL ago, however often it
\* has been found since.
FreshHit ==
  \A t \in Threads :
    At(t, "get", "touch") /\ TTL > 0 => thread[t].stamp <= thread[t].created + TTL

\* A store that comes to its end leaves at most MaxEntries rows, besides
\* those of stores that are under way in other threads.
StoreKeepsLimitStep ==
  \A t \in Threads :
    MaxEntries > 0 /\ (Count(t) \/ Evict(t)) /\ thread'[t] = IdleThread =>
      Cardinality(DOMAIN table')
        <= MaxEntries + Cardinality({s \in Threads \ {t} :
                          At(s, "put", "count") \/ At(s, "put", "evict")})
StoreKeepsLimit == [][StoreKeepsLimitStep]_cacheVars

\* As long as no cancelled caller's thread has worked beside another, a store
\* only evicts rows that were stored or found no later than every row it keeps.
RecentlyUsedStaysStep ==
  \A t \in Threads :
    Evict(t) /\ used # None =>
      \A k \in DOMAIN table \ DOMAIN table', m \in DOMAIN table' : used[k] <= used[m]
RecentlyUsedStays == [][RecentlyUsedStaysStep]_cacheVars

\* Whoever waits for the lock, for a thread or for the adapter gets on: no
\* cancelled caller leaves the lock behind.
EveryCallerGetsOn ==
  \A c \in Callers : (caller[c].pc # "ready") ~> (caller[c].pc = "ready")

=============================================================================
