------------------------- MODULE BriefPipelineProofs -------------------------
(***************************************************************************)
(* What holds of BriefPipeline for every journey, every set of sessions    *)
(* and requests and every combination of faults, proved.                   *)
(***************************************************************************)
EXTENDS BriefPipeline, WellFoundedInduction, TLAPS

-----------------------------------------------------------------------------
(* The journey *)

\* The question the interview asks next is the first one missing: it is a
\* field of the list that is not present, and every field before it is.
LEMMA FirstMissingIsFirst ==
  ASSUME NEW order, order \in Seq(Elements(order)), NEW present,
         MissingAt(order, present) # {}
  PROVE  \E i \in DOMAIN order :
           /\ FirstMissing(order, present) = order[i]
           /\ order[i] \notin present
           /\ \A j \in DOMAIN order : j < i => order[j] \in present
<1> DEFINE M == MissingAt(order, present)
           First(i) == \A j \in M : i <= j
<1>1. DOMAIN order \subseteq Nat
  OBVIOUS
<1>2. M \in SUBSET Nat /\ M # {}
  BY <1>1 DEF MissingAt
<1>3. PICK n \in M : First(n)
  <2> DEFINE R == OpToRel(<, Nat)
  <2>1. PICK n \in M : \A y \in M : ~ (<<y, n>> \in R)
    <3> HIDE DEF M
    <3> QED
      BY <1>2, WFMin, NatLessThanWellFounded
  <2>2. \A x, y \in Nat : x < y => <<x, y>> \in R
    BY DEF OpToRel
  <2>3. First(n)
    <3> HIDE DEF R, M
    <3>1. \A y \in M : ~ (y < n)
      BY <1>2, <2>1, <2>2
    <3> QED
      BY <1>2, <3>1
  <2> QED
    BY <2>3
<1>4. (CHOOSE i \in M : First(i)) \in M /\ First(CHOOSE i \in M : First(i))
  BY <1>3
<1> QED
  BY <1>1, <1>2, <1>4 DEF MissingAt, FirstMissing

\* Asking the next question records fields of the journey only.
LEMMA AskedAfterType ==
  ASSUME NEW filled \in SUBSET Fields, NEW asked \in SUBSET Fields
  PROVE  AskedAfter(filled, asked) \in SUBSET Fields
<1>1. CASE ~ MissingRequired(filled) /\ MissingOptional(filled, asked)
  <2>1. MissingAt(OptionalFields, filled \cup asked) # {}
    BY <1>1 DEF MissingOptional
  <2>2. PICK i \in DOMAIN OptionalFields :
          FirstMissing(OptionalFields, filled \cup asked) = OptionalFields[i]
    BY <2>1, FirstMissingIsFirst, JourneyAssumption
  <2>3. OptionalFields[i] \in Fields
    BY DEF Elements, Fields
  <2> QED
    BY <1>1, <2>2, <2>3 DEF AskedAfter
<1>2. CASE ~ (~ MissingRequired(filled) /\ MissingOptional(filled, asked))
  BY <1>2 DEF AskedAfter
<1> QED
  BY <1>1, <1>2

-----------------------------------------------------------------------------
(* Types *)

\* The three sentinels are neither sessions' nor briefs' records.
LEMMA Sentinels ==
  /\ None \notin SessionRecords /\ None \notin BriefRecords
  /\ Truncated \notin SessionRecords /\ Truncated \notin BriefRecords
  /\ Corrupt \notin SessionRecords /\ Corrupt \notin BriefRecords
  /\ None # Truncated /\ None # Corrupt /\ Truncated # Corrupt
  /\ None \notin Sessions
BY PipelineAssumption

\* A brief that has been through a file is a brief.
LEMMA SerializedType ==
  ASSUME NEW b \in BriefRecords
  PROVE  Serialized(b) \in BriefRecords
BY DEF Serialized, BriefRecords

LEMMA IdleType ==
  /\ Idle \in RequestRecords
  /\ Idle.pc = "idle" /\ Idle.copy = None /\ Idle.saving = "no"
BY PipelineAssumption DEF Idle, RequestRecords, PCs, Savings

LEMMA NewSessionType ==
  NewSession \in SessionRecords /\ NewSession.status # "complete"
BY DEF NewSession, SessionRecords, Statuses

\* Assigning a session's attributes keeps every request well-formed.
LEMMA AssignType ==
  ASSUME TypeInv, NEW r \in Requests, NEW new \in SessionRecords,
         NEW local \in RequestRecords,
         req[r].pc # "idle",
         local.session = req[r].session, local.copy = req[r].copy,
         local.saving # "no" => FileBacked /\ local.pc # "idle",
         local.saving \notin {"open_brief", "write_brief"},
         local.pc \notin {"researched", "synthesizing", "delivering"},
         Assign(r, new, local), UNCHANGED <<brief, locked, lastBundle>>
  PROVE  TypeInv'
<1>1. CASE FileBacked
  <2>1. /\ req' = [req EXCEPT ![r] = [local EXCEPT !.copy = new]]
        /\ store' = store
    BY <1>1 DEF Assign
  <2>2. [local EXCEPT !.copy = new] \in RequestRecords
    BY DEF RequestRecords
  <2>3. TypeOK'
    BY <2>1, <2>2 DEF TypeInv, TypeOK
  <2>4. ASSUME NEW q \in Requests PROVE WellFormed(q)'
    <3>1. CASE q = r
      BY <1>1, <2>1, <2>2, <3>1
      DEF TypeInv, TypeOK, WellFormed, SessionOf, RequestRecords
    <3>2. CASE q # r
      BY <1>1, <2>1, <3>2 DEF TypeInv, TypeOK, WellFormed, SessionOf
    <3> QED
      BY <3>1, <3>2
  <2> QED
    BY <2>3, <2>4 DEF TypeInv
<1>2. CASE ~ FileBacked
  <2>1. /\ req' = [req EXCEPT ![r] = local]
        /\ store' = [store EXCEPT ![req[r].session] = new]
    BY <1>2 DEF Assign
  <2>2. req[r].session \in Sessions
    BY DEF TypeInv, TypeOK, RequestRecords
  <2>3. TypeOK'
    BY <2>1, <2>2 DEF TypeInv, TypeOK
  <2>4. ASSUME NEW q \in Requests PROVE WellFormed(q)'
    <3>1. req[q].session \in Sessions
      BY DEF TypeInv, TypeOK, RequestRecords
    <3>2. CASE q = r
      BY <1>2, <2>1, <2>2, <3>2
      DEF TypeInv, TypeOK, WellFormed, SessionOf
    <3>3. CASE q # r
      BY <1>2, <2>1, <2>2, <3>1, <3>3
      DEF TypeInv, TypeOK, WellFormed, SessionOf
    <3> QED
      BY <3>2, <3>3
  <2> QED
    BY <2>3, <2>4 DEF TypeInv
<1> QED
  BY <1>1, <1>2

\* A request that moves on without touching a session keeps every request
\* well-formed.
LEMMA MoveType ==
  ASSUME TypeInv, NEW r \in Requests, NEW local \in RequestRecords,
         req' = [req EXCEPT ![r] = local], store' = store,
         lastBundle' \in Sessions \cup {None},
         lastBundle \in Sessions => lastBundle' \in Sessions,
         local.pc # "idle" =>
           IF FileBacked THEN local.copy \in SessionRecords
                         ELSE store[local.session] \in SessionRecords,
         ~ FileBacked => local.copy = None,
         local.saving # "no" => FileBacked /\ local.pc # "idle",
         local.saving \in {"open_brief", "write_brief"}
           => local.pc = "delivering",
         local.pc = "researched" => lastBundle' \in Sessions,
         local.pc \in {"synthesizing", "delivering"}
           => local.bundle \in Sessions
  PROVE  /\ req' \in [Requests -> RequestRecords]
         /\ \A q \in Requests : WellFormed(q)'
<1>1. req' \in [Requests -> RequestRecords]
  BY DEF TypeInv, TypeOK
<1>2. ASSUME NEW q \in Requests PROVE WellFormed(q)'
  <2>1. CASE q = r
    BY <2>1 DEF TypeInv, TypeOK, WellFormed, SessionOf
  <2>2. CASE q # r
    BY <2>2 DEF TypeInv, TypeOK, WellFormed, SessionOf
  <2> QED
    BY <2>1, <2>2
<1> QED
  BY <1>1, <1>2

LEMMA TypeInit == Init => TypeInv
<1> SUFFICES ASSUME Init PROVE TypeInv
  OBVIOUS
<1>1. TypeOK
  BY IdleType DEF Init, TypeOK
<1>2. \A r \in Requests : WellFormed(r)
  BY IdleType DEF Init, WellFormed
<1> QED
  BY <1>1, <1>2 DEF TypeInv

LEMMA TypeStep == TypeInv /\ [Next]_vars => TypeInv'
<1> SUFFICES ASSUME TypeInv, [Next]_vars PROVE TypeInv'
  OBVIOUS
<1> USE Sentinels, IdleType
<1>1. ASSUME NEW s \in Sessions, CreateSession(s) PROVE TypeInv'
  <2>1. TypeOK'
    BY <1>1, NewSessionType DEF CreateSession, TypeInv, TypeOK
  <2>2. ASSUME NEW q \in Requests PROVE WellFormed(q)'
    BY <1>1, NewSessionType, req[q].session \in Sessions
    DEF CreateSession, TypeInv, TypeOK, WellFormed, SessionOf, RequestRecords
  <2> QED
    BY <2>1, <2>2 DEF TypeInv
<1>2. ASSUME NEW r \in Requests, NEW s \in Sessions,
             ReceiveMessage(r, s) \/ LookUpSession(r, s)
      PROVE  TypeInv'
  <2> DEFINE local(pc, kind) ==
        [Idle EXCEPT !.pc = pc, !.kind = kind, !.session = s,
                     !.copy = IF FileBacked THEN store[s] ELSE None]
  <2>1. PICK pc \in {"extracting", "looked_up"},
             kind \in {"message", "pipeline"} :
               req' = [req EXCEPT ![r] = local(pc, kind)]
    BY <1>2 DEF ReceiveMessage, LookUpSession
  <2>2. store[s] \in SessionRecords /\ UNCHANGED <<store, brief, locked, lastBundle>>
    BY <1>2 DEF ReceiveMessage, LookUpSession
  <2>3. local(pc, kind) \in RequestRecords
    BY <2>2, ZenonT(60) DEF RequestRecords, PCs
  <2>4. /\ local(pc, kind).pc = pc /\ local(pc, kind).session = s
        /\ local(pc, kind).copy = IF FileBacked THEN store[s] ELSE None
        /\ local(pc, kind).saving = "no"
    BY DEF Idle
  <2> HIDE DEF local
  <2>5. /\ req' \in [Requests -> RequestRecords]
        /\ \A q \in Requests : WellFormed(q)'
    BY <2>1, <2>2, <2>3, <2>4, MoveType DEF TypeInv, TypeOK
  <2> QED
    BY <2>2, <2>5 DEF TypeInv, TypeOK
<1>3. ASSUME NEW r \in Requests, NEW found \in SUBSET Fields,
             ExtractionReturns(r, found)
      PROVE  TypeInv'
  <2> DEFINE old   == SessionOf(r)
             full  == old.filled \cup found
             done  == JourneyComplete(full, old.asked)
             new   == [status |-> "intaking", filled |-> full,
                       asked |-> AskedAfter(full, old.asked)]
             local == [req[r] EXCEPT
                         !.pc = IF done THEN "intake_complete" ELSE "replying",
                         !.data = IF done THEN full ELSE {},
                         !.saving = Save("open_session")]
  <2>1. req[r].pc = "extracting" /\ req[r] \in RequestRecords
    BY <1>3 DEF ExtractionReturns, At, TypeInv, TypeOK
  <2>2. old \in SessionRecords
    BY <2>1 DEF TypeInv, WellFormed
  <2>3. full \in SUBSET Fields /\ old.asked \in SUBSET Fields
    BY <2>2 DEF SessionRecords
  <2>4. new \in SessionRecords
    BY <2>3, AskedAfterType DEF SessionRecords, Statuses
  <2>5. /\ local \in RequestRecords
        /\ local.session = req[r].session /\ local.copy = req[r].copy
        /\ local.pc \in {"intake_complete", "replying"}
        /\ local.saving = Save("open_session")
    BY <2>1, <2>3, ZenonT(60) DEF RequestRecords, PCs, Answered, Savings, Save
  <2>6. /\ Assign(r, new, local)
        /\ UNCHANGED <<brief, locked, lastBundle>>
    BY <1>3 DEF ExtractionReturns
  <2> HIDE DEF new, local
  <2> QED
    BY <2>1, <2>4, <2>5, <2>6, AssignType DEF Save
<1>4. ASSUME NEW r \in Requests,
             \/ ExtractionFails(r) \/ LookUpBrief(r) \/ BriefUnreadable(r)
             \/ ResearchEnds(r) \/ TakeBundle(r) \/ SynthesisReturns(r)
      PROVE  TypeInv'
  <2>1. /\ req[r] \in RequestRecords /\ WellFormed(r) /\ store' = store
        /\ req[r].pc # "idle" /\ req[r].saving = "no"
    BY <1>4 DEF TypeInv, TypeOK, ExtractionFails, LookUpBrief,
       BriefUnreadable, ResearchEnds, TakeBundle, SynthesisReturns, At
  <2>2. CASE ExtractionFails(r) \/ LookUpBrief(r) \/ BriefUnreadable(r)
    <3> DEFINE local(pc) == [req[r] EXCEPT !.pc = pc]
    <3>1. PICK pc \in {"replying", "busy", "granted", "brief_unreadable",
                       "brief_found"} : req' = [req EXCEPT ![r] = local(pc)]
      BY <2>2 DEF ExtractionFails, LookUpBrief, BriefUnreadable, TryLock
    <3>2. locked' \subseteq Sessions /\ UNCHANGED <<brief, lastBundle>>
      BY <2>1, <2>2 DEF ExtractionFails, LookUpBrief, BriefUnreadable,
         TryLock, TypeInv, TypeOK, RequestRecords
    <3>3. /\ local(pc) \in RequestRecords /\ local(pc).pc = pc
          /\ local(pc).session = req[r].session
          /\ local(pc).copy = req[r].copy /\ local(pc).saving = "no"
      BY <2>1 DEF RequestRecords, PCs, Running, Answered
    <3> HIDE DEF local
    <3>4. /\ req' \in [Requests -> RequestRecords]
          /\ \A q \in Requests : WellFormed(q)'
      BY <2>1, <3>1, <3>2, <3>3, MoveType
      DEF TypeInv, TypeOK, WellFormed, SessionOf
    <3> QED
      BY <2>1, <3>2, <3>4 DEF TypeInv, TypeOK
  <2>3. CASE ResearchEnds(r)
    <3> DEFINE local == [req[r] EXCEPT !.pc = "researched"]
    <3>1. /\ req' = [req EXCEPT ![r] = local]
          /\ lastBundle' = req[r].session /\ UNCHANGED <<brief, locked>>
      BY <2>3 DEF ResearchEnds
    <3>2. /\ local \in RequestRecords /\ local.pc = "researched"
          /\ local.session = req[r].session
          /\ local.copy = req[r].copy /\ local.saving = "no"
          /\ req[r].session \in Sessions
      BY <2>1 DEF RequestRecords, PCs, Running
    <3> HIDE DEF local
    <3>3. /\ req' \in [Requests -> RequestRecords]
          /\ \A q \in Requests : WellFormed(q)'
      BY <2>1, <3>1, <3>2, MoveType DEF WellFormed, SessionOf
    <3> QED
      BY <2>1, <3>1, <3>2, <3>3 DEF TypeInv, TypeOK
  <2>4. CASE TakeBundle(r)
    <3> DEFINE local == [req[r] EXCEPT !.pc = "synthesizing",
                                       !.bundle = lastBundle]
    <3>1. /\ req' = [req EXCEPT ![r] = local]
          /\ UNCHANGED <<brief, locked, lastBundle>>
      BY <2>4 DEF TakeBundle
    <3>2. lastBundle \in Sessions
      BY <2>1, <2>4 DEF TakeBundle, At, WellFormed
    <3>3. /\ local \in RequestRecords /\ local.pc = "synthesizing"
          /\ local.session = req[r].session /\ local.bundle = lastBundle
          /\ local.copy = req[r].copy /\ local.saving = "no"
      BY <2>1, <3>2 DEF RequestRecords, PCs, Running
    <3> HIDE DEF local
    <3>4. /\ req' \in [Requests -> RequestRecords]
          /\ \A q \in Requests : WellFormed(q)'
      BY <2>1, <3>1, <3>2, <3>3, MoveType DEF WellFormed, SessionOf
    <3> QED
      BY <2>1, <3>1, <3>4 DEF TypeInv, TypeOK
  <2>5. CASE SynthesisReturns(r)
    <3> DEFINE local == [req[r] EXCEPT !.pc = "delivering",
                                       !.saving = Save("open_brief")]
    <3>1. /\ req' = [req EXCEPT ![r] = local]
          /\ UNCHANGED <<locked, lastBundle>>
      BY <2>5 DEF SynthesisReturns
    <3>2. /\ local \in RequestRecords /\ local.pc = "delivering"
          /\ local.session = req[r].session /\ local.bundle = req[r].bundle
          /\ local.copy = req[r].copy /\ local.saving = Save("open_brief")
      BY <2>1, ZenonT(60) DEF RequestRecords, PCs, Running, Savings, Save
    <3>3. req[r].bundle \in Sessions
      BY <2>1, <2>5 DEF SynthesisReturns, At, WellFormed
    <3>4. Synthesized(r) \in BriefRecords
      BY <2>1, <3>3 DEF Synthesized, BriefRecords, RequestRecords
    <3>5. brief' \in [Sessions -> BriefRecords \cup {None, Truncated, Corrupt}]
      BY <2>5, <3>4 DEF SynthesisReturns, TypeInv, TypeOK
    <3> HIDE DEF local
    <3>6. /\ req' \in [Requests -> RequestRecords]
          /\ \A q \in Requests : WellFormed(q)'
      BY <2>1, <3>1, <3>2, <3>3, MoveType
      DEF TypeInv, TypeOK, WellFormed, SessionOf, Save
    <3> QED
      BY <2>1, <3>1, <3>5, <3>6 DEF TypeInv, TypeOK
  <2> QED
    BY <1>4, <2>2, <2>3, <2>4, <2>5
<1>5. ASSUME NEW r \in Requests,
             \/ StartRun(r) \/ ContinueAfterIntake(r)
             \/ SynthesisFails(r) \/ Complete(r)
      PROVE  TypeInv'
  <2>1. /\ req[r] \in RequestRecords /\ WellFormed(r)
        /\ req[r].pc # "idle" /\ req[r].saving = "no"
        /\ UNCHANGED <<brief, locked, lastBundle>>
    BY <1>5 DEF TypeInv, TypeOK, StartRun, ContinueAfterIntake,
       SynthesisFails, Complete, At
  <2>2. SessionOf(r) \in SessionRecords
    BY <2>1 DEF WellFormed
  <2>3. CASE StartRun(r) /\ ~ FallbackComplete(SessionOf(r).filled)
    <3> DEFINE local == [req[r] EXCEPT !.pc = "not_ready"]
    <3>1. req' = [req EXCEPT ![r] = local] /\ store' = store
      BY <2>3 DEF StartRun
    <3>2. /\ local \in RequestRecords /\ local.pc = "not_ready"
          /\ local.session = req[r].session
          /\ local.copy = req[r].copy /\ local.saving = "no"
      BY <2>1 DEF RequestRecords, PCs, Running
    <3> HIDE DEF local
    <3>3. /\ req' \in [Requests -> RequestRecords]
          /\ \A q \in Requests : WellFormed(q)'
      BY <2>1, <3>1, <3>2, MoveType
      DEF TypeInv, TypeOK, WellFormed, SessionOf
    <3> QED
      BY <2>1, <3>1, <3>3 DEF TypeInv, TypeOK
  <2>4. ASSUME NEW data \in SUBSET Fields, EnterResearch(r, data)
        PROVE  TypeInv'
    <3> DEFINE new   == [SessionOf(r) EXCEPT !.status = "researching"]
               local == [req[r] EXCEPT
                           !.pc = "researching", !.data = data,
                           !.saving = IF SessionOf(r).status # "researching"
                                        THEN Save("open_session") ELSE "no"]
    <3>1. new \in SessionRecords
      BY <2>2 DEF SessionRecords, Statuses
    <3>2. /\ local \in RequestRecords /\ local.pc = "researching"
          /\ local.session = req[r].session /\ local.copy = req[r].copy
          /\ local.saving \in {"no", Save("open_session")}
      BY <2>1, ZenonT(60) DEF RequestRecords, PCs, Running, Savings, Save
    <3>3. Assign(r, new, local)
      BY <2>4 DEF EnterResearch
    <3> HIDE DEF new, local
    <3> QED
      BY <2>1, <3>1, <3>2, <3>3, AssignType DEF Save
  <2>5. CASE StartRun(r) /\ FallbackComplete(SessionOf(r).filled)
    <3>1. SessionOf(r).filled \in SUBSET Fields
      BY <2>2 DEF SessionRecords
    <3> QED
      BY <2>4, <2>5, <3>1 DEF StartRun
  <2>6. CASE ContinueAfterIntake(r)
    <3>1. req[r].data \in SUBSET Fields
      BY <2>1 DEF RequestRecords
    <3> QED
      BY <2>4, <2>6, <3>1 DEF ContinueAfterIntake
  <2>7. ASSUME NEW pc \in {"synthesis_failed", "completed"},
               NEW status \in {"failed", "complete"},
               Assign(r, [SessionOf(r) EXCEPT !.status = status],
                      [req[r] EXCEPT !.pc = pc,
                                     !.saving = Save("open_session")])
        PROVE  TypeInv'
    <3> DEFINE new   == [SessionOf(r) EXCEPT !.status = status]
               local == [req[r] EXCEPT !.pc = pc,
                                       !.saving = Save("open_session")]
    <3>1. new \in SessionRecords
      BY <2>2 DEF SessionRecords, Statuses
    <3>0. pc \in PCs /\ Save("open_session") \in Savings
      BY DEF PCs, Running, Savings, Save
    <3>2. /\ local \in RequestRecords /\ local.pc = pc
          /\ local.session = req[r].session /\ local.copy = req[r].copy
          /\ local.saving = Save("open_session")
      BY <2>1, <3>0 DEF RequestRecords
    <3>3. Assign(r, new, local)
      BY <2>7
    <3> HIDE DEF new, local
    <3> QED
      BY <2>1, <3>1, <3>2, <3>3, AssignType DEF Save
  <2>8. CASE SynthesisFails(r)
    BY <2>7, <2>8 DEF SynthesisFails
  <2>9. CASE Complete(r)
    BY <2>7, <2>9 DEF Complete
  <2> QED
    BY <1>5, <2>3, <2>5, <2>6, <2>8, <2>9
<1>6. ASSUME NEW r \in Requests, Finish(r) \/ Disconnect(r) PROVE TypeInv'
  <2>1. /\ req' = [req EXCEPT ![r] = Idle]
        /\ UNCHANGED <<store, brief, lastBundle>> /\ locked' \subseteq locked
    BY <1>6 DEF Finish, Disconnect
  <2>2. /\ req' \in [Requests -> RequestRecords]
        /\ \A q \in Requests : WellFormed(q)'
    BY <2>1, MoveType DEF TypeInv, TypeOK
  <2> QED
    BY <2>1, <2>2 DEF TypeInv, TypeOK
<1>7. ASSUME NEW r \in Requests, OpenFile(r) \/ WriteFile(r) PROVE TypeInv'
  <2>1. PICK saving \in {"no", "write_session", "write_brief"} :
          /\ req' = [req EXCEPT ![r].saving = saving]
          /\ saving = "write_brief" => req[r].saving = "open_brief"
    BY <1>7 DEF OpenFile, WriteFile
  <2>2. /\ req[r] \in RequestRecords /\ WellFormed(r) /\ FileBacked
        /\ req[r].pc # "idle" /\ UNCHANGED <<locked, lastBundle>>
    BY <1>7 DEF OpenFile, WriteFile, TypeInv, TypeOK, WellFormed
  <2>3. req[r].copy \in SessionRecords
    BY <2>2 DEF WellFormed, SessionOf
  <2>4. /\ store' \in [Sessions -> SessionRecords \cup {None, Truncated, Corrupt}]
        /\ brief' \in [Sessions -> BriefRecords \cup {None, Truncated, Corrupt}]
    <3>1. req[r].saving = "write_brief" => Serialized(Synthesized(r)) \in BriefRecords
      <4>1. req[r].saving = "write_brief" => Synthesized(r) \in BriefRecords
        BY <2>2 DEF Synthesized, BriefRecords, RequestRecords, WellFormed
      <4> QED
        BY <4>1, SerializedType
    <3>2. CASE OpenFile(r)
      BY <3>2 DEF OpenFile, TypeInv, TypeOK
    <3>3. CASE WriteFile(r) /\ req[r].saving = "write_session"
      BY <2>3, <3>3 DEF WriteFile, Overlay, TypeInv, TypeOK
    <3>4. CASE WriteFile(r) /\ req[r].saving = "write_brief"
      BY <3>1, <3>4 DEF WriteFile, Overlay, TypeInv, TypeOK
    <3> QED
      BY <1>7, <3>2, <3>3, <3>4 DEF WriteFile
  <2>5. req' \in [Requests -> RequestRecords]
    BY <2>1, <2>2 DEF TypeInv, TypeOK, RequestRecords, Savings
  <2>6. ASSUME NEW q \in Requests PROVE WellFormed(q)'
    <3>1. req'[q].saving # req[q].saving => q = r
      BY <2>1, <2>2 DEF TypeInv, TypeOK, RequestRecords
    <3>2. /\ req'[q].pc = req[q].pc /\ req'[q].copy = req[q].copy
          /\ req'[q].bundle = req[q].bundle
          /\ req'[q].session = req[q].session
      BY <2>1, <2>2 DEF TypeInv, TypeOK, RequestRecords
    <3>3. req'[r].saving = saving
      BY <2>1, <2>2 DEF TypeInv, TypeOK, RequestRecords
    <3>4. WellFormed(q)
      BY DEF TypeInv
    <3> QED
      BY <2>1, <2>2, <3>1, <3>2, <3>3, <3>4 DEF WellFormed, SessionOf
  <2> QED
    BY <2>2, <2>4, <2>5, <2>6 DEF TypeInv, TypeOK
<1>8. ASSUME NEW r \in Requests, DiskError(r) PROVE TypeInv'
  <2>1. /\ req[r] \in RequestRecords /\ WellFormed(r) /\ FileBacked
        /\ req[r].pc # "idle"
        /\ UNCHANGED <<store, brief, locked, lastBundle>>
    BY <1>8 DEF DiskError, TypeInv, TypeOK, WellFormed
  <2>2. req[r].copy \in SessionRecords
    BY <2>1 DEF WellFormed, SessionOf
  <2>3. [req[r].copy EXCEPT !.status = "failed"] \in SessionRecords
    BY <2>2 DEF SessionRecords, Statuses
  <2>4. PICK copy \in SessionRecords, pc \in {"error", "failed", "intake_failed"},
             saving \in {"no", "open_session"} :
          req' = [req EXCEPT ![r] = [req[r] EXCEPT
                    !.pc = pc, !.copy = copy, !.saving = saving]]
    <3>1. CASE req[r].pc \in {"failed", "intake_failed"}
      <4>1. req' = [req EXCEPT ![r] = [req[r] EXCEPT
                      !.pc = "error", !.copy = req[r].copy, !.saving = "no"]]
        BY <1>8, <2>1, <3>1 DEF DiskError, RequestRecords, TypeInv, TypeOK
      <4> QED
        BY <2>2, <4>1
    <3>2. CASE req[r].pc \notin {"failed", "intake_failed"}
      <4>1. PICK pc \in {"failed", "intake_failed"} :
              req' = [req EXCEPT ![r].pc = pc, ![r].copy.status = "failed",
                                 ![r].saving = "open_session"]
        BY <1>8, <3>2 DEF DiskError
      <4>2. req' = [req EXCEPT ![r] = [req[r] EXCEPT
                      !.pc = pc, !.saving = "open_session",
                      !.copy = [req[r].copy EXCEPT !.status = "failed"]]]
        BY <2>1, <4>1 DEF RequestRecords, TypeInv, TypeOK
      <4> QED
        BY <2>3, <4>2
    <3> QED
      BY <3>1, <3>2
  <2> DEFINE local == [req[r] EXCEPT
                         !.pc = pc, !.copy = copy, !.saving = saving]
  <2>5. pc \in PCs /\ saving \in Savings
    BY DEF PCs, Running, Answered, Savings
  <2>6. /\ local \in RequestRecords /\ local.pc = pc
        /\ local.copy = copy /\ local.saving = saving
    BY <2>1, <2>5 DEF RequestRecords
  <2>7. req' = [req EXCEPT ![r] = local]
    BY <2>4
  <2> HIDE DEF local
  <2>8. /\ req' \in [Requests -> RequestRecords]
        /\ \A q \in Requests : WellFormed(q)'
    BY <2>1, <2>6, <2>7, MoveType DEF TypeInv, TypeOK
  <2> QED
    BY <2>1, <2>8 DEF TypeInv, TypeOK
<1>9. CASE Crash
  <2>1. TypeOK'
    BY <1>9 DEF Crash, TypeInv, TypeOK
  <2>2. \A q \in Requests : WellFormed(q)'
    BY <1>9 DEF Crash, WellFormed
  <2> QED
    BY <2>1, <2>2 DEF TypeInv
<1>10. CASE UNCHANGED vars
  BY <1>10 DEF vars, TypeInv, TypeOK, WellFormed, SessionOf
<1> QED
  BY <1>1, <1>2, <1>3, <1>4, <1>5, <1>6, <1>7, <1>8, <1>9, <1>10
  DEF Next, Serve

LEMMA TypeInvariant == Spec => []TypeInv
BY TypeInit, TypeStep, PTL DEF Spec

\* Every variable keeps its type, whatever fails: in particular no session or
\* brief is ever anything but absent, whole, truncated or overlaid.
THEOREM TypeCorrect == Spec => []TypeOK
<1>1. TypeInv => TypeOK
  BY DEF TypeInv
<1> QED
  BY <1>1, TypeInvariant, PTL

-----------------------------------------------------------------------------
(* The locks *)

\* The others stay where they are, and r moves to one of `to` within the
\* request and the session it has.
Moves(r, to) ==
  /\ \A q \in Requests : q # r => req'[q] = req[q]
  /\ req'[r].pc \in to
  /\ req'[r].kind = req[r].kind /\ req'[r].session = req[r].session

\* The others stay where they are, and r is idle again.
Leaves(r) ==
  /\ \A q \in Requests : q # r => req'[q] = req[q]
  /\ req'[r] = Idle

\* What an assignment to the session leaves of the request itself.
LEMMA AssignMoves ==
  ASSUME TypeOK, NEW r \in Requests, NEW new, NEW local \in RequestRecords,
         Assign(r, new, local)
  PROVE  /\ \A q \in Requests : q # r => req'[q] = req[q]
         /\ req'[r].pc = local.pc /\ req'[r].kind = local.kind
         /\ req'[r].session = local.session
         /\ req'[r].saving = local.saving
<1>1. CASE FileBacked
  <2>1. req' = [req EXCEPT ![r] = [local EXCEPT !.copy = new]]
    BY <1>1 DEF Assign
  <2> QED
    BY <2>1 DEF TypeOK, RequestRecords
<1>2. CASE ~ FileBacked
  BY <1>2 DEF Assign, TypeOK, RequestRecords
<1> QED
  BY <1>1, <1>2

\* An assignment in which the request changes its place, its data and the
\* save it waits for.
LEMMA AssignStep ==
  ASSUME TypeOK, NEW r \in Requests, NEW new, NEW pc \in PCs,
         NEW data \in SUBSET Fields, NEW saving \in Savings,
         Assign(r, new, [req[r] EXCEPT !.pc = pc, !.data = data,
                                       !.saving = saving])
  PROVE  Moves(r, {pc}) /\ req'[r].saving = saving
<1> DEFINE local == [req[r] EXCEPT !.pc = pc, !.data = data,
                                   !.saving = saving]
<1>1. req[r] \in RequestRecords
  BY DEF TypeOK
<1>2. /\ local \in RequestRecords /\ local.pc = pc /\ local.saving = saving
      /\ local.kind = req[r].kind /\ local.session = req[r].session
  BY <1>1 DEF RequestRecords
<1>3. Assign(r, new, local)
  OBVIOUS
<1> HIDE DEF local
<1> QED
  BY <1>2, <1>3, AssignMoves DEF Moves

\* How each step of a request moves it.
LEMMA RequestMoves ==
  ASSUME TypeInv, NEW r \in Requests
  PROVE  /\ \A found \in SUBSET Fields :
              ExtractionReturns(r, found)
              => Moves(r, {"intake_complete", "replying"})
         /\ ExtractionFails(r) => Moves(r, {"replying"})
         /\ LookUpBrief(r) \/ BriefUnreadable(r)
            => Moves(r, {"busy", "granted", "brief_unreadable", "brief_found"})
         /\ StartRun(r) => Moves(r, {"researching", "not_ready"})
         /\ ContinueAfterIntake(r) => Moves(r, {"researching"})
         /\ ResearchEnds(r) => Moves(r, {"researched"})
         /\ TakeBundle(r) => Moves(r, {"synthesizing"})
         /\ SynthesisReturns(r) => Moves(r, {"delivering"})
         /\ SynthesisFails(r) => Moves(r, {"synthesis_failed"})
         /\ Complete(r) => Moves(r, {"completed"})
         /\ OpenFile(r) \/ WriteFile(r) => Moves(r, {req[r].pc})
         /\ DiskError(r)
            => Moves(r, IF req[r].pc \in {"failed", "intake_failed"}
                          THEN {"error"}
                        ELSE IF req[r].pc \in {"replying", "intake_complete"}
                          THEN {"intake_failed"} ELSE {"failed"})
         /\ Finish(r) \/ Disconnect(r) => Leaves(r)
<1>0. /\ req[r] \in RequestRecords /\ TypeOK
      /\ Save("open_session") \in Savings /\ "no" \in Savings
      /\ req[r].data \in SUBSET Fields
  BY DEF TypeInv, TypeOK, Save, Savings, RequestRecords
<1>1. ASSUME NEW found \in SUBSET Fields, ExtractionReturns(r, found)
      PROVE  Moves(r, {"intake_complete", "replying"})
  <2> DEFINE old  == SessionOf(r)
             full == old.filled \cup found
             done == JourneyComplete(full, old.asked)
             pc   == IF done THEN "intake_complete" ELSE "replying"
             data == IF done THEN full ELSE {}
             new  == [status |-> "intaking", filled |-> full,
                      asked |-> AskedAfter(full, old.asked)]
  <2>1. old \in SessionRecords
    BY <1>1 DEF ExtractionReturns, At, TypeInv, WellFormed
  <2>2. full \in SUBSET Fields
    BY <2>1 DEF SessionRecords
  <2>3. pc \in PCs /\ data \in SUBSET Fields
    BY <2>2 DEF PCs, Answered
  <2>4. Assign(r, new, [req[r] EXCEPT !.pc = pc, !.data = data,
                                      !.saving = Save("open_session")])
    BY <1>1 DEF ExtractionReturns
  <2>5. pc \in {"intake_complete", "replying"}
    OBVIOUS
  <2> HIDE DEF pc, data, new
  <2>6. Moves(r, {pc})
    BY <1>0, <2>3, <2>4, AssignStep
  <2> QED
    BY <2>5, <2>6 DEF Moves
<1>2. ASSUME NEW data \in SUBSET Fields, EnterResearch(r, data)
      PROVE  Moves(r, {"researching"})
  <2> DEFINE saving == IF SessionOf(r).status # "researching"
                         THEN Save("open_session") ELSE "no"
  <2>1. "researching" \in PCs /\ saving \in Savings
    BY <1>0 DEF PCs, Running
  <2>2. Assign(r, [SessionOf(r) EXCEPT !.status = "researching"],
               [req[r] EXCEPT !.pc = "researching", !.data = data,
                              !.saving = saving])
    BY <1>2 DEF EnterResearch
  <2> HIDE DEF saving
  <2> QED
    BY <1>0, <2>1, <2>2, AssignStep
<1>3. ASSUME StartRun(r) PROVE Moves(r, {"researching", "not_ready"})
  <2>1. CASE FallbackComplete(SessionOf(r).filled)
    <3>1. SessionOf(r).filled \in SUBSET Fields
      BY <1>3 DEF StartRun, At, TypeInv, WellFormed, SessionRecords
    <3> QED
      BY <1>2, <1>3, <2>1, <3>1 DEF StartRun, Moves
  <2>2. CASE ~ FallbackComplete(SessionOf(r).filled)
    BY <1>0, <1>3, <2>2 DEF StartRun, Moves, TypeOK, RequestRecords
  <2> QED
    BY <2>1, <2>2
<1>4. ASSUME NEW pc \in {"synthesis_failed", "completed"}, NEW new,
             Assign(r, new, [req[r] EXCEPT !.pc = pc,
                                           !.saving = Save("open_session")])
      PROVE  Moves(r, {pc})
  <2>1. [req[r] EXCEPT !.pc = pc, !.saving = Save("open_session")]
        = [req[r] EXCEPT !.pc = pc, !.data = req[r].data,
                         !.saving = Save("open_session")]
    BY <1>0 DEF RequestRecords
  <2>2. pc \in PCs
    BY DEF PCs, Running
  <2> QED
    BY <1>0, <1>4, <2>1, <2>2, AssignStep
<1>5. ExtractionFails(r) => Moves(r, {"replying"})
  BY <1>0 DEF ExtractionFails, Moves, TypeOK, RequestRecords
<1>6. LookUpBrief(r) \/ BriefUnreadable(r)
      => Moves(r, {"busy", "granted", "brief_unreadable", "brief_found"})
  BY <1>0 DEF LookUpBrief, BriefUnreadable, TryLock, Moves, TypeOK,
     RequestRecords
<1>7. ContinueAfterIntake(r) => Moves(r, {"researching"})
  BY <1>0, <1>2 DEF ContinueAfterIntake
<1>8. /\ ResearchEnds(r) => Moves(r, {"researched"})
      /\ TakeBundle(r) => Moves(r, {"synthesizing"})
      /\ SynthesisReturns(r) => Moves(r, {"delivering"})
  BY <1>0
  DEF ResearchEnds, TakeBundle, SynthesisReturns, Moves, TypeOK, RequestRecords
<1>9. /\ SynthesisFails(r) => Moves(r, {"synthesis_failed"})
      /\ Complete(r) => Moves(r, {"completed"})
  BY <1>4 DEF SynthesisFails, Complete
<1>10. OpenFile(r) \/ WriteFile(r) => Moves(r, {req[r].pc})
  BY <1>0 DEF OpenFile, WriteFile, Moves, TypeOK, RequestRecords
<1>11. ASSUME DiskError(r)
       PROVE  Moves(r, IF req[r].pc \in {"failed", "intake_failed"}
                         THEN {"error"}
                       ELSE IF req[r].pc \in {"replying", "intake_complete"}
                         THEN {"intake_failed"} ELSE {"failed"})
  <2>1. CASE req[r].pc \in {"failed", "intake_failed"}
    BY <1>0, <1>11, <2>1 DEF DiskError, Moves, TypeOK, RequestRecords
  <2>2. CASE req[r].pc \notin {"failed", "intake_failed"}
    BY <1>0, <1>11, <2>2 DEF DiskError, Moves, TypeOK, RequestRecords
  <2> QED
    BY <2>1, <2>2
<1>12. Finish(r) \/ Disconnect(r) => Leaves(r)
  BY <1>0 DEF Finish, Disconnect, Leaves, TypeOK
<1> QED
  BY <1>1, <1>3, <1>5, <1>6, <1>7, <1>8, <1>9, <1>10, <1>11, <1>12

\* A request may move, and give up its lock when its run ends, without
\* disturbing the others.
LEMMA LockFrame ==
  ASSUME LockInv, NEW r \in Requests,
         \A q \in Requests : q # r => req'[q] = req[q],
         Holding(r)' => Holding(r) /\ req'[r].session = req[r].session,
         \/ locked' = locked
         \/ /\ Holding(r) /\ ~ Holding(r)'
            /\ locked' = locked \ {req[r].session},
         Placed(r)'
  PROVE  LockInv'
<1>1. ASSUME NEW q \in Requests PROVE Placed(q)'
  BY DEF LockInv, Placed
<1>2. ASSUME NEW q \in Requests, Holding(q)'
      PROVE  Holding(q) /\ req'[q].session = req[q].session
  BY <1>2 DEF Holding
<1>3. ASSUME NEW q \in Requests, Holding(q)' PROVE req'[q].session \in locked'
  BY <1>2, <1>3 DEF LockInv, ExclusiveRuns
<1>4. ExclusiveRuns'
  BY <1>2 DEF LockInv, ExclusiveRuns
<1> QED
  BY <1>1, <1>3, <1>4 DEF LockInv

LEMMA LockInit == Init => LockInv
BY IdleType DEF Init, LockInv, Placed, ExclusiveRuns, Holding, Running

LEMMA LockStep == TypeInv /\ LockInv /\ [Next]_vars => LockInv'
<1> SUFFICES ASSUME TypeInv, LockInv, [Next]_vars PROVE LockInv'
  OBVIOUS
<1> USE IdleType
<1>0. ASSUME NEW r \in Requests PROVE Placed(r) /\ req[r] \in RequestRecords
  BY DEF LockInv, TypeInv, TypeOK
<1>1. CASE req' = req /\ locked' = locked
  BY <1>1 DEF LockInv, Placed, ExclusiveRuns, Holding
<1>2. ASSUME NEW r \in Requests, NEW s \in Sessions,
             ReceiveMessage(r, s) \/ LookUpSession(r, s)
      PROVE  LockInv'
  <2>1. /\ \A q \in Requests : q # r => req'[q] = req[q]
        /\ req'[r].saving = "no" /\ locked' = locked
        /\ \/ req'[r].pc = "extracting" /\ req'[r].kind = "message"
           \/ req'[r].pc = "looked_up"
    <3>1. PICK pc \in PCs, kind \in {"message", "pipeline"} :
            /\ req' = [req EXCEPT ![r] = [Idle EXCEPT
                         !.pc = pc, !.kind = kind, !.session = s,
                         !.copy = IF FileBacked THEN store[s] ELSE None]]
            /\ \/ pc = "extracting" /\ kind = "message"
               \/ pc = "looked_up"
      BY <1>2 DEF ReceiveMessage, LookUpSession, PCs
    <3>2. locked' = locked
      BY <1>2 DEF ReceiveMessage, LookUpSession
    <3> QED
      BY <3>1, <3>2 DEF TypeInv, TypeOK, RequestRecords
  <2>2. ~ Holding(r)'
    BY <2>1 DEF Holding, Running
  <2>3. Placed(r)'
    BY <2>1 DEF Placed
  <2> QED
    BY <2>1, <2>2, <2>3, LockFrame
<1>3. ASSUME NEW r \in Requests,
             \/ ExtractionFails(r) \/ ContinueAfterIntake(r)
             \/ \E found \in SUBSET Fields : ExtractionReturns(r, found)
      PROVE  LockInv'
  <2>1. /\ req[r].pc \in {"extracting", "intake_complete"}
        /\ locked' = locked
    BY <1>3 DEF ExtractionFails, ExtractionReturns, ContinueAfterIntake, At
  <2>2. Moves(r, {"intake_complete", "replying", "researching"})
    BY <1>3, RequestMoves DEF Moves
  <2>3. req[r].kind = "message"
    BY <1>0, <2>1 DEF Placed
  <2>4. Placed(r)' /\ ~ Holding(r)'
    BY <2>2, <2>3 DEF Moves, Placed, Holding, Running
  <2> QED
    BY <2>1, <2>2, <2>4, LockFrame DEF Moves
<1>4. ASSUME NEW r \in Requests, LookUpBrief(r) \/ BriefUnreadable(r)
      PROVE  LockInv'
  <2>1. /\ Moves(r, {"busy", "granted", "brief_unreadable", "brief_found"})
        /\ req'[r].saving = "no" /\ ~ Holding(r)
    <3>1. /\ req[r].pc \in {"looked_up", "brief_unreadable"}
          /\ req[r].saving = "no"
      BY <1>4 DEF LookUpBrief, BriefUnreadable, At
    <3>2. PICK pc \in PCs : req' = [req EXCEPT ![r].pc = pc]
      BY <1>4 DEF LookUpBrief, BriefUnreadable, TryLock, PCs, Running, Answered
    <3>3. req'[r].saving = "no"
      BY <3>1, <3>2 DEF TypeInv, TypeOK, RequestRecords
    <3> QED
      BY <1>4, <3>1, <3>3, RequestMoves DEF Holding, Running
  <2>2. Placed(r)'
    BY <2>1 DEF Moves, Placed
  <2>3. CASE TryLock(r) /\ req[r].session \notin locked
    <3>1. locked' = locked \cup {req[r].session}
      BY <2>3 DEF TryLock
    <3>2. ASSUME NEW q \in Requests, q # r
          PROVE  /\ Placed(q)' /\ (Holding(q)' => Holding(q))
                 /\ req'[q].session = req[q].session
                 /\ Holding(q) => req[q].session # req[r].session
      BY <1>0, <2>1, <2>3, <3>2 DEF Moves, Placed, Holding, LockInv
    <3>3. req'[r].session = req[r].session
      BY <2>1 DEF Moves
    <3>4. ASSUME NEW q \in Requests, Holding(q)'
          PROVE  req'[q].session \in locked'
      BY <3>1, <3>2, <3>3, <3>4 DEF LockInv
    <3>5. ASSUME NEW p \in Requests, NEW q \in Requests, p # q,
                 Holding(p)', Holding(q)', req'[p].session = req'[q].session
          PROVE  FALSE
      BY <3>2, <3>3, <3>5 DEF LockInv, ExclusiveRuns
    <3>6. ExclusiveRuns'
      BY <3>5 DEF ExclusiveRuns
    <3> QED
      BY <2>2, <3>2, <3>4, <3>6 DEF LockInv
  <2>4. CASE ~ (TryLock(r) /\ req[r].session \notin locked)
    <3>1. locked' = locked /\ req'[r].pc # "granted"
      BY <1>0, <1>4, <2>4
      DEF LookUpBrief, BriefUnreadable, TryLock, TypeInv, TypeOK,
          RequestRecords
    <3>2. ~ Holding(r)'
      BY <2>1, <3>1 DEF Moves, Holding, Running
    <3> QED
      BY <2>1, <2>2, <3>1, <3>2, LockFrame DEF Moves
  <2> QED
    BY <2>3, <2>4
<1>5. ASSUME NEW r \in Requests,
             \/ StartRun(r) \/ ResearchEnds(r) \/ TakeBundle(r)
             \/ SynthesisReturns(r) \/ SynthesisFails(r) \/ Complete(r)
      PROVE  LockInv'
  <2>1. req[r].pc \in Running /\ locked' = locked
    BY <1>5 DEF StartRun, ResearchEnds, TakeBundle, SynthesisReturns,
       SynthesisFails, Complete, At, Running
  <2>2. Moves(r, {"researching", "not_ready", "researched", "synthesizing",
                  "delivering", "synthesis_failed", "completed"})
    BY <1>5, RequestMoves DEF Moves
  <2>3. /\ Placed(r)'
        /\ Holding(r)' => Holding(r) /\ req'[r].session = req[r].session
    BY <2>1, <2>2 DEF Moves, Placed, Holding, Running
  <2> QED
    BY <2>1, <2>2, <2>3, LockFrame DEF Moves
<1>6. ASSUME NEW r \in Requests, OpenFile(r) \/ WriteFile(r) \/ DiskError(r)
      PROVE  LockInv'
  <2>1. req[r].saving # "no" /\ locked' = locked
    BY <1>6 DEF OpenFile, WriteFile, DiskError
  <2>2. req[r].pc \in Running \cup {"intake_complete", "replying",
                                    "intake_failed"}
    BY <1>0, <2>1 DEF Placed
  <2>3. CASE OpenFile(r) \/ WriteFile(r)
    <3>1. Moves(r, {req[r].pc})
      BY <2>3, RequestMoves
    <3>2. /\ Placed(r)'
          /\ Holding(r)' => Holding(r) /\ req'[r].session = req[r].session
      BY <1>0, <2>2, <3>1 DEF Moves, Placed, Holding
    <3> QED
      BY <2>1, <3>1, <3>2, LockFrame DEF Moves
  <2>4. CASE DiskError(r)
    <3>1. /\ Moves(r, {"error", "failed", "intake_failed"})
          /\ req[r].kind = "pipeline" => req'[r].pc # "intake_failed"
      BY <1>0, <2>4, RequestMoves DEF Moves, Placed
    <3>2. req[r].pc \notin Running => req[r].kind = "message"
      BY <1>0, <2>2 DEF Placed
    <3>3. /\ Placed(r)'
          /\ Holding(r)' => Holding(r) /\ req'[r].session = req[r].session
      BY <1>0, <3>1, <3>2 DEF Moves, Placed, Holding, Running, RequestRecords
    <3> QED
      BY <2>1, <3>1, <3>3, LockFrame DEF Moves
  <2> QED
    BY <1>6, <2>3, <2>4
<1>7. ASSUME NEW r \in Requests, Finish(r) \/ Disconnect(r) PROVE LockInv'
  <2>1. Leaves(r)
    BY <1>7, RequestMoves
  <2>2. Placed(r)' /\ ~ Holding(r)'
    BY <2>1 DEF Leaves, Placed, Holding, Running
  <2>3. \/ locked' = locked
        \/ Holding(r) /\ locked' = locked \ {req[r].session}
    BY <1>7 DEF Finish, Disconnect
  <2> QED
    BY <2>1, <2>2, <2>3, LockFrame DEF Leaves
<1>8. CASE Crash
  BY <1>8 DEF Crash, LockInv, Placed, ExclusiveRuns, Holding, Running
<1> QED
  BY <1>1, <1>2, <1>3, <1>4, <1>5, <1>6, <1>7, <1>8
  DEF Next, Serve, CreateSession, vars

LEMMA LockInvariant == Spec => []LockInv
BY TypeInvariant, LockInit, LockStep, PTL DEF Spec

\* The pipeline endpoint never runs the pipeline twice at once for a session:
\* for any number of sessions and requests, over either storage adapter and
\* whatever fails, although a disconnect may leave the lock locked.
THEOREM ExclusiveRunsHold == Spec => []ExclusiveRuns
<1>1. LockInv => ExclusiveRuns
  BY DEF LockInv
<1> QED
  BY <1>1, LockInvariant, PTL

-----------------------------------------------------------------------------
(* A complete session has a brief *)

LEMMA BriefInit == Init => BriefInv
BY IdleType, Sentinels
DEF Init, BriefInv, CompleteHasBrief, SawBrief, SessionRecords

\* What a step of r has to show: no brief becomes absent, no session is
\* marked complete without one, and r is right if it has seen one.
LEMMA BriefFrame ==
  ASSUME TypeInv, BriefInv, NEW r \in Requests,
         \A q \in Requests : q # r => req'[q] = req[q],
         \A s \in Sessions : brief[s] # None => brief'[s] # None,
         \A s \in Sessions :
           \/ store'[s] = store[s]
           \/ store'[s] \in SessionRecords /\ store'[s].status = "complete"
              => brief[s] # None,
         SawBrief(r)' => brief'[req'[r].session] # None
  PROVE  BriefInv'
<1>1. CompleteHasBrief'
  BY DEF BriefInv, CompleteHasBrief
<1>2. ASSUME NEW q \in Requests, SawBrief(q)'
      PROVE  brief'[req'[q].session] # None
  <2>1. CASE q = r
    BY <1>2, <2>1
  <2>2. CASE q # r
    <3>1. SawBrief(q) /\ req'[q].session = req[q].session
      BY <1>2, <2>2 DEF SawBrief
    <3>2. req[q].session \in Sessions
      BY DEF TypeInv, TypeOK, RequestRecords
    <3> QED
      BY <3>1, <3>2 DEF BriefInv
  <2> QED
    BY <2>1, <2>2
<1> QED
  BY <1>1, <1>2 DEF BriefInv

\* What an assignment to the session leaves: over files only the request's
\* copy changes, over memory only the session.
LEMMA AssignEffect ==
  ASSUME TypeOK, NEW r \in Requests, NEW new, NEW local \in RequestRecords,
         Assign(r, new, local)
  PROVE  /\ \A q \in Requests : q # r => req'[q] = req[q]
         /\ req'[r].pc = local.pc /\ req'[r].saving = local.saving
         /\ req'[r].session = local.session
         /\ FileBacked => req'[r].copy = new /\ store' = store
         /\ ~ FileBacked =>
              /\ req'[r].copy = local.copy
              /\ \A s \in Sessions :
                   store'[s] = IF s = req[r].session THEN new ELSE store[s]
<1>1. CASE FileBacked
  BY <1>1, AssignMoves DEF Assign, TypeOK, RequestRecords
<1>2. CASE ~ FileBacked
  BY <1>2, AssignMoves DEF Assign, TypeOK, RequestRecords
<1> QED
  BY <1>1, <1>2

\* Assigning attributes to a session that is not marked complete by it, or
\* that has a brief.
LEMMA AssignBrief ==
  ASSUME TypeInv, BriefInv, NEW r \in Requests, NEW new \in SessionRecords,
         NEW local \in RequestRecords,
         local.session = req[r].session, local.copy = req[r].copy,
         Assign(r, new, local), brief' = brief,
         \/ brief[req[r].session] # None
         \/ /\ new.status # "complete"
            /\ local.pc \notin {"delivering", "completed"}
  PROVE  BriefInv'
<1>1. /\ \A q \in Requests : q # r => req'[q] = req[q]
      /\ req'[r].pc = local.pc /\ req'[r].saving = local.saving
      /\ req'[r].session = req[r].session
      /\ FileBacked => req'[r].copy = new /\ store' = store
      /\ ~ FileBacked =>
           /\ req'[r].copy = req[r].copy
           /\ \A s \in Sessions :
                store'[s] = IF s = req[r].session THEN new ELSE store[s]
  BY AssignEffect DEF TypeInv
<1>2. ~ FileBacked => req[r].copy \notin SessionRecords
  BY Sentinels DEF TypeInv, WellFormed
<1>3. SawBrief(r)' => brief'[req'[r].session] # None
  BY <1>1, <1>2 DEF SawBrief
<1>4. \A s \in Sessions :
        \/ store'[s] = store[s]
        \/ store'[s] \in SessionRecords /\ store'[s].status = "complete"
           => brief[s] # None
  BY <1>1
<1> QED
  BY <1>1, <1>3, <1>4, BriefFrame

LEMMA BriefStep == TypeInv /\ BriefInv /\ [Next]_vars => BriefInv'
<1> SUFFICES ASSUME TypeInv, BriefInv, [Next]_vars PROVE BriefInv'
  OBVIOUS
<1> USE Sentinels, IdleType
<1>0. ASSUME NEW r \in Requests
      PROVE  /\ req[r] \in RequestRecords /\ req[r].session \in Sessions
             /\ WellFormed(r)
             /\ SawBrief(r) => brief[req[r].session] # None
  BY DEF TypeInv, TypeOK, RequestRecords, BriefInv
<1>1. ASSUME NEW s \in Sessions, CreateSession(s) PROVE BriefInv'
  BY <1>1, NewSessionType
  DEF CreateSession, BriefInv, CompleteHasBrief, SawBrief, TypeInv, TypeOK
<1>2. ASSUME NEW r \in Requests, NEW s \in Sessions,
             ReceiveMessage(r, s) \/ LookUpSession(r, s)
      PROVE  BriefInv'
  <2>1. PICK pc \in {"extracting", "looked_up"}, kind \in {"message", "pipeline"} :
          req' = [req EXCEPT ![r] = [Idle EXCEPT
                    !.pc = pc, !.kind = kind, !.session = s,
                    !.copy = IF FileBacked THEN store[s] ELSE None]]
    BY <1>2 DEF ReceiveMessage, LookUpSession
  <2>2. store' = store /\ brief' = brief
    BY <1>2 DEF ReceiveMessage, LookUpSession
  <2>3. /\ \A q \in Requests : q # r => req'[q] = req[q]
        /\ req'[r].pc \in {"extracting", "looked_up"} /\ req'[r].session = s
        /\ req'[r].copy = IF FileBacked THEN store[s] ELSE None
    BY <2>1 DEF TypeInv, TypeOK, RequestRecords
  <2>4. SawBrief(r)' => brief'[s] # None
    BY <2>2, <2>3 DEF SawBrief, BriefInv, CompleteHasBrief
  <2> QED
    BY <2>2, <2>3, <2>4, BriefFrame
<1>3. ASSUME NEW r \in Requests, NEW found \in SUBSET Fields,
             ExtractionReturns(r, found)
      PROVE  BriefInv'
  <2> DEFINE old   == SessionOf(r)
             full  == old.filled \cup found
             done  == JourneyComplete(full, old.asked)
             new   == [status |-> "intaking", filled |-> full,
                       asked |-> AskedAfter(full, old.asked)]
             local == [req[r] EXCEPT
                         !.pc = IF done THEN "intake_complete" ELSE "replying",
                         !.data = IF done THEN full ELSE {},
                         !.saving = Save("open_session")]
  <2>1. old \in SessionRecords
    BY <1>0, <1>3 DEF ExtractionReturns, At, WellFormed
  <2>2. full \in SUBSET Fields /\ old.asked \in SUBSET Fields
    BY <2>1 DEF SessionRecords
  <2>3. new \in SessionRecords /\ new.status # "complete"
    BY <2>2, AskedAfterType DEF SessionRecords, Statuses
  <2>4. /\ local \in RequestRecords
        /\ local.session = req[r].session /\ local.copy = req[r].copy
        /\ local.pc \notin {"delivering", "completed"}
    BY <1>0, <2>2, ZenonT(60) DEF RequestRecords, PCs, Answered, Savings, Save
  <2>5. Assign(r, new, local) /\ brief' = brief
    BY <1>3 DEF ExtractionReturns
  <2> HIDE DEF new, local
  <2> QED
    BY <2>3, <2>4, <2>5, AssignBrief
<1>4. ASSUME NEW r \in Requests, UNCHANGED <<store, brief>>,
             \A q \in Requests : q # r => req'[q] = req[q],
             req'[r].pc \notin {"delivering", "completed"},
             \/ req'[r].copy = None
             \/ req'[r].copy = req[r].copy /\ req'[r].session = req[r].session
      PROVE  BriefInv'
  <2>1. SawBrief(r)' => brief'[req'[r].session] # None
    BY <1>0, <1>4 DEF SawBrief
  <2> QED
    BY <1>4, <2>1, BriefFrame
<1>5. ASSUME NEW r \in Requests,
             \/ ExtractionFails(r) \/ LookUpBrief(r) \/ BriefUnreadable(r)
             \/ ResearchEnds(r) \/ TakeBundle(r) \/ Finish(r) \/ Disconnect(r)
      PROVE  BriefInv'
  <2>1. CASE Finish(r) \/ Disconnect(r)
    <3>1. req' = [req EXCEPT ![r] = Idle] /\ UNCHANGED <<store, brief>>
      BY <2>1 DEF Finish, Disconnect
    <3> QED
      BY <1>4, <3>1 DEF TypeInv, TypeOK
  <2>2. CASE TakeBundle(r)
    BY <1>0, <1>4, <2>2 DEF TakeBundle, TypeInv, TypeOK, RequestRecords
  <2>3. CASE \/ ExtractionFails(r) \/ LookUpBrief(r) \/ BriefUnreadable(r)
             \/ ResearchEnds(r)
    <3>1. PICK pc \in {"replying", "busy", "granted", "brief_unreadable",
                       "brief_found", "researched"} :
            req' = [req EXCEPT ![r].pc = pc]
      BY <2>3 DEF ExtractionFails, LookUpBrief, BriefUnreadable, TryLock,
         ResearchEnds
    <3>2. UNCHANGED <<store, brief>>
      BY <2>3 DEF ExtractionFails, LookUpBrief, BriefUnreadable, ResearchEnds
    <3> QED
      BY <1>0, <1>4, <3>1, <3>2 DEF TypeInv, TypeOK, RequestRecords
  <2> QED
    BY <1>5, <2>1, <2>2, <2>3
<1>6. ASSUME NEW r \in Requests, NEW data \in SUBSET Fields,
             req[r].pc # "idle", EnterResearch(r, data), brief' = brief
      PROVE  BriefInv'
  <2> DEFINE new   == [SessionOf(r) EXCEPT !.status = "researching"]
             local == [req[r] EXCEPT
                         !.pc = "researching", !.data = data,
                         !.saving = IF SessionOf(r).status # "researching"
                                      THEN Save("open_session") ELSE "no"]
  <2>1. new \in SessionRecords /\ new.status # "complete"
    BY <1>0, <1>6 DEF WellFormed, SessionRecords, Statuses
  <2>2. /\ local \in RequestRecords /\ local.pc = "researching"
        /\ local.session = req[r].session /\ local.copy = req[r].copy
    BY <1>0, ZenonT(60) DEF RequestRecords, PCs, Running, Savings, Save
  <2>3. Assign(r, new, local)
    BY <1>6 DEF EnterResearch
  <2> HIDE DEF new, local
  <2> QED
    BY <1>6, <2>1, <2>2, <2>3, AssignBrief
<1>7. ASSUME NEW r \in Requests, StartRun(r) \/ ContinueAfterIntake(r)
      PROVE  BriefInv'
  <2>1. req[r].pc # "idle" /\ brief' = brief
    BY <1>7 DEF StartRun, ContinueAfterIntake, At
  <2>2. SessionOf(r).filled \in SUBSET Fields /\ req[r].data \in SUBSET Fields
    BY <1>0, <2>1 DEF WellFormed, SessionRecords, RequestRecords
  <2>3. CASE StartRun(r) /\ ~ FallbackComplete(SessionOf(r).filled)
    BY <1>0, <1>4, <2>1, <2>3 DEF StartRun, TypeInv, TypeOK, RequestRecords
  <2>4. CASE StartRun(r) /\ FallbackComplete(SessionOf(r).filled)
    BY <1>6, <2>1, <2>2, <2>4 DEF StartRun
  <2>5. CASE ContinueAfterIntake(r)
    BY <1>6, <2>1, <2>2, <2>5 DEF ContinueAfterIntake
  <2> QED
    BY <1>7, <2>3, <2>4, <2>5
<1>8. ASSUME NEW r \in Requests, SynthesisFails(r) \/ Complete(r)
      PROVE  BriefInv'
  <2>1. PICK pc \in {"synthesis_failed", "completed"},
             status \in {"failed", "complete"} :
          /\ Assign(r, [SessionOf(r) EXCEPT !.status = status],
                    [req[r] EXCEPT !.pc = pc, !.saving = Save("open_session")])
          /\ \/ pc = "synthesis_failed" /\ status = "failed"
             \/ Complete(r)
    BY <1>8 DEF SynthesisFails, Complete
  <2> DEFINE new   == [SessionOf(r) EXCEPT !.status = status]
             local == [req[r] EXCEPT !.pc = pc, !.saving = Save("open_session")]
  <2>2. req[r].pc # "idle" /\ brief' = brief
    BY <1>8 DEF SynthesisFails, Complete, At
  <2>3. new \in SessionRecords /\ new.status = status
    BY <1>0, <2>2 DEF WellFormed, SessionRecords, Statuses
  <2>4. pc \in PCs /\ Save("open_session") \in Savings
    BY DEF PCs, Running, Savings, Save
  <2>5. /\ local \in RequestRecords /\ local.pc = pc
        /\ local.session = req[r].session /\ local.copy = req[r].copy
    BY <1>0, <2>4 DEF RequestRecords
  <2>6. Complete(r) => brief[req[r].session] # None
    BY <1>0 DEF Complete, At, SawBrief
  <2>7. Assign(r, new, local)
    BY <2>1
  <2>8. \/ brief[req[r].session] # None
        \/ new.status # "complete" /\ local.pc \notin {"delivering", "completed"}
    BY <2>1, <2>3, <2>5, <2>6
  <2> HIDE DEF new, local
  <2> QED
    BY <2>2, <2>3, <2>5, <2>7, <2>8, AssignBrief
<1>9. ASSUME NEW r \in Requests, SynthesisReturns(r) PROVE BriefInv'
  <2>1. Synthesized(r) # None
    <3>1. Synthesized(r) \in BriefRecords
      BY <1>0, <1>9 DEF SynthesisReturns, At, WellFormed, Synthesized,
         BriefRecords, RequestRecords
    <3> QED
      BY <3>1
  <2>2. /\ \A q \in Requests : q # r => req'[q] = req[q]
        /\ req'[r].session = req[r].session /\ req'[r].copy = req[r].copy
        /\ req'[r].saving = Save("open_brief") /\ store' = store
    BY <1>0, <1>9 DEF SynthesisReturns, TypeInv, TypeOK, RequestRecords
  <2>3. CASE FileBacked
    <3>1. brief' = brief /\ req'[r].saving = "open_brief"
      BY <1>9, <2>2, <2>3 DEF SynthesisReturns, Save
    <3>2. SawBrief(r)' => brief'[req'[r].session] # None
      BY <1>0, <2>2, <3>1 DEF SawBrief
    <3> QED
      BY <2>2, <3>1, <3>2, BriefFrame
  <2>4. CASE ~ FileBacked
    <3>1. brief' = [brief EXCEPT ![req[r].session] = Synthesized(r)]
      BY <1>9, <2>4 DEF SynthesisReturns
    <3>2. /\ \A s \in Sessions : brief[s] # None => brief'[s] # None
          /\ brief'[req'[r].session] # None
      BY <1>0, <2>1, <2>2, <3>1 DEF TypeInv, TypeOK
    <3> QED
      BY <2>2, <3>2, BriefFrame
  <2> QED
    BY <2>3, <2>4
<1>10. ASSUME NEW r \in Requests, OpenFile(r) \/ WriteFile(r) PROVE BriefInv'
  <2>1. PICK saving \in {"no", "write_session", "write_brief"} :
          req' = [req EXCEPT ![r].saving = saving]
    BY <1>10 DEF OpenFile, WriteFile
  <2>2. /\ \A q \in Requests : q # r => req'[q] = req[q]
        /\ req'[r].session = req[r].session /\ req'[r].copy = req[r].copy
        /\ req'[r].pc = req[r].pc
    BY <1>0, <2>1 DEF TypeInv, TypeOK, RequestRecords
  <2>3. CASE req[r].saving \in {"open_session", "write_session"}
    <3>1. PICK text :
            /\ store' = [store EXCEPT ![req[r].session] = text]
            /\ text \in {Truncated, Corrupt, req[r].copy} /\ brief' = brief
      BY <1>10, <2>3 DEF OpenFile, WriteFile, Overlay
    <3>2. SawBrief(r)' => SawBrief(r)
      BY <2>2, <2>3 DEF SawBrief
    <3>3. text \in SessionRecords /\ text.status = "complete"
          => brief[req[r].session] # None
      BY <1>0, <3>1 DEF SawBrief
    <3>4. \A s \in Sessions :
            \/ store'[s] = store[s]
            \/ store'[s] \in SessionRecords /\ store'[s].status = "complete"
               => brief[s] # None
      BY <3>1, <3>3 DEF TypeInv, TypeOK
    <3> QED
      BY <1>0, <2>2, <3>1, <3>2, <3>4, BriefFrame
  <2>4. CASE req[r].saving \in {"open_brief", "write_brief"}
    <3>1. Serialized(Synthesized(r)) # None
      <4>1. Synthesized(r) \in BriefRecords
        BY <1>0, <2>4 DEF WellFormed, Synthesized, BriefRecords, RequestRecords
      <4> QED
        BY <4>1, SerializedType, Sentinels
    <3>2. PICK text \in {Truncated, Corrupt, Serialized(Synthesized(r))} :
            /\ brief' = [brief EXCEPT ![req[r].session] = text]
            /\ store' = store
      BY <1>10, <2>4 DEF OpenFile, WriteFile, Overlay
    <3>3. /\ \A s \in Sessions : brief[s] # None => brief'[s] # None
          /\ brief'[req'[r].session] # None
      BY <1>0, <2>2, <3>1, <3>2 DEF TypeInv, TypeOK
    <3> QED
      BY <2>2, <3>2, <3>3, BriefFrame
  <2> QED
    BY <1>10, <2>3, <2>4 DEF OpenFile, WriteFile
<1>11. ASSUME NEW r \in Requests, DiskError(r) PROVE BriefInv'
  <2>1. UNCHANGED <<store, brief>>
    BY <1>11 DEF DiskError
  <2>2. CASE req[r].pc \in {"failed", "intake_failed"}
    BY <1>0, <1>4, <1>11, <2>1, <2>2
    DEF DiskError, TypeInv, TypeOK, RequestRecords
  <2>3. CASE req[r].pc \notin {"failed", "intake_failed"}
    <3>1. req[r].copy \in SessionRecords
      BY <1>0, <1>11 DEF DiskError, WellFormed, SessionOf
    <3>2. PICK pc \in {"failed", "intake_failed"} :
            req' = [req EXCEPT ![r].pc = pc, ![r].copy.status = "failed",
                               ![r].saving = "open_session"]
      BY <1>11, <2>3 DEF DiskError
    <3>3. /\ \A q \in Requests : q # r => req'[q] = req[q]
          /\ req'[r].pc = pc /\ req'[r].copy.status = "failed"
      BY <1>0, <3>1, <3>2 DEF TypeInv, TypeOK, RequestRecords, SessionRecords
    <3>4. ~ SawBrief(r)'
      BY <3>3 DEF SawBrief
    <3> QED
      BY <2>1, <3>3, <3>4, BriefFrame
  <2> QED
    BY <2>2, <2>3
<1>12. CASE Crash
  BY <1>12 DEF Crash, BriefInv, CompleteHasBrief, SawBrief
<1>13. CASE UNCHANGED vars
  BY <1>13 DEF vars, BriefInv, CompleteHasBrief, SawBrief
<1> QED
  BY <1>1, <1>2, <1>3, <1>5, <1>7, <1>8, <1>9, <1>10, <1>11, <1>12, <1>13
  DEF Next, Serve

LEMMA BriefInvariant == Spec => []BriefInv
BY TypeInvariant, BriefInit, BriefStep, PTL DEF Spec

\* A session marked complete has a brief, truncated or overlaid perhaps but
\* never absent: save_brief comes before the save of the COMPLETE status on
\* every path of run(), and no failure, disconnect or restart undoes that.
THEOREM CompleteHasBriefHolds == Spec => []CompleteHasBrief
<1>1. BriefInv => CompleteHasBrief
  BY DEF BriefInv
<1> QED
  BY <1>1, BriefInvariant, PTL

=============================================================================
