-------------------------- MODULE FilesRefineMemory --------------------------
(***************************************************************************)
(* The two storage adapters compared: BriefPipeline over files, read as    *)
(* BriefPipeline over memory.  What a request has assigned to its copy of  *)
(* a session, and the brief it is about to write, count as stored; the     *)
(* research results that a brief loses in its file (BriefsRoundTrip) are   *)
(* put back, so that all but them is compared.                             *)
(***************************************************************************)
EXTENDS BriefPipeline

LogicalSession(s) ==
  IF \E r \in Requests : req[r].session = s /\ req[r].copy # None
    THEN req[CHOOSE r \in Requests :
               req[r].session = s /\ req[r].copy # None].copy
    ELSE store[s]

Restored(b) == IF b \in BriefRecords THEN [b EXCEPT !.whole = TRUE] ELSE b

LogicalBrief(s) ==
  IF \E r \in Requests :
       req[r].session = s /\ req[r].saving \in {"open_brief", "write_brief"}
    THEN Synthesized(CHOOSE r \in Requests :
           /\ req[r].session = s
           /\ req[r].saving \in {"open_brief", "write_brief"})
    ELSE Restored(brief[s])

Memory == INSTANCE BriefPipeline WITH
  FileBacked <- FALSE,
  store <- [s \in Sessions |-> LogicalSession(s)],
  brief <- [s \in Sessions |-> LogicalBrief(s)],
  req   <- [r \in Requests |-> [req[r] EXCEPT !.copy = None, !.saving = "no"]]

\* storage/__init__.py: swapping the adapters is transparent.  But for the
\* research results of stored briefs it is, as long as requests come one at a
\* time: what a server over files does, one over memory may do too.
SwapButForResults == Memory!Spec

=============================================================================
