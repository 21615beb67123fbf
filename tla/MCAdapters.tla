----------------------------- MODULE MCAdapters -----------------------------
(***************************************************************************)
(* The adapters that the application may be wired with: BriefPipeline over *)
(* files, to be compared with BriefPipeline over memory, and LlmCalls with *)
(* each of the three real models.  A behaviour is one of the two, chosen   *)
(* at the beginning; the variables of the other keep their initial values. *)
(***************************************************************************)
EXTENDS MCBriefPipeline, MCLlmCalls

VARIABLE part

adaptersVars == <<part, vars, callsVars>>

AdaptersInit ==
  /\ part \in {"files", "calls"}
  /\ Init /\ CallsInit
  /\ part = "files" => provider = CHOOSE p \in Providers : TRUE

Storing == part = "files" /\ Next /\ UNCHANGED <<part, callsVars>>
Calling == part = "calls" /\ CallsNext /\ UNCHANGED <<part, vars>>

AdaptersSpec ==
  AdaptersInit /\ [][Storing \/ Calling]_adaptersVars /\ CallsFairness

=============================================================================
