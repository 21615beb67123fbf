--------------------------- MODULE EndpointContract --------------------------
(***************************************************************************)
(* What POST /chat/{session_id}/pipeline promises by calling itself        *)
(* idempotent: a session has at most one run at a time, a run starts only  *)
(* while the session has no brief, it stores at most one brief, and it     *)
(* never replaces a brief that another run of the endpoint stored.  A      *)
(* message may still run the pipeline on its own and replace any brief.    *)
(* When a request is told "busy" is no part of the promise, because the    *)
(* code does not keep it: see BriefPipeline!BusyMeansRunning.              *)
(***************************************************************************)
CONSTANT Sessions

VARIABLES
  run,        \* "none", "open" (no brief stored by it yet) or "spent"
  holder      \* whose brief the session has: "none", "message", "pipeline"

contractVars == <<run, holder>>

ContractInit ==
  /\ run = [s \in Sessions |-> "none"]
  /\ holder = [s \in Sessions |-> "none"]

Start(s) ==
  /\ run[s] = "none" /\ holder[s] = "none"
  /\ run' = [run EXCEPT ![s] = "open"]
  /\ UNCHANGED holder

Deliver(s) ==
  /\ run[s] = "open" /\ holder[s] # "pipeline"
  /\ run' = [run EXCEPT ![s] = "spent"]
  /\ holder' = [holder EXCEPT ![s] = "pipeline"]

\* A run ends, with its brief delivered or without one.
End(s) ==
  /\ run[s] # "none"
  /\ run' = [run EXCEPT ![s] = "none"]
  /\ UNCHANGED holder

MessageDelivers(s) ==
  /\ holder' = [holder EXCEPT ![s] = "message"]
  /\ UNCHANGED run

\* The process dies and its memory with it.
Restart == run' = [s \in Sessions |-> "none"] /\ holder' = run'

ContractNext ==
  \/ \E s \in Sessions :
       Start(s) \/ Deliver(s) \/ End(s) \/ MessageDelivers(s)
  \/ Restart

ContractSpec == ContractInit /\ [][ContractNext]_contractVars

=============================================================================
