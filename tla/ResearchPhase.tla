---------------------------- MODULE ResearchPhase ----------------------------
(***************************************************************************)
(* Research as the brief pipeline sees it (and BriefPipeline models it):   *)
(* a run starts, at some later time publishes its bundle in one step, and  *)
(* is over; a run that is left before never publishes.                     *)
(***************************************************************************)
CONSTANT Runs

VARIABLES
  phase,        \* "none", "open" (researching) or "published"
  last          \* the bundle of whichever run published last

phaseVars == <<phase, last>>

PhaseInit == phase = [r \in Runs |-> "none"] /\ last = "none"

Start(r) ==
  /\ phase[r] = "none"
  /\ phase' = [phase EXCEPT ![r] = "open"]
  /\ UNCHANGED last

Publish(r) ==
  /\ phase[r] = "open"
  /\ phase' = [phase EXCEPT ![r] = "published"]
  /\ last' = r

Leave(r) ==
  /\ phase[r] # "none"
  /\ phase' = [phase EXCEPT ![r] = "none"]
  /\ UNCHANGED last

PhaseNext == \E r \in Runs : Start(r) \/ Publish(r) \/ Leave(r)

PhaseSpec == PhaseInit /\ [][PhaseNext]_phaseVars

=============================================================================
