------------------------- MODULE MCResearchPipeline -------------------------
(***************************************************************************)
(* ResearchPipeline on a small instance.                                    *)
(***************************************************************************)
EXTENDS ResearchPipeline

CONSTANTS r1, r2

MCRuns == {r1, r2}

=============================================================================
