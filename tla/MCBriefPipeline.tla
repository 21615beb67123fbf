--------------------------- MODULE MCBriefPipeline ---------------------------
(***************************************************************************)
(* BriefPipeline on small instances.                                        *)
(***************************************************************************)
EXTENDS FilesRefineMemory

CONSTANTS s1, s2, r1, r2, r3

\* One field of each kind of the shipped journey: first_name is required and
\* unknown to the fallback check, brand_name is required and known to it.
MCRequired == <<"first_name", "brand_name">>
MCShortRequired == <<"brand_name">>
MCOptional == <<"additional_context">>
MCNoOptional == <<>>
MCFallback == {"brand_name"}

MCOneSession == {s1}
MCSessions == {s1, s2}
MCOneRequest == {r1}
MCRequests == {r1, r2}

MCThreeRequests == {r1, r2, r3}

MCNoFaults == {}
MCModelFaults == {"llm"}
MCClientFaults == {"llm", "disconnect"}
MCAllFaults == FaultKinds

=============================================================================
