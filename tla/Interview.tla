------------------------------ MODULE Interview ------------------------------
(***************************************************************************)
(* What an interview promises, at the level of the sets of fields that     *)
(* Journey and BriefPipeline work with: what has been answered stays       *)
(* answered, each turn adds the fields it found, and the question that     *)
(* follows is the journey's.                                               *)
(***************************************************************************)
EXTENDS Journey

VARIABLES
  filled,       \* the fields with an answer
  asked         \* the optional fields that have been asked for

Init == filled = {} /\ asked = {}

Turn(found) ==
  /\ filled' = filled \union found
  /\ asked' = AskedAfter(filled', asked)

\* Some turn: it finds no less than what is filled afterwards.
Next == filled' \subseteq Fields /\ Turn(filled')

Spec == Init /\ [][Next]_<<filled, asked>>

=============================================================================
