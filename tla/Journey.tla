------------------------------- MODULE Journey -------------------------------
(***************************************************************************)
(* The intake journey of Brief Scout: which field the interview asks for   *)
(* next, and the two definitions of "intake is complete" that the program  *)
(* uses.  The journey itself decides on the message endpoint; a fallback   *)
(* with its own list of fields decides on the /pipeline endpoint, because  *)
(* main.py injects no completeness checker.                                *)
(*                                                                         *)
(* What a field holds is abstracted to whether it is empty: an IntakeData  *)
(* object is the set of its non-empty fields.                              *)
(***************************************************************************)
EXTENDS Integers, Sequences

CONSTANTS
  RequiredFields,   \* the required fields, in the order they are asked for
  OptionalFields,   \* the optional fields with ask_when_missing, in order
  FallbackFields,   \* the fields the fallback completeness check looks at
  Unasked           \* optional fields without ask_when_missing (brand_url)

Elements(order) == {order[i] : i \in DOMAIN order}

Fields == Elements(RequiredFields) \cup Elements(OptionalFields) \cup Unasked

ASSUME JourneyAssumption ==
  /\ RequiredFields \in Seq(Elements(RequiredFields))
  /\ OptionalFields \in Seq(Elements(OptionalFields))
  /\ Elements(RequiredFields) \cap Elements(OptionalFields) = {}
  /\ FallbackFields \subseteq Fields

-----------------------------------------------------------------------------
\* The positions of a field list whose field is not in `present`.
MissingAt(order, present) == {i \in DOMAIN order : order[i] \notin present}

FirstMissing(order, present) ==
  order[CHOOSE i \in MissingAt(order, present) :
          \A j \in MissingAt(order, present) : i <= j]

MissingRequired(filled) == MissingAt(RequiredFields, filled) # {}

\* An optional question is asked at most once, answered or not.
MissingOptional(filled, asked) ==
  MissingAt(OptionalFields, filled \cup asked) # {}

\* IntakeJourney.is_complete: next_field has nothing left to ask.
JourneyComplete(filled, asked) ==
  ~ MissingRequired(filled) /\ ~ MissingOptional(filled, asked)

\* The optional questions on record once next_field's question is asked: a
\* required question is not recorded, an optional one is.
AskedAfter(filled, asked) ==
  IF ~ MissingRequired(filled) /\ MissingOptional(filled, asked)
    THEN asked \cup {FirstMissing(OptionalFields, filled \cup asked)}
    ELSE asked

\* _BackwardCompatibleCompletenessChecker.check.
FallbackComplete(filled) == FallbackFields \subseteq filled

=============================================================================
