-------------------------------- MODULE Lists --------------------------------
(***************************************************************************)
(* List comprehensions: the members of a list that pass a test, in their   *)
(* order, with the test given as the set of what passes it.  (Proofs can   *)
(* unfold this definition, which they cannot do with SelectSeq.)           *)
(***************************************************************************)
EXTENDS Integers, SequencesExt

IsList(value) == value \in Seq(ToSet(value))

Those(s, S) ==
  LET those[i \in 0 .. Len(s)] ==
        IF i = 0 THEN <<>>
        ELSE IF s[i] \in S THEN Append(those[i - 1], s[i]) ELSE those[i - 1]
  IN  those[Len(s)]

=============================================================================
