------------------------- MODULE IntakeServicesProofs -------------------------
(***************************************************************************)
(* Theorems about IntakeServices, for any journey of fields of the three   *)
(* types, any extractions and any number of overlapping turns.             *)
(***************************************************************************)
EXTENDS IntakeServices, ListsProofs

J == ToSet(JourneyFields)

\* A field's name tells which field it is.
LEMMA FieldIs ==
  ASSUME NEW f \in J
  PROVE  Field(f.name) = f /\ FieldRecord(f)
<1>1. PICK i \in DOMAIN JourneyFields : f = JourneyFields[i]
  BY DEF J, ToSet
<1>2. \A g \in J : g.name = f.name => g = f
  <2> SUFFICES ASSUME NEW g \in J, g.name = f.name PROVE g = f
    OBVIOUS
  <2>1. PICK j \in DOMAIN JourneyFields : g = JourneyFields[j]
    BY DEF J, ToSet
  <2> QED
    BY <1>1, <2>1, FieldsAssumption
<1> QED
  BY <1>1, <1>2, FieldsAssumption DEF Field, J

LEMMA NamesOf ==
  ASSUME NEW T, NEW s \in Seq(T)
  PROVE  /\ DOMAIN Names(s) = DOMAIN s
         /\ \A i \in DOMAIN s : Names(s)[i] = s[i].name
         /\ Names(s) = <<>> <=> s = <<>>
         /\ Len(Names(s)) = Len(s)
         /\ ToSet(Names(s)) = {f.name : f \in ToSet(s)}
<1>1. DOMAIN Names(s) = DOMAIN s /\ \A i \in DOMAIN s : Names(s)[i] = s[i].name
  BY DEF Names
<1>2. DOMAIN s = 1 .. Len(s) /\ Len(s) \in Nat
  BY LenProperties
<1>3. Names(s) \in Seq(ToSet(Names(s)))
  <2>1. PICK t : t = Names(s)
    OBVIOUS
  <2>2. t \in [1 .. Len(s) -> ToSet(t)]
    BY <1>1, <1>2, <2>1 DEF Names, ToSet
  <2> QED
    BY <1>2, <2>1, <2>2, SeqDef
<1>4. Len(Names(s)) = Len(s)
  BY <1>1, <1>2, <1>3, LenProperties
<1>5. Names(s) = <<>> <=> s = <<>>
  BY <1>3, <1>4, EmptySeq
<1>6. ToSet(Names(s)) = {f.name : f \in ToSet(s)}
  BY <1>1 DEF ToSet
<1> QED
  BY <1>1, <1>4, <1>5, <1>6

-----------------------------------------------------------------------------
(* Lists that are merged                                                   *)
NoTwice(list) == \A i, j \in DOMAIN list : list[i] = list[j] => i = j

\* What the merge of two lists has come to after a number of items.
Merges(f, existing, extracted) ==
  \A i \in 0 .. Len(extracted) :
    f[i] = IF i = 0 THEN existing
           ELSE IF extracted[i] # "" /\ extracted[i] \notin ToSet(f[i - 1])
             THEN Append(f[i - 1], extracted[i]) ELSE f[i - 1]

LEMMA CollectedIsMerged ==
  ASSUME NEW T, NEW e \in Seq(T), NEW x \in Seq(T)
  PROVE  \E f \in [0 .. Len(x) -> Seq(T)] :
           Merges(f, e, x) /\ Collected(e, x) = f[Len(x)]
<1> DEFINE Rec(f) == f = [i \in 0 .. Len(x) |-> IF i = 0 THEN e
                      ELSE IF x[i] # "" /\ x[i] \notin ToSet(f[i - 1])
                        THEN Append(f[i - 1], x[i]) ELSE f[i - 1]]
<1>1. PICK step : step = [i \in 1 .. Len(x) |-> [t \in Seq(T) |->
                      IF x[i] # "" /\ x[i] \notin ToSet(t) THEN Append(t, x[i]) ELSE t]]
  OBVIOUS
<1>2. step \in [1 .. Len(x) -> [Seq(T) -> Seq(T)]]
  BY <1>1, ElementOfSeq, AppendProperties
<1>3. Len(x) \in Nat
  BY LenProperties
<1>4. PICK g \in [0 .. Len(x) -> Seq(T)] : Iterates(g, Len(x), e, step)
  BY <1>2, <1>3, RecursionExists
<1>5. Rec(g)
  <2>1. ASSUME NEW i \in 0 .. Len(x), i # 0
        PROVE step[i][g[i - 1]] = IF x[i] # "" /\ x[i] \notin ToSet(g[i - 1])
                                    THEN Append(g[i - 1], x[i]) ELSE g[i - 1]
    <3>1. i \in 1 .. Len(x) /\ i - 1 \in 0 .. Len(x)
      BY <1>3, <2>1
    <3>2. g[i - 1] \in Seq(T)
      BY <3>1
    <3> QED
      BY <1>1, <3>1, <3>2
  <2> QED BY <1>4, <2>1 DEF Iterates
<1>6. PICK f : f = CHOOSE h : Rec(h)
  OBVIOUS
<1>7. Rec(f)
  BY <1>5, <1>6
<1>8. Collected(e, x) = f[Len(x)]
  BY <1>6 DEF Collected
<1>9. Merges(f, e, x)
  BY <1>7 DEF Merges
<1>10. \A i \in 0 .. Len(x) : f[i] \in Seq(T)
  <2> DEFINE P == {i \in Nat : f[i] \in Seq(T)}
  <2>1. 0 \in P
    <3>1. 0 \in 0 .. Len(x)
      BY <1>3
    <3> QED
      BY <1>9, <3>1 DEF Merges
  <2>2. ASSUME NEW i \in 0 .. Len(x) - 1, i \in P PROVE i + 1 \in P
    <3>1. i + 1 \in 1 .. Len(x) /\ i + 1 \in 0 .. Len(x) /\ (i + 1) - 1 = i /\ i + 1 # 0
      BY <1>3
    <3>2. x[i + 1] \in T
      BY <3>1, ElementOfSeq
    <3>3. f[i + 1] = IF x[i + 1] # "" /\ x[i + 1] \notin ToSet(f[i])
                       THEN Append(f[i], x[i + 1]) ELSE f[i]
      BY <1>9, <3>1 DEF Merges
    <3>4. f[i] \in Seq(T) /\ i \in Nat
      BY <2>2, <1>3
    <3>5. PICK y, t : y = x[i + 1] /\ t = f[i]
      OBVIOUS
    <3>6. Append(t, y) \in Seq(T) /\ t \in Seq(T)
      BY <3>2, <3>4, <3>5, AppendProperties
    <3>7. f[i + 1] \in Seq(T)
      BY <3>3, <3>5, <3>6
    <3> QED
      BY <3>4, <3>7
  <2>3. \A i \in 0 .. Len(x) : i \in P
    <3> HIDE DEF P
    <3> QED BY <1>3, <2>1, <2>2, InductionUpTo
  <2> QED
    BY <2>3
<1> QED
  BY <1>7, <1>8, <1>9, <1>10

LEMMA NoTwiceAppend ==
  ASSUME NEW T, NEW s \in Seq(T), NEW x \in T, NoTwice(s), x \notin ToSet(s)
  PROVE  NoTwice(Append(s, x))
<1>1. PICK u : u = Append(s, x)
  OBVIOUS
<1>2. /\ u \in Seq(T) /\ DOMAIN u = 1 .. Len(s) + 1 /\ DOMAIN s = 1 .. Len(s)
      /\ Len(s) \in Nat /\ u[Len(s) + 1] = x
      /\ \A i \in DOMAIN s : u[i] = s[i] /\ u[i] # x
  BY <1>1, AppendProperties, LenProperties DEF ToSet
<1>3. ASSUME NEW i \in DOMAIN u, NEW j \in DOMAIN u, u[i] = u[j] PROVE i = j
  <2>1. (i \in DOMAIN s \/ i = Len(s) + 1) /\ (j \in DOMAIN s \/ j = Len(s) + 1)
    BY <1>2
  <2> QED
    BY <1>2, <1>3, <2>1 DEF NoTwice
<1> QED
  BY <1>1, <1>3 DEF NoTwice

\* The merge of two lists begins with the first, has the items of both but
\* for the empty one, and none twice if the first has none twice.
LEMMA CollectedHolds ==
  ASSUME NEW e, NEW x, IsList(e), IsList(x)
  PROVE  /\ IsList(Collected(e, x))
         /\ IsPrefix(e, Collected(e, x))
         /\ NoTwice(e) => NoTwice(Collected(e, x))
         /\ ToSet(Collected(e, x)) = ToSet(e) \union (ToSet(x) \ {""})
<1> DEFINE T == ToSet(e) \union ToSet(x)
           n == Len(x)
<1>1. e \in Seq(T) /\ x \in Seq(T) /\ n \in Nat /\ DOMAIN x = 1 .. n
  BY SeqDef, LenProperties DEF IsList
<1> HIDE DEF T
<1>2. PICK f \in [0 .. n -> Seq(T)] : Merges(f, e, x) /\ Collected(e, x) = f[n]
  BY <1>1, CollectedIsMerged
<1> DEFINE Good(i) == /\ IsPrefix(e, f[i])
                      /\ NoTwice(e) => NoTwice(f[i])
                      /\ ToSet(f[i]) = ToSet(e) \union ({x[k] : k \in 1 .. i} \ {""})
           P == {i \in 0 .. n : Good(i)}
<1>3. 0 \in P
  <2>1. 0 \in 0 .. n
    BY <1>1
  <2>2. f[0] = e
    BY <1>2, <2>1 DEF Merges
  <2>3. IsPrefix(e, e)
    BY <1>1, PrefixOfSelf
  <2>4. {x[k] : k \in 1 .. 0} = {}
    OBVIOUS
  <2> QED
    BY <2>1, <2>2, <2>3, <2>4
<1>4. ASSUME NEW i \in 0 .. n - 1, i \in P PROVE i + 1 \in P
  <2>1. i + 1 \in 1 .. n /\ i + 1 \in 0 .. n /\ (i + 1) - 1 = i /\ i + 1 # 0 /\ i \in 0 .. n
    BY <1>1
  <2>2. x[i + 1] \in T /\ f[i] \in Seq(T)
    BY <1>1, <2>1, ElementOfSeq
  <2>3. f[i + 1] = IF x[i + 1] # "" /\ x[i + 1] \notin ToSet(f[i])
                     THEN Append(f[i], x[i + 1]) ELSE f[i]
    BY <1>2, <2>1 DEF Merges
  <2>4. {x[k] : k \in 1 .. i + 1} = {x[k] : k \in 1 .. i} \union {x[i + 1]}
    <3>1. 1 .. i + 1 = (1 .. i) \union {i + 1}
      BY <1>1
    <3> QED
      BY <3>1
  <2>5. Good(i)
    BY <1>4
  <2>6. CASE x[i + 1] # "" /\ x[i + 1] \notin ToSet(f[i])
    <3>1. PICK y, t : y = x[i + 1] /\ t = f[i]
      OBVIOUS
    <3>2. f[i + 1] = Append(t, y) /\ y \in T /\ t \in Seq(T) /\ y # "" /\ y \notin ToSet(t)
      BY <2>2, <2>3, <2>6, <3>1
    <3>3. ToSet(Append(t, y)) = ToSet(t) \union {y}
      BY <3>2, MembersOfAppend, ZenonT(40)
    <3>4. IsPrefix(e, Append(t, y))
      BY <1>1, <2>5, <3>1, <3>2, PrefixOfAppend
    <3>5. NoTwice(e) => NoTwice(Append(t, y))
      BY <2>5, <3>1, <3>2, NoTwiceAppend
    <3>6. ToSet(f[i + 1]) = ToSet(e) \union ({x[k] : k \in 1 .. i + 1} \ {""})
      BY <2>4, <2>5, <3>1, <3>2, <3>3
    <3> QED
      BY <2>1, <3>2, <3>4, <3>5, <3>6
  <2>7. CASE ~ (x[i + 1] # "" /\ x[i + 1] \notin ToSet(f[i]))
    <3>1. f[i + 1] = f[i]
      BY <2>3, <2>7
    <3>2. ToSet(f[i + 1]) = ToSet(e) \union ({x[k] : k \in 1 .. i + 1} \ {""})
      BY <2>4, <2>5, <2>7, <3>1
    <3> QED
      BY <2>1, <2>5, <3>1, <3>2
  <2> QED
    BY <2>6, <2>7
<1>5. \A i \in 0 .. n : i \in P
  <2> HIDE DEF P
  <2> QED BY <1>1, <1>3, <1>4, InductionUpTo
<1>6. n \in 0 .. n
  BY <1>1
<1>7. {x[k] : k \in 1 .. n} = ToSet(x)
  BY <1>1 DEF ToSet
<1>8. IsList(f[n])
  BY <1>6, MembersType DEF IsList
<1> QED
  BY <1>2, <1>5, <1>6, <1>7, <1>8

LEMMA CollectedEmpty ==
  ASSUME NEW e, NEW x, IsList(e), IsList(x)
  PROVE  Collected(e, x) = <<>> <=> e = <<>> /\ ToSet(x) \ {""} = {}
<1>1. PICK c : c = Collected(e, x)
  OBVIOUS
<1>2. IsList(c) /\ ToSet(c) = ToSet(e) \union (ToSet(x) \ {""})
  BY <1>1, CollectedHolds
<1>3. (c = <<>> <=> ToSet(c) = {}) /\ (e = <<>> <=> ToSet(e) = {})
  BY <1>2, NoMembers DEF IsList
<1> QED
  BY <1>1, <1>2, <1>3

-----------------------------------------------------------------------------
(* Fields that are merged                                                  *)
\* Something that counts is in an extracted value.
Finds(f, value) ==
  CASE f.type = "list"   -> ToSet(value) \ {""} # {}
    [] f.type = "object" -> \E p \in f.properties : ToSet(value[p]) \ {""} # {}
    [] OTHER             -> value \notin Blanks

\* No list in a value has an item twice.
Single(f, value) ==
  /\ f.type = "list" => NoTwice(value)
  /\ f.type = "object" => \A p \in f.properties : NoTwice(value[p])

\* A value has become another without losing an answer.
Kept(f, old, new) ==
  CASE f.type = "list"   -> Grows(old, new)
    [] f.type = "object" -> \A p \in f.properties : Grows(old[p], new[p])
    [] OTHER             -> old \notin Blanks => new = old

LEMMA MergeFieldHolds ==
  ASSUME NEW f \in J, NEW e, NEW x, HasType(f, e), HasType(f, x), Single(f, e)
  PROVE  LET m == MergeField(f, e, x) IN
         /\ HasType(f, m) /\ Single(f, m) /\ Kept(f, e, m)
         /\ IsEmpty(f, m) <=> IsEmpty(f, e) /\ ~ Finds(f, x)
<1>1. PICK m : m = MergeField(f, e, x)
  OBVIOUS
<1>2. CASE f.type = "list"
  <2>1. m = Collected(e, x) /\ IsList(e) /\ IsList(x) /\ NoTwice(e)
    BY <1>1, <1>2 DEF MergeField, MergeList, HasType, Single
  <2>2. IsList(m) /\ IsPrefix(e, m) /\ NoTwice(m)
    BY <2>1, CollectedHolds
  <2>3. m = <<>> <=> e = <<>> /\ ToSet(x) \ {""} = {}
    BY <2>1, CollectedEmpty
  <2>4. HasType(f, m) /\ Single(f, m)
    BY <1>2, <2>2 DEF HasType, Single
  <2>5. Kept(f, e, m)
    BY <1>2, <2>2 DEF Kept, Grows, NoTwice
  <2>6. IsEmpty(f, m) <=> IsEmpty(f, e) /\ ~ Finds(f, x)
    BY <1>2, <2>3 DEF IsEmpty, Finds
  <2> QED
    BY <1>1, <2>4, <2>5, <2>6
<1>3. CASE f.type = "object"
  <2>1. /\ m = [p \in f.properties |-> Collected(e[p], x[p])]
        /\ \A p \in f.properties : IsList(e[p]) /\ IsList(x[p]) /\ NoTwice(e[p])
    BY <1>1, <1>3 DEF MergeField, MergeObject, MergeList, HasType, Single
  <2>2. ASSUME NEW p \in f.properties
        PROVE  /\ IsList(m[p]) /\ IsPrefix(e[p], m[p]) /\ NoTwice(m[p])
               /\ m[p] = <<>> <=> e[p] = <<>> /\ ToSet(x[p]) \ {""} = {}
    <3>1. PICK e1, x1 : e1 = e[p] /\ x1 = x[p]
      OBVIOUS
    <3>2. m[p] = Collected(e1, x1) /\ IsList(e1) /\ IsList(x1) /\ NoTwice(e1)
      BY <2>1, <3>1
    <3>3. IsList(m[p]) /\ IsPrefix(e1, m[p]) /\ NoTwice(m[p])
      BY <3>2, CollectedHolds
    <3>4. m[p] = <<>> <=> e1 = <<>> /\ ToSet(x1) \ {""} = {}
      BY <3>2, CollectedEmpty
    <3> QED
      BY <3>1, <3>3, <3>4
  <2>3. HasType(f, m) /\ Single(f, m)
    BY <1>3, <2>1, <2>2 DEF HasType, Single
  <2>4. Kept(f, e, m)
    BY <1>3, <2>2 DEF Kept, Grows, NoTwice
  <2>5. IsEmpty(f, m) <=> IsEmpty(f, e) /\ ~ Finds(f, x)
    BY <1>3, <2>2 DEF IsEmpty, Finds
  <2> QED
    BY <1>1, <2>3, <2>4, <2>5
<1>4. CASE f.type # "list" /\ f.type # "object"
  <2>1. m = MergeString(e, x)
    BY <1>1, <1>4 DEF MergeField
  <2>2. "" \in Blanks
    BY FieldsAssumption
  <2>3. HasType(f, m) /\ Single(f, m)
    BY <1>4 DEF HasType, Single
  <2>4. Kept(f, e, m)
    BY <1>4, <2>1 DEF Kept, MergeString
  <2>5. IsEmpty(f, m) <=> IsEmpty(f, e) /\ ~ Finds(f, x)
    BY <1>4, <2>1, <2>2 DEF IsEmpty, Finds, MergeString
  <2> QED
    BY <1>1, <2>3, <2>4, <2>5
<1> QED
  BY <1>2, <1>3, <1>4

-----------------------------------------------------------------------------
(* The data of the session                                                 *)
DataOk(values) ==
  /\ DOMAIN values = {f.name : f \in J}
  /\ \A f \in J : HasType(f, values[f.name]) /\ Single(f, values[f.name])

\* The fields that have an answer.
Answered(values) == {f.name : f \in {g \in J : ~ IsEmpty(g, values[g.name])}}

LEMMA AnsweredIs ==
  ASSUME NEW values, NEW f \in J
  PROVE  f.name \in Answered(values) <=> ~ IsEmpty(f, values[f.name])
<1>1. ASSUME NEW g \in J, g.name = f.name PROVE g = f
  BY <1>1, FieldIs
<1> QED
  BY <1>1 DEF Answered

LEMMA MergeDataHolds ==
  ASSUME NEW values, DataOk(values), NEW found \in Extractions
  PROVE  LET merged == MergeData(values, found) IN
         /\ DataOk(merged)
         /\ \A f \in J : /\ Kept(f, values[f.name], merged[f.name])
                         /\ IsEmpty(f, merged[f.name]) <=>
                              IsEmpty(f, values[f.name]) /\ ~ Finds(f, found[f.name])
<1>1. PICK merged : merged = MergeData(values, found)
  OBVIOUS
<1>2. DOMAIN merged = {f.name : f \in J}
  BY <1>1 DEF MergeData, DataOk
<1>3. ASSUME NEW f \in J
      PROVE  /\ HasType(f, merged[f.name]) /\ Single(f, merged[f.name])
             /\ Kept(f, values[f.name], merged[f.name])
             /\ IsEmpty(f, merged[f.name]) <=>
                  IsEmpty(f, values[f.name]) /\ ~ Finds(f, found[f.name])
  <2>1. Field(f.name) = f /\ f.name \in DOMAIN values
    BY FieldIs DEF DataOk
  <2>2. merged[f.name] = MergeField(f, values[f.name], found[f.name])
    BY <1>1, <2>1 DEF MergeData
  <2>3. HasType(f, values[f.name]) /\ Single(f, values[f.name])
    BY DEF DataOk
  <2>4. HasType(f, found[f.name])
    BY ExtractionsAssumption DEF J
  <2>5. PICK e, x : e = values[f.name] /\ x = found[f.name]
    OBVIOUS
  <2>6. LET m == MergeField(f, e, x) IN
        /\ HasType(f, m) /\ Single(f, m) /\ Kept(f, e, m)
        /\ IsEmpty(f, m) <=> IsEmpty(f, e) /\ ~ Finds(f, x)
    BY <2>3, <2>4, <2>5, MergeFieldHolds
  <2> QED
    BY <2>2, <2>5, <2>6
<1>4. DataOk(merged)
  BY <1>2, <1>3 DEF DataOk
<1> QED
  BY <1>1, <1>3, <1>4

LEMMA NoDataHolds == DataOk(NoData) /\ Answered(NoData) = {}
<1>1. DOMAIN NoData = {f.name : f \in J}
  BY NamesOf, FieldsAssumption DEF NoData, J, IsList
<1>2. ASSUME NEW f \in J
      PROVE  /\ HasType(f, NoData[f.name]) /\ Single(f, NoData[f.name])
             /\ IsEmpty(f, NoData[f.name])
  <2>1. NoData[f.name] = EmptyValue(f)
    BY <1>1, FieldIs DEF NoData
  <2>2. IsList(<<>>) /\ NoTwice(<<>>)
    BY EmptySeq DEF IsList, NoTwice
  <2>3. "" \in Blanks
    BY FieldsAssumption
  <2>4. CASE f.type = "list"
    BY <2>1, <2>2, <2>4 DEF EmptyValue, HasType, Single, IsEmpty
  <2>5. CASE f.type = "object"
    BY <2>1, <2>2, <2>5 DEF EmptyValue, HasType, Single, IsEmpty
  <2>6. CASE f.type # "list" /\ f.type # "object"
    BY <2>1, <2>3, <2>6 DEF EmptyValue, HasType, Single, IsEmpty
  <2> QED
    BY <2>4, <2>5, <2>6
<1> QED
  BY <1>1, <1>2 DEF DataOk, Answered

DataInv == DataOk(data)

LEMMA DataInvStep == DataInv /\ [IntakeNext]_intakeVars => DataInv'
<1> SUFFICES ASSUME DataInv, [IntakeNext]_intakeVars PROVE DataInv'
  OBVIOUS
<1>1. ASSUME NEW t \in Turns, NEW found \in Extractions, ExtractionReturns(t, found)
      PROVE  DataInv'
  <2>1. data' = MergeData(data, found)
    BY <1>1 DEF ExtractionReturns
  <2>2. DataOk(MergeData(data, found))
    BY MergeDataHolds DEF DataInv
  <2> QED
    BY <2>1, <2>2 DEF DataInv
<1>2. CASE UNCHANGED data
  BY <1>2 DEF DataInv
<1> QED
  BY <1>1, <1>2 DEF IntakeNext, ExtractionEnds, Receive, ExtractionFails, AttemptFails, intakeVars

LEMMA DataInvHolds == IntakeSpec => []DataInv
<1>1. IntakeInit => DataInv
  BY NoDataHolds DEF IntakeInit, DataInv
<1> QED
  BY <1>1, DataInvStep, PTL DEF IntakeSpec

\* However many turns overlap and whatever a model extracts, no answer of
\* the user is lost or changed by a step of any turn.
THEOREM AnswersKeptHolds == IntakeSpec => AnswersKept
<1> DEFINE Keeps == \A f \in ToSet(JourneyFields) :
       LET old == data[f.name]  new == data'[f.name] IN
       CASE f.type = "list"   -> Grows(old, new)
         [] f.type = "object" -> \A p \in f.properties : Grows(old[p], new[p])
         [] OTHER             -> old \notin Blanks => new = old
<1>1. DataInv /\ [IntakeNext]_intakeVars => Keeps
  <2> SUFFICES ASSUME DataInv, [IntakeNext]_intakeVars, NEW f \in J
               PROVE  Kept(f, data[f.name], data'[f.name])
    BY DEF Kept, J
  <2>1. ASSUME NEW t \in Turns, NEW found \in Extractions, ExtractionReturns(t, found)
        PROVE  Kept(f, data[f.name], data'[f.name])
    <3>1. data' = MergeData(data, found)
      BY <2>1 DEF ExtractionReturns
    <3> QED
      BY <3>1, MergeDataHolds DEF DataInv
  <2>2. CASE UNCHANGED data
    <3>1. PICK v : v = data[f.name]
      OBVIOUS
    <3>2. HasType(f, v) /\ Single(f, v)
      BY <3>1 DEF DataInv, DataOk
    <3>3. \A l : IsList(l) /\ NoTwice(l) => Grows(l, l)
      BY PrefixOfSelf DEF IsList, NoTwice, Grows
    <3>4. Kept(f, v, v)
      BY <3>2, <3>3 DEF Kept, HasType, Single
    <3> QED
      BY <2>2, <3>1, <3>4
  <2> QED
    BY <2>1, <2>2 DEF IntakeNext, ExtractionEnds, Receive, ExtractionFails, AttemptFails,
       intakeVars
<1>2. QED
  BY <1>1, DataInvHolds, PTL DEF IntakeSpec, AnswersKept

-----------------------------------------------------------------------------
(* The turns                                                               *)
Roles == {"user", "assistant"}

\* A turn knows where its message is, and what its number is.
TurnsInv ==
  /\ messages \in Seq(Roles)
  /\ DOMAIN turn = Turns
  /\ \A t \in Turns : /\ DOMAIN turn[t] = {"pc", "own", "previous", "attempt", "demo"}
                      /\ turn[t].pc = "extracting" => turn[t].own \in 0 .. Len(messages)
  /\ OwnDemoTurn

LEMMA MessagesAppended ==
  ASSUME NEW list \in Seq(Roles), NEW role \in Roles
  PROVE  LET longer == Append(list, role) IN
         /\ longer \in Seq(Roles) /\ Len(longer) = Len(list) + 1 /\ Len(list) \in Nat
         /\ SubSeq(longer, 1, Len(longer)) = longer
         /\ \A n \in 0 .. Len(list) : SubSeq(longer, 1, n) = SubSeq(list, 1, n)
<1>1. PICK longer : longer = Append(list, role)
  OBVIOUS
<1>2. /\ longer \in Seq(Roles) /\ Len(longer) = Len(list) + 1 /\ Len(list) \in Nat
      /\ \A i \in 1 .. Len(list) : longer[i] = list[i]
  BY <1>1, AppendProperties, LenProperties
<1>3. SubSeq(longer, 1, Len(longer)) = longer
  BY <1>2, SubSeqProperties
<1>4. ASSUME NEW n \in 0 .. Len(list) PROVE SubSeq(longer, 1, n) = SubSeq(list, 1, n)
  BY <1>2, SubSeqProperties
<1> QED
  BY <1>1, <1>2, <1>3, <1>4

\* What a turn knows stays true when the list of messages grows.
LEMMA OthersUndisturbed ==
  ASSUME TurnsInv, NEW u \in Turns, turn'[u] = turn[u],
         Len(messages) \in Nat, Len(messages') \in Nat, Len(messages) <= Len(messages'),
         \A n \in 0 .. Len(messages) : SubSeq(messages', 1, n) = SubSeq(messages, 1, n)
  PROVE  /\ DOMAIN turn'[u] = {"pc", "own", "previous", "attempt", "demo"}
         /\ turn'[u].pc = "extracting" =>
              /\ turn'[u].own \in 0 .. Len(messages')
              /\ turn'[u].demo = UserTurns(SubSeq(messages', 1, turn'[u].own))
<1>1. DOMAIN turn'[u] = {"pc", "own", "previous", "attempt", "demo"}
  BY DEF TurnsInv
<1>2. ASSUME turn'[u].pc = "extracting"
      PROVE  /\ turn'[u].own \in 0 .. Len(messages')
             /\ turn'[u].demo = UserTurns(SubSeq(messages', 1, turn'[u].own))
  <2>1. PICK own : own = turn[u].own
    OBVIOUS
  <2>2. own \in 0 .. Len(messages) /\ turn[u].demo = UserTurns(SubSeq(messages, 1, own))
    BY <1>2, <2>1 DEF TurnsInv, OwnDemoTurn
  <2>3. own \in 0 .. Len(messages')
    BY <2>2
  <2>4. SubSeq(messages', 1, own) = SubSeq(messages, 1, own)
    BY <2>2
  <2> QED
    BY <2>1, <2>2, <2>3, <2>4
<1> QED
  BY <1>1, <1>2

LEMMA TurnsInvInit == IntakeInit => TurnsInv
<1>1. <<>> \in Seq(Roles)
  BY EmptySeq
<1> QED
  BY <1>1 DEF IntakeInit, TurnsInv, OwnDemoTurn, Resting

LEMMA TurnsInvStep == TurnsInv /\ [IntakeNext]_intakeVars => TurnsInv'
<1> SUFFICES ASSUME TurnsInv, [IntakeNext]_intakeVars PROVE TurnsInv'
  OBVIOUS
<1>1. ASSUME NEW t \in Turns, Receive(t) PROVE TurnsInv'
  <2>1. /\ messages' = Append(messages, "user")
        /\ turn' = [turn EXCEPT ![t] =
             [pc |-> "extracting", own |-> Len(messages'), previous |-> data,
              attempt |-> 0, demo |-> UserTurns(messages')]]
    BY <1>1 DEF Receive
  <2>2. /\ messages' \in Seq(Roles) /\ Len(messages') = Len(messages) + 1 /\ Len(messages) \in Nat
        /\ SubSeq(messages', 1, Len(messages')) = messages'
        /\ \A n \in 0 .. Len(messages) : SubSeq(messages', 1, n) = SubSeq(messages, 1, n)
    BY <2>1, MessagesAppended DEF TurnsInv, Roles
  <2>3. ASSUME NEW u \in Turns
        PROVE  /\ DOMAIN turn'[u] = {"pc", "own", "previous", "attempt", "demo"}
               /\ turn'[u].pc = "extracting" =>
                    /\ turn'[u].own \in 0 .. Len(messages')
                    /\ turn'[u].demo = UserTurns(SubSeq(messages', 1, turn'[u].own))
    <3>1. CASE u = t
      <4>1. PICK received : received =
              [pc |-> "extracting", own |-> Len(messages'), previous |-> data,
               attempt |-> 0, demo |-> UserTurns(messages')]
        OBVIOUS
      <4>2. turn'[u] = received
        BY <2>1, <3>1, <4>1 DEF TurnsInv
      <4>3. /\ DOMAIN received = {"pc", "own", "previous", "attempt", "demo"}
            /\ received.own = Len(messages') /\ received.demo = UserTurns(messages')
        BY <4>1
      <4>4. Len(messages') \in 0 .. Len(messages')
        BY <2>2
      <4>5. UserTurns(messages') = UserTurns(SubSeq(messages', 1, received.own))
        BY <2>2, <4>3
      <4> QED
        BY <4>2, <4>3, <4>4, <4>5
    <3>2. CASE u # t
      <4>1. turn'[u] = turn[u]
        BY <2>1, <3>2 DEF TurnsInv
      <4> QED
        BY <2>2, <4>1, OthersUndisturbed
    <3> QED
      BY <3>1, <3>2
  <2>4. DOMAIN turn' = Turns
    BY <2>1 DEF TurnsInv
  <2> QED
    BY <2>2, <2>3, <2>4 DEF TurnsInv, OwnDemoTurn
<1>2. ASSUME NEW t \in Turns, turn' = [turn EXCEPT ![t] = Resting],
             messages' = messages \/ messages' = Append(messages, "assistant")
      PROVE  TurnsInv'
  <2>1. /\ messages' \in Seq(Roles) /\ Len(messages) \in Nat /\ Len(messages') \in Nat
        /\ Len(messages) <= Len(messages')
        /\ \A n \in 0 .. Len(messages) : SubSeq(messages', 1, n) = SubSeq(messages, 1, n)
    <3>1. CASE messages' = messages
      BY <3>1, LenProperties DEF TurnsInv
    <3>2. CASE messages' = Append(messages, "assistant")
      BY <3>2, MessagesAppended DEF TurnsInv, Roles
    <3> QED
      BY <1>2, <3>1, <3>2
  <2>2. ASSUME NEW u \in Turns
        PROVE  /\ DOMAIN turn'[u] = {"pc", "own", "previous", "attempt", "demo"}
               /\ turn'[u].pc = "extracting" =>
                    /\ turn'[u].own \in 0 .. Len(messages')
                    /\ turn'[u].demo = UserTurns(SubSeq(messages', 1, turn'[u].own))
    <3>1. CASE u = t
      BY <1>2, <3>1 DEF TurnsInv, Resting
    <3>2. CASE u # t
      <4>1. turn'[u] = turn[u]
        BY <1>2, <3>2 DEF TurnsInv
      <4> QED
        BY <2>1, <4>1, OthersUndisturbed
    <3> QED
      BY <3>1, <3>2
  <2>3. DOMAIN turn' = Turns
    BY <1>2 DEF TurnsInv
  <2> QED
    BY <2>1, <2>2, <2>3 DEF TurnsInv, OwnDemoTurn
<1>3. ASSUME NEW t \in Turns, turn' = [turn EXCEPT ![t].attempt = @ + 1], messages' = messages
      PROVE  TurnsInv'
  <2>1. /\ DOMAIN turn' = Turns
        /\ \A u \in Turns : /\ DOMAIN turn'[u] = DOMAIN turn[u] /\ turn'[u].pc = turn[u].pc
                            /\ turn'[u].own = turn[u].own /\ turn'[u].demo = turn[u].demo
    BY <1>3 DEF TurnsInv
  <2> QED
    BY <1>3, <2>1 DEF TurnsInv, OwnDemoTurn
<1>4. CASE UNCHANGED intakeVars
  BY <1>4 DEF TurnsInv, OwnDemoTurn, UserTurns, intakeVars
<1> QED
  BY <1>1, <1>2, <1>3, <1>4 DEF IntakeNext, ExtractionEnds, ExtractionReturns, ExtractionFails,
     AttemptFails, GiveUp

LEMMA TurnsInvHolds == IntakeSpec => []TurnsInv
BY TurnsInvInit, TurnsInvStep, PTL DEF IntakeSpec

\* The demo turn of a message is its own, whichever messages came between
\* it and its extraction and however often that is tried again.
THEOREM OwnDemoTurnHolds == IntakeSpec => []OwnDemoTurn
<1>1. TurnsInv => OwnDemoTurn
  BY DEF TurnsInv
<1> QED
  BY <1>1, TurnsInvHolds, PTL

-----------------------------------------------------------------------------
(* The question                                                            *)
MissingFields(values) == {f \in J : f.required /\ IsEmpty(f, values[f.name])}
OpenFields(values, before) ==
  {f \in J : /\ ~ f.required /\ f.ask /\ f.name \notin before
             /\ IsEmpty(f, values[f.name])}

LEMMA JourneyIs == JourneyFields \in Seq(J)
BY FieldsAssumption DEF IsList, J

\* What passes a test, and what is empty of that, is one test.
LEMMA EmptyOnesIs ==
  ASSUME NEW S, NEW values
  PROVE  /\ ToSet(Those(JourneyFields, S)) = J \intersect S
         /\ Those(JourneyFields, S) \in Seq(J)
         /\ EmptyOnes(Those(JourneyFields, S), values) =
              Those(JourneyFields, {f \in J \intersect S : IsEmpty(f, values[f.name])})
<1>1. PICK s : s = Those(JourneyFields, S)
  OBVIOUS
<1>2. ToSet(s) = J \intersect S /\ s \in Seq(J \intersect S)
  BY <1>1, JourneyIs, MembersOfThose DEF J
<1>3. s \in Seq(J)
  BY <1>2, SeqDef
<1>4. PICK E : E = {f \in J \intersect S : IsEmpty(f, values[f.name])}
  OBVIOUS
<1>5. S \intersect E = E
  BY <1>4
<1>6. EmptyOnes(s, values) = Those(s, E)
  BY <1>2, <1>4 DEF EmptyOnes
<1>7. Those(s, E) = Those(JourneyFields, S \intersect E)
  BY <1>1, JourneyIs, ThoseOfThose
<1> QED
  BY <1>1, <1>2, <1>3, <1>4, <1>5, <1>6, <1>7

LEMMA LeftIs ==
  ASSUME NEW values, NEW before
  PROVE  /\ EmptyOnes(RequiredOnes, values) = Those(JourneyFields, MissingFields(values))
         /\ LeftToAsk(values, before) =
              Those(JourneyFields, MissingFields(values))
                \o Those(JourneyFields, OpenFields(values, ToSet(before)))
<1>1. EmptyOnes(RequiredOnes, values) = Those(JourneyFields, MissingFields(values))
  <2>1. PICK S : S = {f \in J : f.required}
    OBVIOUS
  <2>2. RequiredOnes = Those(JourneyFields, S)
    BY <2>1 DEF RequiredOnes, J
  <2>3. EmptyOnes(RequiredOnes, values) =
          Those(JourneyFields, {f \in J \intersect S : IsEmpty(f, values[f.name])})
    BY <2>2, EmptyOnesIs
  <2>4. {f \in J \intersect S : IsEmpty(f, values[f.name])} = MissingFields(values)
    BY <2>1 DEF MissingFields
  <2> QED
    BY <2>3, <2>4
<1>2. EmptyOnes(Those(OptionalOnes,
                      {f \in ToSet(OptionalOnes) : f.name \notin ToSet(before)}), values)
        = Those(JourneyFields, OpenFields(values, ToSet(before)))
  <2>1. PICK S : S = {f \in J : ~ f.required /\ f.ask}
    OBVIOUS
  <2>2. OptionalOnes = Those(JourneyFields, S)
    BY <2>1 DEF OptionalOnes, J
  <2>3. ToSet(OptionalOnes) = J \intersect S
    BY <2>2, EmptyOnesIs
  <2>4. PICK B : B = {f \in ToSet(OptionalOnes) : f.name \notin ToSet(before)}
    OBVIOUS
  <2>5. PICK SB : SB = S \intersect B
    OBVIOUS
  <2>6. Those(OptionalOnes, B) = Those(JourneyFields, SB)
    BY <2>2, <2>5, JourneyIs, ThoseOfThose
  <2>7. EmptyOnes(Those(JourneyFields, SB), values) =
          Those(JourneyFields, {f \in J \intersect SB : IsEmpty(f, values[f.name])})
    BY EmptyOnesIs
  <2>8. {f \in J \intersect SB : IsEmpty(f, values[f.name])}
          = OpenFields(values, ToSet(before))
    BY <2>1, <2>3, <2>4, <2>5 DEF OpenFields
  <2> QED
    BY <2>4, <2>6, <2>7, <2>8
<1> QED
  BY <1>1, <1>2 DEF LeftToAsk

\* The field asked for has no answer; it is a required one exactly when one
\* of those is missing, and the first of its kind.
LEMMA HeadLeftIs ==
  ASSUME NEW values, NEW before
  PROVE  LET left == LeftToAsk(values, before)
             S == IF MissingFields(values) # {} THEN MissingFields(values)
                  ELSE OpenFields(values, ToSet(before))
         IN  /\ left # <<>> <=> S # {}
             /\ left # <<>> =>
                  /\ Head(left) \in S
                  /\ \E i \in DOMAIN JourneyFields :
                       /\ JourneyFields[i] = Head(left)
                       /\ \A j \in DOMAIN JourneyFields : JourneyFields[j] \in S => i <= j
<1>1. PICK M, O : M = MissingFields(values) /\ O = OpenFields(values, ToSet(before))
  OBVIOUS
<1>2. M \subseteq J /\ O \subseteq J
  BY <1>1 DEF MissingFields, OpenFields
<1>3. PICK m, o : m = Those(JourneyFields, M) /\ o = Those(JourneyFields, O)
  OBVIOUS
<1>4. m \in Seq(J) /\ o \in Seq(J) /\ ToSet(m) = M /\ ToSet(o) = O
  BY <1>2, <1>3, EmptyOnesIs
<1>5. (m = <<>> <=> M = {}) /\ (o = <<>> <=> O = {})
  BY <1>4, NoMembers
<1>6. PICK left : left = LeftToAsk(values, before)
  OBVIOUS
<1>7. left = m \o o
  BY <1>1, <1>3, <1>6, LeftIs
<1>8. /\ left = <<>> <=> m = <<>> /\ o = <<>>
      /\ m # <<>> => Head(left) = Head(m)
      /\ m = <<>> => left = o
  BY <1>4, <1>7, HeadOfConcat
<1>9. CASE M # {}
  <2>1. left # <<>> /\ Head(left) = Head(m)
    BY <1>5, <1>8, <1>9
  <2>2. \E i \in DOMAIN JourneyFields :
          /\ JourneyFields[i] \in M /\ Head(m) = JourneyFields[i]
          /\ \A j \in DOMAIN JourneyFields : JourneyFields[j] \in M => i <= j
    BY <1>3, <1>5, <1>9, JourneyIs, HeadOfThose
  <2> QED
    BY <1>1, <1>6, <1>9, <2>1, <2>2
<1>10. CASE M = {} /\ O # {}
  <2>1. left # <<>> /\ Head(left) = Head(o)
    BY <1>5, <1>8, <1>10
  <2>2. \E i \in DOMAIN JourneyFields :
          /\ JourneyFields[i] \in O /\ Head(o) = JourneyFields[i]
          /\ \A j \in DOMAIN JourneyFields : JourneyFields[j] \in O => i <= j
    BY <1>3, <1>5, <1>10, JourneyIs, HeadOfThose
  <2> QED
    BY <1>1, <1>6, <1>10, <2>1, <2>2
<1>11. CASE M = {} /\ O = {}
  BY <1>1, <1>5, <1>6, <1>8, <1>11
<1> QED
  BY <1>9, <1>10, <1>11

\* The checker misses a field exactly when a required one is empty, and
\* then only is anything short of the total.
LEMMA CheckIs ==
  ASSUME NEW values
  PROVE  /\ Check(values).complete \in BOOLEAN
         /\ Check(values).complete <=> MissingFields(values) = {}
         /\ Check(values).complete => Check(values).filled = Check(values).total
<1>1. PICK m : m = Those(JourneyFields, MissingFields(values))
  OBVIOUS
<1>2. MissingFields(values) \subseteq J
  BY DEF MissingFields
<1>3. m \in Seq(J) /\ ToSet(m) = MissingFields(values)
  BY <1>1, <1>2, EmptyOnesIs
<1>4. PICK n : n = Names(m)
  OBVIOUS
<1>5. (n = <<>> <=> m = <<>>) /\ Len(n) = Len(m) /\ Len(m) \in Nat
  BY <1>3, <1>4, NamesOf, LenProperties
<1>6. m = <<>> <=> MissingFields(values) = {}
  BY <1>3, NoMembers
<1>7. PICK r : r = RequiredOnes
  OBVIOUS
<1>8. r \in Seq(J)
  BY <1>7, EmptyOnesIs DEF RequiredOnes
<1>9. PICK total : total = IF r = <<>> THEN 1 ELSE Len(r)
  OBVIOUS
<1>10. total \in Nat
  BY <1>8, <1>9, LenProperties
<1>11. Check(values) = [missing |-> n, complete |-> n = <<>>,
                        filled |-> total - Len(n), total |-> total]
  BY <1>1, <1>4, <1>7, <1>9, LeftIs DEF Check
<1>12. n = <<>> => Len(n) = 0
  BY <1>5, EmptySeq
<1>13. n = <<>> => total - Len(n) = total
  BY <1>10, <1>12
<1>14. PICK check : check = Check(values)
  OBVIOUS
<1>15. /\ check.complete = (n = <<>>) /\ check.filled = total - Len(n)
       /\ check.total = total
  BY <1>11, <1>14
<1> QED
  BY <1>5, <1>6, <1>13, <1>14, <1>15

\* What a question acknowledges has an answer and is not what it asks for.
LEMMA AcknowledgedIs ==
  ASSUME NEW question, NEW values, NEW T, NEW news \in Seq(T)
  PROVE  LET names == Acknowledged(question, values, news) IN
         /\ IsList(names)
         /\ ToSet(names) \subseteq
              {f.name : f \in {g \in J : g # question /\ ~ IsEmpty(g, values[g.name])}}
<1>1. PICK S : S = {f \in J : f # question /\ f.acknowledged /\ ~ IsEmpty(f, values[f.name])}
  OBVIOUS
<1>2. PICK s : s = Those(JourneyFields, S)
  OBVIOUS
<1>3. s \in Seq(J) /\ ToSet(s) = S
  BY <1>1, <1>2, EmptyOnesIs
<1>4. PICK N : N = ToSet(news)
  OBVIOUS
<1>5. PICK both : both = Those(s, N)
  OBVIOUS
<1>6. both \in Seq(J \intersect N) /\ ToSet(both) = S \intersect N
  BY <1>3, <1>5, MembersOfThose
<1>7. PICK names : names = Acknowledged(question, values, news)
  OBVIOUS
<1>8. names = IF news # <<>> THEN Names(both)
              ELSE IF s = <<>> THEN <<>> ELSE <<Last(s).name>>
  BY <1>1, <1>2, <1>4, <1>5, <1>7 DEF Acknowledged, J
<1>9. CASE news # <<>>
  <2>1. names = Names(both)
    BY <1>8, <1>9
  <2>2. /\ ToSet(names) = {f.name : f \in S \intersect N}
        /\ DOMAIN names = DOMAIN both
    BY <1>6, <2>1, NamesOf
  <2>3. DOMAIN both = 1 .. Len(both) /\ Len(both) \in Nat
    BY <1>6, LenProperties
  <2>4. names \in [1 .. Len(both) -> ToSet(names)]
    BY <2>1, <2>2, <2>3 DEF Names, ToSet
  <2>5. IsList(names)
    BY <2>3, <2>4, SeqDef DEF IsList
  <2> QED
    BY <1>1, <1>7, <2>2, <2>5
<1>10. CASE news = <<>> /\ s = <<>>
  <2>1. names = <<>> /\ ToSet(names) = {}
    BY <1>8, <1>10, MembersOfEmpty
  <2> QED
    BY <1>7, <2>1, EmptySeq DEF IsList
<1>11. CASE news = <<>> /\ s # <<>>
  <2>1. PICK x : x = Last(s)
    OBVIOUS
  <2>2. x \in S
    BY <1>3, <1>11, <2>1, EndsAreMembers
  <2>3. PICK y : y = x.name
    OBVIOUS
  <2>4. names = <<y>>
    BY <1>8, <1>11, <2>1, <2>3
  <2>5. <<y>> \in Seq({y}) /\ ToSet(<<y>>) = {y}
    BY MembersOfOne
  <2> QED
    BY <1>1, <1>7, <2>2, <2>3, <2>4, <2>5 DEF IsList
<1> QED
  BY <1>9, <1>10, <1>11

-----------------------------------------------------------------------------
(* The replies                                                             *)
\* An answer fits the data: later turns may add to it.
AnswerFits(answer, values) ==
  /\ answer.is = "question" =>
       /\ IsList(answer.acknowledged)
       /\ \A name \in ToSet(answer.acknowledged) :
            /\ name # answer.field
            /\ \E f \in J : f.name = name /\ ~ IsEmpty(f, values[name])
       /\ Field(answer.field).required <=> ~ answer.check.complete
  /\ answer.is = "researching" =>
       answer.check.complete /\ answer.check.filled = answer.check.total

RepliesInv ==
  /\ DOMAIN reply = Turns
  /\ \A t \in Turns : AnswerFits(reply[t], data)

LEMMA AnswerStillFits ==
  ASSUME NEW answer, NEW old, NEW new, AnswerFits(answer, old),
         \A f \in J : IsEmpty(f, new[f.name]) => IsEmpty(f, old[f.name])
  PROVE  AnswerFits(answer, new)
BY DEF AnswerFits

\* The answer of a turn that has merged what it found.
LEMMA QuestionFits ==
  ASSUME NEW values, NEW before, NEW T, NEW news \in Seq(T), NEW left,
         left = LeftToAsk(values, before), left # <<>>
  PROVE  AnswerFits([is |-> "question", field |-> Head(left).name, check |-> Check(values),
                     acknowledged |-> Acknowledged(Head(left), values, news)], values)
<1>1. PICK head : head = Head(left)
  OBVIOUS
<1>2. PICK names : names = Acknowledged(head, values, news)
  OBVIOUS
<1>3. PICK check : check = Check(values)
  OBVIOUS
<1>4. PICK answer : answer = [is |-> "question", field |-> head.name, check |-> check,
                              acknowledged |-> names]
  OBVIOUS
<1>5. /\ head \in IF MissingFields(values) # {} THEN MissingFields(values)
                  ELSE OpenFields(values, ToSet(before))
  BY <1>1, HeadLeftIs
<1>6. head \in J /\ (head.required <=> MissingFields(values) # {})
  BY <1>5, FieldIs DEF MissingFields, OpenFields, FieldRecord
<1>7. head.required <=> ~ check.complete
  BY <1>3, <1>6, CheckIs
<1>8. Field(head.name) = head
  BY <1>6, FieldIs
<1>9. /\ IsList(names)
      /\ ToSet(names) \subseteq
           {f.name : f \in {g \in J : g # head /\ ~ IsEmpty(g, values[g.name])}}
  BY <1>2, AcknowledgedIs
<1>10. ASSUME NEW name \in ToSet(names)
       PROVE  name # head.name /\ \E f \in J : f.name = name /\ ~ IsEmpty(f, values[name])
  <2>1. PICK g \in J : g # head /\ ~ IsEmpty(g, values[g.name]) /\ name = g.name
    BY <1>9
  <2>2. g.name # head.name
    BY <1>8, <2>1, FieldIs
  <2> QED
    BY <2>1, <2>2
<1>11. /\ answer.is = "question" /\ answer.field = head.name /\ answer.check = check
       /\ answer.acknowledged = names
  BY <1>4
<1>12. AnswerFits(answer, values)
  BY <1>7, <1>8, <1>9, <1>10, <1>11 DEF AnswerFits
<1> QED
  BY <1>1, <1>2, <1>3, <1>4, <1>12

LEMMA ResearchingFits ==
  ASSUME NEW values, NEW before, LeftToAsk(values, before) = <<>>
  PROVE  AnswerFits([is |-> "researching", check |-> Check(values)], values)
<1>1. MissingFields(values) = {}
  BY HeadLeftIs
<1>2. PICK check : check = Check(values)
  OBVIOUS
<1>3. check.complete /\ check.filled = check.total
  BY <1>1, <1>2, CheckIs
<1>4. AnswerFits([is |-> "researching", check |-> check], values)
  BY <1>3 DEF AnswerFits
<1> QED
  BY <1>2, <1>4

LEMMA RepliesInvInit == IntakeInit => RepliesInv
BY DEF IntakeInit, RepliesInv, NoReply, AnswerFits

LEMMA RepliesInvStep == DataInv /\ RepliesInv /\ [IntakeNext]_intakeVars => RepliesInv'
<1> SUFFICES ASSUME DataInv, RepliesInv, [IntakeNext]_intakeVars PROVE RepliesInv'
  OBVIOUS
<1>1. ASSUME NEW t \in Turns, NEW answer, reply' = [reply EXCEPT ![t] = answer],
             \A f \in J : IsEmpty(f, data'[f.name]) => IsEmpty(f, data[f.name]),
             AnswerFits(answer, data')
      PROVE  RepliesInv'
  <2>1. ASSUME NEW u \in Turns PROVE AnswerFits(reply'[u], data')
    <3>1. CASE u = t
      BY <1>1, <3>1 DEF RepliesInv
    <3>2. CASE u # t
      <4>1. reply'[u] = reply[u]
        BY <1>1, <3>2 DEF RepliesInv
      <4>2. AnswerFits(reply[u], data')
        BY <1>1, AnswerStillFits DEF RepliesInv
      <4> QED
        BY <4>1, <4>2
    <3> QED
      BY <3>1, <3>2
  <2> QED
    BY <1>1, <2>1 DEF RepliesInv
<1>2. ASSUME NEW t \in Turns, NEW found \in Extractions, ExtractionReturns(t, found)
      PROVE  RepliesInv'
  <2>1. PICK merged : merged = MergeData(data, found)
    OBVIOUS
  <2>2. PICK news : news = NewlyFilled(turn[t].previous, merged)
    OBVIOUS
  <2>3. PICK left : left = LeftToAsk(merged, asked)
    OBVIOUS
  <2>4. data' = merged
    BY <1>2, <2>1 DEF ExtractionReturns
  <2>5. \A f \in J : IsEmpty(f, merged[f.name]) => IsEmpty(f, data[f.name])
    BY <2>1, MergeDataHolds DEF DataInv
  <2>6. news \in Seq(J)
    BY <2>2, EmptyOnesIs DEF NewlyFilled
  <2>7. CASE left # <<>>
    <3>1. PICK answer : answer =
            [is |-> "question", field |-> Head(left).name, check |-> Check(merged),
             acknowledged |-> Acknowledged(Head(left), merged, news)]
      OBVIOUS
    <3>2. reply' = [reply EXCEPT ![t] = answer]
      BY <1>2, <2>1, <2>2, <2>3, <2>7, <3>1 DEF ExtractionReturns
    <3>3. AnswerFits(answer, merged)
      BY <2>3, <2>6, <2>7, <3>1, QuestionFits
    <3> QED
      BY <1>1, <2>4, <2>5, <3>2, <3>3
  <2>8. CASE left = <<>>
    <3>1. PICK answer : answer = [is |-> "researching", check |-> Check(merged)]
      OBVIOUS
    <3>2. reply' = [reply EXCEPT ![t] = answer]
      BY <1>2, <2>1, <2>2, <2>3, <2>8, <3>1 DEF ExtractionReturns
    <3>3. AnswerFits(answer, merged)
      BY <2>3, <2>8, <3>1, ResearchingFits
    <3> QED
      BY <1>1, <2>4, <2>5, <3>2, <3>3
  <2> QED
    BY <2>7, <2>8
<1>3. ASSUME NEW t \in Turns, Receive(t) PROVE RepliesInv'
  <2>1. AnswerFits(NoReply, data')
    BY DEF AnswerFits, NoReply
  <2> QED
    BY <1>1, <1>3, <2>1 DEF Receive
<1>4. ASSUME NEW t \in Turns, GiveUp(t), UNCHANGED data PROVE RepliesInv'
  <2>1. AnswerFits([is |-> "rephrase"], data')
    BY DEF AnswerFits
  <2> QED
    BY <1>1, <1>4, <2>1 DEF GiveUp
<1>5. CASE UNCHANGED <<data, reply>>
  BY <1>5 DEF RepliesInv
<1> QED
  BY <1>2, <1>3, <1>4, <1>5 DEF IntakeNext, ExtractionEnds, ExtractionFails, AttemptFails,
     intakeVars

\* However turns overlap: no reply acknowledges the field it asks for or one
\* without an answer, the question is a required one exactly when the checker
\* misses a field, and research starts only with all required fields there.
THEOREM RepliesFitHolds == IntakeSpec => []RepliesFit
<1>1. DataInv /\ RepliesInv => RepliesFit
  <2> SUFFICES ASSUME RepliesInv, NEW t \in Turns, NEW answer, answer = reply[t]
      PROVE  /\ answer.is = "question" =>
                  /\ ~Contains(answer.acknowledged, answer.field)
                  /\ Field(answer.field).required <=> ~answer.check.complete
                  /\ \A i \in DOMAIN answer.acknowledged :
                       ~IsEmpty(Field(answer.acknowledged[i]), data[answer.acknowledged[i]])
             /\ answer.is = "researching" =>
                  answer.check.complete /\ answer.check.filled = answer.check.total
    BY DEF RepliesFit
  <2>1. AnswerFits(answer, data)
    BY DEF RepliesInv
  <2>2. ASSUME answer.is = "question"
        PROVE  /\ ~Contains(answer.acknowledged, answer.field)
               /\ \A i \in DOMAIN answer.acknowledged :
                    ~IsEmpty(Field(answer.acknowledged[i]), data[answer.acknowledged[i]])
    <3>1. PICK names : names = answer.acknowledged
      OBVIOUS
    <3>2. /\ IsList(names)
          /\ \A name \in ToSet(names) :
               /\ name # answer.field
               /\ \E f \in J : f.name = name /\ ~ IsEmpty(f, data[name])
      BY <2>1, <2>2, <3>1 DEF AnswerFits
    <3>3. DOMAIN names = 1 .. Len(names) /\ \A i \in DOMAIN names : names[i] \in ToSet(names)
      BY <3>2, MembersType DEF IsList, ToSet
    <3>4. ~Contains(names, answer.field)
      BY <3>2, <3>3 DEF Contains
    <3>5. ASSUME NEW i \in DOMAIN names PROVE ~IsEmpty(Field(names[i]), data[names[i]])
      <4>1. PICK f \in J : f.name = names[i] /\ ~ IsEmpty(f, data[names[i]])
        BY <3>2, <3>3
      <4>2. Field(f.name) = f
        BY FieldIs
      <4> QED
        BY <4>1, <4>2
    <3> QED
      BY <3>1, <3>4, <3>5
  <2> QED
    BY <2>1, <2>2 DEF AnswerFits
<1> QED
  BY <1>1, DataInvHolds, RepliesInvInit, RepliesInvStep, PTL DEF IntakeSpec

-----------------------------------------------------------------------------
(* The fields as sets                                                      *)
LEMMA MissingRequiredIs ==
  ASSUME NEW values
  PROVE  Sets!MissingRequired(Answered(values)) <=> MissingFields(values) # {}
<1>1. PICK S : S = {f \in J : f.required}
  OBVIOUS
<1>2. PICK r : r = RequiredOnes
  OBVIOUS
<1>3. r \in Seq(J) /\ ToSet(r) = J \intersect S
  BY <1>1, <1>2, EmptyOnesIs DEF RequiredOnes, J
<1>4. DOMAIN Names(r) = DOMAIN r /\ \A i \in DOMAIN r : Names(r)[i] = r[i].name
  BY <1>3, NamesOf
<1>5. \A i \in DOMAIN r : r[i] \in J /\ r[i].required
  BY <1>1, <1>3 DEF ToSet
<1>6. \A i \in DOMAIN r :
        Names(r)[i] \notin Answered(values) <=> r[i] \in MissingFields(values)
  BY <1>4, <1>5, AnsweredIs DEF MissingFields
<1>7. \A f \in MissingFields(values) : \E i \in DOMAIN r : r[i] = f
  BY <1>1, <1>3 DEF MissingFields, ToSet
<1> QED
  BY <1>2, <1>4, <1>6, <1>7 DEF Sets!MissingRequired, Sets!MissingAt

LEMMA MissingOptionalIs ==
  ASSUME NEW values, NEW before
  PROVE  LET open == OpenFields(values, before) IN
         /\ Sets!MissingOptional(Answered(values), before) <=> open # {}
         /\ open # {} =>
              Head(Those(JourneyFields, open)).name =
                Sets!FirstMissing(Names(OptionalOnes), Answered(values) \union before)
<1>1. PICK S : S = {f \in J : ~ f.required /\ f.ask}
  OBVIOUS
<1>2. PICK o : o = OptionalOnes
  OBVIOUS
<1>3. o = Those(JourneyFields, S)
  BY <1>1, <1>2 DEF OptionalOnes, J
<1>4. o \in Seq(J) /\ ToSet(o) = J \intersect S
  BY <1>3, EmptyOnesIs
<1>5. DOMAIN Names(o) = DOMAIN o /\ \A i \in DOMAIN o : Names(o)[i] = o[i].name
  BY <1>4, NamesOf
<1>6. PICK open : open = OpenFields(values, before)
  OBVIOUS
<1>7. \A i \in DOMAIN o : o[i] \in J /\ ~ o[i].required /\ o[i].ask
  BY <1>1, <1>4 DEF ToSet
<1>8. \A i \in DOMAIN o :
        Names(o)[i] \notin Answered(values) \union before <=> o[i] \in open
  BY <1>5, <1>6, <1>7, AnsweredIs DEF OpenFields
<1>9. \A f \in open : \E i \in DOMAIN o : o[i] = f
  BY <1>1, <1>4, <1>6 DEF OpenFields, ToSet
<1>10. PICK M : M = {i \in DOMAIN o : o[i] \in open}
  OBVIOUS
<1>11. Sets!MissingAt(Names(o), Answered(values) \union before) = M
  BY <1>5, <1>8, <1>10 DEF Sets!MissingAt
<1>12. Sets!MissingOptional(Answered(values), before) <=> open # {}
  BY <1>2, <1>9, <1>10, <1>11 DEF Sets!MissingOptional
<1>13. ASSUME open # {}
       PROVE  Head(Those(JourneyFields, open)).name =
                Sets!FirstMissing(Names(o), Answered(values) \union before)
  <2>1. open \subseteq S
    BY <1>1, <1>6 DEF OpenFields
  <2>2. S \intersect open = open
    BY <2>1
  <2>3. Those(o, open) = Those(JourneyFields, open)
    BY <1>3, <2>2, JourneyIs, ThoseOfThose
  <2>4. Those(o, open) # <<>>
    <3>1. PICK s : s = Those(o, open)
      OBVIOUS
    <3>2. s \in Seq(J \intersect open) /\ ToSet(s) = ToSet(o) \intersect open
      BY <1>4, <3>1, MembersOfThose
    <3>3. ToSet(s) # {}
      BY <1>9, <1>13, <3>2 DEF ToSet
    <3> QED
      BY <3>1, <3>2, <3>3, NoMembers
  <2>5. PICK i \in DOMAIN o :
          /\ o[i] \in open /\ Head(Those(o, open)) = o[i]
          /\ \A j \in DOMAIN o : o[j] \in open => i <= j
    BY <1>4, <2>4, HeadOfThose
  <2>6. i \in M /\ \A j \in M : i <= j
    BY <1>10, <2>5
  <2>7. M \subseteq Nat
    BY <1>4, <1>10, LenProperties
  <2>8. PICK c : c = CHOOSE k \in M : \A j \in M : k <= j
    OBVIOUS
  <2>9. c \in M /\ \A j \in M : c <= j
    BY <2>6, <2>8
  <2>10. c = i
    BY <2>6, <2>7, <2>9
  <2>11. Sets!FirstMissing(Names(o), Answered(values) \union before) = Names(o)[c]
    BY <1>11, <2>8 DEF Sets!FirstMissing
  <2> QED
    BY <1>5, <2>3, <2>5, <2>10, <2>11
<1> QED
  BY <1>2, <1>6, <1>12, <1>13

\* The question goes on record as the interview of sets says.
LEMMA AskedAfterIs ==
  ASSUME NEW values, NEW before, IsList(before), NEW left, left = LeftToAsk(values, before)
  PROVE  LET then == IF left = <<>> THEN before
                     ELSE IF Head(left).required \/ Contains(before, Head(left).name)
                       THEN before ELSE Append(before, Head(left).name)
         IN  IsList(then) /\ ToSet(then) = Sets!AskedAfter(Answered(values), ToSet(before))
<1>1. PICK M, O : M = MissingFields(values) /\ O = OpenFields(values, ToSet(before))
  OBVIOUS
<1>2. PICK after : after = Sets!AskedAfter(Answered(values), ToSet(before))
  OBVIOUS
<1>3. after = IF M = {} /\ O # {}
                THEN ToSet(before)
                       \union {Sets!FirstMissing(Names(OptionalOnes),
                                                 Answered(values) \union ToSet(before))}
                ELSE ToSet(before)
  BY <1>1, <1>2, MissingRequiredIs, MissingOptionalIs DEF Sets!AskedAfter
<1>4. /\ left # <<>> <=> M # {} \/ O # {}
      /\ left # <<>> => Head(left) \in IF M # {} THEN M ELSE O
  BY <1>1, HeadLeftIs
<1>5. CASE M # {}
  BY <1>1, <1>2, <1>3, <1>4, <1>5 DEF MissingFields
<1>6. CASE M = {} /\ O = {}
  BY <1>2, <1>3, <1>4, <1>6
<1>7. CASE M = {} /\ O # {}
  <2>1. PICK head : head = Head(left)
    OBVIOUS
  <2>2. PICK name : name = head.name
    OBVIOUS
  <2>3. left # <<>> /\ head \in O
    BY <1>4, <1>7, <2>1
  <2>4. ~ head.required /\ name \notin ToSet(before)
    BY <1>1, <2>2, <2>3 DEF OpenFields
  <2>5. ~ Contains(before, name)
    <3>1. \A i \in 1 .. Len(before) : before[i] \in ToSet(before)
      BY MembersType DEF IsList, ToSet
    <3> QED
      BY <2>4, <3>1 DEF Contains
  <2>6. name = Sets!FirstMissing(Names(OptionalOnes), Answered(values) \union ToSet(before))
    <3>1. PICK m, o : m = Those(JourneyFields, M) /\ o = Those(JourneyFields, O)
      OBVIOUS
    <3>2. M \subseteq J /\ O \subseteq J
      BY <1>1 DEF MissingFields, OpenFields
    <3>3. m \in Seq(J) /\ o \in Seq(J) /\ ToSet(m) = M
      BY <3>1, <3>2, EmptyOnesIs
    <3>4. m = <<>>
      BY <1>7, <3>3, NoMembers
    <3>5. left = m \o o
      BY <1>1, <3>1, LeftIs
    <3>6. left = o
      BY <3>3, <3>4, <3>5, HeadOfConcat
    <3> QED
      BY <1>1, <1>7, <2>1, <2>2, <3>1, <3>6, MissingOptionalIs
  <2>7. after = ToSet(before) \union {name}
    BY <1>3, <1>7, <2>6
  <2>8. PICK T : T = ToSet(before) \union {name}
    OBVIOUS
  <2>9. before \in Seq(T) /\ name \in T
    BY <2>8, SeqDef DEF IsList
  <2>10. Append(before, name) \in Seq(T) /\ ToSet(Append(before, name)) = T
    BY <2>8, <2>9, MembersOfAppend, AppendProperties
  <2> QED
    BY <1>2, <2>1, <2>2, <2>3, <2>4, <2>5, <2>7, <2>8, <2>10 DEF IsList
<1> QED
  BY <1>5, <1>6, <1>7

AskedInv == IsList(asked)

\* A turn of IntakeServices is one of the interview of sets.
LEMMA TurnImplements ==
  ASSUME DataInv, AskedInv, NEW t \in Turns, NEW found \in Extractions,
         ExtractionReturns(t, found)
  PROVE  /\ AskedInv'
         /\ Answered(data') = Answered(data) \union Found(found)
         /\ ToSet(asked') = Sets!AskedAfter(Answered(data'), ToSet(asked))
<1>1. PICK merged : merged = MergeData(data, found)
  OBVIOUS
<1>2. PICK left : left = LeftToAsk(merged, asked)
  OBVIOUS
<1>3. data' = merged
  BY <1>1 DEF ExtractionReturns
<1>4. Answered(merged) = Answered(data) \union Found(found)
  <2>1. Found(found) = {f.name : f \in {g \in J : Finds(g, found[g.name])}}
    BY DEF Found, Finds, J
  <2>2. \A f \in J : IsEmpty(f, merged[f.name]) <=>
                       IsEmpty(f, data[f.name]) /\ ~ Finds(f, found[f.name])
    BY <1>1, MergeDataHolds DEF DataInv
  <2>3. {g \in J : ~ IsEmpty(g, merged[g.name])} =
          {g \in J : ~ IsEmpty(g, data[g.name])} \union {g \in J : Finds(g, found[g.name])}
    BY <2>2
  <2> QED
    BY <2>1, <2>3 DEF Answered
<1>5. PICK before : before = asked
  OBVIOUS
<1>6. PICK then : then = IF left = <<>> THEN before
                     ELSE IF Head(left).required \/ Contains(before, Head(left).name)
                       THEN before ELSE Append(before, Head(left).name)
  OBVIOUS
<1>7. asked' = then
  BY <1>1, <1>2, <1>5, <1>6 DEF ExtractionReturns
<1>8. IsList(then) /\ ToSet(then) = Sets!AskedAfter(Answered(merged), ToSet(before))
  BY <1>2, <1>5, <1>6, AskedAfterIs DEF AskedInv
<1> QED
  BY <1>3, <1>4, <1>5, <1>7, <1>8 DEF AskedInv

LEMMA AskedInvStep == DataInv /\ AskedInv /\ [IntakeNext]_intakeVars => AskedInv'
<1> SUFFICES ASSUME DataInv, AskedInv, [IntakeNext]_intakeVars PROVE AskedInv'
  OBVIOUS
<1>1. CASE UNCHANGED asked
  BY <1>1 DEF AskedInv
<1> QED
  BY <1>1, TurnImplements DEF IntakeNext, ExtractionEnds, Receive, ExtractionFails,
     AttemptFails, intakeVars

\* Every field is one of the interview's.
LEMMA AnsweredFields == \A values : Answered(values) \subseteq Sets!Fields
<1> SUFFICES ASSUME NEW values, NEW f \in J PROVE f.name \in Sets!Fields
  BY DEF Answered
<1>1. ASSUME NEW S, NEW s, s = Those(JourneyFields, S), f \in S
      PROVE  f.name \in Sets!Elements(Names(s))
  <2>1. s \in Seq(J) /\ ToSet(s) = J \intersect S
    BY <1>1, EmptyOnesIs
  <2>2. PICK i \in DOMAIN s : s[i] = f
    BY <1>1, <2>1 DEF ToSet
  <2>3. i \in DOMAIN Names(s) /\ Names(s)[i] = f.name
    BY <2>1, <2>2, NamesOf
  <2> QED
    BY <2>3 DEF Sets!Elements
<1>2. CASE f.required
  <2>1. f.name \in Sets!Elements(Names(RequiredOnes))
    BY <1>1, <1>2 DEF RequiredOnes, J
  <2> QED
    BY <2>1 DEF Sets!Fields
<1>3. CASE ~ f.required /\ f.ask
  <2>1. f.name \in Sets!Elements(Names(OptionalOnes))
    BY <1>1, <1>3 DEF OptionalOnes, J
  <2> QED
    BY <2>1 DEF Sets!Fields
<1>4. CASE ~ f.required /\ ~ f.ask
  BY <1>4 DEF Sets!Fields, J
<1> QED
  BY <1>2, <1>3, <1>4

\* Emptiness, the merger and its field types, the differ and the journey's
\* choice implement the interview of sets: the data is right about which
\* fields have an answer, and each turn adds the fields it found something
\* in and asks the journey's question.
THEOREM ImplementsInterviewHolds == IntakeSpec => ImplementsInterview
<1> DEFINE filledBar == {f.name : f \in {g \in ToSet(JourneyFields) : ~IsEmpty(g, data[g.name])}}
           askedBar == ToSet(asked)
           Turned == \A t \in Turns, x \in Extractions :
                       ExtractionReturns(t, x) => Sets!Turn(Found(x))
<1>1. IntakeInit => DataInv /\ AskedInv /\ Sets!Init
  <2> SUFFICES ASSUME IntakeInit PROVE DataInv /\ AskedInv /\ Sets!Init
    OBVIOUS
  <2>1. DataInv
    BY NoDataHolds DEF IntakeInit, DataInv
  <2>2. IsList(<<>>) /\ ToSet(<<>>) = {}
    BY EmptySeq, MembersOfEmpty DEF IsList
  <2>3. AskedInv /\ askedBar = {}
    BY <2>2 DEF IntakeInit, AskedInv
  <2>4. filledBar = {}
    BY NoDataHolds DEF IntakeInit, Answered, J
  <2> QED
    BY <2>1, <2>3, <2>4 DEF Sets!Init
<1>2. DataInv /\ AskedInv /\ [IntakeNext]_intakeVars => Turned
  <2> SUFFICES ASSUME DataInv, AskedInv, NEW t \in Turns, NEW x \in Extractions,
                      ExtractionReturns(t, x)
               PROVE  Sets!Turn(Found(x))
    OBVIOUS
  <2>1. /\ Answered(data') = Answered(data) \union Found(x)
        /\ ToSet(asked') = Sets!AskedAfter(Answered(data'), ToSet(asked))
    BY TurnImplements
  <2>2. filledBar = Answered(data) /\ filledBar' = Answered(data')
    BY DEF Answered, J
  <2> QED
    BY <2>1, <2>2 DEF Sets!Turn
<1>3. DataInv /\ AskedInv /\ [IntakeNext]_intakeVars => [Sets!Next]_<<filledBar, askedBar>>
  <2> SUFFICES ASSUME DataInv, AskedInv, [IntakeNext]_intakeVars
               PROVE  [Sets!Next]_<<filledBar, askedBar>>
    OBVIOUS
  <2>1. ASSUME NEW t \in Turns, NEW x \in Extractions, ExtractionReturns(t, x)
        PROVE  Sets!Next
    <3>1. /\ Answered(data') = Answered(data) \union Found(x)
          /\ ToSet(asked') = Sets!AskedAfter(Answered(data'), ToSet(asked))
      BY <2>1, TurnImplements
    <3>2. filledBar = Answered(data) /\ filledBar' = Answered(data')
      BY DEF Answered, J
    <3>3. filledBar' = filledBar \union filledBar'
      BY <3>1, <3>2
    <3>4. filledBar' \subseteq Sets!Fields
      BY <3>2, AnsweredFields
    <3>5. Sets!Turn(filledBar')
      BY <3>1, <3>2, <3>3 DEF Sets!Turn
    <3> QED
      BY <3>4, <3>5 DEF Sets!Next
  <2>2. CASE UNCHANGED <<data, asked>>
    BY <2>2
  <2> QED
    BY <2>1, <2>2 DEF IntakeNext, ExtractionEnds, Receive, ExtractionFails, AttemptFails,
       intakeVars
<1> QED
  BY <1>1, <1>2, <1>3, DataInvStep, AskedInvStep, PTL
     DEF IntakeSpec, ImplementsInterview, Sets!Spec

=============================================================================
