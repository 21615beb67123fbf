----------------------------- MODULE ListsProofs -----------------------------
(***************************************************************************)
(* What the operators on lists compute, for every list, and the principles *)
(* that show it: induction over numbers and over lists, for a set instead  *)
(* of a predicate, and the existence of a function that is defined by      *)
(* recursion over an interval.                                             *)
(***************************************************************************)
EXTENDS Lists, WellFoundedInduction, SequenceTheorems, TLAPS

Below == {p \in Nat \X Nat : p[1] < p[2]}

LEMMA BelowIsWellFounded == IsWellFoundedOn(Below, Nat)
<1>1. OpToRel(<, Nat) = Below
  BY Zenon DEF OpToRel, Below
<1> QED
  BY <1>1, NatLessThanWellFounded, Zenon

LEMMA LeastNumber ==
  ASSUME NEW T \in SUBSET Nat, T # {}
  PROVE  \E m \in T : \A n \in T : m <= n
<1>1. PICK m \in T : \A n \in T : <<n, m>> \notin Below
  BY BelowIsWellFounded, WFMin, Zenon
<1>2. \A n \in T : n < m => <<n, m>> \in Below
  BY DEF Below
<1>3. \A n \in T : m <= n
  <2> TAKE n \in T
  <2>1. m \in Nat /\ n \in Nat /\ ~(n < m)
    BY <1>1, <1>2
  <2> QED
    BY <2>1
<1> QED
  BY <1>3

LEMMA Induction ==
  ASSUME NEW P, 0 \in P, \A n \in Nat : n \in P => n + 1 \in P
  PROVE  \A n \in Nat : n \in P
<1> SUFFICES ASSUME NEW n \in Nat, n \notin P PROVE FALSE
  OBVIOUS
<1> DEFINE T == {k \in Nat : k \notin P}
<1>1. PICK m \in T : \A k \in T : m <= k
  BY LeastNumber
<1>2. m - 1 \in Nat /\ m - 1 \notin T
  BY <1>1
<1> QED
  BY <1>2

LEMMA InductionUpTo ==
  ASSUME NEW N \in Nat, NEW P, 0 \in P,
         \A n \in 0 .. N - 1 : n \in P => n + 1 \in P
  PROVE  \A n \in 0 .. N : n \in P
<1> DEFINE Q == {n \in Nat : n <= N => n \in P}
<1>1. 0 \in Q
  OBVIOUS
<1>2. \A n \in Nat : n \in Q => n + 1 \in Q
  OBVIOUS
<1>3. \A n \in Nat : n \in Q
  <2> HIDE DEF Q
  <2> QED BY <1>1, <1>2, Induction
<1> QED
  BY <1>3

LEMMA InductionOverSequences ==
  ASSUME NEW S, NEW P, <<>> \in P,
         \A s \in Seq(S), e \in S : s \in P => Append(s, e) \in P
  PROVE  \A s \in Seq(S) : s \in P
<1> DEFINE Q == {n \in Nat : \A s \in Seq(S) : Len(s) = n => s \in P}
<1>1. 0 \in Q
  BY EmptySeq
<1>2. ASSUME NEW n \in Nat, n \in Q PROVE n + 1 \in Q
  <2> SUFFICES ASSUME NEW s \in Seq(S), Len(s) = n + 1 PROVE s \in P
    OBVIOUS
  <2>1. s # <<>>
    BY EmptySeq
  <2>2. PICK t \in Seq(S), e \in S : s = Append(t, e)
    BY <2>1, SequenceEmptyOrAppend
  <2>3. Len(t) = n
    BY <2>2, AppendProperties, LenProperties
  <2> QED
    BY <1>2, <2>2, <2>3
<1>3. \A n \in Nat : n \in Q
  <2> HIDE DEF Q
  <2> QED BY <1>1, <1>2, Induction
<1> QED
  BY <1>3, LenProperties

\* f is the recursion from a over the functions of step.
Iterates(f, N, a, step) ==
  f = [i \in 0 .. N |-> IF i = 0 THEN a ELSE step[i][f[i - 1]]]

LEMMA RecursionExists ==
  ASSUME NEW N \in Nat, NEW X, NEW a \in X, NEW step \in [1 .. N -> [X -> X]]
  PROVE  \E f \in [0 .. N -> X] : Iterates(f, N, a, step)
<1> DEFINE Q == {n \in Nat : n <= N => \E f \in [0 .. n -> X] : Iterates(f, n, a, step)}
<1>1. 0 \in Q
  <2> DEFINE g == [i \in 0 .. 0 |-> a]
  <2>1. g \in [0 .. 0 -> X]
    OBVIOUS
  <2>2. g = [i \in 0 .. 0 |-> IF i = 0 THEN a ELSE step[i][g[i - 1]]]
    OBVIOUS
  <2> QED BY <2>1, <2>2 DEF Iterates
<1>2. ASSUME NEW n \in Nat, n \in Q PROVE n + 1 \in Q
  <2> SUFFICES ASSUME n + 1 <= N
               PROVE \E f \in [0 .. n + 1 -> X] : Iterates(f, n + 1, a, step)
    OBVIOUS
  <2>1. PICK f \in [0 .. n -> X] :
          f = [i \in 0 .. n |-> IF i = 0 THEN a ELSE step[i][f[i - 1]]]
    BY <1>2 DEF Iterates
  <2> DEFINE g == [i \in 0 .. n + 1 |-> IF i <= n THEN f[i] ELSE step[n + 1][f[n]]]
  <2>2. step[n + 1][f[n]] \in X
    OBVIOUS
  <2>3. g \in [0 .. n + 1 -> X]
    BY <2>2
  <2>4. ASSUME NEW i \in 0 .. n + 1
        PROVE g[i] = IF i = 0 THEN a ELSE step[i][g[i - 1]]
    <3>1. CASE i = n + 1
      BY <3>1
    <3>2. CASE i \in 0 .. n
      <4>1. g[i] = f[i] /\ f[i] = IF i = 0 THEN a ELSE step[i][f[i - 1]]
        BY <3>2, <2>1
      <4>2. i # 0 => i - 1 \in 0 .. n /\ g[i - 1] = f[i - 1]
        BY <3>2
      <4> QED
        BY <4>1, <4>2
    <3> QED BY <3>1, <3>2
  <2>5. g = [i \in 0 .. n + 1 |-> IF i = 0 THEN a ELSE step[i][g[i - 1]]]
    <3> HIDE DEF g
    <3> QED BY <2>3, <2>4
  <2> QED BY <2>3, <2>5 DEF Iterates
<1>3. \A n \in Nat : n \in Q
  <2> HIDE DEF Q
  <2> QED BY <1>1, <1>2, Induction
<1> QED
  BY <1>3

(***************************************************************************)
(* Those                                                                   *)
(***************************************************************************)
Collects(f, s, S) ==
  \A i \in 0 .. Len(s) :
    f[i] = IF i = 0 THEN <<>>
           ELSE IF s[i] \in S THEN Append(f[i - 1], s[i]) ELSE f[i - 1]

LEMMA ThoseIsCollected ==
  ASSUME NEW T, NEW s \in Seq(T), NEW S
  PROVE  \E f \in [0 .. Len(s) -> Seq(T)] : Collects(f, s, S) /\ Those(s, S) = f[Len(s)]
<1> DEFINE Rec(f) == f = [i \in 0 .. Len(s) |-> IF i = 0 THEN <<>>
                      ELSE IF s[i] \in S THEN Append(f[i - 1], s[i]) ELSE f[i - 1]]
<1>1. PICK step : step = [i \in 1 .. Len(s) |-> [t \in Seq(T) |->
                      IF s[i] \in S THEN Append(t, s[i]) ELSE t]]
  OBVIOUS
<1>2. step \in [1 .. Len(s) -> [Seq(T) -> Seq(T)]]
  BY <1>1, ElementOfSeq, AppendProperties
<1>3. Len(s) \in Nat /\ <<>> \in Seq(T)
  BY LenProperties, EmptySeq
<1>4. PICK g \in [0 .. Len(s) -> Seq(T)] :
        Iterates(g, Len(s), <<>>, step)
  BY <1>2, <1>3, RecursionExists
<1>5. Rec(g)
  <2>1. ASSUME NEW i \in 0 .. Len(s), i # 0
        PROVE step[i][g[i - 1]] = IF s[i] \in S THEN Append(g[i - 1], s[i]) ELSE g[i - 1]
    <3>1. i \in 1 .. Len(s) /\ i - 1 \in 0 .. Len(s)
      BY <1>3, <2>1
    <3>2. g[i - 1] \in Seq(T)
      BY <3>1
    <3> QED
      BY <1>1, <3>1, <3>2
  <2> QED BY <1>4, <2>1 DEF Iterates
<1>6. PICK f : f = CHOOSE h : Rec(h)
  OBVIOUS
<1>7. Rec(f)
  BY <1>5, <1>6
<1>8. Those(s, S) = f[Len(s)]
  BY <1>6 DEF Those
<1>9. Collects(f, s, S)
  BY <1>7 DEF Collects
<1>10. \A i \in 0 .. Len(s) : f[i] \in Seq(T)
  <2> DEFINE P == {i \in Nat : f[i] \in Seq(T)}
  <2>1. 0 \in P
    <3>1. 0 \in 0 .. Len(s)
      BY <1>3
    <3>2. f[0] = <<>>
      BY <1>9, <3>1 DEF Collects
    <3> QED
      BY <1>3, <3>2
  <2>2. ASSUME NEW i \in 0 .. Len(s) - 1, i \in P PROVE i + 1 \in P
    <3>1. i + 1 \in 1 .. Len(s) /\ i + 1 \in 0 .. Len(s) /\ (i + 1) - 1 = i /\ i + 1 # 0
      BY <1>3
    <3>2. s[i + 1] \in T
      BY <3>1, ElementOfSeq
    <3>3. f[i + 1] = IF s[i + 1] \in S THEN Append(f[i], s[i + 1]) ELSE f[i]
      BY <1>9, <3>1 DEF Collects
    <3> QED
      <4>1. f[i] \in Seq(T) /\ i \in Nat
        BY <2>2, <1>3
      <4>2. f[i + 1] \in Seq(T)
        BY <4>1, <3>2, <3>3, AppendProperties
      <4> QED
        BY <4>1, <4>2
  <2>3. \A i \in 0 .. Len(s) : i \in P
    <3> HIDE DEF P
    <3> QED BY <1>3, <2>1, <2>2, InductionUpTo
  <2> QED
    BY <2>3
<1> QED
  BY <1>7, <1>8, <1>9, <1>10

LEMMA ThoseOfEmpty ==
  ASSUME NEW S
  PROVE  Those(<<>>, S) = <<>>
<1>1. <<>> \in Seq({}) /\ Len(<<>>) = 0
  BY EmptySeq
<1>2. PICK f \in [0 .. Len(<<>>) -> Seq({})] :
        Collects(f, <<>>, S) /\ Those(<<>>, S) = f[Len(<<>>)]
  BY <1>1, ThoseIsCollected
<1> QED
  BY <1>1, <1>2 DEF Collects

LEMMA ThoseOfAppend ==
  ASSUME NEW T, NEW s \in Seq(T), NEW x \in T, NEW S
  PROVE  Those(Append(s, x), S) =
           IF x \in S THEN Append(Those(s, S), x) ELSE Those(s, S)
<1> DEFINE n == Len(s)
<1>1. PICK f \in [0 .. n -> Seq(T)] : Collects(f, s, S) /\ Those(s, S) = f[n]
  BY ThoseIsCollected
<1>2. PICK t : t = Append(s, x)
  OBVIOUS
<1>3. /\ n \in Nat /\ t \in Seq(T) /\ Len(t) = n + 1
      /\ \A i \in 1 .. n : t[i] = s[i]
      /\ t[n + 1] = x
  BY <1>2, LenProperties, AppendProperties
<1>4. PICK g \in [0 .. Len(t) -> Seq(T)] : Collects(g, t, S) /\ Those(t, S) = g[Len(t)]
  BY <1>3, ThoseIsCollected
<1>5. \A i \in 0 .. n : g[i] = f[i]
  <2> DEFINE P == {i \in Nat : g[i] = f[i]}
  <2>1. 0 \in P
    <3>1. 0 \in 0 .. n /\ 0 \in 0 .. Len(t)
      BY <1>3
    <3> QED
      BY <1>1, <1>4, <3>1 DEF Collects
  <2>2. ASSUME NEW i \in 0 .. n - 1, i \in P PROVE i + 1 \in P
    <3>1. /\ i + 1 \in 0 .. n /\ i + 1 \in 0 .. Len(t) /\ (i + 1) - 1 = i /\ i + 1 # 0
          /\ i + 1 \in 1 .. n /\ i + 1 \in Nat
      BY <1>3
    <3>2. f[i + 1] = IF s[i + 1] \in S THEN Append(f[i], s[i + 1]) ELSE f[i]
      BY <1>1, <3>1 DEF Collects
    <3>3. g[i + 1] = IF t[i + 1] \in S THEN Append(g[i], t[i + 1]) ELSE g[i]
      BY <1>4, <3>1 DEF Collects
    <3>4. t[i + 1] = s[i + 1]
      BY <1>3, <3>1
    <3> QED
      BY <2>2, <3>1, <3>2, <3>3, <3>4
  <2>3. \A i \in 0 .. n : i \in P
    <3> HIDE DEF P
    <3> QED BY <1>3, <2>1, <2>2, InductionUpTo
  <2> QED
    BY <2>3
<1>6. /\ n \in 0 .. n /\ n + 1 \in 0 .. Len(t) /\ n + 1 # 0 /\ (n + 1) - 1 = n
  BY <1>3
<1>7. g[n + 1] = IF t[n + 1] \in S THEN Append(g[n], t[n + 1]) ELSE g[n]
  BY <1>4, <1>6 DEF Collects
<1> QED
  BY <1>1, <1>2, <1>3, <1>4, <1>5, <1>6, <1>7

LEMMA MembersOfEmpty == ToSet(<<>>) = {}
BY DEF ToSet

LEMMA MembersOfAppend ==
  ASSUME NEW T, NEW s \in Seq(T), NEW x \in T
  PROVE  ToSet(Append(s, x)) = ToSet(s) \union {x}
<1>1. /\ Append(s, x) \in Seq(T) /\ Len(Append(s, x)) = Len(s) + 1
      /\ \A i \in 1 .. Len(s) : Append(s, x)[i] = s[i]
      /\ Append(s, x)[Len(s) + 1] = x
  BY AppendProperties
<1>2. /\ DOMAIN s = 1 .. Len(s) /\ DOMAIN Append(s, x) = 1 .. Len(s) + 1 /\ Len(s) \in Nat
  BY <1>1, LenProperties
<1>3. ASSUME NEW i \in DOMAIN Append(s, x) PROVE Append(s, x)[i] \in ToSet(s) \union {x}
  <2>1. i \in 1 .. Len(s) \/ i = Len(s) + 1
    BY <1>2
  <2> QED
    BY <1>1, <1>2, <2>1 DEF ToSet
<1>4. ASSUME NEW y \in ToSet(s) \union {x} PROVE \E i \in DOMAIN Append(s, x) : y = Append(s, x)[i]
  <2>1. CASE y = x
    BY <1>1, <1>2, <2>1
  <2>2. CASE y \in ToSet(s)
    <3>1. PICK i \in DOMAIN s : y = s[i]
      BY <2>2 DEF ToSet
    <3> QED
      BY <1>1, <1>2, <3>1
  <2> QED
    BY <2>1, <2>2
<1> QED
  BY <1>3, <1>4 DEF ToSet

LEMMA MembersOfThose ==
  ASSUME NEW T, NEW s \in Seq(T), NEW S
  PROVE  /\ Those(s, S) \in Seq(T \intersect S)
         /\ ToSet(Those(s, S)) = ToSet(s) \intersect S
<1> DEFINE P == {t \in Seq(T) : /\ Those(t, S) \in Seq(T \intersect S)
                                /\ ToSet(Those(t, S)) = ToSet(t) \intersect S}
<1>1. <<>> \in P
  <2>1. ToSet(<<>>) = {}
    BY DEF ToSet
  <2> QED
    BY <2>1, EmptySeq, ThoseOfEmpty
<1>2. ASSUME NEW t \in Seq(T), NEW x \in T, t \in P PROVE Append(t, x) \in P
  <2>1. Those(t, S) \in Seq(T \intersect S) /\ ToSet(Those(t, S)) = ToSet(t) \intersect S
    BY <1>2
  <2>2. ToSet(Append(t, x)) = ToSet(t) \union {x} /\ Append(t, x) \in Seq(T)
    BY MembersOfAppend, AppendProperties
  <2>3. CASE x \in S
    <3>1. Those(Append(t, x), S) = Append(Those(t, S), x)
      BY <2>3, ThoseOfAppend
    <3>2. x \in T \intersect S
      BY <2>3
    <3>3. /\ Append(Those(t, S), x) \in Seq(T \intersect S)
          /\ ToSet(Append(Those(t, S), x)) = ToSet(Those(t, S)) \union {x}
      BY <2>1, <3>2, MembersOfAppend, AppendProperties
    <3> QED
      BY <2>1, <2>2, <2>3, <3>1, <3>3
  <2>4. CASE x \notin S
    <3>1. Those(Append(t, x), S) = Those(t, S)
      BY <2>4, ThoseOfAppend
    <3> QED
      BY <2>1, <2>2, <2>4, <3>1
  <2> QED
    BY <2>3, <2>4
<1>3. \A t \in Seq(T) : t \in P
  <2> HIDE DEF P
  <2> QED BY <1>1, <1>2, InductionOverSequences
<1> QED
  BY <1>3

\* A comprehension is no longer than its list.
LEMMA ThoseIsShorter ==
  ASSUME NEW T, NEW s \in Seq(T), NEW S
  PROVE  Len(Those(s, S)) <= Len(s)
<1> DEFINE P == {t \in Seq(T) : Len(Those(t, S)) <= Len(t)}
<1>1. <<>> \in P
  BY ThoseOfEmpty, EmptySeq
<1>2. ASSUME NEW t \in Seq(T), NEW x \in T, t \in P PROVE Append(t, x) \in P
  <2>1. PICK u, m : u = Append(t, x) /\ m = Those(t, S)
    OBVIOUS
  <2>2. u \in Seq(T) /\ Len(u) = Len(t) + 1 /\ Len(t) \in Nat
    BY <2>1, AppendProperties, LenProperties
  <2>3. m \in Seq(T \intersect S) /\ Len(m) \in Nat /\ Len(m) <= Len(t)
    BY <1>2, <2>1, MembersOfThose, LenProperties
  <2>4. Those(u, S) = IF x \in S THEN Append(m, x) ELSE m
    BY <2>1, ThoseOfAppend
  <2>5. x \in S => Len(Append(m, x)) = Len(m) + 1
    BY <2>3, AppendProperties
  <2>6. Len(Those(u, S)) <= Len(u)
    BY <2>2, <2>3, <2>4, <2>5
  <2> QED
    BY <2>1, <2>2, <2>6
<1>3. \A t \in Seq(T) : t \in P
  <2> HIDE DEF P
  <2> QED BY <1>1, <1>2, InductionOverSequences
<1> QED
  BY <1>3

\* Two tests one after the other are their conjunction.
LEMMA ThoseOfThose ==
  ASSUME NEW T, NEW s \in Seq(T), NEW A, NEW B
  PROVE  Those(Those(s, A), B) = Those(s, A \intersect B)
<1> DEFINE P == {t \in Seq(T) : Those(Those(t, A), B) = Those(t, A \intersect B)}
<1>1. <<>> \in P
  BY ThoseOfEmpty, EmptySeq
<1>2. ASSUME NEW t \in Seq(T), NEW x \in T, t \in P PROVE Append(t, x) \in P
  <2>1. PICK u : u = Those(t, A)
    OBVIOUS
  <2>2. u \in Seq(T)
    <3>1. u \in Seq(T \intersect A)
      BY <2>1, MembersOfThose
    <3> QED
      BY <3>1, SeqDef
  <2>3. Those(Append(t, x), A) = IF x \in A THEN Append(u, x) ELSE u
    BY <2>1, ThoseOfAppend
  <2>4. Those(Append(u, x), B) = IF x \in B THEN Append(Those(u, B), x) ELSE Those(u, B)
    BY <2>2, ThoseOfAppend
  <2>5. Those(Append(t, x), A \intersect B) =
          IF x \in A \intersect B THEN Append(Those(t, A \intersect B), x)
                                 ELSE Those(t, A \intersect B)
    BY ThoseOfAppend
  <2>6. Those(u, B) = Those(t, A \intersect B) /\ Append(t, x) \in Seq(T)
    BY <1>2, <2>1, AppendProperties
  <2>7. CASE x \in A
    <3>1. Those(Those(Append(t, x), A), B) = Those(Append(u, x), B)
      BY <2>3, <2>7
    <3>2. Those(Append(u, x), B) = Those(Append(t, x), A \intersect B)
      BY <2>4, <2>5, <2>6, <2>7
    <3> QED
      BY <2>6, <3>1, <3>2
  <2>8. CASE x \notin A
    <3>1. Those(Those(Append(t, x), A), B) = Those(u, B)
      BY <2>3, <2>8
    <3>2. Those(u, B) = Those(Append(t, x), A \intersect B)
      BY <2>5, <2>6, <2>8
    <3> QED
      BY <2>6, <3>1, <3>2
  <2> QED
    BY <2>7, <2>8
<1>3. \A t \in Seq(T) : t \in P
  <2> HIDE DEF P
  <2> QED BY <1>1, <1>2, InductionOverSequences
<1> QED
  BY <1>3

\* The first member of those that pass is the first that passes.
LEMMA HeadOfThose ==
  ASSUME NEW T, NEW s \in Seq(T), NEW S, Those(s, S) # <<>>
  PROVE  \E i \in DOMAIN s : /\ s[i] \in S /\ Head(Those(s, S)) = s[i]
                            /\ \A j \in DOMAIN s : s[j] \in S => i <= j
<1> DEFINE First(t, i) == /\ t[i] \in S /\ Head(Those(t, S)) = t[i]
                          /\ \A j \in DOMAIN t : t[j] \in S => i <= j
           P == {t \in Seq(T) : Those(t, S) # <<>> => \E i \in DOMAIN t : First(t, i)}
<1>1. <<>> \in P
  BY ThoseOfEmpty, EmptySeq
<1>2. ASSUME NEW t \in Seq(T), NEW x \in T, t \in P PROVE Append(t, x) \in P
  <2>1. PICK u : u = Append(t, x)
    OBVIOUS
  <2>2. /\ u \in Seq(T) /\ DOMAIN u = 1 .. Len(t) + 1 /\ DOMAIN t = 1 .. Len(t)
        /\ Len(t) \in Nat /\ u[Len(t) + 1] = x
        /\ \A i \in DOMAIN t : u[i] = t[i]
    BY <2>1, AppendProperties, LenProperties
  <2>3. PICK v : v = Those(t, S)
    OBVIOUS
  <2>4. v \in Seq(T \intersect S) /\ ToSet(v) = ToSet(t) \intersect S
    BY <2>3, MembersOfThose
  <2>5. Those(u, S) = IF x \in S THEN Append(v, x) ELSE v
    BY <2>1, <2>3, ThoseOfAppend
  <2>6. SUFFICES ASSUME Those(u, S) # <<>> PROVE \E i \in DOMAIN u : First(u, i)
    BY <2>1, <2>2
  <2>7. CASE v # <<>>
    <3>1. PICK i \in DOMAIN t : First(t, i)
      BY <1>2, <2>3, <2>7
    <3>2. Head(Those(u, S)) = Head(v)
      <4>1. Len(v) \in Nat /\ Len(v) # 0
        BY <2>4, <2>7, EmptySeq
      <4>2. CASE x \in S
        <5>1. PICK w : w = Append(v, x)
          OBVIOUS
        <5>2. w \in Seq(T) /\ w[1] = v[1] /\ w # <<>>
          <6>1. v \in Seq(T)
            BY <2>4, SeqDef
          <6> QED
            BY <4>1, <5>1, <6>1, AppendProperties
        <5> QED
          BY <2>4, <2>5, <2>7, <4>2, <5>1, <5>2, HeadTailProperties
      <4> QED
        BY <2>5, <4>2
    <3>3. \A j \in DOMAIN u : u[j] \in S => i <= j
      <4> SUFFICES ASSUME NEW j \in DOMAIN u, u[j] \in S PROVE i <= j
        OBVIOUS
      <4>1. i \in 1 .. Len(t) /\ (j \in DOMAIN t \/ j = Len(t) + 1)
        BY <2>2
      <4>2. CASE j \in DOMAIN t
        BY <2>2, <3>1, <4>2
      <4>3. CASE j = Len(t) + 1
        BY <2>2, <4>1, <4>3
      <4> QED
        BY <4>1, <4>2, <4>3
    <3>4. i \in DOMAIN u /\ u[i] = t[i]
      BY <2>2
    <3> QED
      BY <2>3, <3>1, <3>2, <3>3, <3>4
  <2>8. CASE v = <<>>
    <3>1. x \in S /\ Those(u, S) = Append(v, x)
      BY <2>5, <2>6, <2>8
    <3>2. Head(Those(u, S)) = x
      <4>1. v \in Seq(T) /\ Len(v) = 0
        BY <2>8, EmptySeq
      <4>2. PICK w : w = Append(v, x)
        OBVIOUS
      <4>3. w \in Seq(T) /\ w[1] = x /\ w # <<>>
        BY <4>1, <4>2, AppendProperties
      <4> QED
        BY <3>1, <4>2, <4>3, HeadTailProperties
    <3>3. \A j \in DOMAIN t : t[j] \notin S
      <4>1. ToSet(v) = {}
        BY <2>8, MembersOfEmpty
      <4> QED
        BY <2>4, <4>1 DEF ToSet
    <3>4. \A j \in DOMAIN u : u[j] \in S => Len(t) + 1 <= j
      <4> SUFFICES ASSUME NEW j \in DOMAIN u, u[j] \in S PROVE Len(t) + 1 <= j
        OBVIOUS
      <4>1. j \notin DOMAIN t
        BY <2>2, <3>3
      <4> QED
        BY <2>2, <4>1
    <3> QED
      BY <2>2, <3>1, <3>2, <3>4
  <2> QED
    BY <2>7, <2>8
<1>3. \A t \in Seq(T) : t \in P
  <2> HIDE DEF P
  <2> QED BY <1>1, <1>2, InductionOverSequences
<1> QED
  BY <1>3

\* Where a joined list begins.
LEMMA HeadOfConcat ==
  ASSUME NEW T, NEW s \in Seq(T), NEW t \in Seq(T)
  PROVE  /\ s \o t = <<>> <=> s = <<>> /\ t = <<>>
         /\ s # <<>> => Head(s \o t) = Head(s)
         /\ s = <<>> => s \o t = t
<1>1. PICK u : u = s \o t
  OBVIOUS
<1>2. /\ u \in Seq(T) /\ Len(u) = Len(s) + Len(t) /\ Len(s) \in Nat /\ Len(t) \in Nat
      /\ \A i \in 1 .. Len(s) : u[i] = s[i]
  BY <1>1, ConcatProperties, LenProperties
<1>3. \A v \in Seq(T) : v = <<>> <=> Len(v) = 0
  BY EmptySeq
<1>4. u = <<>> <=> s = <<>> /\ t = <<>>
  BY <1>2, <1>3
<1>5. ASSUME s # <<>> PROVE Head(u) = Head(s)
  <2>1. u # <<>> /\ 1 \in 1 .. Len(s)
    BY <1>2, <1>3, <1>4, <1>5
  <2> QED
    BY <1>2, <1>5, <2>1, HeadTailProperties
<1>6. s = <<>> => s \o t = t
  BY ConcatEmptySeq
<1> QED
  BY <1>1, <1>4, <1>5, <1>6

LEMMA PrefixOfSelf ==
  ASSUME NEW T, NEW s \in Seq(T)
  PROVE  IsPrefix(s, s)
BY LenProperties DEF IsPrefix

LEMMA PrefixOfAppend ==
  ASSUME NEW T, NEW s \in Seq(T), NEW t \in Seq(T), NEW x \in T, IsPrefix(s, t)
  PROVE  IsPrefix(s, Append(t, x))
<1>1. PICK u : u = Append(t, x)
  OBVIOUS
<1>2. /\ u \in Seq(T) /\ Len(u) = Len(t) + 1 /\ Len(s) \in Nat /\ Len(t) \in Nat
      /\ \A i \in 1 .. Len(t) : u[i] = t[i]
  BY <1>1, AppendProperties, LenProperties
<1>3. Len(s) <= Len(t) /\ SubSeq(s, 1, Len(s)) = SubSeq(t, 1, Len(s))
  BY DEF IsPrefix
<1>4. SubSeq(t, 1, Len(s)) = SubSeq(u, 1, Len(s))
  BY <1>2, <1>3, SubSeqProperties
<1> QED
  BY <1>1, <1>2, <1>3, <1>4 DEF IsPrefix

(***************************************************************************)
(* FlattenSeq                                                              *)
(***************************************************************************)
Joins(f, ss) ==
  \A i \in 1 .. Len(ss) : f[i] = IF i = 1 THEN ss[i] ELSE f[i - 1] \o ss[i]

LEMMA FlattenIsJoined ==
  ASSUME NEW T, NEW ss \in Seq(Seq(T)), ss # <<>>
  PROVE  \E f \in [1 .. Len(ss) -> Seq(T)] : Joins(f, ss) /\ FlattenSeq(ss) = f[Len(ss)]
<1> DEFINE Rec(f) == f = [i \in 1 .. Len(ss) |-> IF i = 1 THEN ss[i] ELSE f[i - 1] \o ss[i]]
<1>1. PICK step : step = [i \in 1 .. Len(ss) |-> [t \in Seq(T) |->
                      IF i = 1 THEN ss[i] ELSE t \o ss[i]]]
  OBVIOUS
<1>2. step \in [1 .. Len(ss) -> [Seq(T) -> Seq(T)]]
  BY <1>1, ElementOfSeq, ConcatProperties
<1>3. Len(ss) \in Nat /\ Len(ss) # 0 /\ <<>> \in Seq(T)
  BY LenProperties, EmptySeq
<1>4. PICK h \in [0 .. Len(ss) -> Seq(T)] : Iterates(h, Len(ss), <<>>, step)
  BY <1>2, <1>3, RecursionExists
<1>5. PICK g : g = [i \in 1 .. Len(ss) |-> h[i]]
  OBVIOUS
<1>6. ASSUME NEW i \in 1 .. Len(ss)
      PROVE  g[i] \in Seq(T) /\ g[i] = IF i = 1 THEN ss[i] ELSE g[i - 1] \o ss[i]
  <2>1. i \in 0 .. Len(ss) /\ i # 0 /\ i - 1 \in 0 .. Len(ss)
    BY <1>3
  <2>2. h[i] = step[i][h[i - 1]] /\ h[i] \in Seq(T) /\ h[i - 1] \in Seq(T)
    BY <1>4, <2>1 DEF Iterates
  <2>3. step[i][h[i - 1]] = IF i = 1 THEN ss[i] ELSE h[i - 1] \o ss[i]
    BY <1>1, <2>2
  <2>4. i # 1 => i - 1 \in 1 .. Len(ss)
    BY <1>3
  <2> QED
    BY <1>5, <2>2, <2>3, <2>4
<1>7. Rec(g)
  BY <1>5, <1>6
<1>8. PICK f : f = CHOOSE k : Rec(k)
  OBVIOUS
<1>9. Rec(f)
  BY <1>7, <1>8
<1>10. FlattenSeq(ss) = f[Len(ss)]
  BY <1>3, <1>8 DEF FlattenSeq
<1>11. Joins(f, ss)
  BY <1>9 DEF Joins
<1>12. \A i \in 1 .. Len(ss) : f[i] \in Seq(T)
  <2> DEFINE P == {n \in Nat : n # 0 => f[n] \in Seq(T)}
  <2>1. 0 \in P
    OBVIOUS
  <2>2. ASSUME NEW n \in 0 .. Len(ss) - 1, n \in P PROVE n + 1 \in P
    <3>1. n + 1 \in 1 .. Len(ss) /\ (n + 1) - 1 = n /\ n + 1 \in Nat /\ n \in Nat
      BY <1>3
    <3>2. f[n + 1] = IF n = 0 THEN ss[n + 1] ELSE f[n] \o ss[n + 1]
      BY <1>11, <3>1 DEF Joins
    <3>3. ss[n + 1] \in Seq(T)
      BY <3>1, ElementOfSeq
    <3>4. n # 0 => f[n] \in Seq(T)
      BY <2>2
    <3>5. f[n + 1] \in Seq(T)
      BY <3>2, <3>3, <3>4, ConcatProperties
    <3> QED
      BY <3>1, <3>5
  <2>3. \A n \in 0 .. Len(ss) : n \in P
    <3> HIDE DEF P
    <3> QED BY <1>3, <2>1, <2>2, InductionUpTo
  <2> QED
    BY <1>3, <2>3
<1>13. f \in [1 .. Len(ss) -> Seq(T)]
  BY <1>9, <1>12
<1> QED
  BY <1>10, <1>11, <1>13

LEMMA FlattenOfEmpty == FlattenSeq(<<>>) = <<>>
<1>1. Len(<<>>) = 0
  BY EmptySeq
<1> QED
  BY <1>1 DEF FlattenSeq

LEMMA FlattenType ==
  ASSUME NEW T, NEW ss \in Seq(Seq(T))
  PROVE  FlattenSeq(ss) \in Seq(T)
<1>1. CASE ss = <<>>
  BY <1>1, FlattenOfEmpty, EmptySeq
<1>2. CASE ss # <<>>
  <2>1. PICK f \in [1 .. Len(ss) -> Seq(T)] : FlattenSeq(ss) = f[Len(ss)]
    BY <1>2, FlattenIsJoined
  <2>2. Len(ss) \in 1 .. Len(ss)
    BY <1>2, EmptySeq, LenProperties
  <2> QED
    BY <2>1, <2>2
<1> QED
  BY <1>1, <1>2

LEMMA FlattenOfAppend ==
  ASSUME NEW T, NEW ss \in Seq(Seq(T)), NEW x \in Seq(T)
  PROVE  FlattenSeq(Append(ss, x)) = FlattenSeq(ss) \o x
<1> DEFINE n == Len(ss)
<1>1. PICK tt : tt = Append(ss, x)
  OBVIOUS
<1>2. /\ n \in Nat /\ tt \in Seq(Seq(T)) /\ Len(tt) = n + 1 /\ tt # <<>>
      /\ \A i \in 1 .. n : tt[i] = ss[i]
      /\ tt[n + 1] = x
  BY <1>1, LenProperties, AppendProperties, EmptySeq
<1>3. PICK g \in [1 .. Len(tt) -> Seq(T)] : Joins(g, tt) /\ FlattenSeq(tt) = g[Len(tt)]
  BY <1>2, FlattenIsJoined
<1>4. CASE ss = <<>>
  <2>1. n = 0 /\ 1 \in 1 .. Len(tt) /\ Len(tt) = 1
    BY <1>2, <1>4, EmptySeq
  <2>2. g[1] = x
    BY <1>2, <1>3, <2>1 DEF Joins
  <2>3. <<>> \o x = x
    BY ConcatEmptySeq
  <2> QED
    BY <1>1, <1>3, <1>4, <2>1, <2>2, <2>3, FlattenOfEmpty
<1>5. CASE ss # <<>>
  <2>1. PICK f \in [1 .. n -> Seq(T)] : Joins(f, ss) /\ FlattenSeq(ss) = f[n]
    BY <1>5, FlattenIsJoined
  <2>2. \A i \in 0 .. n : i # 0 => g[i] = f[i]
    <3> DEFINE P == {i \in Nat : i # 0 => g[i] = f[i]}
    <3>1. 0 \in P
      OBVIOUS
    <3>2. ASSUME NEW i \in 0 .. n - 1, i \in P PROVE i + 1 \in P
      <4>1. /\ i + 1 \in 1 .. n /\ i + 1 \in 1 .. Len(tt) /\ (i + 1) - 1 = i
            /\ i + 1 \in Nat /\ (i + 1 = 1 <=> i = 0)
        BY <1>2
      <4>2. f[i + 1] = IF i = 0 THEN ss[i + 1] ELSE f[i] \o ss[i + 1]
        BY <2>1, <4>1 DEF Joins
      <4>3. g[i + 1] = IF i = 0 THEN tt[i + 1] ELSE g[i] \o tt[i + 1]
        BY <1>3, <4>1 DEF Joins
      <4>4. tt[i + 1] = ss[i + 1]
        BY <1>2, <4>1
      <4> QED
        BY <3>2, <4>1, <4>2, <4>3, <4>4
    <3>3. \A i \in 0 .. n : i \in P
      <4> HIDE DEF P
      <4> QED BY <1>2, <3>1, <3>2, InductionUpTo
    <3> QED
      BY <3>3
  <2>3. /\ n \in 0 .. n /\ n # 0 /\ n + 1 \in 1 .. Len(tt) /\ n + 1 # 1
        /\ (n + 1) - 1 = n
    BY <1>2, <1>5, EmptySeq
  <2>4. g[n + 1] = g[n] \o tt[n + 1]
    BY <1>3, <2>3 DEF Joins
  <2> QED
    BY <1>1, <1>2, <1>3, <2>1, <2>2, <2>3, <2>4
<1> QED
  BY <1>4, <1>5

LEMMA MembersOfConcat ==
  ASSUME NEW S, NEW s \in Seq(S), NEW t \in Seq(S)
  PROVE  ToSet(s \o t) = ToSet(s) \union ToSet(t)
<1>1. Range(s \o t) = Range(s) \union Range(t)
  BY RangeConcatenation
<1>2. /\ ToSet(s \o t) = Range(s \o t)
      /\ ToSet(s) = Range(s) /\ ToSet(t) = Range(t)
  BY DEF ToSet, Range
<1> QED
  BY <1>1, <1>2

LEMMA MembersOfOne ==
  ASSUME NEW T, NEW x \in T
  PROVE  <<x>> \in Seq(T) /\ ToSet(<<x>>) = {x}
<1>1. PICK e : e = <<>>
  OBVIOUS
<1>2. <<x>> = Append(e, x) /\ e \in Seq(T)
  BY <1>1
<1>3. ToSet(Append(e, x)) = ToSet(e) \union {x}
  BY <1>2, MembersOfAppend
<1> QED
  BY <1>1, <1>2, <1>3, MembersOfEmpty

LEMMA MembersOfOneMore ==
  ASSUME NEW M, NEW y
  PROVE  UNION {ToSet(x) : x \in M \union {y}} = (UNION {ToSet(x) : x \in M}) \union ToSet(y)
OBVIOUS

LEMMA MembersOfFlatten ==
  ASSUME NEW T, NEW ss \in Seq(Seq(T))
  PROVE  ToSet(FlattenSeq(ss)) = UNION {ToSet(x) : x \in ToSet(ss)}
<1> DEFINE P == {t \in Seq(Seq(T)) :
                   ToSet(FlattenSeq(t)) = UNION {ToSet(x) : x \in ToSet(t)}}
<1>1. <<>> \in P
  BY FlattenOfEmpty, EmptySeq, MembersOfEmpty
<1>2. ASSUME NEW t \in Seq(Seq(T)), NEW y \in Seq(T), t \in P PROVE Append(t, y) \in P
  <2>1. Append(t, y) \in Seq(Seq(T)) /\ ToSet(Append(t, y)) = ToSet(t) \union {y}
    BY AppendProperties, MembersOfAppend
  <2>2. FlattenSeq(Append(t, y)) = FlattenSeq(t) \o y /\ FlattenSeq(t) \in Seq(T)
    BY FlattenOfAppend, FlattenType
  <2>3. ToSet(FlattenSeq(t) \o y) = ToSet(FlattenSeq(t)) \union ToSet(y)
    BY <2>2, MembersOfConcat
  <2>4. ToSet(FlattenSeq(t)) = UNION {ToSet(x) : x \in ToSet(t)}
    BY <1>2
  <2>5. ToSet(FlattenSeq(Append(t, y))) = UNION {ToSet(x) : x \in ToSet(Append(t, y))}
    <3>1. UNION {ToSet(x) : x \in ToSet(t) \union {y}}
            = (UNION {ToSet(x) : x \in ToSet(t)}) \union ToSet(y)
      BY MembersOfOneMore
    <3> QED
      BY <2>1, <2>2, <2>3, <2>4, <3>1
  <2> QED
    BY <2>1, <2>5
<1>3. \A t \in Seq(Seq(T)) : t \in P
  <2> HIDE DEF P
  <2> QED BY <1>1, <1>2, InductionOverSequences
<1> QED
  BY <1>3


LEMMA MembersType ==
  ASSUME NEW T, NEW s \in Seq(T)
  PROVE  ToSet(s) \subseteq T /\ s \in Seq(ToSet(s)) /\ DOMAIN s = 1 .. Len(s)
<1>1. DOMAIN s = 1 .. Len(s) /\ Len(s) \in Nat /\ \A i \in 1 .. Len(s) : s[i] \in T
  BY LenProperties, ElementOfSeq
<1>2. s \in [1 .. Len(s) -> ToSet(s)]
  BY <1>1, LenProperties DEF ToSet
<1>3. s \in Seq(ToSet(s))
  BY <1>1, <1>2, SeqDef
<1> QED
  BY <1>1, <1>3 DEF ToSet

LEMMA NoMembers ==
  ASSUME NEW T, NEW s \in Seq(T)
  PROVE  s = <<>> <=> ToSet(s) = {}
<1>1. CASE s = <<>>
  BY <1>1, MembersOfEmpty
<1>2. CASE s # <<>>
  <2>1. Len(s) \in Nat /\ Len(s) # 0
    BY <1>2, EmptySeq
  <2>2. 1 \in DOMAIN s
    BY <2>1, MembersType
  <2> QED
    BY <1>2, <2>2 DEF ToSet
<1> QED
  BY <1>1, <1>2

LEMMA EndsAreMembers ==
  ASSUME NEW T, NEW s \in Seq(T), s # <<>>
  PROVE  Head(s) \in ToSet(s) /\ Last(s) \in ToSet(s)
<1>1. Len(s) \in Nat /\ Len(s) # 0 /\ DOMAIN s = 1 .. Len(s)
  BY EmptySeq, MembersType
<1>2. 1 \in DOMAIN s /\ Len(s) \in DOMAIN s
  BY <1>1
<1>3. Head(s) = s[1]
  BY HeadTailProperties
<1> QED
  BY <1>2, <1>3 DEF ToSet, Last

-----------------------------------------------------------------------------
(* Lists of which each member is replaced by a list                        *)
\* A list for each member there may be.
IsExpansion(h, T, U) == h \in [T -> Seq(U)]

Replaced(s, h) == [i \in DOMAIN s |-> h[s[i]]]
Expanded(s, h) == FlattenSeq(Replaced(s, h))

LEMMA ReplacedType ==
  ASSUME NEW T, NEW U, NEW h, IsExpansion(h, T, U), NEW s \in Seq(T)
  PROVE  Replaced(s, h) \in Seq(Seq(U)) /\ Len(Replaced(s, h)) = Len(s)
<1>1. PICK m : m = Replaced(s, h)
  OBVIOUS
<1>2. DOMAIN s = 1 .. Len(s) /\ Len(s) \in Nat /\ \A i \in DOMAIN s : s[i] \in T
  BY LenProperties, ElementOfSeq
<1>3. m \in [1 .. Len(s) -> Seq(U)]
  BY <1>1, <1>2 DEF IsExpansion, Replaced
<1>4. m \in Seq(Seq(U))
  BY <1>2, <1>3, SeqDef
<1> QED
  BY <1>1, <1>2, <1>3, <1>4, LenProperties

LEMMA ExpandedType ==
  ASSUME NEW T, NEW U, NEW h, IsExpansion(h, T, U), NEW s \in Seq(T)
  PROVE  /\ Expanded(s, h) \in Seq(U)
         /\ ToSet(Expanded(s, h)) = UNION {ToSet(h[x]) : x \in ToSet(s)}
<1>1. PICK m : m = Replaced(s, h)
  OBVIOUS
<1>2. m \in Seq(Seq(U))
  BY <1>1, ReplacedType
<1>3. Expanded(s, h) = FlattenSeq(m)
  BY <1>1 DEF Expanded
<1>4. ToSet(FlattenSeq(m)) = UNION {ToSet(x) : x \in ToSet(m)}
  BY <1>2, MembersOfFlatten
<1>5. ToSet(m) = {h[x] : x \in ToSet(s)}
  BY <1>1 DEF ToSet, Replaced
<1>6. UNION {ToSet(x) : x \in ToSet(m)} = UNION {ToSet(h[x]) : x \in ToSet(s)}
  BY <1>5
<1> QED
  BY <1>2, <1>3, <1>4, <1>6, FlattenType

LEMMA ExpandedOfEmpty == \A h : Expanded(<<>>, h) = <<>>
<1> SUFFICES ASSUME NEW h PROVE Expanded(<<>>, h) = <<>>
  OBVIOUS
<1>1. PICK e : e = <<>>
  OBVIOUS
<1>2. DOMAIN e = {}
  BY <1>1, EmptySeq, LenProperties
<1>3. Replaced(e, h) = <<>>
  BY <1>1, <1>2 DEF Replaced
<1> QED
  BY <1>1, <1>3, FlattenOfEmpty DEF Expanded

LEMMA ExpandedOfAppend ==
  ASSUME NEW T, NEW U, NEW h, IsExpansion(h, T, U), NEW s \in Seq(T), NEW x \in T
  PROVE  Expanded(Append(s, x), h) = Expanded(s, h) \o h[x]
<1>1. PICK u : u = Append(s, x)
  OBVIOUS
<1>2. /\ u \in Seq(T) /\ Len(u) = Len(s) + 1 /\ Len(s) \in Nat
      /\ DOMAIN u = 1 .. Len(s) + 1 /\ DOMAIN s = 1 .. Len(s)
      /\ u[Len(s) + 1] = x /\ \A i \in 1 .. Len(s) : u[i] = s[i]
  BY <1>1, AppendProperties, LenProperties
<1>3. PICK m, n, y : /\ m = Replaced(s, h) /\ n = Replaced(u, h)
                     /\ y = h[x]
  OBVIOUS
<1>4. m \in Seq(Seq(U)) /\ Len(m) = Len(s) /\ n \in Seq(Seq(U)) /\ Len(n) = Len(s) + 1
  BY <1>2, <1>3, ReplacedType
<1>5. y \in Seq(U)
  BY <1>3 DEF IsExpansion
<1>6. PICK a : a = Append(m, y)
  OBVIOUS
<1>7. /\ a \in Seq(Seq(U)) /\ Len(a) = Len(s) + 1 /\ a[Len(s) + 1] = y
      /\ \A i \in 1 .. Len(s) : a[i] = m[i]
  BY <1>4, <1>5, <1>6, AppendProperties
<1>8. n = a
  <2>1. n[Len(s) + 1] = y
    BY <1>2, <1>3 DEF Replaced
  <2>2. \A i \in 1 .. Len(s) : n[i] = m[i]
    BY <1>2, <1>3 DEF Replaced
  <2>3. DOMAIN n = 1 .. Len(s) + 1 /\ DOMAIN a = 1 .. Len(s) + 1
    BY <1>4, <1>7, LenProperties
  <2>4. \A i \in 1 .. Len(s) + 1 : i \in 1 .. Len(s) \/ i = Len(s) + 1
    BY <1>2
  <2>5. \A i \in 1 .. Len(s) + 1 : n[i] = a[i]
    BY <1>7, <2>1, <2>2, <2>4
  <2>6. n = [i \in 1 .. Len(s) + 1 |-> n[i]] /\ a = [i \in 1 .. Len(s) + 1 |-> a[i]]
    BY <1>4, <1>7, <2>3, SeqDef
  <2> QED
    BY <2>5, <2>6
<1>9. FlattenSeq(a) = FlattenSeq(m) \o y
  BY <1>4, <1>5, <1>6, FlattenOfAppend
<1> QED
  BY <1>1, <1>3, <1>8, <1>9 DEF Expanded

LEMMA ExpandedOfOne ==
  ASSUME NEW T, NEW U, NEW h, IsExpansion(h, T, U), NEW x \in T
  PROVE  Expanded(<<x>>, h) = h[x]
<1>1. PICK e, y : e = <<>> /\ y = h[x]
  OBVIOUS
<1>2. e \in Seq(T) /\ y \in Seq(U) /\ <<>> \in Seq(U)
  BY <1>1, EmptySeq DEF IsExpansion
<1>3. Append(e, x) = <<x>>
  BY <1>1, AppendIsConcat, ConcatEmptySeq, MembersOfOne
<1>4. Expanded(Append(e, x), h) = Expanded(e, h) \o h[x]
  BY <1>2, ExpandedOfAppend
<1>5. Expanded(e, h) = <<>>
  BY <1>1, ExpandedOfEmpty
<1>6. <<>> \o y = y
  BY <1>2, ConcatEmptySeq
<1> QED
  BY <1>1, <1>3, <1>4, <1>5, <1>6

LEMMA JoinedAppend ==
  ASSUME NEW T, NEW s \in Seq(T), NEW t \in Seq(T), NEW x \in T
  PROVE  s \o Append(t, x) = Append(s \o t, x)
<1>1. PICK o, st : o = <<x>> /\ st = s \o t
  OBVIOUS
<1>2. o \in Seq(T) /\ st \in Seq(T)
  BY <1>1, MembersOfOne, ConcatProperties
<1>3. Append(t, x) = t \o o /\ Append(st, x) = st \o o
  BY <1>1, <1>2, AppendIsConcat
<1> QED
  BY <1>1, <1>2, <1>3, ConcatAssociative

\* A list is expanded as its two parts are.
ExpandsApart(s, t, h) == Expanded(s \o t, h) = Expanded(s, h) \o Expanded(t, h)

LEMMA ExpandedOfConcatStep ==
  ASSUME NEW T, NEW U, NEW h, IsExpansion(h, T, U), NEW s \in Seq(T), NEW v \in Seq(T),
         ExpandsApart(s, v, h), NEW x \in T
  PROVE  ExpandsApart(s, Append(v, x), h)
<1>1. PICK sv : sv = s \o v
  OBVIOUS
<1>2. PICK y : y = h[x]
  OBVIOUS
<1>3. PICK es, ev : es = Expanded(s, h) /\ ev = Expanded(v, h)
  OBVIOUS
<1>4. sv \in Seq(T)
  BY <1>1, ConcatProperties
<1>5. y \in Seq(U)
  BY <1>2 DEF IsExpansion
<1>6. es \in Seq(U) /\ ev \in Seq(U)
  BY <1>3, ExpandedType
<1>7. s \o Append(v, x) = Append(sv, x)
  BY <1>1, JoinedAppend
<1>8. Expanded(Append(sv, x), h) = Expanded(sv, h) \o h[x]
  BY <1>4, ExpandedOfAppend
<1>9. Expanded(Append(v, x), h) = Expanded(v, h) \o h[x]
  BY ExpandedOfAppend
<1>10. (es \o ev) \o y = es \o (ev \o y)
  BY <1>5, <1>6, ConcatAssociative, SMTT(30)
<1>11. Expanded(sv, h) = es \o ev
  BY <1>1, <1>3 DEF ExpandsApart
<1>12. Expanded(s \o Append(v, x), h) = (es \o ev) \o y
  BY <1>2, <1>7, <1>8, <1>11
<1>13. Expanded(Append(v, x), h) = ev \o y
  BY <1>2, <1>3, <1>9
<1> QED
  BY <1>3, <1>10, <1>12, <1>13 DEF ExpandsApart

LEMMA ExpandedOfConcat ==
  ASSUME NEW T, NEW U, NEW h, IsExpansion(h, T, U), NEW s \in Seq(T), NEW t \in Seq(T)
  PROVE  ExpandsApart(s, t, h)
<1> DEFINE P == {v \in Seq(T) : ExpandsApart(s, v, h)}
<1>1. <<>> \in P
  <2>1. PICK es : es = Expanded(s, h)
    OBVIOUS
  <2>2. es \in Seq(U)
    BY <2>1, ExpandedType
  <2>3. <<>> \in Seq(T) /\ s \o <<>> = s /\ es \o <<>> = es
    BY <2>2, EmptySeq, ConcatEmptySeq
  <2> QED
    BY <2>1, <2>3, ExpandedOfEmpty DEF ExpandsApart
<1>2. ASSUME NEW v \in Seq(T), NEW x \in T, v \in P PROVE Append(v, x) \in P
  <2>1. ExpandsApart(s, v, h)
    BY <1>2
  <2>2. ExpandsApart(s, Append(v, x), h)
    <3> HIDE DEF P
    <3> QED BY <2>1, ExpandedOfConcatStep
  <2>3. Append(v, x) \in Seq(T)
    BY AppendProperties
  <2> QED
    BY <2>2, <2>3
<1>3. \A v \in Seq(T) : v \in P
  <2> HIDE DEF P
  <2> QED BY <1>1, <1>2, InductionOverSequences
<1> QED
  BY <1>3

LEMMA ExpandedSame ==
  ASSUME NEW T, NEW h, IsExpansion(h, T, T), NEW s \in Seq(T), NEW S,
         \A x \in T \intersect S : h[x] = <<x>>, ToSet(s) \subseteq S
  PROVE  Expanded(s, h) = s
<1> DEFINE P == {v \in Seq(T) : ToSet(v) \subseteq S => Expanded(v, h) = v}
<1>1. <<>> \in P
  BY EmptySeq, ExpandedOfEmpty
<1>2. ASSUME NEW v \in Seq(T), NEW x \in T, v \in P PROVE Append(v, x) \in P
  <2>1. PICK vx : vx = Append(v, x)
    OBVIOUS
  <2>2. vx \in Seq(T) /\ ToSet(vx) = ToSet(v) \union {x} /\ vx = v \o <<x>>
    BY <2>1, AppendProperties, MembersOfAppend, AppendIsConcat
  <2>3. Expanded(vx, h) = Expanded(v, h) \o h[x]
    BY <2>1, ExpandedOfAppend
  <2>4. ToSet(vx) \subseteq S => Expanded(vx, h) = vx
    BY <1>2, <2>2, <2>3
  <2> QED
    BY <2>1, <2>2, <2>4
<1>3. \A v \in Seq(T) : v \in P
  <2> HIDE DEF P
  <2> QED BY <1>1, <1>2, InductionOverSequences
<1> QED
  BY <1>3

LEMMA ExpandedTwiceStep ==
  ASSUME NEW T, NEW f, IsExpansion(f, T, T), NEW g, IsExpansion(g, T, T),
         NEW h, IsExpansion(h, T, T), NEW v \in Seq(T),
         Expanded(Expanded(v, f), g) = Expanded(v, h),
         NEW x \in T, h[x] = Expanded(f[x], g)
  PROVE  Expanded(Expanded(Append(v, x), f), g) = Expanded(Append(v, x), h)
<1>1. PICK y : y = f[x]
  OBVIOUS
<1>2. y \in Seq(T)
  BY <1>1 DEF IsExpansion
<1>3. PICK ev : ev = Expanded(v, f)
  OBVIOUS
<1>4. ev \in Seq(T)
  BY <1>3, ExpandedType
<1>5. Expanded(Append(v, x), f) = Expanded(v, f) \o f[x]
  BY ExpandedOfAppend
<1>6. ExpandsApart(ev, y, g)
  BY <1>2, <1>4, ExpandedOfConcat
<1>7. Expanded(Append(v, x), h) = Expanded(v, h) \o h[x]
  BY ExpandedOfAppend, SMTT(30)
<1> QED
  BY <1>1, <1>3, <1>5, <1>6, <1>7 DEF ExpandsApart

\* Two expansions, one after the other, are one.
LEMMA ExpandedTwice ==
  ASSUME NEW T, NEW f, IsExpansion(f, T, T), NEW g, IsExpansion(g, T, T),
         NEW h, IsExpansion(h, T, T), NEW s \in Seq(T), \A x \in T : h[x] = Expanded(f[x], g)
  PROVE  Expanded(Expanded(s, f), g) = Expanded(s, h)
<1> DEFINE P == {v \in Seq(T) : Expanded(Expanded(v, f), g) = Expanded(v, h)}
<1>1. <<>> \in P
  BY EmptySeq, ExpandedOfEmpty
<1>2. ASSUME NEW v \in Seq(T), NEW x \in T, v \in P PROVE Append(v, x) \in P
  <2>1. Expanded(Expanded(v, f), g) = Expanded(v, h)
    BY <1>2
  <2>2. Expanded(Expanded(Append(v, x), f), g) = Expanded(Append(v, x), h)
    <3> HIDE DEF P
    <3> QED BY <2>1, ExpandedTwiceStep
  <2>3. Append(v, x) \in Seq(T)
    BY AppendProperties
  <2> QED
    BY <2>2, <2>3
<1>3. \A v \in Seq(T) : v \in P
  <2> HIDE DEF P
  <2> QED BY <1>1, <1>2, InductionOverSequences
<1> QED
  BY <1>3

=============================================================================
