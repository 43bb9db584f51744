------------------------------ MODULE DataLemmas -------------------------------
(* Lemmas about the loops over data: Filters' Within, TomlStrings' escaping and      *)
(* scanning, and the sums of FiniteSetsExt.  A loop is a function of how far it got, *)
(* so what it makes of all data takes induction.  The library's induction theorems   *)
(* have an operator for a parameter; here induction is membership of a set           *)
(* (AllNumbers, AllSequences, AllFiniteSets).  The conclusions that apply a bound    *)
(* function have names (Stepped, GoesAlong, SameTo, Folds, Passes): the provers      *)
(* match a name, not such an application.                                            *)
EXTENDS Filters, TomlStrings, FiniteSets, Functions, FiniteSetTheorems, SequenceTheorems,
        WellFoundedInduction, TLAPS

--------------------------------------------------------------------------------
(* Induction over numbers and over sequences, as membership of a set.              *)

LEMMA AllNumbers ==
    ASSUME NEW S, 0 \in S, \A n \in Nat : n \in S => n + 1 \in S
    PROVE  Nat \subseteq S
<1> SUFFICES ASSUME NEW z \in Nat, z \notin S PROVE FALSE
  OBVIOUS
<1> DEFINE T == Nat \ S
           Less == OpToRel(<, Nat)
<1>1. IsWellFoundedOn(Less, Nat)
  BY NatLessThanWellFounded
<1>2. PICK i \in T : \A j \in T : <<j, i>> \notin Less
  <2> HIDE DEF Less
  <2> QED
    BY <1>1, WFMin
<1>3. i \in Nat /\ i \notin S /\ i # 0
  OBVIOUS
<1> DEFINE k == i - 1
<1>4. k \in Nat /\ k < i /\ k + 1 = i
  BY <1>3
<1>5. k \notin T
  BY <1>2, <1>3, <1>4 DEF OpToRel
<1> HIDE DEF k, Less
<1>6. k \in S
  BY <1>4, <1>5
<1>7. k + 1 \in S
  BY <1>4, <1>6
<1>8. QED
  BY <1>3, <1>4, <1>7

\* A value for every number up to n, each made of the one before.
Stepped(f, n, base, step) == f[0] = base /\ \A i \in 1 .. n : f[i] = step[<<i, f[i - 1]>>]
LEMMA Stepwise ==
    ASSUME NEW n \in Nat, NEW V, NEW base \in V, NEW step \in [(1 .. n) \X V -> V]
    PROVE  \E f \in [0 .. n -> V] : Stepped(f, n, base, step)
<1> DEFINE Steps(f, m) == f \in [0 .. m -> V] /\ f[0] = base
                             /\ \A i \in 1 .. m : f[i] = step[<<i, f[i - 1]>>]
           S == {m \in Nat : m <= n => \E f : Steps(f, m)}
<1>1. 0 \in S
  <2>1. Steps([i \in 0 .. 0 |-> base], 0)
    OBVIOUS
  <2>2. QED
    BY <2>1
<1>2. ASSUME NEW m \in S, m + 1 <= n
      PROVE  \E f : Steps(f, m + 1)
  <2>1. PICK f : Steps(f, m)
    BY <1>2
  <2> DEFINE g == [i \in 0 .. m + 1 |-> IF i = m + 1 THEN step[<<m + 1, f[m]>>] ELSE f[i]]
  <2>2. m \in Nat /\ m + 1 \in 1 .. n /\ f[m] \in V
    BY <1>2, <2>1
  <2>3. step[<<m + 1, f[m]>>] \in V
    BY <2>2
  <2>4. g \in [0 .. m + 1 -> V] /\ g[0] = base
    BY <2>1, <2>2, <2>3
  <2>5. \A i \in 0 .. m : g[i] = f[i]
    BY <2>2
  <2>6. g[m + 1] = step[<<m + 1, g[m]>>]
    <3>1. g[m + 1] = step[<<m + 1, f[m]>>] /\ m \in 0 .. m
      BY <2>2
    <3>2. g[m] = f[m]
      BY <2>5, <3>1
    <3> HIDE DEF g
    <3>3. QED
      BY <3>1, <3>2
  <2>7. \A i \in 1 .. m + 1 : g[i] = step[<<i, g[i - 1]>>]
    <3> SUFFICES ASSUME NEW i \in 1 .. m + 1 PROVE g[i] = step[<<i, g[i - 1]>>]
      OBVIOUS
    <3>1. CASE i = m + 1
      BY <2>2, <2>6, <3>1
    <3>2. CASE i # m + 1
      <4>1. i \in 1 .. m /\ i \in 0 .. m /\ i - 1 \in 0 .. m
        BY <2>2, <3>2
      <4>2. f[i] = step[<<i, f[i - 1]>>]
        BY <2>1, <4>1
      <4>3. g[i] = f[i] /\ g[i - 1] = f[i - 1]
        BY <2>5, <4>1
      <4> HIDE DEF g
      <4>4. QED
        BY <4>2, <4>3
    <3>3. QED
      BY <3>1, <3>2
  <2> HIDE DEF g
  <2>8. QED
    BY <2>4, <2>7
<1>3. \A m \in Nat : m \in S => m + 1 \in S
  <2> HIDE DEF Steps
  <2> SUFFICES ASSUME NEW m \in Nat, m \in S, m + 1 <= n PROVE \E f : Steps(f, m + 1)
    OBVIOUS
  <2> QED
    BY <1>2
<1>4. n \in S
  <2> HIDE DEF S
  <2> QED
    BY <1>1, <1>3, AllNumbers
<1>5. QED
  BY <1>4 DEF Stepped

\* Two that start alike and go on alike are alike.
GoesAlong(f, g, n) == f[0] = g[0] /\ \A i \in 1 .. n : f[i - 1] = g[i - 1] => f[i] = g[i]
SameTo(f, g, n) == \A i \in 0 .. n : f[i] = g[i]
LEMMA Alike ==
    ASSUME NEW n \in Nat, NEW f, NEW g, GoesAlong(f, g, n)
    PROVE  SameTo(f, g, n)
<1> DEFINE S == {m \in Nat : m <= n => f[m] = g[m]}
<1>1. 0 \in S
  BY DEF GoesAlong
<1>2. ASSUME NEW m \in Nat, m \in S
      PROVE  m + 1 \in S
  <2> SUFFICES ASSUME m + 1 <= n PROVE f[m + 1] = g[m + 1]
    OBVIOUS
  <2>1. m + 1 \in 1 .. n /\ m + 1 - 1 = m /\ f[m] = g[m]
    BY <1>2
  <2>2. QED
    BY <2>1 DEF GoesAlong
<1>3. Nat \subseteq S
  <2> HIDE DEF S
  <2> QED
    BY <1>1, <1>2, AllNumbers
<1>4. QED
  BY <1>3 DEF SameTo

LEMMA AllSequences ==
    ASSUME NEW X, NEW P, <<>> \in P, \A s \in Seq(X), x \in X : s \in P => Append(s, x) \in P
    PROVE  Seq(X) \subseteq P
<1> DEFINE S == {n \in Nat : \A s \in Seq(X) : Len(s) = n => s \in P}
<1>1. 0 \in S
  BY EmptySeq
<1>2. ASSUME NEW n \in Nat, n \in S
      PROVE  n + 1 \in S
  <2> SUFFICES ASSUME NEW s \in Seq(X), Len(s) = n + 1 PROVE s \in P
    OBVIOUS
  <2> DEFINE t == SubSeq(s, 1, n)
  <2>1. t \in Seq(X) /\ Len(t) = n /\ s[n + 1] \in X
    OBVIOUS
  <2>2. s = Append(t, s[n + 1])
    <3>1. Len(Append(t, s[n + 1])) = n + 1 /\ Append(t, s[n + 1]) \in Seq(X)
      BY <2>1
    <3>2. \A i \in 1 .. n + 1 : s[i] = Append(t, s[n + 1])[i]
      OBVIOUS
    <3>3. QED
      BY <3>1, <3>2, SeqEqual
  <2>3. t \in P
    BY <1>2, <2>1
  <2> HIDE DEF t
  <2>4. QED
    BY <2>1, <2>2, <2>3
<1>3. Nat \subseteq S
  <2> HIDE DEF S
  <2> QED
    BY <1>1, <1>2, AllNumbers
<1>4. QED
  BY <1>3

--------------------------------------------------------------------------------
(* A value made of a sequence, one element after the other: of the value before     *)
(* and the element, as the function `step`, starting with `base`.                   *)

Folds(f, s, base, step) == f[0] = base /\ \A i \in 1 .. Len(s) : f[i] = step[<<f[i - 1], s[i]>>]
IsFold(v, s, base, step) == \E f : Folds(f, s, base, step) /\ v = f[Len(s)]

LEMMA FoldsExist ==
    ASSUME NEW X, NEW s \in Seq(X), NEW V, NEW base \in V, NEW step \in [V \X X -> V]
    PROVE  \E f \in [0 .. Len(s) -> V] : Folds(f, s, base, step)
<1>1. PICK n \in Nat : n = Len(s)
  OBVIOUS
<1>2. PICK next : next = [p \in (1 .. n) \X V |-> step[<<p[2], s[p[1]]>>]]
  OBVIOUS
<1>3. \A p \in (1 .. n) \X V : next[p] \in V
  <2>1. \A p \in (1 .. n) \X V : p[1] \in 1 .. n /\ p[2] \in V
    OBVIOUS
  <2>2. \A i \in 1 .. n : s[i] \in X
    BY <1>1
  <2>3. \A p \in (1 .. n) \X V : <<p[2], s[p[1]]>> \in V \X X
    BY <2>1, <2>2
  <2>4. \A p \in (1 .. n) \X V : next[p] = step[<<p[2], s[p[1]]>>]
    BY <1>2
  <2>5. \A q \in V \X X : step[q] \in V
    OBVIOUS
  <2>6. QED
    BY <2>3, <2>4, <2>5, Zenon
<1>4. next \in [(1 .. n) \X V -> V]
  BY <1>2, <1>3
<1>5. PICK f \in [0 .. n -> V] : Stepped(f, n, base, next)
  BY <1>4, Stepwise
<1>6. \A i \in 1 .. n : f[i] = step[<<f[i - 1], s[i]>>]
  <2> SUFFICES ASSUME NEW i \in 1 .. n PROVE f[i] = step[<<f[i - 1], s[i]>>]
    OBVIOUS
  <2>1. i - 1 \in 0 .. n
    OBVIOUS
  <2>2. f[i - 1] \in V
    BY <2>1
  <2>3. PICK v \in V : v = f[i - 1]
    BY <2>2, Zenon
  <2>4. f[i] = next[<<i, v>>]
    BY <1>5, <2>3 DEF Stepped
  <2>5. next[<<i, v>>] = step[<<v, s[i]>>]
    BY <1>2
  <2>6. QED
    BY <2>3, <2>4, <2>5
<1>7. Folds(f, s, base, step)
  BY <1>1, <1>5, <1>6 DEF Folds, Stepped
<1>8. QED
  BY <1>1, <1>7, Zenon

LEMMA FoldsAgree ==
    ASSUME NEW n \in Nat, NEW s, n = Len(s), NEW base, NEW step, NEW f, NEW g,
           Folds(f, s, base, step), Folds(g, s, base, step)
    PROVE  f[n] = g[n]
<1>1. GoesAlong(f, g, n)
  BY DEF Folds, GoesAlong
<1>2. SameTo(f, g, n)
  BY <1>1, Alike
<1>3. n \in 0 .. n
  OBVIOUS
<1>4. QED
  BY <1>2, <1>3 DEF SameTo

LEMMA FoldEmpty ==
    ASSUME NEW base, NEW step, NEW v, IsFold(v, <<>>, base, step)
    PROVE  v = base
<1>1. Len(<<>>) = 0
  BY EmptySeq
<1>2. QED
  BY <1>1 DEF IsFold, Folds

LEMMA FoldAppend ==
    ASSUME NEW X, NEW s \in Seq(X), NEW x \in X, NEW base, NEW step, NEW v, NEW w,
           IsFold(v, s, base, step), IsFold(w, Append(s, x), base, step)
    PROVE  w = step[<<v, x>>]
<1>1. PICK t \in Seq(X) : t = Append(s, x)
  <2>1. Append(s, x) \in Seq(X)
    OBVIOUS
  <2>2. QED
    BY <2>1, Zenon
<1>2. PICK n \in Nat : n = Len(s) /\ Len(t) = n + 1
  BY <1>1
<1>3. /\ t[n + 1] = x
      /\ \A i \in 1 .. n : t[i] = s[i]
  BY <1>1, <1>2
<1>4. PICK f : Folds(f, s, base, step) /\ v = f[n]
  BY <1>2 DEF IsFold
<1>5. PICK g : Folds(g, t, base, step) /\ w = g[n + 1]
  <2>1. IsFold(w, t, base, step)
    BY <1>1
  <2>2. QED
    BY <1>2, <2>1 DEF IsFold
<1>6. Folds(g, s, base, step)
  <2>1. g[0] = base
    BY <1>5 DEF Folds
  <2>2. \A i \in 1 .. n : g[i] = step[<<g[i - 1], t[i]>>]
    BY <1>2, <1>5 DEF Folds
  <2>3. \A i \in 1 .. n : g[i] = step[<<g[i - 1], s[i]>>]
    BY <1>3, <2>2
  <2>4. QED
    BY <1>2, <2>1, <2>3 DEF Folds
<1>7. g[n] = v
  BY <1>2, <1>4, <1>6, FoldsAgree
<1>8. PICK m \in Nat : m = n + 1 /\ m \in 1 .. Len(t) /\ m - 1 = n
  BY <1>2
<1>9. g[m] = step[<<g[m - 1], t[m]>>]
  BY <1>5, <1>8 DEF Folds
<1>10. QED
  BY <1>3, <1>5, <1>7, <1>8, <1>9

--------------------------------------------------------------------------------
(* Filtering a sequence.                                                           *)

LEMMA RangeAppend ==
    ASSUME NEW X, NEW s \in Seq(X), NEW x
    PROVE  Range(Append(s, x)) = Range(s) \cup {x}
<1>1. DOMAIN Append(s, x) = 1 .. Len(s) + 1 /\ DOMAIN s = 1 .. Len(s) /\ Len(s) \in Nat
  OBVIOUS
<1>2. \A i \in 1 .. Len(s) : Append(s, x)[i] = s[i]
  OBVIOUS
<1>3. Append(s, x)[Len(s) + 1] = x
  OBVIOUS
<1> DEFINE t == Append(s, x)
<1> HIDE DEF t
<1>4. Range(t) \subseteq Range(s) \cup {x}
  BY <1>1, <1>2, <1>3 DEF Range, t
<1>5. Range(s) \cup {x} \subseteq Range(t)
  <2>1. \A i \in DOMAIN s : i \in DOMAIN t /\ t[i] = s[i]
    BY <1>1, <1>2 DEF t
  <2>2. Len(s) + 1 \in DOMAIN t /\ t[Len(s) + 1] = x
    BY <1>1, <1>3 DEF t
  <2>3. QED
    BY <2>1, <2>2 DEF Range
<1>6. QED
  BY <1>4, <1>5 DEF t

LEMMA RangeConcat ==
    ASSUME NEW X, NEW s \in Seq(X), NEW t \in Seq(X)
    PROVE  Range(s \o t) = Range(s) \cup Range(t)
<1> DEFINE u == s \o t
<1>1. /\ DOMAIN u = 1 .. Len(s) + Len(t) /\ DOMAIN s = 1 .. Len(s) /\ DOMAIN t = 1 .. Len(t)
      /\ Len(s) \in Nat /\ Len(t) \in Nat
  OBVIOUS
<1>2. \A i \in 1 .. Len(s) + Len(t) : u[i] = IF i <= Len(s) THEN s[i] ELSE t[i - Len(s)]
  BY ConcatProperties
<1> HIDE DEF u
<1>3. Range(u) \subseteq Range(s) \cup Range(t)
  <2> SUFFICES ASSUME NEW i \in DOMAIN u PROVE u[i] \in Range(s) \cup Range(t)
    BY DEF Range
  <2>1. CASE i <= Len(s)
    BY <1>1, <1>2, <2>1 DEF Range
  <2>2. CASE ~(i <= Len(s))
    <3>1. i - Len(s) \in DOMAIN t /\ u[i] = t[i - Len(s)]
      BY <1>1, <1>2, <2>2
    <3>2. QED
      BY <3>1 DEF Range
  <2>3. QED
    BY <2>1, <2>2
<1>4. ASSUME NEW i \in DOMAIN s PROVE s[i] \in Range(u)
  BY <1>1, <1>2 DEF Range
<1>5. ASSUME NEW i \in DOMAIN t PROVE t[i] \in Range(u)
  <2>1. i + Len(s) \in DOMAIN u /\ u[i + Len(s)] = t[i]
    BY <1>1, <1>2
  <2>2. QED
    BY <2>1 DEF Range
<1>6. QED
  BY <1>3, <1>4, <1>5 DEF Range, u

--------------------------------------------------------------------------------
(* Within: the loop, and the step it folds.                                        *)

KeptUpTo(g, s, S, n) ==
    g = [i \in 0 .. n |-> IF i = 0 THEN <<>> ELSE IF s[i] \in S THEN Append(g[i - 1], s[i]) ELSE g[i - 1]]
Keep(X, S) == [p \in Seq(X) \X X |-> IF p[2] \in S THEN Append(p[1], p[2]) ELSE p[1]]

LEMMA WithinIsFold ==
    ASSUME NEW X, NEW s \in Seq(X), NEW S
    PROVE  IsFold(Within(s, S), s, <<>>, Keep(X, S)) /\ Within(s, S) \in Seq(X)
<1>1. PICK n \in Nat : n = Len(s)
  OBVIOUS
<1>2. <<>> \in Seq(X) /\ Keep(X, S) \in [Seq(X) \X X -> Seq(X)]
  <2>1. \A p \in Seq(X) \X X : (IF p[2] \in S THEN Append(p[1], p[2]) ELSE p[1]) \in Seq(X)
    OBVIOUS
  <2>2. QED
    BY <2>1 DEF Keep
<1>3. PICK f \in [0 .. n -> Seq(X)] : Folds(f, s, <<>>, Keep(X, S))
  <2>1. \E f \in [0 .. Len(s) -> Seq(X)] : Folds(f, s, <<>>, Keep(X, S))
    BY <1>2, FoldsExist
  <2>2. QED
    BY <1>1, <2>1, Zenon
<1>4. \A i \in 0 .. n : f[i] = IF i = 0 THEN <<>> ELSE IF s[i] \in S THEN Append(f[i - 1], s[i]) ELSE f[i - 1]
  <2>1. f[0] = <<>>
    BY <1>3 DEF Folds
  <2>2. ASSUME NEW i \in 1 .. n
        PROVE  f[i] = IF s[i] \in S THEN Append(f[i - 1], s[i]) ELSE f[i - 1]
    <3>1. PICK u \in Seq(X), x \in X : u = f[i - 1] /\ x = s[i]
      <4>1. i - 1 \in 0 .. n
        OBVIOUS
      <4>2. f[i - 1] \in Seq(X) /\ s[i] \in X
        BY <1>1, <4>1
      <4>3. QED
        BY <4>2, Zenon
    <3>2. f[i] = Keep(X, S)[<<u, x>>]
      BY <1>1, <1>3, <3>1 DEF Folds
    <3>3. Keep(X, S)[<<u, x>>] = IF x \in S THEN Append(u, x) ELSE u
      BY DEF Keep
    <3>4. QED
      BY <3>1, <3>2, <3>3
  <2>3. ASSUME NEW i \in 0 .. n
        PROVE  f[i] = IF i = 0 THEN <<>> ELSE IF s[i] \in S THEN Append(f[i - 1], s[i]) ELSE f[i - 1]
    <3>1. i = 0 \/ i \in 1 .. n
      OBVIOUS
    <3>2. QED
      BY <2>1, <2>2, <3>1
  <2>4. QED
    BY <2>3
<1>5. f = [i \in 0 .. n |-> f[i]]
  OBVIOUS
<1>6. KeptUpTo(f, s, S, n)
  BY <1>4, <1>5, Zenon DEF KeptUpTo
<1>7. PICK w : KeptUpTo(w, s, S, n) /\ Within(s, S) = w[n]
  <2> DEFINE v == CHOOSE v : v = [i \in 0 .. n |->
                     IF i = 0 THEN <<>> ELSE IF s[i] \in S THEN Append(v[i - 1], s[i]) ELSE v[i - 1]]
  <2>1. KeptUpTo(v, s, S, n)
    BY <1>6, Zenon DEF KeptUpTo
  <2>2. Within(s, S) = v[n]
    BY <1>1, Zenon DEF Within
  <2> HIDE DEF v
  <2>3. QED
    BY <2>1, <2>2
<1>8. w[n] = f[n]
  <2>1. \A i \in 0 .. n : w[i] = IF i = 0 THEN <<>> ELSE IF s[i] \in S THEN Append(w[i - 1], s[i]) ELSE w[i - 1]
    BY <1>7 DEF KeptUpTo
  <2>2. 0 \in 0 .. n /\ n \in 0 .. n /\ \A i \in 1 .. n : i \in 0 .. n /\ i # 0
    OBVIOUS
  <2>3. GoesAlong(w, f, n)
    BY <1>4, <2>1, <2>2 DEF GoesAlong
  <2>4. SameTo(w, f, n)
    BY <2>3, Alike
  <2>5. QED
    BY <2>2, <2>4 DEF SameTo
<1>9. f[n] \in Seq(X)
  OBVIOUS
<1>10. QED
  BY <1>1, <1>3, <1>7, <1>8, <1>9 DEF IsFold

LEMMA WithinEmpty ==
    ASSUME NEW S
    PROVE  Within(<<>>, S) = <<>>
<1>1. <<>> \in Seq({})
  OBVIOUS
<1>2. IsFold(Within(<<>>, S), <<>>, <<>>, Keep({}, S))
  BY <1>1, WithinIsFold
<1>3. QED
  BY <1>2, FoldEmpty

Passes(s, x, S) ==
    /\ x \in S => Within(Append(s, x), S) = Append(Within(s, S), x)
    /\ x \notin S => Within(Append(s, x), S) = Within(s, S)
LEMMA WithinAppend ==
    ASSUME NEW X, NEW s \in Seq(X), NEW x \in X, NEW S
    PROVE  Passes(s, x, S)
<1>1. PICK t \in Seq(X) : t = Append(s, x)
  <2>1. Append(s, x) \in Seq(X)
    OBVIOUS
  <2>2. QED
    BY <2>1, Zenon
<1>2. PICK u \in Seq(X) : u = Within(s, S) /\ IsFold(u, s, <<>>, Keep(X, S))
  BY WithinIsFold
<1>3. PICK v : v = Within(t, S) /\ IsFold(v, t, <<>>, Keep(X, S))
  BY WithinIsFold
<1>4. v = Keep(X, S)[<<u, x>>]
  BY <1>1, <1>2, <1>3, FoldAppend
<1>5. Keep(X, S)[<<u, x>>] = IF x \in S THEN Append(u, x) ELSE u
  BY DEF Keep
<1>6. QED
  BY <1>1, <1>2, <1>3, <1>4, <1>5 DEF Passes

--------------------------------------------------------------------------------
(* Replace, likewise.                                                              *)

ReplacedUpTo(g, s, c, by, n) ==
    g = [i \in 0 .. n |-> IF i = 0 THEN <<>> ELSE g[i - 1] \o (IF s[i] = c THEN by ELSE <<s[i]>>)]
Swap(X, c, by) == [p \in Seq(X) \X X |-> p[1] \o (IF p[2] = c THEN by ELSE <<p[2]>>)]

LEMMA ReplaceIsFold ==
    ASSUME NEW X, NEW s \in Seq(X), NEW c, NEW by \in Seq(X)
    PROVE  IsFold(Replace(s, c, by), s, <<>>, Swap(X, c, by)) /\ Replace(s, c, by) \in Seq(X)
<1>1. PICK n \in Nat : n = Len(s)
  OBVIOUS
<1>2. <<>> \in Seq(X) /\ Swap(X, c, by) \in [Seq(X) \X X -> Seq(X)]
  <2>1. \A p \in Seq(X) \X X : p[1] \o (IF p[2] = c THEN by ELSE <<p[2]>>) \in Seq(X)
    OBVIOUS
  <2>2. QED
    BY <2>1 DEF Swap
<1>3. PICK f \in [0 .. n -> Seq(X)] : Folds(f, s, <<>>, Swap(X, c, by))
  <2>1. \E f \in [0 .. Len(s) -> Seq(X)] : Folds(f, s, <<>>, Swap(X, c, by))
    BY <1>2, FoldsExist
  <2>2. QED
    BY <1>1, <2>1, Zenon
<1>4. \A i \in 0 .. n : f[i] = IF i = 0 THEN <<>> ELSE f[i - 1] \o (IF s[i] = c THEN by ELSE <<s[i]>>)
  <2>1. f[0] = <<>>
    BY <1>3 DEF Folds
  <2>2. ASSUME NEW i \in 1 .. n
        PROVE  f[i] = f[i - 1] \o (IF s[i] = c THEN by ELSE <<s[i]>>)
    <3>1. PICK u \in Seq(X), x \in X : u = f[i - 1] /\ x = s[i]
      <4>1. i - 1 \in 0 .. n
        OBVIOUS
      <4>2. f[i - 1] \in Seq(X) /\ s[i] \in X
        BY <1>1, <4>1
      <4>3. QED
        BY <4>2, Zenon
    <3>2. f[i] = Swap(X, c, by)[<<u, x>>]
      BY <1>1, <1>3, <3>1 DEF Folds
    <3>3. Swap(X, c, by)[<<u, x>>] = u \o (IF x = c THEN by ELSE <<x>>)
      BY DEF Swap
    <3>4. QED
      BY <3>1, <3>2, <3>3
  <2>3. ASSUME NEW i \in 0 .. n
        PROVE  f[i] = IF i = 0 THEN <<>> ELSE f[i - 1] \o (IF s[i] = c THEN by ELSE <<s[i]>>)
    <3>1. i = 0 \/ i \in 1 .. n
      OBVIOUS
    <3>2. QED
      BY <2>1, <2>2, <3>1
  <2>4. QED
    BY <2>3
<1>5. f = [i \in 0 .. n |-> f[i]]
  OBVIOUS
<1>6. ReplacedUpTo(f, s, c, by, n)
  BY <1>4, <1>5, Zenon DEF ReplacedUpTo
<1>7. PICK w : ReplacedUpTo(w, s, c, by, n) /\ Replace(s, c, by) = w[n]
  <2> DEFINE v == CHOOSE v : v = [i \in 0 .. n |->
                     IF i = 0 THEN <<>> ELSE v[i - 1] \o (IF s[i] = c THEN by ELSE <<s[i]>>)]
  <2>1. ReplacedUpTo(v, s, c, by, n)
    BY <1>6, Zenon DEF ReplacedUpTo
  <2>2. Replace(s, c, by) = v[n]
    BY <1>1, Zenon DEF Replace
  <2> HIDE DEF v
  <2>3. QED
    BY <2>1, <2>2
<1>8. w[n] = f[n]
  <2>1. \A i \in 0 .. n : w[i] = IF i = 0 THEN <<>> ELSE w[i - 1] \o (IF s[i] = c THEN by ELSE <<s[i]>>)
    BY <1>7 DEF ReplacedUpTo
  <2>2. 0 \in 0 .. n /\ n \in 0 .. n /\ \A i \in 1 .. n : i \in 0 .. n /\ i # 0
    OBVIOUS
  <2>3. GoesAlong(w, f, n)
    BY <1>4, <2>1, <2>2 DEF GoesAlong
  <2>4. SameTo(w, f, n)
    BY <2>3, Alike
  <2>5. QED
    BY <2>2, <2>4 DEF SameTo
<1>9. f[n] \in Seq(X)
  OBVIOUS
<1>10. QED
  BY <1>1, <1>3, <1>7, <1>8, <1>9 DEF IsFold

LEMMA ReplaceEmpty ==
    ASSUME NEW c, NEW X, NEW by \in Seq(X)
    PROVE  Replace(<<>>, c, by) = <<>>
<1>1. <<>> \in Seq(X)
  OBVIOUS
<1>2. IsFold(Replace(<<>>, c, by), <<>>, <<>>, Swap(X, c, by))
  BY <1>1, ReplaceIsFold
<1>3. QED
  BY <1>2, FoldEmpty

Swaps(s, x, c, by) ==
    Replace(Append(s, x), c, by) = Replace(s, c, by) \o (IF x = c THEN by ELSE <<x>>)
LEMMA ReplaceAppend ==
    ASSUME NEW X, NEW s \in Seq(X), NEW x \in X, NEW c, NEW by \in Seq(X)
    PROVE  Swaps(s, x, c, by)
<1>1. PICK t \in Seq(X) : t = Append(s, x)
  <2>1. Append(s, x) \in Seq(X)
    OBVIOUS
  <2>2. QED
    BY <2>1, Zenon
<1>2. PICK u \in Seq(X) : u = Replace(s, c, by) /\ IsFold(u, s, <<>>, Swap(X, c, by))
  BY ReplaceIsFold
<1>3. PICK v : v = Replace(t, c, by) /\ IsFold(v, t, <<>>, Swap(X, c, by))
  BY ReplaceIsFold
<1>4. v = Swap(X, c, by)[<<u, x>>]
  BY <1>1, <1>2, <1>3, FoldAppend
<1>5. Swap(X, c, by)[<<u, x>>] = u \o (IF x = c THEN by ELSE <<x>>)
  BY DEF Swap
<1>6. QED
  BY <1>1, <1>2, <1>3, <1>4, <1>5 DEF Swaps

--------------------------------------------------------------------------------
(* Reading a basic string.                                                         *)

Start == [text |-> <<>>, at |-> "text"]
States(X) == [text : Seq(X), at : {"text", "escape", "refused"}]
\* What an escape may stand for.
Controlled == {"\n", "\r", "\f", "\t"}
ScannedUpTo(g, s, n) == g = [i \in 0 .. n |-> IF i = 0 THEN Start ELSE Read(g[i - 1], s[i])]
Reads(X) == [p \in States(X) \X X |-> Read(p[1], p[2])]

LEMMA EscapesAreWritten == \A c \in DOMAIN Escapes : Escapes[c] \in Controlled
BY DEF Escapes, Controlled

LEMMA ScanIsFold ==
    ASSUME NEW X, NEW s \in Seq(X), Controlled \subseteq X
    PROVE  IsFold(Scanned(s), s, Start, Reads(X)) /\ Scanned(s) \in States(X)
<1>1. PICK n \in Nat : n = Len(s)
  OBVIOUS
<1>2. Start \in States(X) /\ Reads(X) \in [States(X) \X X -> States(X)]
  <2>1. ASSUME NEW r \in States(X), NEW x \in X
        PROVE  Read(r, x) \in States(X)
    <3>1. r.text \in Seq(X)
      BY DEF States
    <3>2. Append(r.text, x) \in Seq(X) /\ \A y \in X : Append(r.text, y) \in Seq(X)
      BY <3>1
    <3>3. x \in DOMAIN Escapes => Append(r.text, Escapes[x]) \in Seq(X)
      BY <3>2, EscapesAreWritten
    <3>4. CASE r.at = "escape" /\ x \in DOMAIN Escapes
      BY <3>3, <3>4 DEF Read, States
    <3>5. CASE ~(r.at = "escape" /\ x \in DOMAIN Escapes)
      <4>1. Read(r, x) \in {[text |-> Append(r.text, x), at |-> "text"],
                            [text |-> r.text, at |-> "refused"], [text |-> r.text, at |-> "escape"]}
        BY <3>5 DEF Read
      <4>2. /\ [text |-> Append(r.text, x), at |-> "text"] \in States(X)
            /\ [text |-> r.text, at |-> "refused"] \in States(X)
            /\ [text |-> r.text, at |-> "escape"] \in States(X)
        BY <3>1, <3>2 DEF States
      <4>3. QED
        BY <4>1, <4>2
    <3>6. QED
      BY <3>4, <3>5
  <2>2. \A p \in States(X) \X X : Read(p[1], p[2]) \in States(X)
    BY <2>1
  <2>3. Start \in States(X)
    BY DEF Start, States
  <2>4. QED
    BY <2>2, <2>3 DEF Reads
<1>3. PICK f \in [0 .. n -> States(X)] : Folds(f, s, Start, Reads(X))
  <2>1. \E f \in [0 .. Len(s) -> States(X)] : Folds(f, s, Start, Reads(X))
    BY <1>2, FoldsExist
  <2>2. QED
    BY <1>1, <2>1, Zenon
<1>4. \A i \in 0 .. n : f[i] = IF i = 0 THEN Start ELSE Read(f[i - 1], s[i])
  <2>1. f[0] = Start
    BY <1>3 DEF Folds
  <2>2. ASSUME NEW i \in 1 .. n
        PROVE  f[i] = Read(f[i - 1], s[i])
    <3>1. PICK u \in States(X), x \in X : u = f[i - 1] /\ x = s[i]
      <4>1. i - 1 \in 0 .. n
        OBVIOUS
      <4>2. f[i - 1] \in States(X) /\ s[i] \in X
        BY <1>1, <4>1
      <4>3. QED
        BY <4>2, Zenon
    <3>2. f[i] = Reads(X)[<<u, x>>]
      BY <1>1, <1>3, <3>1 DEF Folds
    <3>3. Reads(X)[<<u, x>>] = Read(u, x)
      BY DEF Reads
    <3>4. QED
      BY <3>1, <3>2, <3>3
  <2>3. ASSUME NEW i \in 0 .. n
        PROVE  f[i] = IF i = 0 THEN Start ELSE Read(f[i - 1], s[i])
    <3>1. i = 0 \/ i \in 1 .. n
      OBVIOUS
    <3>2. QED
      BY <2>1, <2>2, <3>1
  <2>4. QED
    BY <2>3
<1>5. f = [i \in 0 .. n |-> f[i]]
  OBVIOUS
<1>6. ScannedUpTo(f, s, n)
  BY <1>4, <1>5, Zenon DEF ScannedUpTo
<1>7. PICK w : ScannedUpTo(w, s, n) /\ Scanned(s) = w[n]
  <2> DEFINE v == CHOOSE v : v = [i \in 0 .. n |->
                     IF i = 0 THEN [text |-> <<>>, at |-> "text"] ELSE Read(v[i - 1], s[i])]
  <2>1. ScannedUpTo(v, s, n)
    BY <1>6, Zenon DEF ScannedUpTo, Start
  <2>2. Scanned(s) = v[n]
    BY <1>1, Zenon DEF Scanned
  <2> HIDE DEF v
  <2>3. QED
    BY <2>1, <2>2
<1>8. w[n] = f[n]
  <2>1. \A i \in 0 .. n : w[i] = IF i = 0 THEN Start ELSE Read(w[i - 1], s[i])
    BY <1>7 DEF ScannedUpTo
  <2>2. 0 \in 0 .. n /\ n \in 0 .. n /\ \A i \in 1 .. n : i \in 0 .. n /\ i # 0
    OBVIOUS
  <2>3. GoesAlong(w, f, n)
    BY <1>4, <2>1, <2>2 DEF GoesAlong
  <2>4. SameTo(w, f, n)
    BY <2>3, Alike
  <2>5. QED
    BY <2>2, <2>4 DEF SameTo
<1>9. f[n] \in States(X)
  OBVIOUS
<1>10. QED
  BY <1>1, <1>3, <1>7, <1>8, <1>9 DEF IsFold

LEMMA ScanEmpty == Scanned(<<>>) = Start
<1>1. <<>> \in Seq(Controlled)
  OBVIOUS
<1>2. IsFold(Scanned(<<>>), <<>>, Start, Reads(Controlled))
  BY <1>1, ScanIsFold
<1>3. QED
  BY <1>2, FoldEmpty

\* One character more.
ReadsOn(s, x) == Scanned(Append(s, x)) = Read(Scanned(s), x)
LEMMA ScanAppend ==
    ASSUME NEW X, NEW s \in Seq(X), NEW x \in X, Controlled \subseteq X
    PROVE  ReadsOn(s, x)
<1>1. PICK t \in Seq(X) : t = Append(s, x)
  <2>1. Append(s, x) \in Seq(X)
    OBVIOUS
  <2>2. QED
    BY <2>1, Zenon
<1>2. PICK u \in States(X) : u = Scanned(s) /\ IsFold(u, s, Start, Reads(X))
  BY ScanIsFold
<1>3. PICK v : v = Scanned(t) /\ IsFold(v, t, Start, Reads(X))
  BY ScanIsFold
<1>4. v = Reads(X)[<<u, x>>]
  BY <1>1, <1>2, <1>3, FoldAppend
<1>5. Reads(X)[<<u, x>>] = Read(u, x)
  BY DEF Reads
<1>6. QED
  BY <1>1, <1>2, <1>3, <1>4, <1>5 DEF ReadsOn

\* What is in a filtered sequence, and where filtering changes nothing.
LEMMA WithinRange ==
    ASSUME NEW X, NEW S, NEW s \in Seq(X)
    PROVE  Within(s, S) \in Seq(X) /\ Range(Within(s, S)) = Range(s) \cap S
<1> DEFINE P == {t \in Seq(X) : Within(t, S) \in Seq(X) /\ Range(Within(t, S)) = Range(t) \cap S}
<1>1. <<>> \in P
  <2>1. <<>> \in Seq(X) /\ Range(<<>>) = {}
    BY DEF Range
  <2>2. QED
    BY <2>1, WithinEmpty
<1>2. ASSUME NEW t \in Seq(X), NEW x \in X, t \in P
      PROVE  Append(t, x) \in P
  <2>1. PICK u : u = Within(t, S)
    OBVIOUS
  <2>2. u \in Seq(X) /\ Range(u) = Range(t) \cap S
    BY <1>2, <2>1
  <2>3. Within(Append(t, x), S) = IF x \in S THEN Append(u, x) ELSE u
    <3>1. Passes(t, x, S)
      BY WithinAppend
    <3>2. QED
      BY <2>1, <3>1 DEF Passes
  <2>4. Range(Append(t, x)) = Range(t) \cup {x} /\ Range(Append(u, x)) = Range(u) \cup {x}
    BY <2>2, RangeAppend
  <2>5. Append(t, x) \in Seq(X) /\ Append(u, x) \in Seq(X)
    BY <2>2
  <2>6. Within(Append(t, x), S) \in Seq(X)
    BY <2>2, <2>3, <2>5
  <2>7. Range(Within(Append(t, x), S)) = Range(Append(t, x)) \cap S
    <3>1. CASE x \in S
      BY <2>2, <2>3, <2>4, <3>1, Zenon
    <3>2. CASE x \notin S
      <4>1. (Range(t) \cup {x}) \cap S = Range(t) \cap S
        BY <3>2
      <4>2. QED
        BY <2>2, <2>3, <2>4, <3>2, <4>1
    <3>3. QED
      BY <3>1, <3>2
  <2>8. QED
    BY <2>5, <2>6, <2>7
<1>3. Seq(X) \subseteq P
  <2> HIDE DEF P
  <2> QED
    BY <1>1, <1>2, AllSequences
<1>4. QED
  BY <1>3

LEMMA WithinAll ==
    ASSUME NEW X, NEW S, NEW s \in Seq(X), Range(s) \subseteq S
    PROVE  Within(s, S) = s
<1> DEFINE P == {t \in Seq(X) : Range(t) \subseteq S => Within(t, S) = t}
<1>1. <<>> \in P
  BY WithinEmpty
<1>2. ASSUME NEW t \in Seq(X), NEW x \in X, t \in P
      PROVE  Append(t, x) \in P
  <2>1. Range(Append(t, x)) = Range(t) \cup {x}
    BY RangeAppend
  <2>2. Append(t, x) \in Seq(X)
    OBVIOUS
  <2>3. Passes(t, x, S)
    BY WithinAppend
  <2>4. QED
    BY <1>2, <2>1, <2>2, <2>3 DEF Passes
<1>3. Seq(X) \subseteq P
  <2> HIDE DEF P
  <2> QED
    BY <1>1, <1>2, AllSequences
<1>4. QED
  BY <1>3

LEMMA WithinNone ==
    ASSUME NEW X, NEW S, NEW s \in Seq(X), Range(s) \cap S = {}
    PROVE  Within(s, S) = <<>>
<1> DEFINE P == {t \in Seq(X) : Range(t) \cap S = {} => Within(t, S) = <<>>}
<1>1. <<>> \in P
  BY WithinEmpty
<1>2. ASSUME NEW t \in Seq(X), NEW x \in X, t \in P
      PROVE  Append(t, x) \in P
  <2>1. Range(Append(t, x)) = Range(t) \cup {x}
    BY RangeAppend
  <2>2. Append(t, x) \in Seq(X)
    OBVIOUS
  <2>3. Passes(t, x, S)
    BY WithinAppend
  <2>4. QED
    BY <1>2, <2>1, <2>2, <2>3 DEF Passes
<1>3. Seq(X) \subseteq P
  <2> HIDE DEF P
  <2> QED
    BY <1>1, <1>2, AllSequences
<1>4. QED
  BY <1>3

LEMMA WithinConcat ==
    ASSUME NEW X, NEW S, NEW s \in Seq(X), NEW t \in Seq(X)
    PROVE  Within(s \o t, S) = Within(s, S) \o Within(t, S)
<1> DEFINE P == {u \in Seq(X) : Within(s \o u, S) = Within(s, S) \o Within(u, S)}
<1>0. PICK a \in Seq(X) : a = Within(s, S)
  <2>1. Within(s, S) \in Seq(X)
    BY WithinRange
  <2>2. QED
    BY <2>1, Zenon
<1>1. <<>> \in P
  <2>1. s \o <<>> = s /\ a \o <<>> = a /\ <<>> \in Seq(X)
    OBVIOUS
  <2>2. QED
    BY <1>0, <2>1, WithinEmpty
<1>2. ASSUME NEW u \in Seq(X), NEW x \in X, u \in P
      PROVE  Append(u, x) \in P
  <2>1. PICK b \in Seq(X) : b = Within(u, S)
    <3>1. Within(u, S) \in Seq(X)
      BY WithinRange
    <3>2. QED
      BY <3>1, Zenon
  <2>2. PICK c \in Seq(X) : c = s \o u
    <3>1. s \o u \in Seq(X)
      OBVIOUS
    <3>2. QED
      BY <3>1, Zenon
  <2>3. s \o Append(u, x) = Append(c, x) /\ a \o Append(b, x) = Append(a \o b, x)
    BY <2>2
  <2>4. Within(c, S) = a \o b
    BY <1>0, <1>2, <2>1, <2>2
  <2>5. Passes(c, x, S) /\ Passes(u, x, S)
    BY WithinAppend
  <2>6. /\ Within(Append(c, x), S) = IF x \in S THEN Append(a \o b, x) ELSE a \o b
        /\ Within(Append(u, x), S) = IF x \in S THEN Append(b, x) ELSE b
    BY <2>1, <2>4, <2>5 DEF Passes
  <2>7. Within(s \o Append(u, x), S) = Within(s, S) \o Within(Append(u, x), S)
    BY <1>0, <2>3, <2>6
  <2>8. Append(u, x) \in Seq(X)
    OBVIOUS
  <2>9. QED
    BY <2>7, <2>8
<1>3. Seq(X) \subseteq P
  <2> HIDE DEF P
  <2> QED
    BY <1>1, <1>2, AllSequences
<1>4. QED
  BY <1>3

\* Range that are there once stay so.
LEMMA WithinInjective ==
    ASSUME NEW X, NEW S, NEW s \in Seq(X), IsInjective(s)
    PROVE  IsInjective(Within(s, S))
<1> DEFINE P == {t \in Seq(X) : IsInjective(t) => IsInjective(Within(t, S))}
<1>1. <<>> \in P
  BY WithinEmpty DEF IsInjective
<1>2. ASSUME NEW t \in Seq(X), NEW x \in X, t \in P
      PROVE  Append(t, x) \in P
  <2>1. SUFFICES ASSUME IsInjective(Append(t, x)) PROVE IsInjective(Within(Append(t, x), S))
    OBVIOUS
  <2>2. PICK u \in Seq(X) : u = Within(t, S) /\ Range(u) = Range(t) \cap S
    <3>1. Within(t, S) \in Seq(X) /\ Range(Within(t, S)) = Range(t) \cap S
      BY WithinRange
    <3>2. QED
      BY <3>1, Zenon
  <2>3. Within(Append(t, x), S) = IF x \in S THEN Append(u, x) ELSE u
    <3>1. Passes(t, x, S)
      BY WithinAppend
    <3>2. QED
      BY <2>2, <3>1 DEF Passes
  <2>4. IsInjective(t) /\ x \notin Range(t)
    <3>1. /\ DOMAIN Append(t, x) = 1 .. Len(t) + 1 /\ DOMAIN t = 1 .. Len(t) /\ Len(t) \in Nat
          /\ \A i \in 1 .. Len(t) : Append(t, x)[i] = t[i]
          /\ Append(t, x)[Len(t) + 1] = x
      OBVIOUS
    <3>2. \A i, j \in 1 .. Len(t) + 1 : Append(t, x)[i] = Append(t, x)[j] => i = j
      BY <2>1, <3>1 DEF IsInjective
    <3>3. IsInjective(t)
      BY <3>1, <3>2 DEF IsInjective
    <3>4. \A i \in DOMAIN t : t[i] # x
      BY <3>1, <3>2
    <3>5. QED
      BY <3>3, <3>4 DEF Range
  <2>5. IsInjective(u) /\ x \notin Range(u)
    BY <1>2, <2>2, <2>4
  <2>6. IsInjective(Append(u, x))
    <3>1. /\ DOMAIN Append(u, x) = 1 .. Len(u) + 1 /\ DOMAIN u = 1 .. Len(u) /\ Len(u) \in Nat
          /\ \A i \in 1 .. Len(u) : Append(u, x)[i] = u[i]
          /\ Append(u, x)[Len(u) + 1] = x
      OBVIOUS
    <3>2. QED
      BY <2>5, <3>1 DEF IsInjective, Range
  <2>7. QED
    BY <2>3, <2>5, <2>6
<1>3. Seq(X) \subseteq P
  <2> HIDE DEF P
  <2> QED
    BY <1>1, <1>2, AllSequences
<1>4. QED
  BY <1>3

LEMMA ConcatInjective ==
    ASSUME NEW X, NEW s \in Seq(X), NEW t \in Seq(X), IsInjective(s), IsInjective(t),
           Range(s) \cap Range(t) = {}
    PROVE  IsInjective(s \o t)
<1>1. PICK u : u = s \o t
  OBVIOUS
<1>2. /\ DOMAIN u = 1 .. Len(s) + Len(t) /\ DOMAIN s = 1 .. Len(s) /\ DOMAIN t = 1 .. Len(t)
      /\ Len(s) \in Nat /\ Len(t) \in Nat
  BY <1>1
<1>3. \A i \in 1 .. Len(s) + Len(t) : u[i] = IF i <= Len(s) THEN s[i] ELSE t[i - Len(s)]
  BY <1>1, ConcatProperties
<1>4. ASSUME NEW i \in DOMAIN u, NEW j \in DOMAIN u, u[i] = u[j] PROVE i = j
  <2>1. CASE i <= Len(s) /\ j <= Len(s)
    <3>1. i \in DOMAIN s /\ j \in DOMAIN s /\ s[i] = s[j]
      BY <1>2, <1>3, <1>4, <2>1
    <3>2. QED
      BY <3>1 DEF IsInjective
  <2>2. CASE ~(i <= Len(s)) /\ ~(j <= Len(s))
    <3>1. /\ i - Len(s) \in DOMAIN t /\ j - Len(s) \in DOMAIN t
          /\ t[i - Len(s)] = t[j - Len(s)]
      BY <1>2, <1>3, <1>4, <2>2
    <3>2. i - Len(s) = j - Len(s)
      BY <3>1 DEF IsInjective
    <3>3. QED
      BY <1>2, <3>2
  <2>3. CASE i <= Len(s) /\ ~(j <= Len(s))
    <3>1. i \in DOMAIN s /\ j - Len(s) \in DOMAIN t /\ s[i] = t[j - Len(s)]
      BY <1>2, <1>3, <1>4, <2>3
    <3>2. QED
      BY <3>1 DEF Range
  <2>4. CASE ~(i <= Len(s)) /\ j <= Len(s)
    <3>1. j \in DOMAIN s /\ i - Len(s) \in DOMAIN t /\ s[j] = t[i - Len(s)]
      BY <1>2, <1>3, <1>4, <2>4
    <3>2. QED
      BY <3>1 DEF Range
  <2>5. QED
    BY <2>1, <2>2, <2>3, <2>4
<1>5. QED
  BY <1>1, <1>4 DEF IsInjective

\* One element more, put in at any place, is all that changes.
Spliced(o, k, e) == SubSeq(o, 1, k) \o <<e>> \o SubSeq(o, k + 1, Len(o))
Inserting(t, o, e, S) ==
    /\ Range(t) = Range(o) \cup {e}
    /\ e \notin S => Within(t, S) = Within(o, S)
LEMMA WithinInserted ==
    ASSUME NEW X, NEW o \in Seq(X), NEW e \in X, NEW k \in 0 .. Len(o), NEW S
    PROVE  Spliced(o, k, e) \in Seq(X) /\ Inserting(Spliced(o, k, e), o, e, S)
<1>1. PICK n \in Nat : n = Len(o) /\ k \in Nat /\ k <= n
  OBVIOUS
<1>2. PICK a \in Seq(X) : a = SubSeq(o, 1, k)
  <2>1. SubSeq(o, 1, k) \in Seq(X)
    OBVIOUS
  <2>2. QED
    BY <2>1, Zenon
<1>3. PICK b \in Seq(X) : b = SubSeq(o, k + 1, n)
  <2>1. SubSeq(o, k + 1, n) \in Seq(X)
    BY <1>1
  <2>2. QED
    BY <2>1, Zenon
<1>4. PICK c \in Seq(X) : c = <<e>> /\ Range(c) = {e}
  <2>1. <<e>> \in Seq(X) /\ DOMAIN <<e>> = 1 .. 1 /\ <<e>>[1] = e
    OBVIOUS
  <2>2. Range(<<e>>) = {e}
    BY <2>1 DEF Range
  <2>3. QED
    BY <2>1, <2>2, Zenon
<1>5. a \o b = o
  <2>1. a \o b = SubSeq(o, 1, n)
    <3>1. 1 \in 1 .. n + 1 /\ k \in 1 - 1 .. n /\ n \in Int
      BY <1>1
    <3>2. /\ 1 \in 1 .. Len(o) + 1 /\ k \in 1 - 1 .. Len(o) /\ Len(o) \in k .. Len(o)
      BY <1>1, <3>1
    <3>3. SubSeq(o, 1, k) \o SubSeq(o, k + 1, Len(o)) = SubSeq(o, 1, Len(o))
      BY ONLY <3>2, o \in Seq(X), ConcatAdjacentSubSeq
    <3>4. QED
      BY <1>1, <1>2, <1>3, <3>3
  <2>2. SubSeq(o, 1, n) = o
    BY <1>1, SubSeqFull
  <2>3. QED
    BY <2>1, <2>2
<1>6. PICK d \in Seq(X) : d = a \o c
  <2>1. a \o c \in Seq(X)
    OBVIOUS
  <2>2. QED
    BY <2>1, Zenon
<1>7. Range(d \o b) = Range(o) \cup {e}
  <2>1. Range(d \o b) = Range(d) \cup Range(b)
    BY RangeConcat
  <2>2. Range(d) = Range(a) \cup {e}
    <3>1. Range(a \o c) = Range(a) \cup Range(c)
      BY RangeConcat
    <3>2. QED
      BY <1>4, <1>6, <3>1
  <2>3. Range(o) = Range(a) \cup Range(b)
    BY <1>5, RangeConcat
  <2>4. QED
    BY <2>1, <2>2, <2>3
<1>8. ASSUME e \notin S
      PROVE  Within(d \o b, S) = Within(o, S)
  <2>1. Within(d \o b, S) = Within(d, S) \o Within(b, S)
    BY WithinConcat
  <2>2. Within(d, S) = Within(a, S) \o Within(c, S)
    BY <1>6, WithinConcat
  <2>3. Within(c, S) = <<>>
    BY <1>4, <1>8, WithinNone
  <2>4. Within(o, S) = Within(a, S) \o Within(b, S)
    BY <1>5, WithinConcat
  <2>5. Within(a, S) \in Seq(X)
    BY WithinRange
  <2>6. Within(a, S) \o <<>> = Within(a, S)
    BY <2>5, ConcatEmptySeq
  <2>7. QED
    BY <2>1, <2>2, <2>3, <2>4, <2>6
<1>9. d \o b \in Seq(X)
  OBVIOUS
<1>10. QED
  BY <1>1, <1>2, <1>3, <1>4, <1>6, <1>7, <1>8, <1>9, Zenon DEF Inserting, Spliced

--------------------------------------------------------------------------------
(* What is written of a string is read back.                                       *)

Specials == {"\\", "\"", "n"} \cup Controlled
Escape(x) ==
    IF x = "\\" THEN <<"\\", "\\">> ELSE IF x = "\"" THEN <<"\\", "\"">>
    ELSE IF x = "\n" THEN <<"\\", "n">> ELSE <<x>>

LEMMA ReplaceOne ==
    ASSUME NEW X, NEW u \in Seq(X), NEW x \in X, NEW c, NEW by \in Seq(X)
    PROVE  /\ Replace(u, c, by) \in Seq(X)
           /\ x # c => Replace(Append(u, x), c, by) = Append(Replace(u, c, by), x)
           /\ x = c => Replace(Append(u, x), c, by) = Replace(u, c, by) \o by
<1>1. PICK v \in Seq(X) : v = Replace(u, c, by)
  BY ReplaceIsFold
<1>2. Swaps(u, x, c, by)
  BY ReplaceAppend
<1>3. v \o <<x>> = Append(v, x)
  OBVIOUS
<1>4. QED
  BY <1>1, <1>2, <1>3 DEF Swaps

\* A character after the others is escaped on its own, although each of the three
\* replacements goes over what the one before put in.
EscapesOn(s, x) == Escaped(s) \o Escape(x) = Escaped(Append(s, x))
LEMMA EscapedAppend ==
    ASSUME NEW X, NEW s \in Seq(X), NEW x \in X, Specials \subseteq X
    PROVE  Escaped(s) \in Seq(X) /\ EscapesOn(s, x)
<1>1. PICK b \in X, q \in X, l \in X, n \in X : b = "\\" /\ q = "\"" /\ l = "\n" /\ n = "n"
  BY DEF Specials, Controlled
<1>2. b # q /\ b # l /\ q # l /\ n # q /\ n # l /\ n # b
  BY <1>1
<1>3. PICK bb \in Seq(X), bq \in Seq(X), bn \in Seq(X) : bb = <<b, b>> /\ bq = <<b, q>> /\ bn = <<b, n>>
  <2>1. <<b, b>> \in Seq(X) /\ <<b, q>> \in Seq(X) /\ <<b, n>> \in Seq(X)
    OBVIOUS
  <2>2. QED
    BY <2>1, Zenon
<1> DEFINE R1(t) == Replace(t, b, bb)
           R2(t) == Replace(t, q, bq)
           R3(t) == Replace(t, l, bn)
<1>4. \A t : Escaped(t) = R3(R2(R1(t)))
  BY <1>1, <1>3, Zenon DEF Escaped
<1>5. Escape(x) = IF x = b THEN bb ELSE IF x = q THEN bq ELSE IF x = l THEN bn ELSE <<x>>
  BY <1>1, <1>3, Zenon DEF Escape
<1>6. \A t \in Seq(X) : R1(t) \in Seq(X) /\ R2(t) \in Seq(X) /\ R3(t) \in Seq(X)
  BY ReplaceOne, <1>3
<1>7. \A t \in Seq(X), y \in X :
         /\ R1(Append(t, y)) = IF y = b THEN R1(t) \o bb ELSE Append(R1(t), y)
         /\ R2(Append(t, y)) = IF y = q THEN R2(t) \o bq ELSE Append(R2(t), y)
         /\ R3(Append(t, y)) = IF y = l THEN R3(t) \o bn ELSE Append(R3(t), y)
  <2> SUFFICES ASSUME NEW t \in Seq(X), NEW y \in X
               PROVE  /\ R1(Append(t, y)) = IF y = b THEN R1(t) \o bb ELSE Append(R1(t), y)
                      /\ R2(Append(t, y)) = IF y = q THEN R2(t) \o bq ELSE Append(R2(t), y)
                      /\ R3(Append(t, y)) = IF y = l THEN R3(t) \o bn ELSE Append(R3(t), y)
    OBVIOUS
  <2>1. R1(Append(t, y)) = IF y = b THEN R1(t) \o bb ELSE Append(R1(t), y)
    BY ReplaceOne
  <2>2. R2(Append(t, y)) = IF y = q THEN R2(t) \o bq ELSE Append(R2(t), y)
    BY ReplaceOne
  <2>3. R3(Append(t, y)) = IF y = l THEN R3(t) \o bn ELSE Append(R3(t), y)
    BY ReplaceOne
  <2>4. QED
    BY <2>1, <2>2, <2>3
<1> HIDE DEF R1, R2, R3
<1>8. \A t \in Seq(X) : /\ t \o bb = Append(Append(t, b), b) /\ t \o bq = Append(Append(t, b), q)
                        /\ t \o bn = Append(Append(t, b), n)
                        /\ \A y \in X : Append(t, y) \in Seq(X) /\ t \o <<y>> = Append(t, y)
  BY <1>3
<1>9. PICK u \in Seq(X), v \in Seq(X), w \in Seq(X) : u = R1(s) /\ v = R2(u) /\ w = R3(v)
  BY <1>6
<1>10. Escaped(s) = w
  BY <1>4, <1>9
<1>11. R3(R2(R1(Append(s, x)))) = w \o Escape(x)
  <2>1. CASE x = b
    <3>1. R1(Append(s, x)) = Append(Append(u, b), b)
      BY <1>7, <1>8, <1>9, <2>1
    <3>2. R2(Append(Append(u, b), b)) = Append(Append(v, b), b)
      <4>1. Append(u, b) \in Seq(X) /\ R2(Append(u, b)) = Append(v, b)
        BY <1>2, <1>7, <1>8, <1>9
      <4>2. QED
        BY <1>2, <1>7, <4>1
    <3>3. R3(Append(Append(v, b), b)) = Append(Append(w, b), b)
      <4>1. Append(v, b) \in Seq(X) /\ R3(Append(v, b)) = Append(w, b)
        BY <1>2, <1>7, <1>8, <1>9
      <4>2. QED
        BY <1>2, <1>7, <4>1
    <3>4. QED
      BY <1>5, <1>8, <2>1, <3>1, <3>2, <3>3
  <2>2. CASE x = q
    <3>1. R1(Append(s, x)) = Append(u, q)
      BY <1>2, <1>7, <1>9, <2>2
    <3>2. R2(Append(u, q)) = Append(Append(v, b), q)
      BY <1>7, <1>8, <1>9
    <3>3. R3(Append(Append(v, b), q)) = Append(Append(w, b), q)
      <4>1. Append(v, b) \in Seq(X) /\ R3(Append(v, b)) = Append(w, b)
        BY <1>2, <1>7, <1>8, <1>9
      <4>2. QED
        BY <1>2, <1>7, <4>1
    <3>4. QED
      BY <1>2, <1>5, <1>8, <2>2, <3>1, <3>2, <3>3
  <2>3. CASE x = l
    <3>1. R1(Append(s, x)) = Append(u, l)
      BY <1>2, <1>7, <1>9, <2>3
    <3>2. R2(Append(u, l)) = Append(v, l)
      BY <1>2, <1>7, <1>9
    <3>3. R3(Append(v, l)) = Append(Append(w, b), n)
      BY <1>7, <1>8, <1>9
    <3>4. QED
      BY <1>2, <1>5, <1>8, <2>3, <3>1, <3>2, <3>3
  <2>4. CASE x # b /\ x # q /\ x # l
    <3>1. R1(Append(s, x)) = Append(u, x)
      BY <1>7, <1>9, <2>4
    <3>2. R2(Append(u, x)) = Append(v, x)
      BY <1>7, <1>9, <2>4
    <3>3. R3(Append(v, x)) = Append(w, x)
      BY <1>7, <1>9, <2>4
    <3>4. QED
      BY <1>5, <1>8, <2>4, <3>1, <3>2, <3>3
  <2>5. QED
    BY <2>1, <2>2, <2>3, <2>4
<1>12. QED
  BY <1>4, <1>10, <1>11 DEF EscapesOn

\* An escaped character is read as itself, unless it is a control character.
LEMMA EscapeIsRead ==
    ASSUME NEW X, NEW u \in Seq(X), NEW x \in X, Specials \subseteq X,
           NEW t \in Seq(X), Scanned(u) = [text |-> t, at |-> "text"]
    PROVE  \/ Scanned(u \o Escape(x)) = [text |-> Append(t, x), at |-> "text"]
           \/ Scanned(u \o Escape(x)).at = "refused" /\ x \in Controls \ {"\n"}
<1>1. PICK b \in X, q \in X, l \in X, n \in X : b = "\\" /\ q = "\"" /\ l = "\n" /\ n = "n"
  BY DEF Specials, Controlled
<1>2. b # q /\ b # l /\ q # l /\ n # q /\ n # l /\ n # b
  BY <1>1
<1>3. Controlled \subseteq X
  BY DEF Specials
<1>4. ASSUME NEW y \in X, NEW z \in X, Escape(x) = <<b, y>>,
             Read([text |-> t, at |-> "escape"], y) = [text |-> Append(t, z), at |-> "text"]
      PROVE  Scanned(u \o Escape(x)) = [text |-> Append(t, z), at |-> "text"]
  <2>1. PICK v \in Seq(X) : v = Append(u, b)
    <3>1. Append(u, b) \in Seq(X)
      OBVIOUS
    <3>2. QED
      BY <3>1, Zenon
  <2>2. u \o Escape(x) = Append(v, y)
    BY <1>4, <2>1
  <2>3. ReadsOn(u, b) /\ ReadsOn(v, y)
    BY <1>3, ScanAppend
  <2>4. Scanned(v) = [text |-> t, at |-> "escape"]
    <3>1. Read([text |-> t, at |-> "text"], b) = [text |-> t, at |-> "escape"]
      BY <1>1, <1>2 DEF Read, Controls
    <3>2. QED
      BY <2>1, <2>3, <3>1 DEF ReadsOn
  <2>5. Scanned(Append(v, y)) = [text |-> Append(t, z), at |-> "text"]
    BY <1>4, <2>3, <2>4 DEF ReadsOn
  <2>6. QED
    BY <2>2, <2>5
<1>5. CASE x = b \/ x = q
  <2>1. Escape(x) = <<b, x>>
    BY <1>1, <1>2, <1>5 DEF Escape
  <2>2. Read([text |-> t, at |-> "escape"], x) = [text |-> Append(t, x), at |-> "text"]
    BY <1>1, <1>5 DEF Read, Escapes
  <2>3. QED
    BY <1>4, <2>1, <2>2
<1>6. CASE x = l
  <2>1. Escape(x) = <<b, n>>
    BY <1>1, <1>2, <1>6 DEF Escape
  <2>2. Read([text |-> t, at |-> "escape"], n) = [text |-> Append(t, x), at |-> "text"]
    BY <1>1, <1>6 DEF Read, Escapes
  <2>3. QED
    BY <1>4, <2>1, <2>2
<1>7. CASE x # b /\ x # q /\ x # l
  <2>1. Escape(x) = <<x>>
    BY <1>1, <1>7 DEF Escape
  <2>2. u \o Escape(x) = Append(u, x)
    BY <2>1
  <2>3. Scanned(Append(u, x)) = Read([text |-> t, at |-> "text"], x)
    BY <1>3, ScanAppend DEF ReadsOn
  <2>4. CASE x \in Controls
    <3>1. Read([text |-> t, at |-> "text"], x).at = "refused"
      BY <2>4 DEF Read
    <3>2. QED
      BY <1>1, <1>7, <2>2, <2>3, <2>4, <3>1
  <2>5. CASE x \notin Controls
    <3>1. Read([text |-> t, at |-> "text"], x) = [text |-> Append(t, x), at |-> "text"]
      BY <1>1, <1>7, <2>5 DEF Read
    <3>2. QED
      BY <2>2, <2>3, <3>1
  <2>6. QED
    BY <2>4, <2>5
<1>8. QED
  BY <1>5, <1>6, <1>7

\* Nothing after it makes a refused string good.
LEMMA RefusedStays ==
    ASSUME NEW X, NEW u \in Seq(X), NEW x \in X, Specials \subseteq X, Scanned(u).at = "refused"
    PROVE  Scanned(u \o Escape(x)).at = "refused"
<1>1. Controlled \subseteq X /\ {"\\", "\"", "n"} \subseteq X
  BY DEF Specials
<1>2. ASSUME NEW v \in Seq(X), NEW y \in X, Scanned(v).at = "refused"
      PROVE  Scanned(Append(v, y)).at = "refused"
  <2>1. ReadsOn(v, y)
    BY <1>1, ScanAppend
  <2>2. \A r : r.at = "refused" => Read(r, y).at = "refused"
    BY DEF Read
  <2>3. QED
    BY <1>2, <2>1, <2>2 DEF ReadsOn
<1>3. PICK y \in X, z \in X : Escape(x) \in {<<y>>, <<y, z>>}
  BY <1>1 DEF Escape
<1>4. u \o <<y>> = Append(u, y) /\ u \o <<y, z>> = Append(Append(u, y), z) /\ Append(u, y) \in Seq(X)
  OBVIOUS
<1>5. QED
  BY <1>2, <1>3, <1>4

LEMMA EscapedIsRead ==
    ASSUME NEW X, Specials \subseteq X, NEW s \in Seq(X)
    PROVE  \/ Scanned(Escaped(s)) = [text |-> s, at |-> "text"]
           \/ Scanned(Escaped(s)).at = "refused" /\ ~Legal(s)
<1> DEFINE P == {t \in Seq(X) : \/ Scanned(Escaped(t)) = [text |-> t, at |-> "text"]
                                \/ Scanned(Escaped(t)).at = "refused" /\ ~Legal(t)}
<1>1. <<>> \in P
  <2>1. <<"\\", "\\">> \in Seq(X) /\ <<"\\", "\"">> \in Seq(X) /\ <<"\\", "n">> \in Seq(X)
    <3>1. PICK b \in X, q \in X, n \in X : b = "\\" /\ q = "\"" /\ n = "n"
      BY DEF Specials
    <3>2. <<b, b>> \in Seq(X) /\ <<b, q>> \in Seq(X) /\ <<b, n>> \in Seq(X)
      OBVIOUS
    <3>3. QED
      BY <3>1, <3>2, Zenon
  <2>2. Escaped(<<>>) = <<>>
    BY <2>1, ReplaceEmpty DEF Escaped
  <2>3. QED
    BY <2>2, ScanEmpty DEF Start
<1>2. ASSUME NEW t \in Seq(X), NEW x \in X, t \in P
      PROVE  Append(t, x) \in P
  <2>1. PICK u \in Seq(X) : u = Escaped(t) /\ EscapesOn(t, x)
    BY EscapedAppend
  <2>2. PICK a \in Seq(X) : a = Append(t, x)
    <3>1. Append(t, x) \in Seq(X)
      OBVIOUS
    <3>2. QED
      BY <3>1, Zenon
  <2>3. Escaped(a) = u \o Escape(x)
    BY <2>1, <2>2 DEF EscapesOn
  <2>4. /\ DOMAIN a = 1 .. Len(t) + 1 /\ a[Len(t) + 1] = x
        /\ \A i \in DOMAIN t : i \in DOMAIN a /\ a[i] = t[i]
    BY <2>2
  <2>5. ~Legal(t) \/ x \in Controls \ {"\n"} => ~Legal(a)
    BY <2>4 DEF Legal
  <2>6. CASE Scanned(u) = [text |-> t, at |-> "text"]
    BY <2>2, <2>3, <2>5, <2>6, EscapeIsRead
  <2>7. CASE Scanned(u).at = "refused" /\ ~Legal(t)
    BY <2>2, <2>3, <2>5, <2>7, RefusedStays
  <2>8. QED
    BY <1>2, <2>1, <2>2, <2>6, <2>7
<1>3. Seq(X) \subseteq P
  <2> HIDE DEF P
  <2> QED
    BY <1>1, <1>2, AllSequences
<1>4. QED
  BY <1>3

\* What a file brings back of a string is the string, whatever quotes, backslashes and
\* newlines it holds; and the file is read unless a control character is in it.
LEMMA StringsSurvive ==
    ASSUME NEW X, NEW s \in Seq(X)
    PROVE  /\ Readable(TomlString(s)) => Parsed(TomlString(s)) = s
           /\ Legal(s) => Readable(TomlString(s))
<1>1. PICK Y : Y = X \cup Specials
  OBVIOUS
<1>2. s \in Seq(Y)
  BY <1>1
<1>3. Specials \subseteq Y
  BY <1>1
<1>4. \/ Scanned(Escaped(s)) = [text |-> s, at |-> "text"]
      \/ Scanned(Escaped(s)).at = "refused" /\ ~Legal(s)
  BY <1>2, <1>3, EscapedIsRead
<1>5. CASE {"'", "\n"} \cap {s[i] : i \in DOMAIN s} = {}
  <2>1. TomlString(s) = [quoted |-> "'", text |-> s]
    BY <1>5 DEF TomlString
  <2>2. Legal(s) => (Controls \cup {"'"}) \cap {s[i] : i \in DOMAIN s} = {}
    BY <1>5 DEF Legal
  <2>3. QED
    BY <2>1, <2>2 DEF Readable, Parsed
<1>6. CASE ~({"'", "\n"} \cap {s[i] : i \in DOMAIN s} = {})
  <2>1. TomlString(s) = [quoted |-> "\"", text |-> Escaped(s)]
    BY <1>6, Zenon DEF TomlString
  <2>2. PICK r : r = Scanned(Escaped(s))
    OBVIOUS
  <2>3. /\ Readable([quoted |-> "\"", text |-> Escaped(s)]) <=> r.at = "text"
        /\ Parsed([quoted |-> "\"", text |-> Escaped(s)]) = r.text
    BY <2>2 DEF Readable, Parsed
  <2>4. /\ r.at = "text" => r.text = s
        /\ Legal(s) => r.at = "text"
    BY <1>4, <2>2
  <2>5. PICK toml : toml = TomlString(s) /\ toml = [quoted |-> "\"", text |-> Escaped(s)]
    BY <2>1, Zenon
  <2>6. (Readable(toml) <=> r.at = "text") /\ Parsed(toml) = r.text
    BY <2>3, <2>5
  <2>7. QED
    BY <2>4, <2>5, <2>6
<1>7. QED
  BY <1>5, <1>6

--------------------------------------------------------------------------------
(* Sums over finite sets, as FiniteSetsExt's MapThenSumSet makes them.             *)

AnyOf(T) == CHOOSE x \in T : TRUE
SumOver(S, f) ==
    LET sum[T \in SUBSET S] == IF T = {} THEN 0 ELSE f[AnyOf(T)] + sum[T \ {AnyOf(T)}]
    IN  sum[S]

\* A function that sums up every set of D.
Adds(g, D, f) == \A T \in D : g[T] = IF T = {} THEN 0 ELSE f[AnyOf(T)] + g[T \ {AnyOf(T)}]
Counts(S, f) == IsFiniteSet(S) /\ \A x \in S : f[x] \in Nat

LEMMA AnyIsIn == ASSUME NEW T, T # {} PROVE AnyOf(T) \in T
BY DEF AnyOf

\* What is left of a set of n + 1 elements when one is taken has n.
LEMMA OneLess ==
    ASSUME NEW T, IsFiniteSet(T), NEW x \in T, NEW n \in Nat, Cardinality(T) <= n + 1
    PROVE  /\ IsFiniteSet(T \ {x}) /\ Cardinality(T \ {x}) <= n
           /\ Cardinality(T) = n + 1 => Cardinality(T \ {x}) = n
<1>1. Cardinality(T) \in Nat /\ Cardinality(T \ {x}) = Cardinality(T) - 1 /\ IsFiniteSet(T \ {x})
  BY FS_RemoveElement, FS_CardinalityType
<1>2. QED
  BY <1>1

LEMMA SumsExist ==
    ASSUME NEW S, NEW f, Counts(S, f)
    PROVE  \E g \in [SUBSET S -> Nat] : Adds(g, SUBSET S, f)
<1> DEFINE Small(n) == {T \in SUBSET S : Cardinality(T) <= n}
           N == {n \in Nat : \E g \in [Small(n) -> Nat] : Adds(g, Small(n), f)}
<1>0. \A T \in SUBSET S : IsFiniteSet(T) /\ Cardinality(T) \in Nat
  BY FS_Subset, FS_CardinalityType DEF Counts
<1>1. 0 \in N
  <2>1. \A T \in Small(0) : T = {}
    <3>1. \A T \in Small(0) : Cardinality(T) = 0
      BY <1>0
    <3>2. QED
      BY <1>0, <3>1, FS_EmptySet
  <2>2. Adds([T \in Small(0) |-> 0], Small(0), f)
    BY <2>1 DEF Adds
  <2>3. [T \in Small(0) |-> 0] \in [Small(0) -> Nat]
    OBVIOUS
  <2> HIDE DEF Small
  <2>4. QED
    BY <2>2, <2>3
<1>2. ASSUME NEW n \in Nat, n \in N
      PROVE  n + 1 \in N
  <2>1. PICK g \in [Small(n) -> Nat] : Adds(g, Small(n), f)
    BY <1>2
  <2>2. PICK h : h = [T \in Small(n + 1) |->
                        IF T = {} THEN 0 ELSE f[AnyOf(T)] + g[T \ {AnyOf(T)}]]
    OBVIOUS
  <2>3. \A T \in Small(n + 1) : T # {} => AnyOf(T) \in S /\ T \ {AnyOf(T)} \in Small(n)
    <3> SUFFICES ASSUME NEW T \in Small(n + 1), T # {}
                 PROVE  AnyOf(T) \in S /\ T \ {AnyOf(T)} \in Small(n)
      OBVIOUS
    <3>1. AnyOf(T) \in T /\ IsFiniteSet(T) /\ Cardinality(T) <= n + 1
      BY <1>0, AnyIsIn
    <3>2. Cardinality(T \ {AnyOf(T)}) <= n
      BY <3>1, OneLess
    <3>3. QED
      BY <3>1, <3>2
  <2>4. \A T \in Small(n) : T \in Small(n + 1)
    BY <1>0
  <2> HIDE DEF Small
  <2>5. \A T \in Small(n) : h[T] = g[T]
    BY <2>1, <2>2, <2>4 DEF Adds
  <2>6. Adds(h, Small(n + 1), f)
    <3> SUFFICES ASSUME NEW T \in Small(n + 1)
                 PROVE  h[T] = IF T = {} THEN 0 ELSE f[AnyOf(T)] + h[T \ {AnyOf(T)}]
      BY DEF Adds
    <3>1. CASE T = {}
      BY <2>2, <3>1
    <3>2. CASE T # {}
      <4>1. h[T] = f[AnyOf(T)] + g[T \ {AnyOf(T)}]
        BY <2>2, <3>2
      <4>2. h[T \ {AnyOf(T)}] = g[T \ {AnyOf(T)}]
        BY <2>3, <2>5, <3>2
      <4>3. QED
        BY <3>2, <4>1, <4>2
    <3>3. QED
      BY <3>1, <3>2
  <2>7. h \in [Small(n + 1) -> Nat]
    <3>1. ASSUME NEW T \in Small(n + 1)
          PROVE  (IF T = {} THEN 0 ELSE f[AnyOf(T)] + g[T \ {AnyOf(T)}]) \in Nat
      <4>1. CASE T = {}
        BY <4>1
      <4>2. CASE T # {}
        <5>1. f[AnyOf(T)] \in Nat /\ g[T \ {AnyOf(T)}] \in Nat
          BY <2>3, <4>2 DEF Counts
        <5>2. QED
          BY <4>2, <5>1
      <4>3. QED
        BY <4>1, <4>2
    <3>2. QED
      BY <2>2, <3>1
  <2>8. QED
    BY <2>6, <2>7
<1>3. Nat \subseteq N
  <2> HIDE DEF N
  <2> QED
    BY <1>1, <1>2, AllNumbers
<1>4. PICK n \in Nat : n = Cardinality(S)
  BY FS_CardinalityType DEF Counts
<1>5. Small(n) = SUBSET S
  <2>1. \A T \in SUBSET S : Cardinality(T) <= n
    BY <1>4, FS_Subset DEF Counts
  <2>2. QED
    BY <2>1
<1>6. QED
  <2>1. \E g \in [Small(n) -> Nat] : Adds(g, Small(n), f)
    BY <1>3
  <2> HIDE DEF Small
  <2>2. QED
    BY <1>5, <2>1

LEMMA SumsAgree ==
    ASSUME NEW S, NEW f, Counts(S, f), NEW R \in SUBSET S, NEW g, NEW h,
           Adds(g, SUBSET R, f), Adds(h, SUBSET S, f)
    PROVE  g[R] = h[R]
<1> DEFINE N == {n \in Nat : \A T \in SUBSET R : Cardinality(T) = n => g[T] = h[T]}
<1>0. \A T \in SUBSET R : IsFiniteSet(T) /\ Cardinality(T) \in Nat
  BY FS_Subset, FS_CardinalityType DEF Counts
<1>1. 0 \in N
  <2>1. \A T \in SUBSET R : Cardinality(T) = 0 => T = {}
    BY <1>0, FS_EmptySet
  <2>2. g[{}] = 0 /\ h[{}] = 0
    BY DEF Adds
  <2>3. QED
    BY <2>1, <2>2
<1>2. ASSUME NEW n \in Nat, n \in N
      PROVE  n + 1 \in N
  <2> SUFFICES ASSUME NEW T \in SUBSET R, Cardinality(T) = n + 1 PROVE g[T] = h[T]
    OBVIOUS
  <2>1. T # {}
    BY FS_EmptySet
  <2>2. PICK U \in SUBSET R : U = T \ {AnyOf(T)}
    OBVIOUS
  <2>3. Cardinality(U) = n
    BY <1>0, <2>1, <2>2, AnyIsIn, OneLess
  <2>4. g[U] = h[U]
    BY <1>2, <2>3
  <2>5. g[T] = f[AnyOf(T)] + g[U] /\ h[T] = f[AnyOf(T)] + h[U]
    BY <2>1, <2>2 DEF Adds
  <2>6. QED
    BY <2>4, <2>5
<1>3. Nat \subseteq N
  <2> HIDE DEF N
  <2> QED
    BY <1>1, <1>2, AllNumbers
<1>4. QED
  BY <1>0, <1>3

\* The sum of a set is what any function that adds up its subsets has of it.
LEMMA SumIs ==
    ASSUME NEW S, NEW f, Counts(S, f), NEW R \in SUBSET S, NEW h, Adds(h, SUBSET S, f)
    PROVE  SumOver(R, f) = h[R]
<1>1. Counts(R, f)
  BY FS_Subset DEF Counts
<1> DEFINE Loop(v) ==
             v = [T \in SUBSET R |-> IF T = {} THEN 0 ELSE f[AnyOf(T)] + v[T \ {AnyOf(T)}]]
<1>2. \E v : Loop(v)
  <2>1. PICK g \in [SUBSET R -> Nat] : Adds(g, SUBSET R, f)
    BY <1>1, SumsExist
  <2>2. g = [T \in SUBSET R |-> g[T]]
    OBVIOUS
  <2>3. Loop(g)
    BY <2>1, <2>2, Zenon DEF Adds
  <2>4. QED
    BY <2>3
<1>3. PICK v : Loop(v) /\ SumOver(R, f) = v[R]
  <2> DEFINE w == CHOOSE v : Loop(v)
  <2>1. Loop(w)
    BY <1>2, Zenon
  <2>2. SumOver(R, f) = w[R]
    BY Zenon DEF SumOver
  <2> HIDE DEF w, Loop
  <2>3. QED
    BY <2>1, <2>2
<1>4. Adds(v, SUBSET R, f)
  BY <1>3 DEF Adds
<1> HIDE DEF Loop
<1>5. v[R] = h[R]
  BY <1>4, SumsAgree
<1>6. QED
  BY <1>3, <1>5

\* Whichever element is taken first.
LEMMA SumRemove ==
    ASSUME NEW S, NEW f, Counts(S, f), NEW x \in S
    PROVE  SumOver(S, f) = f[x] + SumOver(S \ {x}, f) /\ SumOver(S, f) \in Nat
<1>1. PICK g \in [SUBSET S -> Nat] : Adds(g, SUBSET S, f)
  BY SumsExist
<1> DEFINE Any(T) == \A y \in T : g[T] = f[y] + g[T \ {y}]
           N == {n \in Nat : \A T \in SUBSET S : Cardinality(T) = n => Any(T)}
<1>0. \A T \in SUBSET S : IsFiniteSet(T) /\ Cardinality(T) \in Nat
  BY FS_Subset, FS_CardinalityType DEF Counts
<1>2. 0 \in N
  <2>1. \A T \in SUBSET S : Cardinality(T) = 0 => T = {}
    BY <1>0, FS_EmptySet
  <2>2. QED
    BY <2>1
<1>3. ASSUME NEW n \in Nat, n \in N
      PROVE  n + 1 \in N
  <2>1. SUFFICES ASSUME NEW T \in SUBSET S, Cardinality(T) = n + 1, NEW y \in T
                 PROVE  g[T] = f[y] + g[T \ {y}]
    OBVIOUS
  <2>2. PICK p \in T : p = AnyOf(T) /\ g[T] = f[p] + g[T \ {p}]
    <3>1. AnyOf(T) \in T
      BY AnyIsIn
    <3>2. g[T] = f[AnyOf(T)] + g[T \ {AnyOf(T)}]
      BY <1>1, <3>1 DEF Adds
    <3>3. QED
      BY <3>1, <3>2
  <2>3. CASE y = p
    BY <2>2, <2>3
  <2>4. CASE y # p
    <3>1. PICK U, V, W \in SUBSET S : U = T \ {p} /\ V = T \ {y} /\ W = T \ {p, y}
      OBVIOUS
    <3>2. Cardinality(U) = n /\ Cardinality(V) = n
      BY <1>0, <2>1, <3>1, OneLess
    <3>3. Any(U) /\ Any(V) /\ y \in U /\ p \in V /\ U \ {y} = W /\ V \ {p} = W
      BY <1>3, <2>4, <3>1, <3>2
    <3>4. g[U] = f[y] + g[W] /\ g[V] = f[p] + g[W]
      BY <3>3
    <3>5. f[y] \in Nat /\ f[p] \in Nat /\ g[W] \in Nat
      BY DEF Counts
    <3>6. QED
      BY <2>2, <3>1, <3>4, <3>5
  <2>5. QED
    BY <2>3, <2>4
<1>4. Nat \subseteq N
  <2> HIDE DEF N
  <2> QED
    BY <1>2, <1>3, AllNumbers
<1>5. g[S] = f[x] + g[S \ {x}]
  BY <1>0, <1>4
<1>6. SumOver(S, f) = g[S] /\ SumOver(S \ {x}, f) = g[S \ {x}]
  BY <1>1, SumIs
<1>7. QED
  BY <1>5, <1>6

LEMMA SumsUp ==
    ASSUME NEW S, NEW f, Counts(S, f)
    PROVE  \E g : Adds(g, SUBSET S, f) /\ SumOver(S, f) = g[S]
<1>1. PICK g \in [SUBSET S -> Nat] : Adds(g, SUBSET S, f)
  BY SumsExist
<1>2. SumOver(S, f) = g[S]
  BY <1>1, SumIs
<1>3. QED
  BY <1>1, <1>2

LEMMA SumEmpty == ASSUME NEW S, NEW f, S = {} PROVE SumOver(S, f) = 0
<1>1. Counts(S, f)
  BY FS_EmptySet DEF Counts
<1>2. PICK g : Adds(g, SUBSET S, f) /\ SumOver(S, f) = g[S]
  BY <1>1, SumsUp
<1>3. QED
  BY <1>2 DEF Adds

\* Every finite set is in P if the empty one is and one element more never leaves it.
LEMMA AllFiniteSets ==
    ASSUME NEW S, IsFiniteSet(S), NEW P, {} \in P,
           \A T \in SUBSET S : \A x \in S \ T : T \in P => T \cup {x} \in P
    PROVE  S \in P
<1> DEFINE N == {n \in Nat : \A T \in SUBSET S : Cardinality(T) = n => T \in P}
<1>0. \A T \in SUBSET S : IsFiniteSet(T) /\ Cardinality(T) \in Nat
  BY FS_Subset, FS_CardinalityType
<1>1. 0 \in N
  BY <1>0, FS_EmptySet
<1>2. ASSUME NEW n \in Nat, n \in N
      PROVE  n + 1 \in N
  <2> SUFFICES ASSUME NEW T \in SUBSET S, Cardinality(T) = n + 1 PROVE T \in P
    OBVIOUS
  <2>1. PICK x \in T : TRUE
    <3>1. Cardinality({}) = 0 /\ n + 1 # 0
      BY FS_EmptySet
    <3>2. T # {}
      BY <3>1
    <3>3. QED
      BY <3>2
  <2>2. PICK U \in SUBSET S : U = T \ {x} /\ U \cup {x} = T /\ x \in S \ U
    <3>1. T \ {x} \in SUBSET S /\ (T \ {x}) \cup {x} = T /\ x \in S \ (T \ {x})
      OBVIOUS
    <3>2. QED
      BY <3>1, Zenon
  <2>3. Cardinality(U) = n
    BY <1>0, <2>2, OneLess
  <2>4. QED
    BY <1>2, <2>2, <2>3
<1>3. Nat \subseteq N
  <2> HIDE DEF N
  <2> QED
    BY <1>1, <1>2, AllNumbers
<1>4. QED
  BY <1>0, <1>3

LEMMA SumAdd ==
    ASSUME NEW S, NEW f, Counts(S, f), NEW T \in SUBSET S, NEW x \in S \ T
    PROVE  SumOver(T \cup {x}, f) = f[x] + SumOver(T, f)
<1>1. Counts(T \cup {x}, f)
  <2>1. T \cup {x} \in SUBSET S
    OBVIOUS
  <2>2. QED
    BY <2>1, FS_Subset DEF Counts
<1>2. SumOver(T \cup {x}, f) = f[x] + SumOver((T \cup {x}) \ {x}, f)
  BY <1>1, SumRemove
<1>3. (T \cup {x}) \ {x} = T
  OBVIOUS
<1>4. QED
  BY <1>2, <1>3

LEMMA SumIsNat == ASSUME NEW S, NEW f, Counts(S, f) PROVE SumOver(S, f) \in Nat
<1>1. CASE S = {}
  BY <1>1, SumEmpty
<1>2. CASE S # {}
  BY <1>2, SumRemove
<1>3. QED
  BY <1>1, <1>2

LEMMA SumsStayFinite == ASSUME NEW S, NEW f, Counts(S, f), NEW T \in SUBSET S PROVE Counts(T, f)
BY FS_Subset DEF Counts

\* A sum is no more than one of greater terms, and as much as one of the same terms.
LEMMA SumAtMost ==
    ASSUME NEW S, NEW f, NEW g, Counts(S, f), Counts(S, g), \A x \in S : f[x] <= g[x]
    PROVE  /\ SumOver(S, f) <= SumOver(S, g)
           /\ (\A x \in S : f[x] = g[x]) => SumOver(S, f) = SumOver(S, g)
<1> DEFINE P == {T \in SUBSET S : /\ SumOver(T, f) <= SumOver(T, g)
                                  /\ (\A x \in S : f[x] = g[x]) => SumOver(T, f) = SumOver(T, g)}
<1>1. {} \in P
  <2>1. SumOver({}, f) = 0 /\ SumOver({}, g) = 0
    BY SumEmpty
  <2>2. QED
    BY <2>1
<1>2. ASSUME NEW T \in SUBSET S, NEW x \in S \ T, T \in P
      PROVE  T \cup {x} \in P
  <2>1. Counts(T, f) /\ Counts(T, g)
    BY SumsStayFinite
  <2>2. SumOver(T, f) \in Nat /\ SumOver(T, g) \in Nat
    BY <2>1, SumIsNat
  <2>3. SumOver(T \cup {x}, f) = f[x] + SumOver(T, f) /\ SumOver(T \cup {x}, g) = g[x] + SumOver(T, g)
    BY SumAdd
  <2>4. f[x] \in Nat /\ g[x] \in Nat /\ f[x] <= g[x]
    BY DEF Counts
  <2>5. T \cup {x} \in SUBSET S
    OBVIOUS
  <2>6. /\ SumOver(T, f) <= SumOver(T, g)
        /\ (\A y \in S : f[y] = g[y]) => SumOver(T, f) = SumOver(T, g)
    BY <1>2
  <2>7. /\ SumOver(T \cup {x}, f) <= SumOver(T \cup {x}, g)
        /\ (\A y \in S : f[y] = g[y]) => SumOver(T \cup {x}, f) = SumOver(T \cup {x}, g)
    BY <2>2, <2>3, <2>4, <2>6
  <2>8. QED
    BY <2>5, <2>7
<1>3. S \in P
  <2>1. IsFiniteSet(S)
    BY DEF Counts
  <2> HIDE DEF P
  <2>2. QED
    BY <1>1, <1>2, <2>1, AllFiniteSets
<1>4. QED
  BY <1>3

LEMMA SumSame ==
    ASSUME NEW S, NEW f, NEW g, Counts(S, f), \A x \in S : g[x] = f[x]
    PROVE  SumOver(S, g) = SumOver(S, f)
<1>1. Counts(S, g) /\ \A x \in S : f[x] <= g[x]
  BY DEF Counts
<1>2. QED
  BY <1>1, SumAtMost

\* One term grows by one.
LEMMA SumGrows ==
    ASSUME NEW S, NEW f, NEW g, Counts(S, f), NEW x \in S, g[x] = f[x] + 1,
           \A y \in S \ {x} : g[y] = f[y]
    PROVE  SumOver(S, g) = SumOver(S, f) + 1
<1>1. Counts(S, g) /\ Counts(S \ {x}, f)
  <2>1. \A y \in S : g[y] \in Nat
    <3> TAKE y \in S
    <3>1. CASE y = x
      BY <3>1 DEF Counts
    <3>2. CASE y # x
      BY <3>2 DEF Counts
    <3>3. QED
      BY <3>1, <3>2
  <2>2. S \ {x} \in SUBSET S
    OBVIOUS
  <2>3. QED
    BY <2>1, <2>2, SumsStayFinite DEF Counts
<1>2. SumOver(S \ {x}, g) = SumOver(S \ {x}, f)
  BY <1>1, SumSame
<1>3. SumOver(S, f) = f[x] + SumOver(S \ {x}, f) /\ SumOver(S, g) = g[x] + SumOver(S \ {x}, g)
  BY <1>1, SumRemove
<1>4. f[x] \in Nat /\ SumOver(S \ {x}, f) \in Nat
  BY <1>1, SumIsNat DEF Counts
<1>5. QED
  BY <1>2, <1>3, <1>4

\* Terms of nothing may be left out.
LEMMA SumOfWhatCounts ==
    ASSUME NEW S, NEW f, Counts(S, f), NEW R \in SUBSET S, \A x \in S \ R : f[x] = 0
    PROVE  SumOver(S, f) = SumOver(R, f)
<1> DEFINE P == {T \in SUBSET S : SumOver(T, f) = SumOver(T \cap R, f)}
<1>1. {} \in P
  <2>1. {} \cap R = {}
    OBVIOUS
  <2>2. QED
    BY <2>1
<1>2. ASSUME NEW T \in SUBSET S, NEW x \in S \ T, T \in P
      PROVE  T \cup {x} \in P
  <2>1. PICK U \in SUBSET S : U = T \cap R
    OBVIOUS
  <2>2. SumOver(T \cup {x}, f) = f[x] + SumOver(T, f) /\ SumOver(T, f) = SumOver(U, f)
    BY <1>2, <2>1, SumAdd
  <2>3. Counts(U, f)
    BY SumsStayFinite
  <2>4. SumOver(U, f) \in Nat
    BY <2>3, SumIsNat
  <2>5. CASE x \in R
    <3>1. (T \cup {x}) \cap R = U \cup {x} /\ x \in S \ U
      BY <2>1, <2>5
    <3>2. SumOver(U \cup {x}, f) = f[x] + SumOver(U, f)
      BY <3>1, SumAdd
    <3>3. QED
      BY <2>2, <3>1, <3>2
  <2>6. CASE x \notin R
    <3>1. (T \cup {x}) \cap R = U /\ f[x] = 0
      BY <2>1, <2>6
    <3>2. SumOver(T \cup {x}, f) = SumOver(U, f)
      BY <2>2, <2>4, <3>1
    <3>3. T \cup {x} \in SUBSET S
      OBVIOUS
    <3>4. QED
      BY <3>1, <3>2, <3>3
  <2>7. QED
    BY <2>5, <2>6
<1>3. S \in P
  <2>1. IsFiniteSet(S)
    BY DEF Counts
  <2> HIDE DEF P
  <2>2. QED
    BY <1>1, <1>2, <2>1, AllFiniteSets
<1>4. S \cap R = R
  OBVIOUS
<1>5. QED
  BY <1>3, <1>4

LEMMA SumOfNothing ==
    ASSUME NEW S, NEW f, Counts(S, f), \A x \in S : f[x] = 0
    PROVE  SumOver(S, f) = 0
<1>1. {} \in SUBSET S /\ SumOver({}, f) = 0
  BY SumEmpty
<1>2. QED
  BY <1>1, SumOfWhatCounts

\* One term more, and one term that changes.
TermMore(T, g, S, f, x) == Counts(T, g) /\ SumOver(T, g) = SumOver(S, f) + g[x]
LEMMA SumPlus ==
    ASSUME NEW S, NEW f, Counts(S, f), NEW x, x \notin S, NEW g, g[x] \in Nat, \A y \in S : g[y] = f[y]
    PROVE  TermMore(S \cup {x}, g, S, f, x)
<1>1. Counts(S \cup {x}, g)
  <2>1. IsFiniteSet(S \cup {x})
    BY FS_AddElement DEF Counts
  <2>2. \A y \in S \cup {x} : g[y] \in Nat
    BY DEF Counts
  <2>3. QED
    BY <2>1, <2>2 DEF Counts
<1>2. SumOver(S \cup {x}, g) = g[x] + SumOver(S, g)
  BY <1>1, SumAdd
<1>3. SumOver(S, g) = SumOver(S, f) /\ SumOver(S, f) \in Nat
  BY SumSame, SumIsNat
<1>4. QED
  BY <1>1, <1>2, <1>3 DEF TermMore

LEMMA SumChanges ==
    ASSUME NEW S, NEW f, Counts(S, f), NEW x \in S, NEW g, g[x] \in Nat, \A y \in S \ {x} : g[y] = f[y]
    PROVE  Counts(S, g) /\ SumOver(S, g) + f[x] = SumOver(S, f) + g[x]
<1>1. Counts(S \ {x}, f) /\ f[x] \in Nat
  BY SumsStayFinite DEF Counts
<1>2. SumOver(S, f) = f[x] + SumOver(S \ {x}, f) /\ SumOver(S \ {x}, f) \in Nat
  BY <1>1, SumRemove, SumIsNat
<1>3. x \notin S \ {x} /\ (S \ {x}) \cup {x} = S
  OBVIOUS
<1>4. PICK T : T = S \ {x}
  OBVIOUS
<1>5. TermMore(T \cup {x}, g, T, f, x)
  BY <1>1, <1>3, <1>4, SumPlus
<1>6. T \cup {x} = S
  BY <1>3, <1>4, Zenon
<1>7. Counts(S, g) /\ SumOver(S, g) = SumOver(T, f) + g[x]
  BY <1>5, <1>6, Zenon DEF TermMore
<1>8. QED
  BY <1>1, <1>2, <1>4, <1>7

\* A finite set of numbers has a least and a largest one.
LEMMA Extremes ==
    ASSUME NEW S \in SUBSET Int, IsFiniteSet(S), S # {}
    PROVE  \E a, b \in S : \A y \in S : a <= y /\ y <= b
<1> DEFINE P == {T \in SUBSET S : T # {} => \E a, b \in T : \A y \in T : a <= y /\ y <= b}
<1>1. {} \in P
  OBVIOUS
<1>2. ASSUME NEW T \in SUBSET S, NEW x \in S \ T, T \in P
      PROVE  T \cup {x} \in P
  <2> DEFINE U == T \cup {x}
  <2>1. CASE T = {}
    BY <2>1
  <2>2. CASE T # {}
    <3>1. PICK a, b \in T : \A y \in T : a <= y /\ y <= b
      BY <1>2, <2>2
    <3>2. PICK c \in U : c = IF a <= x THEN a ELSE x
      OBVIOUS
    <3>3. PICK d \in U : d = IF x <= b THEN b ELSE x
      OBVIOUS
    <3>4. \A y \in U : c <= y /\ y <= d
      BY <3>1, <3>2, <3>3
    <3>5. QED
      BY <3>4
  <2>3. QED
    BY <2>1, <2>2
<1>3. S \in P
  <2> HIDE DEF P
  <2> QED
    BY <1>1, <1>2, AllFiniteSets
<1>4. QED
  BY <1>3
================================================================================
