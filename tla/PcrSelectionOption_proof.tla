---------------------- MODULE PcrSelectionOption_proof ----------------------
(***************************************************************************)
(* What the option leaves in the arrays, for arguments of any length: the  *)
(* last list of each bank, each PCR once and in ascending order.           *)
(*                                                                         *)
(* Induction is by a least counterexample.                                 *)
(***************************************************************************)
EXTENDS PcrSelectionOption, FiniteSetTheorems, TLAPS

-----------------------------------------------------------------------------
(* Least and greatest numbers.                                              *)

LEMMA LeastNatural ==
    ASSUME NEW T \in SUBSET Nat, T # {}
    PROVE  \E x \in T : \A y \in T : x <= y
  <1>1. PICK x \in T : \A y \in T : <<y, x>> \notin OpToRel(<, Nat)
    BY NatLessThanWellFounded, WFMin
  <1>2. \A y \in T : ~(y < x)
    BY <1>1 DEF OpToRel
  <1> QED
    BY <1>2

LEMMA FiniteHasGreatest ==
    ASSUME NEW T \in SUBSET Nat, IsFiniteSet(T), T # {}
    PROVE  \E x \in T : \A y \in T : y <= x
  <1> DEFINE D == {n \in Nat : \E U \in SUBSET Nat :
                     /\ U # {} /\ IsFiniteSet(U) /\ Cardinality(U) = n
                     /\ ~\E x \in U : \A y \in U : y <= x}
  <1>1. SUFFICES ASSUME D # {} PROVE FALSE
    <2>1. Cardinality(T) \in Nat
      BY FS_CardinalityType
    <2> QED
      BY <2>1, <1>1
  <1>2. D \in SUBSET Nat
    OBVIOUS
  <1>3. PICK n \in D : \A m \in D : n <= m
    BY <1>1, <1>2, LeastNatural
  <1>4. PICK U \in SUBSET Nat :
          /\ U # {} /\ IsFiniteSet(U) /\ Cardinality(U) = n
          /\ ~\E x \in U : \A y \in U : y <= x
    OBVIOUS
  <1>5. PICK a \in U : TRUE
    BY <1>4
  <1> DEFINE R == U \ {a}
  <1>6. IsFiniteSet(R) /\ Cardinality(R) = n - 1 /\ n \in Nat
    BY <1>4, <1>5, FS_RemoveElement
  <1>7. CASE R = {}
    BY <1>4, <1>5, <1>7
  <1>8. CASE R # {}
    <2>1. n - 1 \in Nat /\ n - 1 \notin D
      BY <1>3, <1>6, FS_CardinalityType
    <2>2. PICK x \in R : \A y \in R : y <= x
      BY <1>6, <1>8, <2>1
    <2>3. CASE a <= x
      BY <1>4, <2>2, <2>3
    <2>4. CASE x <= a
      BY <1>4, <1>5, <2>2, <2>4
    <2> QED
      BY <2>2, <2>3, <2>4
  <1> QED
    BY <1>7, <1>8

LEMMA MaxIsGreatest ==
    ASSUME NEW T \in SUBSET Nat, IsFiniteSet(T), T # {}
    PROVE  Max(T) \in T /\ \A y \in T : y <= Max(T)
  <1>1. \E x \in T : \A y \in T : x >= y
    BY FiniteHasGreatest
  <1>2. Max(T) \in T /\ \A y \in T : Max(T) >= y
    BY <1>1 DEF Max
  <1> QED
    BY <1>2

\* There is only one greatest element.
LEMMA MaxIs ==
    ASSUME NEW T \in SUBSET Nat, NEW x \in T, \A y \in T : y <= x
    PROVE  Max(T) = x
  <1>1. \E m \in T : \A y \in T : m >= y
    OBVIOUS
  <1>2. Max(T) \in T /\ \A y \in T : Max(T) >= y
    BY <1>1 DEF Max
  <1>3. Max(T) >= x /\ Max(T) <= x /\ Max(T) \in Nat /\ x \in Nat
    BY <1>2
  <1> QED
    BY <1>3

-----------------------------------------------------------------------------
(* Ascending sequences.                                                     *)

\* An ascending sequence has each element once.
LEMMA AscendingCounts ==
    ASSUME NEW s \in Seq(Nat), IsAscending(s)
    PROVE  /\ IsInjective(s)
           /\ IsFiniteSet(Elements(s)) /\ Cardinality(Elements(s)) = Len(s)
  <1>1. \A i, j \in DOMAIN s : s[i] = s[j] => i = j
    BY DEF IsAscending
  <1>2. s \in Bijection(1 .. Len(s), Elements(s))
    BY <1>1 DEF Bijection, Injection, Surjection, IsInjective, Elements
  <1>3. ExistsBijection(1 .. Len(s), Elements(s))
    BY <1>2 DEF ExistsBijection
  <1>4. Len(s) \in Nat
    OBVIOUS
  <1>5. IsFiniteSet(Elements(s))
    BY <1>3, <1>4, FS_NatBijection
  <1>6. Cardinality(Elements(s)) = Len(s)
    BY <1>3, <1>4, FS_CountingElements
  <1> QED
    BY <1>1, <1>5, <1>6 DEF IsInjective

\* Two ascending sequences of the same elements are the same.
LEMMA AscendingIsUnique ==
    ASSUME NEW s \in Seq(Nat), NEW t \in Seq(Nat), IsAscending(s),
           IsAscending(t), Elements(s) = Elements(t)
    PROVE  s = t
  <1>1. Len(s) = Len(t)
    BY AscendingCounts
  <1> DEFINE D == {k \in DOMAIN s : s[k] # t[k]}
  <1>2. SUFFICES ASSUME D # {} PROVE FALSE
    BY <1>1
  <1>3. D \in SUBSET Nat
    OBVIOUS
  <1>4. PICK k \in D : \A j \in D : k <= j
    BY <1>2, <1>3, LeastNatural
  <1> HIDE DEF D
  <1>5. k \in DOMAIN s /\ k \in DOMAIN t /\ s[k] # t[k]
    BY <1>1 DEF D
  <1>6. \A j \in DOMAIN s : j < k => s[j] = t[j]
    BY <1>4, <1>5 DEF D
  <1>7. ASSUME NEW a \in Seq(Nat), NEW b \in Seq(Nat), IsAscending(a),
               IsAscending(b), Elements(a) = Elements(b), Len(a) = Len(b),
               k \in DOMAIN a, k \in DOMAIN b, a[k] < b[k],
               \A j \in DOMAIN a : j < k => a[j] = b[j]
        PROVE  FALSE
    <2>1. PICK j \in DOMAIN b : b[j] = a[k]
      BY <1>7 DEF Elements
    <2>2. j \in Nat /\ k \in Nat /\ DOMAIN a = DOMAIN b
      BY <1>7
    <2>3. a[k] \in Nat /\ b[k] \in Nat /\ b[j] \in Nat
      <3>1. \A q \in Seq(Nat) : \A i \in DOMAIN q : q[i] \in Nat
        OBVIOUS
      <3> QED
        BY <1>7, <3>1
    <2>4. CASE j < k
      <3>1. b[j] = a[j] /\ a[j] < a[k]
        BY <1>7, <2>2, <2>4 DEF IsAscending
      <3> QED
        BY <2>1, <2>3, <3>1
    <2>5. CASE k < j
      <3>1. b[k] < b[j]
        BY <1>7, <2>5 DEF IsAscending
      <3> QED
        BY <1>7, <2>1, <2>3, <3>1
    <2>6. CASE j = k
      BY <1>7, <2>1, <2>3, <2>6
    <2> QED
      BY <2>2, <2>4, <2>5, <2>6
  <1>8. CASE s[k] < t[k]
    BY <1>1, <1>5, <1>6, <1>7, <1>8
  <1>9. CASE t[k] < s[k]
    BY <1>1, <1>5, <1>6, <1>7, <1>9
  <1> QED
    BY <1>5, <1>8, <1>9

\* A finite set of numbers has an ascending sequence: that of the set without
\* its greatest element, and then this element.
LEMMA AscendingExists ==
    ASSUME NEW S \in SUBSET Nat, IsFiniteSet(S)
    PROVE  \E s \in [1 .. Cardinality(S) -> S] : IsAscending(s)
  <1> DEFINE Enumerable(T) ==
               \E s \in [1 .. Cardinality(T) -> T] : IsAscending(s)
             D == {n \in Nat : \E T \in SUBSET Nat :
                     IsFiniteSet(T) /\ Cardinality(T) = n /\ ~Enumerable(T)}
  <1>1. SUFFICES ASSUME D # {} PROVE FALSE
    <2>1. Cardinality(S) \in Nat
      BY FS_CardinalityType
    <2> QED
      BY <2>1, <1>1
  <1>2. D \in SUBSET Nat
    OBVIOUS
  <1>3. PICK n \in D : \A m \in D : n <= m
    BY <1>1, <1>2, LeastNatural
  <1>4. PICK T \in SUBSET Nat :
          IsFiniteSet(T) /\ Cardinality(T) = n /\ ~Enumerable(T)
    OBVIOUS
  <1>5. CASE T = {}
    <2>1. Cardinality(T) = 0
      BY <1>5, FS_EmptySet
    <2>2. <<>> \in [1 .. Cardinality(T) -> T] /\ IsAscending(<<>>)
      BY <2>1 DEF IsAscending
    <2> QED
      BY <1>4, <2>2
  <1>6. CASE T # {}
    <2>1. PICK x \in T : \A y \in T : y <= x
      BY <1>4, <1>6, FiniteHasGreatest
    <2> DEFINE R == T \ {x}
    <2>2. IsFiniteSet(R) /\ Cardinality(R) = n - 1 /\ n \in Nat
      BY <1>4, <2>1, FS_RemoveElement, FS_CardinalityType
    <2>3. n - 1 \in Nat
      BY <2>2, FS_CardinalityType
    <2>4. Enumerable(R)
      <3>1. n - 1 \notin D
        BY <1>3, <2>2
      <3>2. R \in SUBSET Nat
        OBVIOUS
      <3> QED
        BY <2>2, <2>3, <3>1, <3>2
    <2>5. PICK r \in [1 .. n - 1 -> R] : IsAscending(r)
      BY <2>2, <2>4
    <2> DEFINE s == [k \in 1 .. n |-> IF k = n THEN x ELSE r[k]]
    <2>6. s \in [1 .. n -> T]
      BY <2>1, <2>2, <2>3, <2>5
    <2>7. ASSUME NEW i \in 1 .. n, NEW j \in 1 .. n, i < j
          PROVE  s[i] < s[j]
      <3>1. i \in 1 .. n - 1 /\ r[i] \in R
        BY <2>2, <2>3, <2>5, <2>7
      <3>2. CASE j = n
        <4>1. r[i] <= x /\ r[i] # x /\ r[i] \in Nat /\ x \in Nat
          BY <2>1, <3>1
        <4>2. s[i] = r[i] /\ s[j] = x
          BY <2>2, <2>3, <3>1, <3>2
        <4> HIDE DEF s
        <4> QED
          BY <4>1, <4>2
      <3>3. CASE j # n
        <4>1. j \in 1 .. n - 1
          BY <2>2, <3>3
        <4> QED
          BY <2>5, <2>7, <3>1, <4>1 DEF IsAscending
      <3> QED
        BY <3>2, <3>3
    <2>8. IsAscending(s)
      BY <2>7 DEF IsAscending
    <2> QED
      BY <1>4, <2>6, <2>8
  <1> QED
    BY <1>5, <1>6

\* So Ascending is what it says.
LEMMA AscendingOf ==
    ASSUME NEW S \in SUBSET Nat, IsFiniteSet(S)
    PROVE  /\ Ascending(S) \in Seq(S) /\ Len(Ascending(S)) = Cardinality(S)
           /\ IsAscending(Ascending(S)) /\ Elements(Ascending(S)) = S
  <1> DEFINE s == Ascending(S)
             n == Cardinality(S)
  <1>1. s \in [1 .. n -> S] /\ IsAscending(s)
    BY AscendingExists DEF Ascending
  <1>2. n \in Nat
    BY FS_CardinalityType
  <1> HIDE DEF s, n
  <1>3. s \in Seq(S) /\ Len(s) = n
    BY <1>1, <1>2
  <1>4. s \in [1 .. n -> Nat]
    BY <1>1
  <1>5. s \in Seq(Nat)
    BY <1>2, <1>4
  <1>6. Cardinality(Elements(s)) = n
    BY <1>1, <1>3, <1>5, AscendingCounts
  <1>7. Elements(s) \in SUBSET S
    BY <1>1 DEF Elements
  <1>8. Elements(s) = S
    BY <1>6, <1>7, FS_Subset DEF n
  <1> QED
    BY <1>1, <1>3, <1>8 DEF s, n

-----------------------------------------------------------------------------
(* The fold over the banks of an argument.                                  *)

\* The lists for bank b among those with an index in K; and what the last of
\* them makes of the cleared arrays.
For(argument, b, K) == {k \in K : argument[k].bank = b}
Filled(argument, K) ==
    [b \in Banks |->
        IF For(argument, b, K) = {} THEN <<>>
        ELSE BankPcrs(argument[Max(For(argument, b, K))].pcrs)]

IsFold(g, argument) ==
    g = [K \in SUBSET DOMAIN argument |->
            IF K = {} THEN Cleared
            ELSE Fill(g[K \ {Max(K)}], argument[Max(K)])]

LEMMA ParsedFolds ==
    ASSUME NEW argument
    PROVE  Parsed(argument) =
              (CHOOSE g : IsFold(g, argument))[DOMAIN argument]
  BY DEF Parsed, FoldLeft, MapThenFoldSet, IsFold

\* A set of indices has a greatest one.
LEMMA GreatestIndex ==
    ASSUME NEW argument \in ArgumentType, NEW K \in SUBSET DOMAIN argument,
           K # {}
    PROVE  K \in SUBSET Nat /\ Max(K) \in K /\ \A k \in K : k <= Max(K)
  <1>1. DOMAIN argument = 1 .. Len(argument) /\ Len(argument) \in Nat
    BY DEF ArgumentType
  <1>2. K \in SUBSET Nat
    BY <1>1
  <1>3. IsFiniteSet(K)
    <2>1. IsFiniteSet(1 .. Len(argument))
      BY <1>1, FS_Interval
    <2> QED
      BY <1>1, <2>1, FS_Subset
  <1> QED
    BY <1>2, <1>3, MaxIsGreatest

\* Filled solves the fold's equation.
LEMMA FilledFolds ==
    ASSUME NEW argument \in ArgumentType, Readable(argument)
    PROVE  IsFold([K \in SUBSET DOMAIN argument |-> Filled(argument, K)],
                  argument)
  <1> DEFINE h == [K \in SUBSET DOMAIN argument |-> Filled(argument, K)]
  <1>1. Filled(argument, {}) = Cleared
    BY DEF Filled, For, Cleared
  <1>2. ASSUME NEW K \in SUBSET DOMAIN argument, K # {}
        PROVE  Filled(argument, K) =
                  Fill(Filled(argument, K \ {Max(K)}), argument[Max(K)])
    <2> DEFINE m == Max(K)
               R == K \ {m}
               c == argument[m].bank
    <2>1. K \in SUBSET Nat /\ m \in K /\ \A k \in K : k <= m
      BY <1>2, GreatestIndex
    <2>2. c \in Banks
      BY <2>1 DEF Readable, BankKnown
    <2>3. Fill(Filled(argument, R), argument[m]) =
            [Filled(argument, R) EXCEPT ![c] = BankPcrs(argument[m].pcrs)]
      BY DEF Fill
    <2> HIDE DEF m
    <2>4. ASSUME NEW b \in Banks, b # c
          PROVE  For(argument, b, K) = For(argument, b, R)
      BY <2>4 DEF For
    <2>5. For(argument, c, K) # {} /\ Max(For(argument, c, K)) = m
      <3>1. /\ For(argument, c, K) \in SUBSET Nat /\ m \in For(argument, c, K)
            /\ \A k \in For(argument, c, K) : k <= m
        BY <2>1 DEF For
      <3> QED
        BY <3>1, MaxIs
    <2> HIDE DEF R, c
    <2>6. Filled(argument, K) =
            [Filled(argument, R) EXCEPT ![c] = BankPcrs(argument[m].pcrs)]
      BY <2>2, <2>4, <2>5 DEF Filled
    <2> QED
      BY <2>3, <2>6 DEF m, R
  <1>3. \A K \in SUBSET DOMAIN argument :
           K \ {Max(K)} \in SUBSET DOMAIN argument
    OBVIOUS
  <1> HIDE DEF Filled
  <1>4. h = [K \in SUBSET DOMAIN argument |->
                IF K = {} THEN Cleared
                ELSE Fill(h[K \ {Max(K)}], argument[Max(K)])]
    BY <1>1, <1>2, <1>3
  <1> QED
    BY <1>4 DEF IsFold

\* Along the argument it is the only solution.
LEMMA FoldsAgree ==
    ASSUME NEW argument \in ArgumentType, NEW g, NEW h,
           IsFold(g, argument), IsFold(h, argument)
    PROVE  g[DOMAIN argument] = h[DOMAIN argument]
  <1> DEFINE n == Len(argument)
             D == {k \in 0 .. n : g[1 .. k] # h[1 .. k]}
  <1>1. n \in Nat /\ DOMAIN argument = 1 .. n
    BY DEF ArgumentType
  <1> HIDE DEF n
  <1>2. SUFFICES ASSUME D # {} PROVE FALSE
    BY <1>1
  <1>3. D \in SUBSET Nat
    OBVIOUS
  <1>4. PICK k \in D : \A j \in D : k <= j
    BY <1>2, <1>3, LeastNatural
  <1>5. k \in 0 .. n /\ g[1 .. k] # h[1 .. k]
    OBVIOUS
  <1>6. CASE k = 0
    <2>1. 1 .. k = {}
      BY <1>6
    <2>2. g[{}] = Cleared /\ h[{}] = Cleared
      BY DEF IsFold
    <2> QED
      BY <1>5, <2>1, <2>2
  <1>7. CASE k # 0
    <2>1. /\ k - 1 \in 0 .. n /\ k \in Nat
          /\ 1 .. k # {} /\ 1 .. k \in SUBSET DOMAIN argument
          /\ (1 .. k) \ {k} = 1 .. k - 1
      BY <1>1, <1>5, <1>7
    <2>2. g[1 .. k - 1] = h[1 .. k - 1]
      BY <1>4, <2>1
    <2>3. Max(1 .. k) = k
      <3>1. 1 .. k \in SUBSET Nat /\ k \in 1 .. k /\ \A j \in 1 .. k : j <= k
        BY <1>7, <2>1
      <3> QED
        BY <3>1, MaxIs
    <2>4. ASSUME NEW f, IsFold(f, argument)
          PROVE  f[1 .. k] = Fill(f[1 .. k - 1], argument[k])
      <3>1. f[1 .. k] = Fill(f[(1 .. k) \ {Max(1 .. k)}],
                             argument[Max(1 .. k)])
        BY <2>1, <2>4 DEF IsFold
      <3> QED
        BY <2>1, <2>3, <3>1
    <2> QED
      BY <1>5, <2>2, <2>4
  <1> QED
    BY <1>6, <1>7

-----------------------------------------------------------------------------
(* What the arrays hold in the end.                                         *)

LEMMA ParsedIsFilled ==
    ASSUME NEW argument \in ArgumentType, Readable(argument)
    PROVE  Parsed(argument) = Filled(argument, DOMAIN argument)
  <1> DEFINE h == [K \in SUBSET DOMAIN argument |-> Filled(argument, K)]
             g == CHOOSE f : IsFold(f, argument)
  <1>1. IsFold(h, argument)
    BY FilledFolds
  <1>2. h[DOMAIN argument] = Filled(argument, DOMAIN argument)
    OBVIOUS
  <1> HIDE DEF h
  <1>3. IsFold(g, argument)
    BY <1>1
  <1>4. Parsed(argument) = g[DOMAIN argument]
    BY ParsedFolds
  <1> HIDE DEF g
  <1> QED
    BY <1>1, <1>2, <1>3, <1>4, FoldsAgree

LEMMA LastInIsGreatest ==
    ASSUME NEW argument \in ArgumentType, NEW b, Mentions(argument, b)
    PROVE  /\ LastIn(argument, b) = Max(For(argument, b, DOMAIN argument))
           /\ LastIn(argument, b) \in DOMAIN argument
           /\ argument[LastIn(argument, b)].bank = b
  <1> DEFINE M == For(argument, b, DOMAIN argument)
             IsLast(k) == /\ argument[k].bank = b
                          /\ \A j \in k + 1 .. Len(argument) :
                                argument[j].bank # b
  <1>1. DOMAIN argument = 1 .. Len(argument) /\ Len(argument) \in Nat
    BY DEF ArgumentType
  <1>2. M # {} /\ M \in SUBSET DOMAIN argument
    BY DEF Mentions, For
  <1>3. M \in SUBSET Nat /\ Max(M) \in M /\ \A k \in M : k <= Max(M)
    BY <1>2, GreatestIndex
  <1>4. IsLast(Max(M)) /\ Max(M) \in DOMAIN argument
    <2>1. Max(M) \in DOMAIN argument /\ argument[Max(M)].bank = b
      BY <1>3 DEF For
    <2>2. ASSUME NEW j \in Max(M) + 1 .. Len(argument), argument[j].bank = b
          PROVE  FALSE
      <3>1. j \in DOMAIN argument /\ j > Max(M) /\ Max(M) \in Nat
        BY <1>1, <1>3
      <3>2. j \in M
        BY <2>2, <3>1 DEF For
      <3> HIDE DEF M
      <3> QED
        BY <1>3, <3>1, <3>2
    <2> QED
      BY <2>1, <2>2
  <1>5. ASSUME NEW k \in DOMAIN argument, IsLast(k) PROVE k = Max(M)
    <2>1. k \in M
      BY <1>5 DEF For
    <2>2. ~(Max(M) > k)
      BY <1>1, <1>4, <1>5
    <2> HIDE DEF M
    <2>3. k <= Max(M) /\ k \in Nat /\ Max(M) \in Nat
      BY <1>3, <2>1
    <2> QED
      BY <2>2, <2>3
  <1>6. LastIn(argument, b) = CHOOSE k \in DOMAIN argument : IsLast(k)
    BY DEF LastIn
  <1>7. LastIn(argument, b) \in DOMAIN argument /\ IsLast(LastIn(argument, b))
    BY <1>4, <1>6
  <1> QED
    BY <1>5, <1>7

\* For each bank the arrays hold what is made of its last list, and nothing
\* if the argument does not mention it, whatever else is in the argument.
THEOREM ParsedIsLast ==
    ASSUME NEW argument \in ArgumentType, Readable(argument), NEW b \in Banks
    PROVE  Parsed(argument)[b] =
              IF Mentions(argument, b)
              THEN BankPcrs(argument[LastIn(argument, b)].pcrs) ELSE <<>>
  <1>1. Parsed(argument)[b] = Filled(argument, DOMAIN argument)[b]
    BY ParsedIsFilled
  <1>2. For(argument, b, DOMAIN argument) = {} <=> ~Mentions(argument, b)
    BY DEF For, Mentions
  <1>3. CASE Mentions(argument, b)
    BY <1>1, <1>2, <1>3, LastInIsGreatest DEF Filled
  <1>4. CASE ~Mentions(argument, b)
    BY <1>1, <1>2, <1>4 DEF Filled
  <1> QED
    BY <1>3, <1>4

Indices == 0 .. MaxPcrs - 1

\* A set of indices fits the array.
LEMMA AscendingFits ==
    ASSUME NEW S \in SUBSET Indices
    PROVE  /\ IsFiniteSet(S) /\ S \in SUBSET Nat
           /\ Ascending(S) \in Seq(Indices) /\ Len(Ascending(S)) <= MaxPcrs
           /\ IsAscending(Ascending(S)) /\ Elements(Ascending(S)) = S
  <1>1. IsFiniteSet(Indices) /\ Cardinality(Indices) = MaxPcrs
    BY MaxPcrsAssumption, FS_Interval DEF Indices
  <1>2. IsFiniteSet(S) /\ Cardinality(S) <= MaxPcrs
    BY <1>1, FS_Subset
  <1>3. S \in SUBSET Nat
    BY DEF Indices
  <1>4. /\ Ascending(S) \in Seq(S) /\ Len(Ascending(S)) = Cardinality(S)
        /\ IsAscending(Ascending(S)) /\ Elements(Ascending(S)) = S
    BY <1>2, <1>3, AscendingOf
  <1>5. Ascending(S) \in Seq(Indices)
    BY <1>4
  <1> QED
    BY <1>2, <1>3, <1>4, <1>5

LEMMA BankPcrsOf ==
    ASSUME NEW l \in PcrLists, ListReadable(l)
    PROVE  /\ BankPcrs(l) \in Seq(Indices) /\ Len(BankPcrs(l)) <= MaxPcrs
           /\ l = AllPcrs => Len(BankPcrs(l)) = MaxPcrs
           /\ l # AllPcrs => /\ IsAscending(BankPcrs(l))
                             /\ Elements(BankPcrs(l)) = Elements(l)
  <1>1. CASE l = AllPcrs
    <2>1. BankPcrs(l) = [k \in 1 .. MaxPcrs |-> 1]
      BY <1>1 DEF BankPcrs
    <2> QED
      BY <1>1, <2>1, MaxPcrsAssumption DEF Indices
  <1>2. CASE l # AllPcrs
    <2>1. l \in Seq(Nat) /\ \A p \in Elements(l) : p < MaxPcrs
      BY <1>2 DEF PcrLists, ListReadable, InArray
    <2>2. Elements(l) \in SUBSET Indices
      <3>1. Elements(l) \in SUBSET Nat
        BY <2>1 DEF Elements
      <3> QED
        BY <2>1, <3>1, MaxPcrsAssumption DEF Indices
    <2> QED
      BY <1>2, <2>2, AscendingFits DEF BankPcrs, Ordered
  <1> QED
    BY <1>1, <1>2

\* The arrays hold each PCR that the option names, once and in ascending order,
\* whatever the order and the number of times in which they were typed; only
\* "all" leaves something else, a full array.
THEOREM ParsedSelectsNamed ==
    ASSUME NEW argument \in ArgumentType, Readable(argument), NEW b \in Banks
    PROVE  /\ Parsed(argument)[b] \in Seq(Indices)
           /\ Len(Parsed(argument)[b]) <= MaxPcrs
           /\ \/ /\ Len(Parsed(argument)[b]) = MaxPcrs
                 /\ NamedIn(argument, b) = Indices
              \/ /\ IsAscending(Parsed(argument)[b])
                 /\ Elements(Parsed(argument)[b]) = NamedIn(argument, b)
  <1>1. CASE Mentions(argument, b)
    <2> DEFINE l == argument[LastIn(argument, b)].pcrs
    <2>1. LastIn(argument, b) \in DOMAIN argument
      BY <1>1, LastInIsGreatest
    <2>2. l \in PcrLists /\ ListReadable(l)
      <3>1. \A k \in DOMAIN argument : argument[k].pcrs \in PcrLists
        <4>1. \A k \in DOMAIN argument : argument[k] \in BankType
          BY DEF ArgumentType
        <4>2. \A bank \in BankType : bank.pcrs \in PcrLists
          BY DEF BankType
        <4> QED
          BY <4>1, <4>2
      <3> QED
        BY <2>1, <3>1 DEF Readable
    <2>3. Parsed(argument)[b] = BankPcrs(l)
      BY <1>1, ParsedIsLast
    <2>4. NamedIn(argument, b) = IF l = AllPcrs THEN Indices ELSE Elements(l)
      BY <1>1 DEF NamedIn, Indices
    <2> HIDE DEF l
    <2> QED
      BY <2>2, <2>3, <2>4, BankPcrsOf
  <1>2. CASE ~Mentions(argument, b)
    <2>1. Parsed(argument)[b] = <<>> /\ NamedIn(argument, b) = {}
      BY <1>2, ParsedIsLast DEF NamedIn
    <2> QED
      BY <2>1, MaxPcrsAssumption DEF IsAscending, Elements
  <1> QED
    BY <1>1, <1>2

LEMMA ParsedType ==
    ASSUME NEW argument \in ArgumentType, Readable(argument)
    PROVE  Parsed(argument) \in [Banks -> Seq(Indices)]
  <1>1. Parsed(argument) = Filled(argument, DOMAIN argument)
    BY ParsedIsFilled
  <1>2. \A b \in Banks : Parsed(argument)[b] \in Seq(Indices)
    BY ParsedSelectsNamed
  <1> QED
    BY <1>1, <1>2 DEF Filled

=============================================================================
