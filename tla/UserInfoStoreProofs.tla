------------------------- MODULE UserInfoStoreProofs -------------------------
(***************************************************************************)
(* Theorems about userinfo.xml, for any number of windows, handlers and    *)
(* faults, any history and any versions.                                   *)
(***************************************************************************)
EXTENDS UserInfoStore, FiniteSetTheorems, WellFoundedInduction, TLAPS

-----------------------------------------------------------------------------
(* What the loops over a history compute                                   *)

\* Induction over the natural numbers for the members of a set.  If S misses a number,
\* WFMin finds one with no smaller one missing, among the intervals 0 .. n.
LEMMA SetInduction ==
  ASSUME NEW S, 0 \in S, \A n \in Nat : n \in S => n + 1 \in S
  PROVE  Nat \subseteq S
<1> DEFINE T == Nat \ S
           X == {0 .. n : n \in T}
           F == FiniteSubsetsOf(Nat)
           R == StrictSubsetOrdering(Nat)
<1> SUFFICES ASSUME T # {} PROVE FALSE
  OBVIOUS
<1>1. IsWellFoundedOn(R, F)
  BY FS_StrictSubsetOrderingWellFounded
<1>2. X \subseteq F
  <2>1. ASSUME NEW n \in Nat PROVE 0 .. n \subseteq Nat /\ IsFiniteSet(0 .. n)
    BY FS_Interval
  <2> QED BY <2>1 DEF FiniteSubsetsOf
<1>3. X # {}
  OBVIOUS
<1>4. PICK x \in X : \A y \in X : ~(<<y, x>> \in R)
  <2> HIDE DEF X, F, R
  <2> QED BY <1>1, <1>2, <1>3, WFMin
<1>5. PICK m \in T : x = 0 .. m
  OBVIOUS
<1>6. m \in Nat /\ m \notin S /\ m # 0
  OBVIOUS
<1>7. m - 1 \in T
  <2>1. m - 1 \in Nat /\ (m - 1) + 1 = m
    BY <1>6
  <2> QED BY <1>6, <2>1
<1>8. 0 .. (m - 1) \in X
  BY <1>7
<1>9. 0 .. (m - 1) \subseteq 0 .. m /\ 0 .. (m - 1) # 0 .. m
  <2>1. m \in 0 .. m /\ m \notin 0 .. (m - 1)
    BY <1>6
  <2> QED BY <1>6, <2>1
<1>10. <<0 .. (m - 1), 0 .. m>> \in R
  <2>1. 0 .. (m - 1) \in SUBSET Nat /\ 0 .. m \in SUBSET Nat
    BY <1>6
  <2> QED BY <1>9, <2>1 DEF StrictSubsetOrdering
<1> QED BY <1>4, <1>5, <1>8, <1>10

\* What is defined by recursion over the natural numbers exists: step n takes a value
\* of A to the next.
IsRecursion(g, n, A, a, Step) ==
  /\ g \in [0 .. n -> A]
  /\ g[0] = a
  /\ \A i \in 1 .. n : g[i] = Step[i][g[i - 1]]

LEMMA RecursionExists ==
  ASSUME NEW A, NEW a \in A, NEW Step \in [Nat -> [A -> A]], NEW n \in Nat
  PROVE  \E g : IsRecursion(g, n, A, a, Step)
<1> DEFINE S == {k \in Nat : \E g : IsRecursion(g, k, A, a, Step)}
<1>1. 0 \in S
  <2> DEFINE g == [i \in 0 .. 0 |-> a]
  <2>1. IsRecursion(g, 0, A, a, Step)
    BY DEF IsRecursion
  <2> QED BY <2>1
<1>2. ASSUME NEW k \in Nat, k \in S PROVE k + 1 \in S
  <2>1. PICK g : IsRecursion(g, k, A, a, Step)
    BY <1>2
  <2> DEFINE h == [i \in 0 .. (k + 1) |-> IF i = k + 1 THEN Step[k + 1][g[k]] ELSE g[i]]
  <2>2. h \in [0 .. (k + 1) -> A]
    <3>1. Step[k + 1][g[k]] \in A
      BY <2>1 DEF IsRecursion
    <3>2. ASSUME NEW i \in 0 .. (k + 1), i # k + 1 PROVE g[i] \in A
      BY <2>1, <3>2 DEF IsRecursion
    <3> QED BY <3>1, <3>2
  <2>3. h[0] = a
    BY <2>1 DEF IsRecursion
  <2>4. ASSUME NEW i \in 1 .. (k + 1) PROVE h[i] = Step[i][h[i - 1]]
    <3>1. CASE i = k + 1
      <4>1. i - 1 = k /\ k \in 0 .. (k + 1) /\ k # k + 1
        BY <3>1
      <4> QED BY <3>1, <4>1
    <3>2. CASE i # k + 1
      <4>1. i \in 1 .. k /\ i - 1 \in 0 .. (k + 1) /\ i - 1 # k + 1
        BY <3>2
      <4>2. h[i] = g[i] /\ h[i - 1] = g[i - 1]
        BY <3>2, <4>1
      <4> QED BY <2>1, <4>1, <4>2 DEF IsRecursion
    <3> QED BY <3>1, <3>2
  <2>5. IsRecursion(h, k + 1, A, a, Step)
    <3> HIDE DEF h
    <3> QED BY <2>2, <2>3, <2>4 DEF IsRecursion
  <2> QED BY <2>5
<1>3. Nat \subseteq S
  <2> HIDE DEF S
  <2> QED BY <1>1, <1>2, SetInduction
<1> QED BY <1>3

\* What Parsed and Without go through, account by account.
LEMMA ParsedSteps ==
  ASSUME NEW list \in Seq(Names), NEW max \in Nat
  PROVE  \E kept \in [0 .. Len(list) -> Seq(Names)] :
           /\ kept[0] = <<>>
           /\ \A i \in 1 .. Len(list) :
                kept[i] = IF Len(kept[i - 1]) < max /\ ~Store!Knows(kept[i - 1], list[i])
                          THEN Append(kept[i - 1], list[i]) ELSE kept[i - 1]
           /\ Store!Parsed(list, max) = kept[Len(list)]
<1> DEFINE Kept(f) == [i \in 0 .. Len(list) |->
              IF i = 0 THEN <<>>
              ELSE IF Len(f[i - 1]) < max /\ ~Store!Knows(f[i - 1], list[i])
                   THEN Append(f[i - 1], list[i]) ELSE f[i - 1]]
           kept == CHOOSE f : f = Kept(f)
           Step == [i \in Nat |-> [x \in Seq(Names) |->
                     IF i \in 1 .. Len(list) /\ Len(x) < max /\ ~Store!Knows(x, list[i])
                     THEN Append(x, list[i]) ELSE x]]
<1>1. Len(list) \in Nat
  OBVIOUS
<1>2. Step \in [Nat -> [Seq(Names) -> Seq(Names)]]
  OBVIOUS
<1>3. PICK g \in [0 .. Len(list) -> Seq(Names)] :
        g[0] = <<>> /\ \A i \in 1 .. Len(list) : g[i] = Step[i][g[i - 1]]
  <2> DEFINE A == Seq(Names)
             a == <<>>
             n == Len(list)
  <2>1. n \in Nat /\ a \in A /\ Step \in [Nat -> [A -> A]]
    BY <1>1, <1>2
  <2> HIDE DEF Step, A, a, n
  <2>2. \E g : IsRecursion(g, n, A, a, Step)
    BY <2>1, RecursionExists
  <2> QED BY <2>2 DEF IsRecursion, A, a, n
<1>4. g = Kept(g)
  <2>1. ASSUME NEW i \in 1 .. Len(list)
        PROVE  g[i] = IF Len(g[i - 1]) < max /\ ~Store!Knows(g[i - 1], list[i])
                      THEN Append(g[i - 1], list[i]) ELSE g[i - 1]
    <3>1. i \in Nat /\ i - 1 \in 0 .. Len(list) /\ g[i - 1] \in Seq(Names)
      BY <1>1
    <3> QED BY <1>3, <3>1
  <2>2. g[0] = <<>>
    BY <1>3
  <2> HIDE DEF Step
  <2>3. g = [i \in 0 .. Len(list) |-> g[i]]
    OBVIOUS
  <2>4. ASSUME NEW i \in 0 .. Len(list) PROVE g[i] = Kept(g)[i]
    <3>1. CASE i = 0
      BY <2>2, <3>1
    <3>2. CASE i # 0
      <4>1. i \in 1 .. Len(list)
        BY <1>1, <3>2
      <4> QED BY <2>1, <3>2, <4>1
    <3> QED BY <3>1, <3>2
  <2>5. Kept(g) = [i \in 0 .. Len(list) |-> Kept(g)[i]]
    OBVIOUS
  <2> HIDE DEF Kept
  <2> QED BY <2>3, <2>4, <2>5
<1>5. kept = Kept(kept)
  <2> HIDE DEF Kept
  <2> QED BY <1>4
<1>6. \A i \in 0 .. Len(list) : kept[i] = Kept(kept)[i]
  BY <1>5
<1>7. Store!Parsed(list, max) = kept[Len(list)]
  BY DEF Store!Parsed
<1> HIDE DEF kept
<1>8. kept[0] = <<>>
  BY <1>1, <1>6
<1>9. <<>> \in Seq(Names)
  OBVIOUS
<1>10. kept \in [0 .. Len(list) -> Seq(Names)]
  <2>1. kept = [i \in 0 .. Len(list) |-> Kept(kept)[i]]
    BY <1>5
  <2> DEFINE S == {i \in Nat : i <= Len(list) => kept[i] \in Seq(Names)}
  <2>2. 0 \in S
    BY <1>8, <1>9
  <2>3. ASSUME NEW i \in Nat, i \in S PROVE i + 1 \in S
    <3>1. SUFFICES ASSUME i + 1 <= Len(list) PROVE kept[i + 1] \in Seq(Names)
      OBVIOUS
    <3>2. i + 1 \in 0 .. Len(list) /\ (i + 1) - 1 = i /\ i + 1 # 0 /\ list[i + 1] \in Names
      BY <1>1, <3>1
    <3>3. kept[i] \in Seq(Names)
      BY <2>3, <1>1, <3>1
    <3>4. kept[i + 1] = Kept(kept)[i + 1]
      BY <1>6, <3>2
    <3> QED BY <3>2, <3>3, <3>4
  <2>4. Nat \subseteq S
    <3> HIDE DEF S
    <3> QED BY <2>2, <2>3, SetInduction
  <2>5. ASSUME NEW i \in 0 .. Len(list) PROVE kept[i] \in Seq(Names)
    <3>1. i \in Nat /\ i <= Len(list)
      BY <1>1
    <3> QED BY <2>4, <3>1
  <2> HIDE DEF Kept
  <2> QED BY <1>5, <2>1, <2>5
<1>11. ASSUME NEW i \in 1 .. Len(list)
      PROVE  kept[i] = IF Len(kept[i - 1]) < max /\ ~Store!Knows(kept[i - 1], list[i])
                       THEN Append(kept[i - 1], list[i]) ELSE kept[i - 1]
  <2>1. i \in 0 .. Len(list) /\ i # 0
    BY <1>1
  <2>2. kept[i] = Kept(kept)[i]
    BY <1>6, <2>1
  <2> QED BY <2>1, <2>2
<1> QED BY <1>7, <1>8, <1>10, <1>11

LEMMA WithoutSteps ==
  ASSUME NEW list \in Seq(Names), NEW name
  PROVE  \E kept \in [0 .. Len(list) -> Seq(Names)] :
           /\ kept[0] = <<>>
           /\ \A i \in 1 .. Len(list) :
                kept[i] = IF Store!SameAccount(list[i], name)
                          THEN kept[i - 1] ELSE Append(kept[i - 1], list[i])
           /\ Store!Without(list, name) = kept[Len(list)]
<1> DEFINE Kept(f) == [i \in 0 .. Len(list) |->
              IF i = 0 THEN <<>>
              ELSE IF Store!SameAccount(list[i], name)
                   THEN f[i - 1] ELSE Append(f[i - 1], list[i])]
           kept == CHOOSE f : f = Kept(f)
           Step == [i \in Nat |-> [x \in Seq(Names) |->
                     IF i \in 1 .. Len(list) /\ ~Store!SameAccount(list[i], name)
                     THEN Append(x, list[i]) ELSE x]]
<1>1. Len(list) \in Nat
  OBVIOUS
<1>2. Step \in [Nat -> [Seq(Names) -> Seq(Names)]]
  OBVIOUS
<1>3. PICK g \in [0 .. Len(list) -> Seq(Names)] :
        g[0] = <<>> /\ \A i \in 1 .. Len(list) : g[i] = Step[i][g[i - 1]]
  <2> DEFINE A == Seq(Names)
             a == <<>>
             n == Len(list)
  <2>1. n \in Nat /\ a \in A /\ Step \in [Nat -> [A -> A]]
    BY <1>1, <1>2
  <2> HIDE DEF Step, A, a, n
  <2>2. \E g : IsRecursion(g, n, A, a, Step)
    BY <2>1, RecursionExists
  <2> QED BY <2>2 DEF IsRecursion, A, a, n
<1>4. g = Kept(g)
  <2>1. ASSUME NEW i \in 1 .. Len(list)
        PROVE  g[i] = IF Store!SameAccount(list[i], name)
                      THEN g[i - 1] ELSE Append(g[i - 1], list[i])
    <3>1. i \in Nat /\ i - 1 \in 0 .. Len(list) /\ g[i - 1] \in Seq(Names)
      BY <1>1
    <3> QED BY <1>3, <3>1
  <2>2. g[0] = <<>>
    BY <1>3
  <2> HIDE DEF Step
  <2>3. g = [i \in 0 .. Len(list) |-> g[i]]
    OBVIOUS
  <2>4. ASSUME NEW i \in 0 .. Len(list) PROVE g[i] = Kept(g)[i]
    <3>1. CASE i = 0
      BY <2>2, <3>1
    <3>2. CASE i # 0
      <4>1. i \in 1 .. Len(list)
        BY <1>1, <3>2
      <4> QED BY <2>1, <3>2, <4>1
    <3> QED BY <3>1, <3>2
  <2>5. Kept(g) = [i \in 0 .. Len(list) |-> Kept(g)[i]]
    OBVIOUS
  <2> HIDE DEF Kept
  <2> QED BY <2>3, <2>4, <2>5
<1>5. kept = Kept(kept)
  <2> HIDE DEF Kept
  <2> QED BY <1>4
<1>6. \A i \in 0 .. Len(list) : kept[i] = Kept(kept)[i]
  BY <1>5
<1>7. Store!Without(list, name) = kept[Len(list)]
  BY DEF Store!Without
<1> HIDE DEF kept
<1>8. kept[0] = <<>>
  BY <1>1, <1>6
<1>9. <<>> \in Seq(Names)
  OBVIOUS
<1>10. kept \in [0 .. Len(list) -> Seq(Names)]
  <2>1. kept = [i \in 0 .. Len(list) |-> Kept(kept)[i]]
    BY <1>5
  <2> DEFINE S == {i \in Nat : i <= Len(list) => kept[i] \in Seq(Names)}
  <2>2. 0 \in S
    BY <1>8, <1>9
  <2>3. ASSUME NEW i \in Nat, i \in S PROVE i + 1 \in S
    <3>1. SUFFICES ASSUME i + 1 <= Len(list) PROVE kept[i + 1] \in Seq(Names)
      OBVIOUS
    <3>2. i + 1 \in 0 .. Len(list) /\ (i + 1) - 1 = i /\ i + 1 # 0 /\ list[i + 1] \in Names
      BY <1>1, <3>1
    <3>3. kept[i] \in Seq(Names)
      BY <2>3, <1>1, <3>1
    <3>4. kept[i + 1] = Kept(kept)[i + 1]
      BY <1>6, <3>2
    <3> QED BY <3>2, <3>3, <3>4
  <2>4. Nat \subseteq S
    <3> HIDE DEF S
    <3> QED BY <2>2, <2>3, SetInduction
  <2>5. ASSUME NEW i \in 0 .. Len(list) PROVE kept[i] \in Seq(Names)
    <3>1. i \in Nat /\ i <= Len(list)
      BY <1>1
    <3> QED BY <2>4, <3>1
  <2> HIDE DEF Kept
  <2> QED BY <1>5, <2>1, <2>5
<1>11. ASSUME NEW i \in 1 .. Len(list)
      PROVE  kept[i] = IF Store!SameAccount(list[i], name)
                       THEN kept[i - 1] ELSE Append(kept[i - 1], list[i])
  <2>1. i \in 0 .. Len(list) /\ i # 0
    BY <1>1
  <2>2. kept[i] = Kept(kept)[i]
    BY <1>6, <2>1
  <2> QED BY <2>1, <2>2
<1> QED BY <1>7, <1>8, <1>10, <1>11

\* An account that is appended to a list that does not know it.
LEMMA AppendOK ==
  ASSUME NEW list \in Seq(Names), NEW name \in Names, NoneTwice(list), ~Store!Knows(list, name)
  PROVE  NoneTwice(Append(list, name))
<1> DEFINE new == Append(list, name)
<1>1. DOMAIN new = 1 .. (Len(list) + 1) /\ DOMAIN list = 1 .. Len(list) /\ Len(list) \in Nat
  OBVIOUS
<1>2. \A i \in 1 .. Len(list) : new[i] = list[i]
  OBVIOUS
<1>3. new[Len(list) + 1] = name
  OBVIOUS
<1> SUFFICES ASSUME NEW i \in DOMAIN new, NEW j \in DOMAIN new,
                    Store!SameAccount(new[i], new[j])
             PROVE  i = j
  BY DEF NoneTwice
<1> HIDE DEF new
<1>4. CASE i \in 1 .. Len(list) /\ j \in 1 .. Len(list)
  BY <1>1, <1>2, <1>4 DEF NoneTwice
<1>5. CASE i = Len(list) + 1 /\ j = Len(list) + 1
  BY <1>5
<1>6. CASE i = Len(list) + 1 /\ j \in 1 .. Len(list)
  BY <1>1, <1>2, <1>3, <1>6 DEF Store!Knows, Store!SameAccount
<1>7. CASE i \in 1 .. Len(list) /\ j = Len(list) + 1
  BY <1>1, <1>2, <1>3, <1>7 DEF Store!Knows, Store!SameAccount
<1> QED BY <1>1, <1>4, <1>5, <1>6, <1>7

LEMMA KnowsAppend ==
  ASSUME NEW list \in Seq(Names), NEW n \in Names, NEW x
  PROVE  Store!Knows(Append(list, n), x) <=> Store!Knows(list, x) \/ Store!SameAccount(n, x)
<1> DEFINE new == Append(list, n)
           m == Len(list)
<1>1. /\ m \in Nat /\ DOMAIN list = 1 .. m /\ DOMAIN new = 1 .. (m + 1) /\ new[m + 1] = n
      /\ \A i \in 1 .. m : new[i] = list[i]
  OBVIOUS
<1> HIDE DEF new, m
<1>2. ASSUME Store!Knows(new, x) PROVE Store!Knows(list, x) \/ Store!SameAccount(n, x)
  <2>1. PICK i \in 1 .. (m + 1) : Store!SameAccount(new[i], x)
    BY <1>1, <1>2 DEF Store!Knows
  <2>2. CASE i = m + 1
    BY <1>1, <2>1, <2>2
  <2>3. CASE i \in 1 .. m
    BY <1>1, <2>1, <2>3 DEF Store!Knows
  <2> QED BY <1>1, <2>2, <2>3
<1>3. ASSUME Store!Knows(list, x) PROVE Store!Knows(new, x)
  <2>1. PICK i \in 1 .. m : Store!SameAccount(list[i], x)
    BY <1>1, <1>3 DEF Store!Knows
  <2>2. i \in DOMAIN new /\ new[i] = list[i]
    BY <1>1
  <2> QED BY <2>1, <2>2 DEF Store!Knows
<1>4. ASSUME Store!SameAccount(n, x) PROVE Store!Knows(new, x)
  <2>1. m + 1 \in DOMAIN new
    BY <1>1
  <2> QED BY <1>1, <1>4, <2>1 DEF Store!Knows
<1> QED BY <1>2, <1>3, <1>4 DEF new

LEMMA SameIsSame == ASSUME NEW n PROVE Store!SameAccount(n, n)
BY DEF Store!SameAccount

LEMMA EmptyOK == NoneTwice(<<>>)
BY DEF NoneTwice

\* What parseUserAccountsXml returns: names of the file, none twice and not more than
\* it may; it leaves out a name only because the list is full.
THEOREM ParsedOK ==
  ASSUME NEW list \in Seq(Names), NEW max \in Nat
  PROVE  /\ Store!Parsed(list, max) \in Seq(Names)
         /\ Len(Store!Parsed(list, max)) <= max /\ Len(Store!Parsed(list, max)) <= Len(list)
         /\ NoneTwice(Store!Parsed(list, max))
         /\ Len(Store!Parsed(list, max)) < max =>
              \A k \in DOMAIN list : Store!Knows(Store!Parsed(list, max), list[k])
<1>1. PICK kept \in [0 .. Len(list) -> Seq(Names)] :
        /\ kept[0] = <<>>
        /\ \A i \in 1 .. Len(list) :
             kept[i] = IF Len(kept[i - 1]) < max /\ ~Store!Knows(kept[i - 1], list[i])
                       THEN Append(kept[i - 1], list[i]) ELSE kept[i - 1]
        /\ Store!Parsed(list, max) = kept[Len(list)]
  BY ParsedSteps
<1>2. Len(list) \in Nat /\ DOMAIN list = 1 .. Len(list)
  OBVIOUS
<1> DEFINE All(i) == Len(kept[i]) < max => \A k \in 1 .. i : Store!Knows(kept[i], list[k])
           S == {i \in Nat : i <= Len(list) =>
                   Len(kept[i]) <= max /\ Len(kept[i]) <= i /\ NoneTwice(kept[i]) /\ All(i)}
<1>3. 0 \in S
  <2>1. Len(kept[0]) = 0 /\ NoneTwice(kept[0])
    BY <1>1, EmptyOK
  <2> QED BY <2>1
<1>4. ASSUME NEW i \in Nat, i \in S PROVE i + 1 \in S
  <2> SUFFICES ASSUME i + 1 <= Len(list)
               PROVE  /\ Len(kept[i + 1]) <= max /\ Len(kept[i + 1]) <= i + 1
                      /\ NoneTwice(kept[i + 1]) /\ All(i + 1)
    OBVIOUS
  <2>1. i + 1 \in 1 .. Len(list) /\ (i + 1) - 1 = i /\ i \in 0 .. Len(list)
    BY <1>2
  <2>2. Len(kept[i]) <= max /\ Len(kept[i]) <= i /\ NoneTwice(kept[i]) /\ All(i)
    BY <1>2, <1>4
  <2>3. kept[i] \in Seq(Names) /\ list[i + 1] \in Names
    BY <2>1
  <2>4. kept[i + 1] = IF Len(kept[i]) < max /\ ~Store!Knows(kept[i], list[i + 1])
                      THEN Append(kept[i], list[i + 1]) ELSE kept[i]
    BY <1>1, <2>1
  <2> HIDE DEF S
  <2>5. CASE Len(kept[i]) < max /\ ~Store!Knows(kept[i], list[i + 1])
    <3>1. kept[i + 1] = Append(kept[i], list[i + 1])
      BY <2>4, <2>5
    <3>2. Len(kept[i + 1]) = Len(kept[i]) + 1 /\ Len(kept[i]) \in Nat
      BY <2>3, <3>1
    <3>3. NoneTwice(kept[i + 1])
      BY <2>2, <2>3, <2>5, <3>1, AppendOK
    <3>4. ASSUME NEW k \in 1 .. (i + 1) PROVE Store!Knows(kept[i + 1], list[k])
      <4>1. CASE k = i + 1
        BY <2>3, <3>1, <4>1, KnowsAppend, SameIsSame
      <4>2. CASE k \in 1 .. i
        BY <2>2, <2>3, <2>5, <3>1, <4>2, KnowsAppend
      <4> QED BY <4>1, <4>2
    <3> QED BY <2>2, <2>5, <3>2, <3>3, <3>4
  <2>6. CASE ~(Len(kept[i]) < max /\ ~Store!Knows(kept[i], list[i + 1]))
    <3>1. kept[i + 1] = kept[i]
      BY <2>4, <2>6
    <3>2. ASSUME Len(kept[i]) < max, NEW k \in 1 .. (i + 1) PROVE Store!Knows(kept[i], list[k])
      <4>1. CASE k = i + 1
        BY <2>6, <3>2, <4>1
      <4>2. CASE k \in 1 .. i
        BY <2>2, <3>2, <4>2
      <4> QED BY <4>1, <4>2
    <3>3. Len(kept[i]) \in Nat
      BY <2>3
    <3> QED BY <2>2, <3>1, <3>2, <3>3
  <2> QED BY <2>5, <2>6
<1>5. Len(list) \in S
  <2> HIDE DEF S
  <2> QED BY <1>2, <1>3, <1>4, SetInduction
<1>6. Len(list) \in 0 .. Len(list)
  BY <1>2
<1> QED BY <1>1, <1>2, <1>5, <1>6

\* What removing a name from the history returns: the others, and only those.
THEOREM WithoutOK ==
  ASSUME NEW list \in Seq(Names), NEW name
  PROVE  /\ Store!Without(list, name) \in Seq(Names)
         /\ ~Store!Knows(Store!Without(list, name), name)
         /\ NoneTwice(list) => NoneTwice(Store!Without(list, name))
         /\ \A k \in DOMAIN list :
              Store!SameAccount(list[k], name) \/ Store!Knows(Store!Without(list, name), list[k])
<1>1. PICK kept \in [0 .. Len(list) -> Seq(Names)] :
        /\ kept[0] = <<>>
        /\ \A i \in 1 .. Len(list) :
             kept[i] = IF Store!SameAccount(list[i], name)
                       THEN kept[i - 1] ELSE Append(kept[i - 1], list[i])
        /\ Store!Without(list, name) = kept[Len(list)]
  BY WithoutSteps
<1>2. Len(list) \in Nat /\ DOMAIN list = 1 .. Len(list)
  OBVIOUS
<1> DEFINE From(l, i) == \A j \in DOMAIN l : \E k \in 1 .. i : l[j] = list[k]
           All(i) == \A k \in 1 .. i :
                       Store!SameAccount(list[k], name) \/ Store!Knows(kept[i], list[k])
           S == {i \in Nat : i <= Len(list) =>
                   /\ ~Store!Knows(kept[i], name)
                   /\ From(kept[i], i) /\ All(i)
                   /\ NoneTwice(list) => NoneTwice(kept[i])}
<1>3. 0 \in S
  <2>1. kept[0] = <<>> /\ NoneTwice(kept[0])
    BY <1>1, EmptyOK
  <2> QED BY <2>1 DEF Store!Knows
<1>4. ASSUME NEW i \in Nat, i \in S PROVE i + 1 \in S
  <2> DEFINE n == list[i + 1]
  <2> SUFFICES ASSUME i + 1 <= Len(list)
               PROVE  /\ ~Store!Knows(kept[i + 1], name)
                      /\ From(kept[i + 1], i + 1) /\ All(i + 1)
                      /\ NoneTwice(list) => NoneTwice(kept[i + 1])
    OBVIOUS
  <2>1. i + 1 \in 1 .. Len(list) /\ (i + 1) - 1 = i /\ i \in 0 .. Len(list)
    BY <1>2
  <2>2. ~Store!Knows(kept[i], name) /\ From(kept[i], i) /\ All(i) /\ (NoneTwice(list) => NoneTwice(kept[i]))
    BY <1>2, <1>4
  <2>3. kept[i] \in Seq(Names) /\ n \in Names
    BY <2>1
  <2>4. kept[i + 1] = IF Store!SameAccount(n, name) THEN kept[i] ELSE Append(kept[i], n)
    BY <1>1, <2>1
  <2> HIDE DEF S
  <2>5. CASE Store!SameAccount(n, name)
    <3>1. kept[i + 1] = kept[i]
      BY <2>4, <2>5
    <3>2. 1 .. i \subseteq 1 .. (i + 1)
      OBVIOUS
    <3>3. \A k \in 1 .. (i + 1) : k = i + 1 \/ k \in 1 .. i
      OBVIOUS
    <3> QED BY <2>2, <2>5, <3>1, <3>2, <3>3
  <2>6. CASE ~Store!SameAccount(n, name)
    <3>1. kept[i + 1] = Append(kept[i], n)
      BY <2>4, <2>6
    <3> DEFINE m == Len(kept[i])
    <3>2. /\ m \in Nat /\ DOMAIN kept[i] = 1 .. m
          /\ DOMAIN kept[i + 1] = 1 .. (m + 1) /\ kept[i + 1][m + 1] = n
          /\ \A j \in 1 .. m : kept[i + 1][j] = kept[i][j]
      BY <2>3, <3>1
    <3> HIDE DEF m
    <3>3. ~Store!Knows(kept[i + 1], name)
      BY <2>2, <2>3, <2>6, <3>1, KnowsAppend
    <3>4. From(kept[i + 1], i + 1)
      <4> SUFFICES ASSUME NEW j \in 1 .. (m + 1)
                   PROVE  \E k \in 1 .. (i + 1) : kept[i + 1][j] = list[k]
        BY <3>2
      <4>1. CASE j = m + 1
        <5>1. kept[i + 1][j] = list[i + 1] /\ i + 1 \in 1 .. (i + 1)
          BY <3>2, <4>1
        <5> QED BY <5>1
      <4>2. CASE j \in 1 .. m
        <5>1. kept[i + 1][j] = kept[i][j] /\ j \in DOMAIN kept[i]
          BY <3>2, <4>2
        <5>2. PICK k \in 1 .. i : kept[i][j] = list[k]
          BY <2>2, <5>1
        <5>3. k \in 1 .. (i + 1)
          OBVIOUS
        <5> QED BY <5>1, <5>2, <5>3
      <4> QED BY <3>2, <4>1, <4>2
    <3>5. ASSUME NoneTwice(list) PROVE NoneTwice(kept[i + 1])
      <4>1. ~Store!Knows(kept[i], n)
        <5> SUFFICES ASSUME NEW j \in DOMAIN kept[i], Store!SameAccount(kept[i][j], n)
                     PROVE  FALSE
          BY DEF Store!Knows
        <5>1. PICK k \in 1 .. i : kept[i][j] = list[k]
          BY <2>2
        <5>2. k \in DOMAIN list /\ i + 1 \in DOMAIN list /\ k # i + 1
          BY <1>2, <2>1
        <5> QED BY <3>5, <5>1, <5>2 DEF NoneTwice
      <4> QED BY <2>2, <2>3, <3>1, <3>5, <4>1, AppendOK
    <3>6. All(i + 1)
      <4> SUFFICES ASSUME NEW k \in 1 .. (i + 1)
                   PROVE  Store!SameAccount(list[k], name) \/ Store!Knows(kept[i + 1], list[k])
        OBVIOUS
      <4>1. CASE k = i + 1
        BY <2>3, <3>1, <4>1, KnowsAppend, SameIsSame
      <4>2. CASE k \in 1 .. i
        BY <2>2, <2>3, <3>1, <4>2, KnowsAppend
      <4> QED BY <4>1, <4>2
    <3> QED BY <3>3, <3>4, <3>5, <3>6
  <2> QED BY <2>5, <2>6
<1>5. Len(list) \in S
  <2> HIDE DEF S
  <2> QED BY <1>2, <1>3, <1>4, SetInduction
<1>6. Len(list) \in 0 .. Len(list)
  BY <1>2
<1> QED BY <1>1, <1>2, <1>5, <1>6

LEMMA CutOK ==
  ASSUME NEW list \in Seq(Names), NEW max \in Nat
  PROVE  /\ Store!Cut(list, max) \in Seq(Names)
         /\ Len(Store!Cut(list, max)) <= max
         /\ \A i \in DOMAIN Store!Cut(list, max) :
              i \in DOMAIN list /\ Store!Cut(list, max)[i] = list[i]
<1>1. CASE Len(list) > max
  <2> DEFINE cut == SubSeq(list, 1, max)
  <2>1. cut \in Seq(Names) /\ Len(cut) = max /\ DOMAIN cut = 1 .. max
    BY <1>1
  <2>2. \A i \in 1 .. max : cut[i] = list[i]
    BY <1>1
  <2>3. DOMAIN list = 1 .. Len(list) /\ Len(list) \in Nat
    OBVIOUS
  <2> HIDE DEF cut
  <2>4. Store!Cut(list, max) = cut
    BY <1>1 DEF Store!Cut, cut
  <2> QED BY <1>1, <2>1, <2>2, <2>3, <2>4
<1>2. CASE ~(Len(list) > max)
  BY <1>2 DEF Store!Cut
<1> QED BY <1>1, <1>2

\* After a login the history has its name first, no name twice, and not too many.
THEOREM NewestOK ==
  ASSUME NEW name \in Names, NEW list \in Seq(Names)
  PROVE  LET new == Store!Newest(name, list) IN
         new \in Seq(Names) /\ new # <<>> /\ new[1] = name /\ Len(new) <= MaxCount /\ NoneTwice(new)
<1> DEFINE rest == Store!Without(Store!Parsed(list, Store!MaxParsed), name)
           all == <<name>> \o rest
           new == Store!Cut(all, MaxCount)
<1>1. Store!MaxParsed \in Nat
  BY DEF Store!MaxParsed
<1>2. rest \in Seq(Names) /\ ~Store!Knows(rest, name) /\ NoneTwice(rest)
  BY <1>1, ParsedOK, WithoutOK
<1> HIDE DEF rest
<1>3. /\ all \in Seq(Names) /\ all[1] = name
      /\ Len(rest) \in Nat /\ Len(all) = Len(rest) + 1
      /\ \A i \in 1 .. Len(rest) : all[i + 1] = rest[i]
  BY <1>2
<1>4. NoneTwice(all)
  <2> SUFFICES ASSUME NEW i \in 1 .. (Len(rest) + 1), NEW j \in 1 .. (Len(rest) + 1),
                      Store!SameAccount(all[i], all[j])
               PROVE  i = j
    BY <1>3 DEF NoneTwice
  <2> HIDE DEF all
  <2>1. ASSUME NEW k \in 1 .. (Len(rest) + 1), k # 1
        PROVE  k - 1 \in DOMAIN rest /\ all[k] = rest[k - 1]
    <3>1. k - 1 \in 1 .. Len(rest) /\ (k - 1) + 1 = k
      BY <1>3, <2>1
    <3> QED BY <1>2, <1>3, <3>1
  <2>2. CASE i = 1 /\ j # 1
    BY <1>2, <1>3, <2>1, <2>2 DEF Store!Knows, Store!SameAccount
  <2>3. CASE i # 1 /\ j = 1
    BY <1>2, <1>3, <2>1, <2>3 DEF Store!Knows, Store!SameAccount
  <2>4. CASE i # 1 /\ j # 1
    <3>1. i - 1 = j - 1
      BY <1>2, <2>1, <2>4 DEF NoneTwice
    <3> QED BY <1>3, <3>1
  <2> QED BY <2>2, <2>3, <2>4
<1> HIDE DEF all
<1>5. MaxCount \in Nat /\ MaxCount > 0
  BY AccountAssumption
<1>6. new \in Seq(Names) /\ Len(new) <= MaxCount /\ NoneTwice(new)
  BY <1>3, <1>4, <1>5, CutOK DEF NoneTwice
<1>7. new # <<>> /\ new[1] = name
  <2>1. CASE Len(all) > MaxCount
    <3>1. SubSeq(all, 1, MaxCount)[1] = all[1] /\ Len(SubSeq(all, 1, MaxCount)) = MaxCount
      BY <1>3, <1>5, <2>1
    <3>2. new = SubSeq(all, 1, MaxCount)
      BY <2>1 DEF Store!Cut
    <3> QED BY <1>3, <1>5, <3>1, <3>2
  <2>2. CASE ~(Len(all) > MaxCount)
    <3>1. new = all
      BY <2>2 DEF Store!Cut
    <3> QED BY <1>3, <3>1
  <2> QED BY <2>1, <2>2
<1>8. Store!Newest(name, list) = new
  BY DEF Store!Newest, all, rest
<1> HIDE DEF new
<1> QED BY <1>6, <1>7, <1>8

\* After removeUserAccount the history does not know the name, has no name twice,
\* and, unless it was longer than what is read of it, still knows every other name.
THEOREM RemovedOK ==
  ASSUME NEW name, NEW list \in Seq(Names)
  PROVE  /\ Store!Removed(name, list) \in Seq(Names)
         /\ ~Store!Knows(Store!Removed(name, list), name)
         /\ NoneTwice(Store!Removed(name, list))
         /\ Len(list) < Store!MaxParsed =>
              \A k \in DOMAIN list :
                Store!SameAccount(list[k], name) \/ Store!Knows(Store!Removed(name, list), list[k])
<1>1. Store!MaxParsed \in Nat
  BY DEF Store!MaxParsed
<1> DEFINE p == Store!Parsed(list, Store!MaxParsed)
           w == Store!Without(p, name)
<1>2. p \in Seq(Names) /\ NoneTwice(p) /\ Len(p) <= Len(list) /\ Len(list) \in Nat /\ Len(p) \in Nat
      /\ (Len(p) < Store!MaxParsed => \A k \in DOMAIN list : Store!Knows(p, list[k]))
  BY <1>1, ParsedOK
<1>3. Store!Removed(name, list) = w
  BY DEF Store!Removed
<1> HIDE DEF p
<1>4. /\ w \in Seq(Names) /\ ~Store!Knows(w, name) /\ NoneTwice(w)
      /\ \A j \in DOMAIN p : Store!SameAccount(p[j], name) \/ Store!Knows(w, p[j])
  BY <1>2, WithoutOK
<1> HIDE DEF w
<1>5. ASSUME Len(list) < Store!MaxParsed, NEW k \in DOMAIN list
      PROVE  Store!SameAccount(list[k], name) \/ Store!Knows(w, list[k])
  <2>1. Store!Knows(p, list[k])
    BY <1>1, <1>2, <1>5
  <2>2. PICK j \in DOMAIN p : Store!SameAccount(p[j], list[k])
    BY <2>1 DEF Store!Knows
  <2> QED BY <1>4, <2>2 DEF Store!Knows, Store!SameAccount
<1> QED BY <1>3, <1>4, <1>5

-----------------------------------------------------------------------------
(* Types, and who has the file open                                        *)

Phases == {"off", "load", "read", "write", "list", "fetch", "idle"}

TypeInv ==
  /\ file \in Texts \cup {NoFile}
  /\ base \in [Processes -> Texts]
  /\ shown \in [Processes -> Seq(Names)]
  /\ phase \in [Processes -> Phases]
  /\ handler \in [Processes -> Handlers \cup {Start}]
  /\ saved \in [Processes -> Versions \cup {NoVersion}]
  /\ served \in [Processes -> Versions \cup {NoVersion, Unknown}]
  /\ review \in [Processes -> BOOLEAN]
  /\ accepted \in SUBSET Versions
  /\ faults \in Nat
  /\ disturbed \in BOOLEAN
  /\ readers \subseteq Processes

\* Who has the file open, and what for.
OpenInv ==
  /\ writer # NoProcess => writer \in Processes /\ phase[writer] = "write" /\ readers = {}
                           /\ file = EmptyText
  /\ \A p \in readers : Reads(p) /\ file # NoFile
  /\ \A p \in Processes : phase[p] \in {"read", "write"} => handler[p] \in Handlers
  /\ \A p \in Processes : phase[p] = "fetch" => handler[p].kind = "start"

LEMMA UpdatedOK ==
  ASSUME NEW t \in Texts, NEW h \in Handlers
  PROVE  /\ Updated(t, h) \in Texts
         /\ Updated(t, h).root
         /\ h.kind = "accept" =>
              /\ h.arg.node \in Nodes /\ h.arg.version \in Versions
              /\ Updated(t, h).nodes = [t.nodes EXCEPT ![h.arg.node] = h.arg.version]
              /\ Updated(t, h).accounts = t.accounts
         /\ h.kind # "accept" =>
              h.arg \in Names /\ h.kind \in {"record", "remove"} /\ Updated(t, h).nodes = t.nodes
         /\ h.kind = "record" => Updated(t, h).accounts = Store!Newest(h.arg, t.accounts)
         /\ h.kind = "remove" => Updated(t, h).accounts = Store!Removed(h.arg, t.accounts)
<1>1. /\ h.kind \in {"record", "remove", "accept"}
      /\ h.kind = "accept" => h.arg.node \in Nodes /\ h.arg.version \in Versions
      /\ h.kind # "accept" => h.arg \in Names
  BY DEF Handlers, Handler
<1>2. t.accounts \in Seq(Names) /\ t.nodes \in NodeVersions
  BY DEF Texts
<1>3. ASSUME NEW a \in Seq(Names)
      PROVE  /\ WithAccounts(t, a) \in Texts /\ WithAccounts(t, a).root
             /\ WithAccounts(t, a).nodes = t.nodes /\ WithAccounts(t, a).accounts = a
  BY DEF WithAccounts, Texts
<1>4. CASE h.kind = "record"
  <2>1. Updated(t, h) = WithAccounts(t, Store!Newest(h.arg, t.accounts))
    BY <1>4 DEF Updated
  <2>2. Store!Newest(h.arg, t.accounts) \in Seq(Names)
    BY <1>1, <1>2, <1>4, NewestOK
  <2> QED BY <1>1, <1>3, <1>4, <2>1, <2>2
<1>5. CASE h.kind = "remove"
  <2>1. Updated(t, h) = WithAccounts(t, Store!Removed(h.arg, t.accounts))
    BY <1>5 DEF Updated
  <2>2. Store!Removed(h.arg, t.accounts) \in Seq(Names)
    BY <1>2, RemovedOK
  <2> QED BY <1>1, <1>3, <1>5, <2>1, <2>2
<1>6. CASE h.kind = "accept"
  <2>1. Updated(t, h) = WithNode(t, h.arg)
    BY <1>6 DEF Updated
  <2>2. /\ WithNode(t, h.arg) \in Texts /\ WithNode(t, h.arg).root
        /\ WithNode(t, h.arg).nodes = [t.nodes EXCEPT ![h.arg.node] = h.arg.version]
        /\ WithNode(t, h.arg).accounts = t.accounts
    BY <1>1, <1>2, <1>6 DEF WithNode, Texts, NodeVersions
  <2> QED BY <1>1, <1>6, <2>1, <2>2
<1> QED BY <1>1, <1>4, <1>5, <1>6

LEMMA DefaultsOK ==
  /\ EmptyText \in Texts /\ DefaultText \in Texts
  /\ EmptyText.nodes = NoVersions /\ DefaultText.nodes = NoVersions
  /\ DefaultText.root = TRUE
  /\ EmptyText.accounts = <<>> /\ DefaultText.accounts = <<>>
  /\ EmptyText # NoFile
<1>1. <<>> \in Seq(Names) /\ NoVersions \in NodeVersions
  BY DEF NoVersions, NodeVersions
<1>2. EmptyText \in Texts /\ DefaultText \in Texts
  BY <1>1 DEF EmptyText, DefaultText, Text, Texts
<1>3. /\ EmptyText.nodes = NoVersions /\ DefaultText.nodes = NoVersions
      /\ DefaultText.root = TRUE
      /\ EmptyText.accounts = <<>> /\ DefaultText.accounts = <<>>
  BY DEF EmptyText, DefaultText, Text
<1> QED BY <1>2, <1>3, TextsAssumption

LEMMA InitialOK == ASSUME NEW t \in InitialTexts PROVE t \in Texts /\ t.root = TRUE
BY TextsAssumption DEF Texts

LEMMA PrivacyOK ==
  ASSUME NEW t \in Texts
  PROVE  t.nodes[Privacy] \in Versions \cup {NoVersion}
BY NodeAssumption DEF Texts, NodeVersions

LEMMA NoPrivacy == EmptyText.nodes[Privacy] = NoVersion /\ DefaultText.nodes[Privacy] = NoVersion
BY DefaultsOK, NodeAssumption DEF NoVersions

LEMMA BaseInit == Init => TypeInv /\ OpenInv
<1> SUFFICES ASSUME Init PROVE TypeInv /\ OpenInv
  OBVIOUS
<1>1. file \in Texts \cup {NoFile}
  BY InitialOK DEF Init
<1>2. accepted \in SUBSET Versions
  BY InitialOK, PrivacyOK DEF Init
<1>3. <<>> \in Seq(Names)
  OBVIOUS
<1>4. TypeInv
  BY <1>1, <1>2, <1>3, DefaultsOK DEF Init, TypeInv, Phases
<1>5. OpenInv
  BY DEF Init, OpenInv
<1> QED BY <1>5, <1>4

\* What a handler does with a text leaves phases and texts of the right kind.
LEMMA ReadDoneOK ==
  ASSUME TypeInv, OpenInv, NEW p \in Processes, NEW t \in Texts, ReadDone(p, t)
  PROVE  /\ phase' \in [Processes -> Phases]
         /\ saved' \in [Processes -> Versions \cup {NoVersion}]
         /\ served' \in [Processes -> Versions \cup {NoVersion, Unknown}]
         /\ review' \in [Processes -> BOOLEAN]
         /\ base' \in [Processes -> Texts]
         /\ shown' \in [Processes -> Seq(Names)]
         /\ HistoryWellFormed => HistoryWellFormed'
         /\ \A q \in Processes \ {p} : phase'[q] = phase[q]
         /\ phase'[p] \in {"read", "write"} => handler[p] \in Handlers
         /\ phase'[p] = "fetch" => handler[p].kind = "start"
         /\ phase[p] # "write"
<1> USE DEF TypeInv, OpenInv, Phases
<1>1. CASE phase[p] = "load" /\ handler[p].kind = "start" /\ Goto(p, "list")
           /\ saved' = [saved EXCEPT ![p] = t.nodes[Privacy]]
           /\ served' = [served EXCEPT ![p] = Unknown]
           /\ review' = [review EXCEPT ![p] = ReviewRequired(t.nodes[Privacy], Unknown)]
           /\ UNCHANGED <<base, shown>>
  <2>1. t.nodes[Privacy] \in Versions \cup {NoVersion}
    BY PrivacyOK
  <2>2. ReviewRequired(t.nodes[Privacy], Unknown) \in BOOLEAN
    BY DEF ReviewRequired
  <2> QED BY <1>1, <2>1, <2>2 DEF Goto, HistoryWellFormed
<1>2. CASE phase[p] = "load" /\ handler[p].kind # "start" /\ Goto(p, "read")
           /\ UNCHANGED <<base, policyVars, shown>>
  BY <1>2 DEF Goto, HistoryWellFormed, Start, Handler, policyVars
<1>3. CASE phase[p] = "read" /\ base' = [base EXCEPT ![p] = t]
           /\ Goto(p, IF NothingToDo(p, t) THEN "list" ELSE "write")
           /\ UNCHANGED <<policyVars, shown>>
  BY <1>3 DEF Goto, HistoryWellFormed, policyVars
<1>4. CASE phase[p] = "list" /\ UNCHANGED <<base, policyVars>>
           /\ Goto(p, IF handler[p].kind = "start" THEN "fetch" ELSE "idle")
           /\ shown' = [shown EXCEPT ![p] = Store!Parsed(t.accounts, MaxCount)]
  <2> DEFINE list == Store!Parsed(t.accounts, MaxCount)
  <2>1. t.accounts \in Seq(Names) /\ MaxCount \in Nat
    BY AccountAssumption DEF Texts
  <2>2. list \in Seq(Names) /\ Len(list) <= MaxCount /\ NoneTwice(list)
    BY <2>1, ParsedOK
  <2> HIDE DEF list
  <2>3. shown' = [shown EXCEPT ![p] = list]
    BY <1>4 DEF list
  <2>4. shown' \in [Processes -> Seq(Names)] /\ (HistoryWellFormed => HistoryWellFormed')
    BY <2>2, <2>3 DEF HistoryWellFormed
  <2> QED BY <1>4, <2>4 DEF Goto, policyVars
<1> QED BY <1>1, <1>2, <1>3, <1>4 DEF ReadDone

LEMMA BaseNext ==
  ASSUME TypeInv, OpenInv, [Next]_vars
  PROVE  TypeInv' /\ OpenInv'
<1> USE DEF TypeInv, OpenInv, Phases
<1>1. CASE UNCHANGED vars
  BY <1>1 DEF vars, policyVars, Reads
<1>2. ASSUME NEW p \in Processes, NEW h \in Handlers \cup {Start}, Begin(p, h),
             phase[p] \in {"off", "idle"}
      PROVE  TypeInv' /\ OpenInv'
  BY <1>2 DEF Begin, Goto, Reads, policyVars
<1>3. ASSUME NEW p \in Processes, OpenForRead(p)
      PROVE  TypeInv' /\ OpenInv'
  BY <1>3 DEF OpenForRead, MayRead, Reads, policyVars
<1>4. ASSUME NEW p \in Processes, CloseRead(p)
      PROVE  TypeInv' /\ OpenInv'
  <2>1. file \in Texts /\ ReadDone(p, file) /\ readers' = readers \ {p}
        /\ UNCHANGED <<file, writer, handler, faults, disturbed, accepted>>
    BY <1>4 DEF CloseRead
  <2> QED BY <2>1, ReadDoneOK DEF Reads
<1>5. ASSUME NEW p \in Processes, ReadRefused(p)
      PROVE  TypeInv' /\ OpenInv'
  <2>1. Reads(p) /\ p \notin readers /\ UNCHANGED <<file, readers, writer, handler, faults,
                                                    disturbed, accepted>>
    BY <1>5 DEF ReadRefused
  <2>2. CASE GivesUp(p)
    BY <1>5, <2>1, <2>2 DEF ReadRefused, Goto, Reads, policyVars
  <2>3. CASE ~GivesUp(p)
    <3> DEFINE t == IF handler[p].kind = "accept" THEN EmptyText ELSE DefaultText
    <3>1. t \in Texts
      BY DefaultsOK
    <3>2. ReadDone(p, t)
      BY <1>5, <2>3 DEF ReadRefused
    <3> HIDE DEF t
    <3> QED BY <2>1, <3>1, <3>2, ReadDoneOK DEF Reads
  <2> QED BY <2>2, <2>3
<1>6. ASSUME NEW p \in Processes, OpenForWrite(p)
      PROVE  TypeInv' /\ OpenInv'
  BY <1>6, DefaultsOK DEF OpenForWrite, MayWrite, Reads, policyVars
<1>7. ASSUME NEW p \in Processes, WriteRefused(p)
      PROVE  TypeInv' /\ OpenInv'
  BY <1>7 DEF WriteRefused, AfterFailure, Goto, Reads, policyVars
<1>8. ASSUME NEW p \in Processes, WriteText(p)
      PROVE  TypeInv' /\ OpenInv'
  <2>1. p = writer /\ phase[p] = "write" /\ readers = {} /\ handler[p] \in Handlers
    BY <1>8, ProcessAssumption DEF WriteText
  <2>2. file' \in Texts /\ writer' = NoProcess
        /\ UNCHANGED <<readers, handler, base, served, shown, faults, disturbed>>
    BY <1>8, <2>1, UpdatedOK DEF WriteText
  <2>3. phase' \in [Processes -> Phases] /\ phase' = [phase EXCEPT ![p] = phase'[p]] /\
        phase'[p] \in {"idle", "list"}
    BY <1>8 DEF WriteText, Goto
  <2>4. /\ saved' \in [Processes -> Versions \cup {NoVersion}]
        /\ review' \in [Processes -> BOOLEAN]
        /\ accepted' \in SUBSET Versions
    <3>1. CASE handler[p].kind = "accept" /\ handler[p].arg.node = Privacy
      <4>1. handler[p].arg.version \in Versions
        BY <2>1, <3>1, UpdatedOK
      <4> QED BY <1>8, <3>1, <4>1 DEF WriteText
    <3>2. CASE ~(handler[p].kind = "accept" /\ handler[p].arg.node = Privacy)
      BY <1>8, <3>2 DEF WriteText
    <3> QED BY <3>1, <3>2
  <2> QED BY <2>1, <2>2, <2>3, <2>4 DEF Reads
<1>9. ASSUME NEW p \in Processes, WriteFails(p)
      PROVE  TypeInv' /\ OpenInv'
  BY <1>9, ProcessAssumption DEF WriteFails, AfterFailure, Goto, Reads, policyVars
<1>10. ASSUME NEW p \in Processes, End(p)
      PROVE  TypeInv' /\ OpenInv'
  <2>1. <<>> \in Seq(Names) /\ Start.kind = "start"
    BY DEF Start, Handler
  <2> QED BY <1>10, <2>1, ProcessAssumption, DefaultsOK DEF End, Forget, Goto, Reads
<1>11. ASSUME NEW p \in Processes, NEW reply \in Replies, ServerAnswers(p, reply)
      PROVE  TypeInv' /\ OpenInv'
  <2>1. reply[Privacy] \in Versions \cup {NoVersion}
    BY VersionAssumption, NodeAssumption DEF NodeVersions
  <2>2. ReviewRequired(saved[p], reply[Privacy]) \in BOOLEAN
    BY DEF ReviewRequired
  <2>3. served' \in [Processes -> Versions \cup {NoVersion, Unknown}]
        /\ review' \in [Processes -> BOOLEAN]
    BY <1>11, <2>1, <2>2 DEF ServerAnswers
  <2>4. /\ phase[p] = "fetch"
        /\ UNCHANGED <<file, readers, writer, base, saved, shown, faults, accepted>>
    BY <1>11 DEF ServerAnswers
  <2>5. CASE reply[Service] \in Versions
    <3> DEFINE h == Handler("accept", [node |-> Service, version |-> reply[Service]])
    <3>1. h \in Handlers
      BY <2>5, NodeAssumption DEF Handlers
    <3>2. Goto(p, "load") /\ handler' = [handler EXCEPT ![p] = h] /\ disturbed' \in BOOLEAN
      BY <1>11, <2>5 DEF ServerAnswers
    <3> HIDE DEF h
    <3> QED BY <2>3, <2>4, <3>1, <3>2 DEF Goto, Reads
  <2>6. CASE reply[Service] \notin Versions
    <3>1. Goto(p, "idle") /\ UNCHANGED <<handler, disturbed>>
      BY <1>11, <2>6 DEF ServerAnswers
    <3> QED BY <2>3, <2>4, <3>1 DEF Goto, Reads
  <2> QED BY <2>5, <2>6
<1>12. ASSUME NEW p \in Processes, ServerFails(p)
      PROVE  TypeInv' /\ OpenInv'
  <2>1. ReviewRequired(saved[p], Unknown) \in BOOLEAN
    BY DEF ReviewRequired
  <2> QED BY <1>12, <2>1 DEF ServerFails, Goto, Reads
<1>13. ASSUME NEW p \in Processes, StartProcess(p) \/ RunHandler(p) \/ AcceptPolicy(p)
      PROVE  TypeInv' /\ OpenInv'
  <2>1. phase[p] \in {"off", "idle"} /\ \E h \in Handlers \cup {Start} : Begin(p, h)
    <3>1. \A n \in Names : Handler("record", n) \in Handlers /\ Handler("remove", n) \in Handlers
      BY DEF Handlers
    <3>2. \A v \in Versions : Handler("accept", [node |-> Privacy, version |-> v]) \in Handlers
      BY NodeAssumption DEF Handlers
    <3> QED BY <1>13, <3>1, <3>2 DEF StartProcess, RunHandler, AcceptPolicy
  <2> QED BY <1>2, <2>1
<1> QED BY <1>1, <1>3, <1>4, <1>5, <1>6, <1>7, <1>8, <1>9, <1>10, <1>11, <1>12, <1>13 DEF Next

-----------------------------------------------------------------------------
(* Accepted versions                                                       *)

\* A version stands somewhere only if it was accepted, and what a window is about to
\* store is the version that the server has given to it.
ReviewInv ==
  /\ file # NoFile => file.nodes[Privacy] \in accepted \cup {NoVersion}
  /\ \A p \in Processes :
       /\ base[p].nodes[Privacy] \in accepted \cup {NoVersion}
       /\ saved[p] \in accepted \cup {NoVersion}
       /\ handler[p].kind = "accept" /\ handler[p].arg.node = Privacy =>
            served[p] = handler[p].arg.version
  /\ ReviewNotSkipped

LEMMA ReviewInit == Init => ReviewInv
<1> SUFFICES ASSUME Init PROVE ReviewInv
  OBVIOUS
<1>1. \A p \in Processes : /\ review[p] /\ base[p].nodes[Privacy] = NoVersion
                          /\ saved[p] = NoVersion /\ handler[p].kind = "start"
  BY NoPrivacy DEF Init, Start, Handler
<1>2. file # NoFile => file.nodes[Privacy] \in accepted \cup {NoVersion}
  BY DEF Init
<1> QED BY <1>1, <1>2 DEF ReviewInv, ReviewNotSkipped

\* What the two rules let through.
LEMMA RequiredOK ==
  ASSUME NEW version \in accepted \cup {NoVersion}, NEW server,
         ~ReviewRequired(version, server)
  PROVE  \/ server \in accepted \cup {NoVersion}
         \/ server = Unknown /\ accepted # {}
BY DEF ReviewRequired

LEMMA ReadDoneReview ==
  ASSUME TypeInv, ReviewInv, NEW p \in Processes, NEW t, ReadDone(p, t),
         t.nodes[Privacy] \in accepted \cup {NoVersion}, UNCHANGED <<file, handler, accepted>>
  PROVE  ReviewInv'
<1> USE DEF TypeInv, ReviewInv, ReviewNotSkipped
<1>1. CASE /\ handler[p].kind = "start" /\ UNCHANGED base
           /\ saved' = [saved EXCEPT ![p] = t.nodes[Privacy]]
           /\ served' = [served EXCEPT ![p] = Unknown]
           /\ review' = [review EXCEPT ![p] = ReviewRequired(t.nodes[Privacy], Unknown)]
  <2>1. ~review'[p] => accepted # {}
    BY <1>1, VersionAssumption DEF ReviewRequired
  <2> QED BY <1>1, <2>1
<1>2. CASE base' = [base EXCEPT ![p] = t] /\ UNCHANGED policyVars
  BY <1>2 DEF policyVars
<1>3. CASE UNCHANGED <<base, policyVars>>
  BY <1>3 DEF policyVars
<1> QED BY <1>1, <1>2, <1>3 DEF ReadDone

LEMMA ReviewNext ==
  ASSUME TypeInv, OpenInv, ReviewInv, [Next]_vars
  PROVE  ReviewInv'
<1>1. CASE UNCHANGED <<file, base, handler, policyVars, accepted>>
  BY <1>1 DEF ReviewInv, ReviewNotSkipped, policyVars
<1>2. ASSUME NEW p \in Processes, CloseRead(p)
      PROVE  ReviewInv'
  <2>1. ReadDone(p, file) /\ UNCHANGED <<file, handler, accepted>> /\ file # NoFile
    BY <1>2 DEF CloseRead, OpenInv
  <2> QED BY <2>1, ReadDoneReview DEF ReviewInv
<1>3. ASSUME NEW p \in Processes, ReadRefused(p)
      PROVE  ReviewInv'
  <2>1. CASE GivesUp(p)
    BY <1>1, <1>3, <2>1 DEF ReadRefused
  <2>2. CASE ~GivesUp(p)
    <3> DEFINE t == IF handler[p].kind = "accept" THEN EmptyText ELSE DefaultText
    <3>1. ReadDone(p, t) /\ UNCHANGED <<file, handler, accepted>>
      BY <1>3, <2>2 DEF ReadRefused
    <3>2. t.nodes[Privacy] = NoVersion
      BY NoPrivacy
    <3> HIDE DEF t
    <3> QED BY <3>1, <3>2, ReadDoneReview
  <2> QED BY <2>1, <2>2
<1>4. ASSUME NEW p \in Processes, OpenForWrite(p)
      PROVE  ReviewInv'
  <2>1. file' = EmptyText /\ UNCHANGED <<base, handler, policyVars, accepted>>
    BY <1>4 DEF OpenForWrite
  <2> QED BY <2>1, NoPrivacy DEF ReviewInv, ReviewNotSkipped, policyVars
<1>5. ASSUME NEW p \in Processes, WriteText(p)
      PROVE  ReviewInv'
  <2>1. /\ handler[p] \in Handlers /\ base[p] \in Texts
        /\ file' = Updated(base[p], handler[p]) /\ UNCHANGED <<base, handler, served>>
    BY <1>5, ProcessAssumption DEF WriteText, OpenInv, TypeInv
  <2>2. CASE handler[p].kind = "accept" /\ handler[p].arg.node = Privacy
    <3> DEFINE v == handler[p].arg.version
    <3>1. /\ saved' = [saved EXCEPT ![p] = v] /\ review' = [review EXCEPT ![p] = FALSE]
          /\ accepted' = accepted \cup {v}
      BY <1>5, <2>2 DEF WriteText
    <3>2. file'.nodes[Privacy] = v
      <4>1. base[p].nodes \in [Nodes -> Versions \cup {NoVersion}]
        BY <2>1 DEF Texts, NodeVersions
      <4>2. file'.nodes = [base[p].nodes EXCEPT ![Privacy] = v]
        BY <2>1, <2>2, UpdatedOK
      <4> HIDE DEF v
      <4> QED BY <4>1, <4>2, NodeAssumption
    <3>3. served[p] = v
      BY <2>2 DEF ReviewInv
    <3> HIDE DEF v
    <3>4. accepted \subseteq accepted' /\ v \in accepted'
      BY <3>1
    <3>5. \A q \in Processes : ~review'[q] =>
            \/ served'[q] \in accepted' \cup {NoVersion}
            \/ served'[q] = Unknown /\ accepted' # {}
      <4> TAKE q \in Processes
      <4>1. CASE q = p
        BY <2>1, <3>3, <3>4, <4>1
      <4>2. CASE q # p
        BY <2>1, <3>1, <3>4, <4>2 DEF ReviewInv, ReviewNotSkipped, TypeInv
      <4> QED BY <4>1, <4>2
    <3>6. \A q \in Processes : saved'[q] \in accepted' \cup {NoVersion}
      BY <3>1, <3>4 DEF ReviewInv, TypeInv
    <3> QED BY <2>1, <3>2, <3>4, <3>5, <3>6 DEF ReviewInv, ReviewNotSkipped
  <2>3. CASE ~(handler[p].kind = "accept" /\ handler[p].arg.node = Privacy)
    <3>1. UNCHANGED <<saved, review, accepted>>
      BY <1>5, <2>3 DEF WriteText
    <3>2. file'.nodes[Privacy] = base[p].nodes[Privacy]
      <4>1. base[p].nodes \in [Nodes -> Versions \cup {NoVersion}]
        BY <2>1 DEF Texts, NodeVersions
      <4>2. \/ file'.nodes = base[p].nodes
            \/ /\ handler[p].arg.node # Privacy
               /\ file'.nodes = [base[p].nodes EXCEPT ![handler[p].arg.node] =
                                  handler[p].arg.version]
        BY <2>1, <2>3, UpdatedOK
      <4> QED BY <4>1, <4>2, NodeAssumption
    <3> QED BY <2>1, <3>1, <3>2 DEF ReviewInv, ReviewNotSkipped
  <2> QED BY <2>2, <2>3
<1>6. ASSUME NEW p \in Processes, End(p)
      PROVE  ReviewInv'
  <2>1. UNCHANGED <<file, accepted>> /\ Forget(p)
    BY <1>6 DEF End
  <2>2. Start.kind = "start"
    BY DEF Start, Handler
  <2> QED BY <2>1, <2>2, NoPrivacy DEF Forget, ReviewInv, ReviewNotSkipped, TypeInv
<1>7. ASSUME NEW p \in Processes, NEW reply \in Replies, ServerAnswers(p, reply)
      PROVE  ReviewInv'
  <2>1. /\ UNCHANGED <<file, base, saved, accepted>>
        /\ served' = [served EXCEPT ![p] = reply[Privacy]]
        /\ review' = [review EXCEPT ![p] = ReviewRequired(saved[p], reply[Privacy])]
    BY <1>7 DEF ServerAnswers
  <2>2. /\ \A q \in Processes \ {p} : handler'[q] = handler[q]
        /\ ~(handler'[p].kind = "accept" /\ handler'[p].arg.node = Privacy)
    BY <1>7, NodeAssumption DEF ServerAnswers, Handler, OpenInv, TypeInv
  <2>3. saved[p] \in accepted \cup {NoVersion}
    BY DEF ReviewInv
  <2>4. ~ReviewRequired(saved[p], reply[Privacy]) =>
          \/ reply[Privacy] \in accepted \cup {NoVersion}
          \/ reply[Privacy] = Unknown /\ accepted # {}
    BY <2>3, RequiredOK
  <2> QED BY <2>1, <2>2, <2>4 DEF ReviewInv, ReviewNotSkipped, TypeInv
<1>8. ASSUME NEW p \in Processes, ServerFails(p)
      PROVE  ReviewInv'
  <2>1. /\ UNCHANGED <<file, base, handler, saved, accepted>>
        /\ served' = [served EXCEPT ![p] = Unknown]
        /\ review' = [review EXCEPT ![p] = ReviewRequired(saved[p], Unknown)]
    BY <1>8 DEF ServerFails
  <2>2. ~ReviewRequired(saved[p], Unknown) => accepted # {}
    BY DEF ReviewInv, ReviewRequired
  <2>3. handler[p].kind = "start"
    BY <1>8 DEF ServerFails, OpenInv
  <2> QED BY <2>1, <2>2, <2>3 DEF ReviewInv, ReviewNotSkipped, TypeInv
<1>9. ASSUME NEW p \in Processes, NEW h, Begin(p, h),
             h.kind = "accept" /\ h.arg.node = Privacy => served[p] = h.arg.version
      PROVE  ReviewInv'
  BY <1>9 DEF Begin, ReviewInv, ReviewNotSkipped, policyVars, TypeInv
<1>10. ASSUME NEW p \in Processes, StartProcess(p) \/ RunHandler(p) \/ AcceptPolicy(p)
      PROVE  ReviewInv'
  <2>1. CASE StartProcess(p)
    BY <1>9, <2>1 DEF StartProcess, Start, Handler
  <2>2. CASE RunHandler(p)
    BY <1>9, <2>2 DEF RunHandler, Handler
  <2>3. CASE AcceptPolicy(p)
    BY <1>9, <2>3 DEF AcceptPolicy, Handler
  <2> QED BY <1>10, <2>1, <2>2, <2>3
<1>11. ASSUME NEW p \in Processes, OpenForRead(p) \/ WriteRefused(p) \/ WriteFails(p)
      PROVE  UNCHANGED <<file, base, handler, policyVars, accepted>>
  BY <1>11 DEF OpenForRead, WriteRefused, WriteFails
<1>12. CASE UNCHANGED vars
  BY <1>1, <1>12 DEF vars
<1> QED BY <1>1, <1>2, <1>3, <1>4, <1>5, <1>6, <1>7, <1>8, <1>10, <1>11, <1>12 DEF Next

\* No window skips the review of the version that the server gives unless it was accepted,
\* though constructors, handlers and crashes of any number of windows overlap.
THEOREM ReviewIsNotSkipped == Spec => []ReviewNotSkipped
<1>1. ReviewInv => ReviewNotSkipped
  BY DEF ReviewInv
<1> QED BY BaseInit, BaseNext, ReviewInit, ReviewNext, <1>1, PTL DEF Spec

-----------------------------------------------------------------------------
(* Whole documents                                                         *)

\* As long as no writer was cut off, the file is a document whenever nobody writes.
WholeInv ==
  faults = 0 =>
    /\ writer = NoProcess /\ file # NoFile => file.root
    /\ \A p \in Processes : phase[p] = "write" /\ handler[p].kind # "accept" => base[p].root

LEMMA WholeInit == Init => WholeInv
BY InitialOK DEF Init, WholeInv

LEMMA ReadDoneWhole ==
  ASSUME TypeInv, WholeInv, NEW p \in Processes, NEW t, ReadDone(p, t),
         faults = 0 /\ handler[p].kind # "accept" => t.root, UNCHANGED <<file, writer, handler,
                                                                         faults>>
  PROVE  WholeInv'
<1> USE DEF TypeInv, WholeInv, Goto
<1>1. CASE phase[p] = "read" /\ base' = [base EXCEPT ![p] = t] /\ \E next : Goto(p, next)
  BY <1>1
<1>2. CASE UNCHANGED base /\ \E next \in {"list", "read", "fetch", "idle"} : Goto(p, next)
  BY <1>2
<1> QED BY <1>1, <1>2 DEF ReadDone

LEMMA WholeNext ==
  ASSUME TypeInv, OpenInv, WholeInv, [Next]_vars
  PROVE  WholeInv'
<1> USE DEF TypeInv, WholeInv
<1>1. CASE UNCHANGED vars
  BY <1>1 DEF vars
<1>2. ASSUME NEW p \in Processes,
             StartProcess(p) \/ RunHandler(p) \/ AcceptPolicy(p) \/ ServerFails(p) \/
                   \E reply \in Replies : ServerAnswers(p, reply)
      PROVE  WholeInv'
  <2>1. UNCHANGED <<file, writer, base, faults>> /\ (Goto(p, "load") \/ Goto(p, "idle"))
        /\ \A q \in Processes \ {p} : handler'[q] = handler[q]
    BY <1>2 DEF StartProcess, RunHandler, AcceptPolicy, Begin, ServerFails, ServerAnswers
  <2> QED BY <2>1 DEF Goto
<1>3. ASSUME NEW p \in Processes, OpenForRead(p)
      PROVE  WholeInv'
  BY <1>3 DEF OpenForRead
<1>4. ASSUME NEW p \in Processes, CloseRead(p)
      PROVE  WholeInv'
  <2>1. ReadDone(p, file) /\ UNCHANGED <<file, writer, handler, faults>> /\ file # NoFile /\
        writer = NoProcess
    BY <1>4 DEF CloseRead, OpenInv
  <2> QED BY <2>1, ReadDoneWhole
<1>5. ASSUME NEW p \in Processes, ReadRefused(p)
      PROVE  WholeInv'
  <2>1. UNCHANGED <<file, writer, handler, faults>>
    BY <1>5 DEF ReadRefused
  <2>2. CASE GivesUp(p)
    BY <1>5, <2>1, <2>2 DEF ReadRefused, Goto
  <2>3. CASE ~GivesUp(p)
    <3> DEFINE t == IF handler[p].kind = "accept" THEN EmptyText ELSE DefaultText
    <3>1. ReadDone(p, t)
      BY <1>5, <2>3 DEF ReadRefused
    <3>2. handler[p].kind # "accept" => t.root
      BY DefaultsOK
    <3> HIDE DEF t
    <3> QED BY <2>1, <3>1, <3>2, ReadDoneWhole
  <2> QED BY <2>2, <2>3
<1>6. ASSUME NEW p \in Processes, OpenForWrite(p)
      PROVE  WholeInv'
  BY <1>6, ProcessAssumption DEF OpenForWrite
<1>7. ASSUME NEW p \in Processes, WriteRefused(p)
      PROVE  WholeInv'
  BY <1>7 DEF WriteRefused, AfterFailure, Goto
<1>8. ASSUME NEW p \in Processes, WriteText(p)
      PROVE  WholeInv'
  <2>1. handler[p] \in Handlers /\ base[p] \in Texts
    BY <1>8, ProcessAssumption DEF WriteText, OpenInv
  <2>2. file'.root /\ UNCHANGED <<handler, base, faults>>
    BY <1>8, <2>1, UpdatedOK DEF WriteText
  <2>3. Goto(p, "idle") \/ Goto(p, "list")
    BY <1>8 DEF WriteText
  <2> QED BY <2>2, <2>3 DEF Goto
<1>9. ASSUME NEW p \in Processes, WriteFails(p)
      PROVE  WholeInv'
  <2>1. faults' # 0
    BY <1>9 DEF WriteFails
  <2> QED BY <2>1
<1>10. ASSUME NEW p \in Processes, End(p)
      PROVE  WholeInv'
  <2>1. CASE writer = p
    BY <1>10, <2>1 DEF End
  <2>2. CASE writer # p
    BY <1>10, <2>2 DEF End, Forget, Goto
  <2> QED BY <2>1, <2>2
<1> QED BY <1>1, <1>2, <1>3, <1>4, <1>5, <1>6, <1>7, <1>8, <1>9, <1>10 DEF Next

\* A handler never changes the emptied file of another that is writing.
THEOREM WholeTextIsRead == Spec => []WholeTextRead
<1>1. WholeInv => WholeTextRead
  BY DEF WholeInv, WholeTextRead
<1> QED BY BaseInit, BaseNext, WholeInit, WholeNext, <1>1, PTL DEF Spec

-----------------------------------------------------------------------------
(* The history that is shown                                               *)

LEMMA HistoryInit == Init => HistoryWellFormed
<1>1. Len(<<>>) <= MaxCount /\ NoneTwice(<<>>)
  BY AccountAssumption, EmptyOK
<1> QED BY <1>1 DEF Init, HistoryWellFormed

LEMMA HistoryNext ==
  ASSUME TypeInv, OpenInv, HistoryWellFormed, [Next]_vars
  PROVE  HistoryWellFormed'
<1>1. CASE UNCHANGED shown
  BY <1>1 DEF HistoryWellFormed, NoneTwice
<1>2. ASSUME NEW p \in Processes, CloseRead(p)
      PROVE  HistoryWellFormed'
  <2>1. file \in Texts /\ ReadDone(p, file)
    BY <1>2 DEF CloseRead, OpenInv, TypeInv
  <2> QED BY <2>1, ReadDoneOK
<1>3. ASSUME NEW p \in Processes, ReadRefused(p)
      PROVE  HistoryWellFormed'
  <2>1. CASE GivesUp(p)
    BY <1>1, <1>3, <2>1 DEF ReadRefused
  <2>2. CASE ~GivesUp(p)
    <3> DEFINE t == IF handler[p].kind = "accept" THEN EmptyText ELSE DefaultText
    <3>1. t \in Texts
      BY DefaultsOK
    <3>2. ReadDone(p, t)
      BY <1>3, <2>2 DEF ReadRefused
    <3> HIDE DEF t
    <3> QED BY <3>1, <3>2, ReadDoneOK
  <2> QED BY <2>1, <2>2
<1>4. ASSUME NEW p \in Processes,
             StartProcess(p) \/ RunHandler(p) \/ AcceptPolicy(p) \/ ServerFails(p) \/
                   (\E reply \in Replies : ServerAnswers(p, reply)) \/ OpenForRead(p) \/
                   OpenForWrite(p) \/ WriteRefused(p) \/ WriteText(p) \/ WriteFails(p)
      PROVE  UNCHANGED shown
  BY <1>4 DEF StartProcess, RunHandler, AcceptPolicy, Begin, ServerFails, ServerAnswers,
              OpenForRead, OpenForWrite, WriteRefused, WriteText, WriteFails
<1>5. CASE UNCHANGED vars
  BY <1>1, <1>5 DEF vars
<1>6. ASSUME NEW p \in Processes, End(p)
      PROVE  HistoryWellFormed'
  <2>1. shown' = [shown EXCEPT ![p] = <<>>]
    BY <1>6 DEF End, Forget
  <2>2. Len(<<>>) <= MaxCount /\ NoneTwice(<<>>)
    BY AccountAssumption, EmptyOK
  <2> QED BY <2>1, <2>2 DEF HistoryWellFormed, NoneTwice, TypeInv
<1> QED BY <1>1, <1>2, <1>3, <1>4, <1>5, <1>6 DEF Next

\* However the windows overlap, what one shows has no account twice and is not longer
\* than configured: parseUserAccountsXml sees to it, whatever the file holds.
THEOREM HistoryIsWellFormed == Spec => []HistoryWellFormed
BY BaseInit, BaseNext, HistoryInit, HistoryNext, PTL DEF Spec

-----------------------------------------------------------------------------
(* The store as its users see it                                           *)

\* While nothing has disturbed the store, one window at a time is at work, and a
\* handler that is about to write has read what the file holds.
AloneInv ==
  ~disturbed =>
    /\ \A p, q \in Processes : Working(p) /\ Working(q) => p = q
    /\ \A p \in Processes : phase[p] = "write" /\ writer = NoProcess =>
         base[p].accounts = Accounts /\ base[p].nodes = Accepted

LEMMA AloneInit == Init => AloneInv
BY DEF Init, AloneInv, Working

\* What a handler reads when it is alone is what the store holds.
LEMMA ReadDoneAlone ==
  ASSUME TypeInv, AloneInv, NEW p \in Processes, NEW t \in Texts, ReadDone(p, t),
         UNCHANGED <<file, writer, disturbed>>,
         ~disturbed /\ phase[p] = "read" => t.accounts = Accounts /\ t.nodes = Accepted,
         Working(p), writer # NoProcess => Working(writer) /\ writer \in Processes /\ writer # p
  PROVE  AloneInv'
<1> SUFFICES ASSUME ~disturbed' PROVE AloneInv'
  BY DEF AloneInv
<1>1. ~disturbed
  OBVIOUS
<1>2. \A q \in Processes \ {p} : ~Working(q)
  BY <1>1 DEF AloneInv
<1>3. writer = NoProcess
  BY <1>2
<1>4. \E next : Goto(p, next)
  BY DEF ReadDone
<1>5. \A q \in Processes \ {p} : ~Working(q)'
  BY <1>2, <1>4 DEF Goto, TypeInv, Working
<1>6. UNCHANGED <<Accounts, Accepted>>
  BY <1>3 DEF Accounts, Accepted, StoredText
<1>7. phase'[p] = "write" => base'[p].accounts = Accounts /\ base'[p].nodes = Accepted
  <2>1. CASE phase[p] = "read" /\ base' = [base EXCEPT ![p] = t]
    BY <1>1, <2>1 DEF TypeInv
  <2>2. CASE \E next \in {"list", "read", "fetch", "idle"} : Goto(p, next)
    BY <2>2 DEF Goto, TypeInv
  <2> QED BY <2>1, <2>2 DEF ReadDone
<1>8. \A q \in Processes \ {p} : phase'[q] # "write"
  BY <1>5 DEF Working
<1> QED BY <1>5, <1>6, <1>7, <1>8 DEF AloneInv

\* A step that changes neither the file nor what has been read, and leaves no window
\* at work that was not.
LEMMA AloneKept ==
  ASSUME AloneInv, UNCHANGED <<file, writer, base>>, disturbed => disturbed',
         ~disturbed' => \A q \in Processes : Working(q)' => Working(q),
         \A q \in Processes : phase'[q] = "write" => phase[q] = "write"
  PROVE  AloneInv'
<1>1. UNCHANGED <<Accounts, Accepted>>
  BY DEF Accounts, Accepted, StoredText
<1> QED BY <1>1 DEF AloneInv

LEMMA AloneNext ==
  ASSUME TypeInv, OpenInv, AloneInv, [Next]_vars
  PROVE  AloneInv'
<1>1. CASE UNCHANGED vars
  BY <1>1, AloneKept DEF vars, Working
<1>2. ASSUME NEW p \in Processes, UNCHANGED <<file, writer, base>>, Goto(p, "load"),
             disturbed' = (disturbed \/ ~Apart(p))
      PROVE  AloneInv'
  <2>1. UNCHANGED <<file, writer, base>> /\ phase' = [phase EXCEPT ![p] = "load"]
        /\ disturbed' = (disturbed \/ ~Apart(p))
    BY <1>2 DEF Goto
  <2> SUFFICES ASSUME ~disturbed' PROVE AloneInv'
    BY DEF AloneInv
  <2>2. ~disturbed /\ \A q \in Processes \ {p} : ~Working(q)
    BY <2>1 DEF Apart
  <2>3. \A q \in Processes \ {p} : ~Working(q)'
    BY <2>1, <2>2 DEF Working, TypeInv
  <2>4. \A q \in Processes : phase'[q] # "write"
    BY <2>1, <2>3 DEF Working, TypeInv
  <2> QED BY <2>3, <2>4 DEF AloneInv
<1>3. ASSUME NEW p \in Processes, OpenForRead(p)
      PROVE  AloneInv'
  BY <1>3, AloneKept DEF OpenForRead, Working
<1>4. ASSUME NEW p \in Processes, CloseRead(p)
      PROVE  AloneInv'
  <2>1. Reads(p) /\ file # NoFile /\ writer = NoProcess /\ file \in Texts
    BY <1>4 DEF CloseRead, OpenInv, TypeInv
  <2>2. file.accounts = Accounts /\ file.nodes = Accepted
    BY <2>1 DEF Accounts, Accepted, StoredText
  <2>3. Working(p)
    BY <2>1 DEF Reads, Working
  <2>4. ReadDone(p, file) /\ UNCHANGED <<file, writer, disturbed>>
    BY <1>4 DEF CloseRead
  <2> QED BY <2>1, <2>2, <2>3, <2>4, ReadDoneAlone
<1>5. ASSUME NEW p \in Processes, ReadRefused(p)
      PROVE  AloneInv'
  <2>1. Working(p) /\ phase[p] # "write" /\ UNCHANGED <<file, writer, disturbed>>
    BY <1>5 DEF ReadRefused, Reads, Working
  <2>2. writer # NoProcess => Working(writer) /\ writer \in Processes /\ writer # p
    BY <2>1 DEF OpenInv, Working
  <2>3. CASE GivesUp(p)
    BY <1>5, <2>1, <2>3, AloneKept DEF ReadRefused, Goto, Working, TypeInv
  <2>4. CASE ~GivesUp(p)
    <3> DEFINE t == IF handler[p].kind = "accept" THEN EmptyText ELSE DefaultText
    <3>1. t \in Texts /\ t.accounts = <<>> /\ t.nodes = NoVersions
      BY DefaultsOK
    <3>2. ReadDone(p, t)
      BY <1>5, <2>4 DEF ReadRefused
    <3>3. ASSUME ~disturbed PROVE t.accounts = Accounts /\ t.nodes = Accepted
      <4>1. writer = NoProcess
        BY <2>1, <2>2, <3>3 DEF AloneInv
      <4>2. file = NoFile
        BY <1>5, <4>1 DEF ReadRefused, MayRead
      <4> QED BY <3>1, <4>2 DEF Accounts, Accepted
    <3> HIDE DEF t
    <3> QED BY <2>1, <2>2, <3>1, <3>2, <3>3, ReadDoneAlone
  <2> QED BY <2>3, <2>4
<1>6. ASSUME NEW p \in Processes, OpenForWrite(p)
      PROVE  AloneInv'
  BY <1>6, ProcessAssumption DEF OpenForWrite, AloneInv, Working
<1>7. ASSUME NEW p \in Processes, WriteRefused(p)
      PROVE  AloneInv'
  BY <1>7, AloneKept DEF WriteRefused, AfterFailure, Goto, Working, TypeInv
<1>8. ASSUME NEW p \in Processes, WriteText(p)
      PROVE  AloneInv'
  <2>1. Working(p) /\ UNCHANGED disturbed /\ (Goto(p, "idle") \/ Goto(p, "list"))
    BY <1>8, ProcessAssumption DEF WriteText, OpenInv, Working
  <2> SUFFICES ASSUME ~disturbed' PROVE AloneInv'
    BY DEF AloneInv
  <2>2. \A q \in Processes \ {p} : ~Working(q)'
    BY <2>1 DEF AloneInv, Working, Goto, TypeInv
  <2>3. \A q \in Processes : phase'[q] # "write"
    BY <2>1, <2>2 DEF Working, Goto, TypeInv
  <2> QED BY <2>2, <2>3 DEF AloneInv
<1>9. ASSUME NEW p \in Processes, WriteFails(p)
      PROVE  AloneInv'
  BY <1>9 DEF WriteFails, AloneInv
<1>10. ASSUME NEW p \in Processes, End(p)
      PROVE  AloneInv'
  <2>1. CASE writer = p
    BY <1>10, <2>1 DEF End, AloneInv
  <2>2. CASE writer # p
    <3>1. /\ UNCHANGED <<file, writer, disturbed>> /\ Goto(p, "off")
          /\ \A q \in Processes \ {p} : base'[q] = base[q]
      BY <1>10, <2>2 DEF End, Forget, TypeInv
    <3>2. phase'[p] = "off" /\ \A q \in Processes \ {p} : phase'[q] = phase[q]
      BY <3>1 DEF Goto, TypeInv
    <3>3. UNCHANGED <<Accounts, Accepted>>
      <4>1. writer # NoProcess => base'[writer] = base[writer]
        BY <2>2, <3>1 DEF OpenInv
      <4> QED BY <3>1, <4>1 DEF Accounts, Accepted, StoredText
    <3>4. ~disturbed => \A q \in Processes : phase'[q] = "write" /\ writer' = NoProcess =>
            base'[q].accounts = Accounts' /\ base'[q].nodes = Accepted'
      BY <3>1, <3>2, <3>3 DEF AloneInv
    <3>5. \A q \in Processes : Working(q)' => Working(q)
      BY <3>2 DEF Working
    <3> QED BY <3>1, <3>4, <3>5 DEF AloneInv
  <2> QED BY <2>1, <2>2
<1>11. ASSUME NEW p \in Processes, StartProcess(p) \/ RunHandler(p) \/ AcceptPolicy(p)
      PROVE  AloneInv'
  BY <1>2, <1>11 DEF StartProcess, RunHandler, AcceptPolicy, Begin
<1>12. ASSUME NEW p \in Processes,
              ServerFails(p) \/ \E reply \in Replies : ServerAnswers(p, reply)
      PROVE  AloneInv'
  <2>1. CASE Goto(p, "load") /\ disturbed' = (disturbed \/ ~Apart(p))
    BY <1>2, <1>12, <2>1 DEF ServerFails, ServerAnswers
  <2>2. CASE Goto(p, "idle") /\ UNCHANGED disturbed
    <3>1. UNCHANGED <<file, writer, base>>
      BY <1>12 DEF ServerFails, ServerAnswers
    <3> QED BY <2>2, <3>1, AloneKept DEF Goto, Working, TypeInv
  <2> QED BY <1>12, <2>1, <2>2 DEF ServerFails, ServerAnswers
<1> QED BY <1>1, <1>3, <1>4, <1>5, <1>6, <1>7, <1>8, <1>9, <1>10, <1>11, <1>12 DEF Next

LEMMA StoreInit == Init => ~disturbed
BY DEF Init

\* Every step changes the store as one of its operations does, or not at all, or
\* something has disturbed it.
LEMMA StoreNext ==
  ASSUME TypeInv, OpenInv, AloneInv, TypeInv', [Next]_vars
  PROVE  [Store!Next]_(Store!vars)
<1>1. CASE disturbed'
  BY <1>1 DEF Store!Next, Store!Disturb
<1>2. ASSUME UNCHANGED <<Accounts, Accepted, disturbed>>
      PROVE  [Store!Next]_(Store!vars)
  BY <1>2 DEF Store!vars
<1>3. ASSUME UNCHANGED <<file, writer>>, writer # NoProcess => base'[writer] = base[writer],
             ~disturbed', disturbed => disturbed'
      PROVE  [Store!Next]_(Store!vars)
  <2>1. UNCHANGED <<Accounts, Accepted>>
    BY <1>3 DEF Accounts, Accepted, StoredText
  <2>2. UNCHANGED disturbed
    BY <1>3 DEF TypeInv
  <2> QED BY <1>2, <2>1, <2>2
<1>4. ASSUME NEW p \in Processes,
             StartProcess(p) \/ RunHandler(p) \/ AcceptPolicy(p) \/ ServerFails(p) \/
                   \E reply \in Replies : ServerAnswers(p, reply),
             ~disturbed'
      PROVE  [Store!Next]_(Store!vars)
  <2>1. UNCHANGED <<file, writer, base>> /\ (disturbed => disturbed')
    BY <1>4 DEF StartProcess, RunHandler, AcceptPolicy, Begin, ServerFails, ServerAnswers
  <2> QED BY <1>3, <1>4, <2>1
<1>5. ASSUME NEW p \in Processes, OpenForRead(p) \/ WriteRefused(p), ~disturbed'
      PROVE  [Store!Next]_(Store!vars)
  BY <1>3, <1>5 DEF OpenForRead, WriteRefused
<1>6. ASSUME NEW p \in Processes, CloseRead(p) \/ ReadRefused(p), ~disturbed'
      PROVE  [Store!Next]_(Store!vars)
  <2>1. UNCHANGED <<file, writer, disturbed>> /\ phase[p] # "write"
    BY <1>6 DEF CloseRead, ReadRefused, OpenInv, Reads
  <2>2. base' = base \/ \E t : base' = [base EXCEPT ![p] = t]
    BY <1>6 DEF CloseRead, ReadRefused, ReadDone
  <2>3. writer # NoProcess => writer # p /\ writer \in Processes
    BY <2>1 DEF OpenInv
  <2> QED BY <1>3, <1>6, <2>1, <2>2, <2>3 DEF TypeInv
<1>7. ASSUME NEW p \in Processes, OpenForWrite(p), ~disturbed'
      PROVE  [Store!Next]_(Store!vars)
  <2>1. phase[p] = "write" /\ writer = NoProcess /\ writer' = p /\ file' = EmptyText
        /\ UNCHANGED <<base, disturbed>>
    BY <1>7 DEF OpenForWrite, MayWrite
  <2>2. Accounts' = base[p].accounts /\ Accepted' = base[p].nodes
    BY <2>1, ProcessAssumption, DefaultsOK DEF Accounts, Accepted, StoredText
  <2>3. base[p].accounts = Accounts /\ base[p].nodes = Accepted
    BY <1>7, <2>1 DEF AloneInv
  <2> QED BY <1>2, <2>1, <2>2, <2>3
<1>8. ASSUME NEW p \in Processes, WriteText(p), ~disturbed'
      PROVE  [Store!Next]_(Store!vars)
  <2> DEFINE t == base[p]
             h == handler[p]
  <2>1. p = writer /\ p # NoProcess /\ file = EmptyText /\ h \in Handlers /\ t \in Texts
    BY <1>8, ProcessAssumption DEF WriteText, OpenInv, TypeInv
  <2>2. file' = Updated(t, h) /\ writer' = NoProcess /\ UNCHANGED disturbed
    BY <1>8 DEF WriteText
  <2>3. Accounts = t.accounts /\ Accepted = t.nodes
    BY <2>1, DefaultsOK DEF Accounts, Accepted, StoredText
  <2>4. file' # NoFile
    BY <2>1, <2>2, UpdatedOK, TextsAssumption
  <2>5. Accounts' = Updated(t, h).accounts /\ Accepted' = Updated(t, h).nodes
    BY <2>2, <2>4 DEF Accounts, Accepted, StoredText
  <2> HIDE DEF t, h
  <2>6. CASE h.kind = "record"
    <3>1. Store!RecordAccount(h.arg) /\ h.arg \in Names
      BY <2>1, <2>2, <2>3, <2>5, <2>6, UpdatedOK DEF Store!RecordAccount
    <3> QED BY <3>1 DEF Store!Next
  <2>7. CASE h.kind = "remove"
    <3>1. Store!RemoveAccount(h.arg) /\ h.arg \in Names
      BY <2>1, <2>2, <2>3, <2>5, <2>7, UpdatedOK DEF Store!RemoveAccount
    <3> QED BY <3>1 DEF Store!Next
  <2>8. CASE h.kind = "accept"
    <3>1. Store!Accept(h.arg.node, h.arg.version) /\ h.arg.node \in Nodes /\ h.arg.version \in Versions
      BY <2>1, <2>2, <2>3, <2>5, <2>8, UpdatedOK DEF Store!Accept
    <3> QED BY <3>1 DEF Store!Next
  <2> QED BY <2>1, <2>6, <2>7, <2>8, UpdatedOK
<1>9. ASSUME NEW p \in Processes, WriteFails(p)
      PROVE  disturbed'
  BY <1>9 DEF WriteFails
<1>10. ASSUME NEW p \in Processes, End(p), ~disturbed'
      PROVE  [Store!Next]_(Store!vars)
  <2>1. writer # p /\ UNCHANGED <<file, writer>> /\ (disturbed => disturbed')
        /\ base' = [base EXCEPT ![p] = DefaultText]
    BY <1>10 DEF End, Forget
  <2>2. writer # NoProcess => base'[writer] = base[writer]
    BY <2>1 DEF OpenInv, TypeInv
  <2> QED BY <1>3, <1>10, <2>1, <2>2
<1>11. CASE UNCHANGED vars
  BY <1>2, <1>11 DEF vars, Accounts, Accepted, StoredText
<1> QED BY <1>1, <1>4, <1>5, <1>6, <1>7, <1>8, <1>9, <1>10, <1>11 DEF Next

\* Windows that use the file one after the other, and are not cut off while writing,
\* see a store whose changes are atomic: emptying the file, writing it and closing it
\* is one change, and all that went before is none.
THEOREM AccountStoreImplemented == Spec => ImplementsAccountStore
BY BaseInit, BaseNext, AloneInit, AloneNext, StoreInit, StoreNext, PTL
   DEF Spec, ImplementsAccountStore, Store!Spec
=============================================================================
