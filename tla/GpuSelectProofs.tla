---------------------------- MODULE GpuSelectProofs ----------------------------
(* Lemmas about GpuSelect: sums over a fleet, and what a selection contains.    *)
(* No installed prover can instantiate an induction theorem.  What follows by   *)
(* induction over finite sets is proved from a smallest counterexample.         *)
EXTENDS GpuSelect, FiniteSetTheorems, SequenceTheorems, TLAPS

\* Among subsets of a finite set there is one without a smaller one.
LEMMA SmallestSet ==
  ASSUME NEW S, IsFiniteSet(S), NEW T \in SUBSET (SUBSET S), T # {}
  PROVE  \E X \in T : \A Y \in T : Y \subseteq X => Y = X
<1>1. IsWellFoundedOn(StrictSubsetOrdering(S), SUBSET S)
  BY FS_StrictSubsetOrderingWellFounded, FS_FiniteSubsetsOfFinite
<1>2. \E x \in T : \A y \in T : ~(<<y, x>> \in StrictSubsetOrdering(S))
  BY <1>1, WFMin
<1>. QED
  BY <1>2 DEF StrictSubsetOrdering

-----------------------------------------------------------------------------
(* Sums. *)

Some(s) == CHOOSE x \in s : TRUE

\* The table of partial sums that SumFunctionOnSet computes.
SumTable(g, f, S) ==
  g = [s \in SUBSET S |-> IF s = {} THEN 0 ELSE f[Some(s)] + g[s \ {Some(s)}]]

Partial(f, S) == CHOOSE g : SumTable(g, f, S)

LEMMA SumIsPartial ==
  ASSUME NEW f, NEW S PROVE SumFunctionOnSet(f, S) = Partial(f, S)[S]
BY DEF SumFunctionOnSet, FoldFunctionOnSet, MapThenFoldSet, Partial, SumTable, Some

LEMMA SomeIsIn ==
  ASSUME NEW s, s # {} PROVE Some(s) \in s
BY DEF Some

LEMMA TableEmpty ==
  ASSUME NEW f, NEW S, NEW g, SumTable(g, f, S) PROVE g[{}] = 0
<1>1. {} \in SUBSET S
  OBVIOUS
<1>. QED
  BY <1>1 DEF SumTable

LEMMA TableStep ==
  ASSUME NEW f, NEW S, NEW g, SumTable(g, f, S), NEW s \in SUBSET S, s # {}
  PROVE  g[s] = f[Some(s)] + g[s \ {Some(s)}]
BY DEF SumTable

LEMMA TablesAgree ==
  ASSUME NEW f, NEW A, IsFiniteSet(A), NEW B, NEW g, NEW h,
         SumTable(g, f, A), SumTable(h, f, B), NEW T \in SUBSET A, T \subseteq B
  PROVE  g[T] = h[T]
<1>. DEFINE Bad == {X \in SUBSET A : X \subseteq B /\ g[X] # h[X]}
<1>. SUFFICES ASSUME Bad # {} PROVE FALSE
  OBVIOUS
<1>1. PICK X \in Bad : \A Y \in Bad : Y \subseteq X => Y = X
  <2>1. Bad \in SUBSET (SUBSET A)
    OBVIOUS
  <2>. HIDE DEF Bad
  <2>. QED
    BY <2>1, SmallestSet
<1>2. X # {}
  BY <1>1, TableEmpty
<1>3. Some(X) \in X
  BY <1>2, SomeIsIn
<1>4. X \in SUBSET A /\ X \in SUBSET B
  BY <1>1
<1>. HIDE DEF Bad
<1>6. g[X] = f[Some(X)] + g[X \ {Some(X)}]
  BY <1>2, <1>4, TableStep
<1>7. h[X] = f[Some(X)] + h[X \ {Some(X)}]
  BY <1>2, <1>4, TableStep
<1>5. g[X \ {Some(X)}] = h[X \ {Some(X)}]
  BY <1>1, <1>3 DEF Bad
<1>. QED
  BY <1>1, <1>5, <1>6, <1>7 DEF Bad

LEMMA TableExists ==
  ASSUME NEW f, NEW S, IsFiniteSet(S)
  PROVE  SumTable(Partial(f, S), f, S)
<1>. SUFFICES \A X \in SUBSET S : \E g : SumTable(g, f, X)
  BY DEF Partial
<1>. DEFINE Bad == {X \in SUBSET S : ~ \E g : SumTable(g, f, X)}
<1>. SUFFICES ASSUME Bad # {} PROVE FALSE
  OBVIOUS
<1>1. PICK X \in Bad : \A Y \in Bad : Y \subseteq X => Y = X
  <2>1. Bad \in SUBSET (SUBSET S)
    OBVIOUS
  <2>. HIDE DEF Bad
  <2>. QED
    BY <2>1, SmallestSet
<1>2. \A Y \in SUBSET X : Y # X => SumTable(Partial(f, Y), f, Y) /\ IsFiniteSet(Y)
  BY <1>1, FS_Subset DEF Partial
<1>. DEFINE below(s) == s \ {Some(s)}
            g == [s \in SUBSET X |->
                    IF s = {} THEN 0 ELSE f[Some(s)] + Partial(f, below(s))[below(s)]]
<1>3. ASSUME NEW s \in SUBSET X, s # {}
      PROVE  g[below(s)] = Partial(f, below(s))[below(s)]
  <2>0. Some(s) \in s
    BY <1>3, SomeIsIn
  <2>1. below(s) \in SUBSET X /\ below(s) # X
    BY <2>0
  <2>2. SumTable(Partial(f, below(s)), f, below(s)) /\ IsFiniteSet(below(s))
    BY <1>2, <2>1
  <2>3. CASE below(s) = {}
    <3>1. Partial(f, below(s))[{}] = 0
      BY <2>2, TableEmpty
    <3>. QED
      BY <2>1, <2>3, <3>1
  <2>4. CASE below(s) # {}
    <3>. DEFINE u == below(s)
    <3>0. Some(u) \in u
      BY <2>4, SomeIsIn
    <3>1. Partial(f, u)[u] = f[Some(u)] + Partial(f, u)[below(u)]
      <4>1. u \in SUBSET u /\ u # {} /\ SumTable(Partial(f, u), f, u)
        BY <2>2, <2>4
      <4>. HIDE DEF u
      <4>. QED
        BY <4>1, TableStep
    <3>2. SumTable(Partial(f, below(u)), f, below(u)) /\ below(u) \in SUBSET u
      BY <1>2, <2>1, <3>0
    <3>3. Partial(f, u)[below(u)] = Partial(f, below(u))[below(u)]
      BY <2>2, <3>2, TablesAgree
    <3>4. g[u] = f[Some(u)] + Partial(f, below(u))[below(u)]
      BY <2>1, <2>4
    <3>. QED
      BY <3>1, <3>3, <3>4
  <2>. QED
    BY <2>3, <2>4
<1>4. SumTable(g, f, X)
  <2>1. \A s \in SUBSET X :
          (IF s = {} THEN 0 ELSE f[Some(s)] + Partial(f, below(s))[below(s)])
            = (IF s = {} THEN 0 ELSE f[Some(s)] + g[s \ {Some(s)}])
    <3>. HIDE DEF g
    <3>. QED
      BY <1>3
  <2>2. g = [s \in SUBSET X |-> IF s = {} THEN 0 ELSE f[Some(s)] + Partial(f, below(s))[below(s)]]
    OBVIOUS
  <2>. HIDE DEF g, below
  <2>3. g = [s \in SUBSET X |-> IF s = {} THEN 0 ELSE f[Some(s)] + g[s \ {Some(s)}]]
    BY <2>1, <2>2
  <2>. QED
    BY <2>3 DEF SumTable
<1>. QED
  BY <1>1, <1>4

\* Every partial sum of a table is a sum.
LEMMA TableHasSums ==
  ASSUME NEW f, NEW S, IsFiniteSet(S), NEW T \in SUBSET S
  PROVE  Partial(f, S)[T] = SumFunctionOnSet(f, T)
<1>1. IsFiniteSet(T) /\ T \subseteq T
  BY FS_Subset
<1>2. SumTable(Partial(f, S), f, S)
  BY TableExists
<1>3. SumTable(Partial(f, T), f, T)
  BY <1>1, TableExists
<1>. DEFINE g == Partial(f, S)
            h == Partial(f, T)
<1>4. SumTable(g, f, S) /\ SumTable(h, f, T)
  BY <1>2, <1>3
<1>. HIDE DEF g, h
<1>5. g[T] = h[T]
  BY <1>1, <1>4, TablesAgree
<1>. QED
  BY <1>5, SumIsPartial DEF g, h

LEMMA SumOfNone == ASSUME NEW f PROVE SumFunctionOnSet(f, {}) = 0
<1>1. SumTable(Partial(f, {}), f, {})
  BY TableExists, FS_EmptySet
<1>. QED
  BY <1>1, TableEmpty, SumIsPartial

LEMMA SumOfSome ==
  ASSUME NEW f, NEW S, IsFiniteSet(S), S # {}
  PROVE  SumFunctionOnSet(f, S) = f[Some(S)] + SumFunctionOnSet(f, S \ {Some(S)})
<1>1. SumTable(Partial(f, S), f, S) /\ S \in SUBSET S /\ S \ {Some(S)} \in SUBSET S
  BY TableExists
<1>2. Partial(f, S)[S] = f[Some(S)] + Partial(f, S)[S \ {Some(S)}]
  BY <1>1, TableStep
<1>. QED
  BY <1>1, <1>2, TableHasSums

\* The sum over a finite set is that of one of its elements and that of the rest,
\* whichever element it is.
LEMMA SumOfRest ==
  ASSUME NEW f, NEW S, IsFiniteSet(S), \A y \in S : f[y] \in Nat, NEW x \in S
  PROVE  SumFunctionOnSet(f, S) = f[x] + SumFunctionOnSet(f, S \ {x})
<1>. DEFINE Sum(X) == SumFunctionOnSet(f, X)
            Bad == {X \in SUBSET S : Sum(X) \notin Nat \/ \E y \in X : Sum(X) # f[y] + Sum(X \ {y})}
<1>0. Sum({}) = 0 /\ \A X \in SUBSET S : X # {} => Sum(X) = f[Some(X)] + Sum(X \ {Some(X)})
  BY SumOfNone, SumOfSome, FS_Subset
<1>. HIDE DEF Sum
<1>1. Bad = {}
  <2>. SUFFICES ASSUME Bad # {} PROVE FALSE
    OBVIOUS
  <2>1. PICK X \in Bad : \A Y \in Bad : Y \subseteq X => Y = X
    <3>1. Bad \in SUBSET (SUBSET S)
      OBVIOUS
    <3>. HIDE DEF Bad
    <3>. QED
      BY <3>1, SmallestSet
  <2>2. \A Y \in SUBSET X : Y # X => Sum(Y) \in Nat /\ \A y \in Y : Sum(Y) = f[y] + Sum(Y \ {y})
    BY <2>1
  <2>3. X # {}
    <3>. SUFFICES ASSUME X = {} PROVE FALSE
      OBVIOUS
    <3>1. Sum(X) = 0 /\ ~\E y \in X : TRUE
      BY <1>0
    <3>. QED
      BY <2>1, <3>1
  <2>. DEFINE z == Some(X)
  <2>4. z \in X /\ z \in S /\ f[z] \in Nat /\ Sum(X) = f[z] + Sum(X \ {z})
    BY <1>0, <2>1, <2>3, SomeIsIn
  <2>. HIDE DEF z
  <2>5. Sum(X \ {z}) \in Nat /\ Sum(X) \in Nat
    BY <2>2, <2>4
  <2>6. ASSUME NEW y \in X, y # z PROVE Sum(X) = f[y] + Sum(X \ {y})
    <3>. DEFINE W == (X \ {z}) \ {y}
    <3>1. Sum(X \ {z}) = f[y] + Sum(W)
      BY <2>2, <2>4, <2>6
    <3>2. Sum(X \ {y}) = f[z] + Sum(W)
      <4>1. (X \ {y}) \ {z} = W /\ z \in X \ {y} /\ X \ {y} # X
        BY <2>4, <2>6
      <4>. HIDE DEF W
      <4>. QED
        BY <2>2, <4>1
    <3>3. Sum(W) \in Nat /\ f[y] \in Nat
      BY <2>1, <2>2, <2>4
    <3>. HIDE DEF W
    <3>. QED
      BY <2>4, <3>1, <3>2, <3>3
  <2>. QED
    BY <2>1, <2>4, <2>5, <2>6
<1>2. S \notin Bad
  BY <1>1
<1>. QED
  BY <1>2 DEF Sum

LEMMA SumType ==
  ASSUME NEW f, NEW S, IsFiniteSet(S), \A y \in S : f[y] \in Nat
  PROVE  SumFunctionOnSet(f, S) \in Nat
<1>. DEFINE Bad == {X \in SUBSET S : SumFunctionOnSet(f, X) \notin Nat}
<1>. SUFFICES ASSUME Bad # {} PROVE FALSE
  OBVIOUS
<1>1. PICK X \in Bad : \A Y \in Bad : Y \subseteq X => Y = X
  <2>1. Bad \in SUBSET (SUBSET S)
    OBVIOUS
  <2>. HIDE DEF Bad
  <2>. QED
    BY <2>1, SmallestSet
<1>2. PICK x : x \in X
  <2>. SUFFICES ASSUME X = {} PROVE FALSE
    OBVIOUS
  <2>1. SumFunctionOnSet(f, X) = 0 /\ SumFunctionOnSet(f, X) \notin Nat
    BY <1>1, SumOfNone
  <2>. QED
    BY <2>1
<1>3. IsFiniteSet(X) /\ \A y \in X : f[y] \in Nat
  BY <1>1, FS_Subset
<1>4. SumFunctionOnSet(f, X) = f[x] + SumFunctionOnSet(f, X \ {x})
  BY <1>2, <1>3, SumOfRest
<1>5. SumFunctionOnSet(f, X \ {x}) \in Nat
  BY <1>1, <1>2
<1>. QED
  BY <1>1, <1>2, <1>3, <1>4, <1>5

\* Equal summands, equal sums.
LEMMA SumsAgree ==
  ASSUME NEW f, NEW g, NEW S, IsFiniteSet(S), \A y \in S : f[y] \in Nat /\ g[y] = f[y]
  PROVE  SumFunctionOnSet(g, S) = SumFunctionOnSet(f, S)
<1>. DEFINE Bad == {X \in SUBSET S : SumFunctionOnSet(g, X) # SumFunctionOnSet(f, X)}
<1>. SUFFICES ASSUME Bad # {} PROVE FALSE
  OBVIOUS
<1>1. PICK X \in Bad : \A Y \in Bad : Y \subseteq X => Y = X
  <2>1. Bad \in SUBSET (SUBSET S)
    OBVIOUS
  <2>. HIDE DEF Bad
  <2>. QED
    BY <2>1, SmallestSet
<1>2. PICK x : x \in X
  <2>1. X # {}
    BY <1>1, SumOfNone
  <2>. QED
    BY <2>1
<1>3. IsFiniteSet(X) /\ \A y \in X : f[y] \in Nat /\ g[y] \in Nat
  BY <1>1, FS_Subset
<1>4. /\ SumFunctionOnSet(f, X) = f[x] + SumFunctionOnSet(f, X \ {x})
      /\ SumFunctionOnSet(g, X) = g[x] + SumFunctionOnSet(g, X \ {x})
  BY <1>2, <1>3, SumOfRest
<1>5. SumFunctionOnSet(g, X \ {x}) = SumFunctionOnSet(f, X \ {x}) /\ g[x] = f[x]
  BY <1>1, <1>2
<1>. QED
  BY <1>1, <1>4, <1>5

\* A sum over fewer is no larger.
LEMMA SumOfFewer ==
  ASSUME NEW f, NEW S, IsFiniteSet(S), \A y \in S : f[y] \in Nat, NEW T \in SUBSET S
  PROVE  SumFunctionOnSet(f, T) <= SumFunctionOnSet(f, S)
<1>. DEFINE Bad == {X \in SUBSET S : /\ T \subseteq X
                                    /\ ~(SumFunctionOnSet(f, T) <= SumFunctionOnSet(f, X))}
<1>. SUFFICES ASSUME Bad # {} PROVE FALSE
  OBVIOUS
<1>0. SumFunctionOnSet(f, T) \in Nat
  BY SumType, FS_Subset
<1>1. PICK X \in Bad : \A Y \in Bad : Y \subseteq X => Y = X
  <2>1. Bad \in SUBSET (SUBSET S)
    OBVIOUS
  <2>. HIDE DEF Bad
  <2>. QED
    BY <2>1, SmallestSet
<1>2. PICK x \in X : x \notin T
  <2>1. X # T
    BY <1>0, <1>1
  <2>. QED
    BY <1>1, <2>1
<1>3. IsFiniteSet(X) /\ \A y \in X : f[y] \in Nat
  BY <1>1, FS_Subset
<1>4. SumFunctionOnSet(f, X) = f[x] + SumFunctionOnSet(f, X \ {x})
  BY <1>2, <1>3, SumOfRest
<1>5. SumFunctionOnSet(f, X \ {x}) \in Nat
  BY <1>3, SumType, FS_Subset
<1>6. SumFunctionOnSet(f, T) <= SumFunctionOnSet(f, X \ {x})
  BY <1>1, <1>2
<1>. QED
  BY <1>0, <1>1, <1>2, <1>3, <1>4, <1>5, <1>6

-----------------------------------------------------------------------------
(* What a fleet uses. *)

IsFleet(fleet) ==
  IsFiniteSet(DOMAIN fleet) /\ \A i \in DOMAIN fleet : fleet[i].devices \in Seq(Nat)

LEMMA TimesType ==
  ASSUME NEW v, NEW x, x.devices \in Seq(Nat), NEW s
  PROVE  IsFiniteSet(DevicesOn(v, x, s)) /\ Times(v, x, s) \in Nat
<1>1. IsFiniteSet(1..Len(x.devices))
  BY FS_Interval
<1>2. DevicesOn(v, x, s) \subseteq 1..Len(x.devices)
  BY DEF DevicesOn
<1>. QED
  BY <1>1, <1>2, FS_Subset, FS_CardinalityType DEF Times

\* The share of an instance in what is used of a slot.
Share(v, x, s) == Vram(v, x.model) * Times(v, x, s)

LEMMA ProductType == ASSUME NEW a \in Nat, NEW b \in Nat PROVE a * b \in Nat
OBVIOUS

LEMMA ShareType ==
  ASSUME NEW v, WellFormed(v), NEW x, x.devices \in Seq(Nat), NEW s
  PROVE  Vram(v, x.model) \in Nat /\ Share(v, x, s) \in Nat
<1>1. Vram(v, x.model) \in Nat
  BY DEF Vram, WellFormed
<1>2. Times(v, x, s) \in Nat
  BY TimesType
<1>. QED
  BY <1>1, <1>2, ProductType DEF Share

\* Two fleets that agree on some instances agree on what these use.
LEMMA UsedBySome ==
  ASSUME NEW v, WellFormed(v), NEW fleet, IsFleet(fleet), NEW other, NEW s,
         NEW T \in SUBSET (DOMAIN fleet), T \subseteq DOMAIN other, \A i \in T : other[i] = fleet[i]
  PROVE  SumFunctionOnSet([i \in DOMAIN other |-> Share(v, other[i], s)], T)
           = SumFunctionOnSet([i \in DOMAIN fleet |-> Share(v, fleet[i], s)], T)
<1>. DEFINE f == [i \in DOMAIN fleet |-> Share(v, fleet[i], s)]
            g == [i \in DOMAIN other |-> Share(v, other[i], s)]
<1>1. IsFiniteSet(T)
  BY FS_Subset DEF IsFleet
<1>2. \A i \in T : f[i] \in Nat /\ g[i] = f[i]
  BY ShareType DEF IsFleet
<1>. HIDE DEF f, g
<1>3. SumFunctionOnSet(g, T) = SumFunctionOnSet(f, T)
  BY <1>1, <1>2, SumsAgree
<1>. QED
  BY <1>3 DEF f, g

LEMMA UsedIsSum ==
  ASSUME NEW v, NEW fleet, NEW s
  PROVE  Used(v, fleet, s) = SumFunctionOnSet([i \in DOMAIN fleet |-> Share(v, fleet[i], s)], DOMAIN fleet)
BY DEF Used, SumFunction, Share

\* An instance more uses its share more.
LEMMA UsedWithOneMore ==
  ASSUME NEW v, WellFormed(v), NEW fleet, IsFleet(fleet), NEW other, IsFleet(other), NEW i, NEW s,
         DOMAIN other = DOMAIN fleet \cup {i}, i \notin DOMAIN fleet,
         \A j \in DOMAIN fleet : other[j] = fleet[j]
  PROVE  Used(v, other, s) = Share(v, other[i], s) + Used(v, fleet, s)
<1>. DEFINE g == [j \in DOMAIN other |-> Share(v, other[j], s)]
<1>1. g[i] = Share(v, other[i], s) /\ \A j \in DOMAIN other : g[j] \in Nat
  BY ShareType DEF IsFleet
<1>. DEFINE f == [j \in DOMAIN fleet |-> Share(v, fleet[j], s)]
<1>2. SumFunctionOnSet(g, DOMAIN fleet) = SumFunctionOnSet(f, DOMAIN fleet)
  <2>1. DOMAIN fleet \in SUBSET (DOMAIN fleet) /\ DOMAIN fleet \subseteq DOMAIN other
    OBVIOUS
  <2>. QED
    BY <2>1, UsedBySome
<1>3. /\ Used(v, other, s) = SumFunctionOnSet(g, DOMAIN other)
      /\ Used(v, fleet, s) = SumFunctionOnSet(f, DOMAIN fleet)
  BY UsedIsSum
<1>. HIDE DEF f, g
<1>4. SumFunctionOnSet(g, DOMAIN other) = g[i] + SumFunctionOnSet(g, DOMAIN other \ {i})
  <2>1. IsFiniteSet(DOMAIN other) /\ i \in DOMAIN other
    BY DEF IsFleet
  <2>. QED
    BY <1>1, <2>1, SumOfRest
<1>5. DOMAIN other \ {i} = DOMAIN fleet
  OBVIOUS
<1>. QED
  BY <1>1, <1>2, <1>3, <1>4, <1>5

\* A part of a fleet uses no more than all of it.
LEMMA UsedByFewer ==
  ASSUME NEW v, WellFormed(v), NEW fleet, IsFleet(fleet), NEW part, NEW s,
         DOMAIN part \subseteq DOMAIN fleet, \A i \in DOMAIN part : part[i] = fleet[i]
  PROVE  /\ Used(v, part, s) <= Used(v, fleet, s)
         /\ Used(v, part, s) \in Nat /\ Used(v, fleet, s) \in Nat
<1>. DEFINE f == [i \in DOMAIN fleet |-> Share(v, fleet[i], s)]
<1>1. \A i \in DOMAIN fleet : f[i] \in Nat
  BY ShareType DEF IsFleet
<1>. DEFINE g == [i \in DOMAIN part |-> Share(v, part[i], s)]
<1>2. SumFunctionOnSet(g, DOMAIN part) = SumFunctionOnSet(f, DOMAIN part)
  <2>1. DOMAIN part \in SUBSET (DOMAIN fleet) /\ DOMAIN part \subseteq DOMAIN part
    OBVIOUS
  <2>. QED
    BY <2>1, UsedBySome
<1>3. /\ Used(v, fleet, s) = SumFunctionOnSet(f, DOMAIN fleet)
      /\ Used(v, part, s) = SumFunctionOnSet(g, DOMAIN part)
  BY UsedIsSum
<1>. HIDE DEF f, g
<1>4. /\ SumFunctionOnSet(f, DOMAIN part) <= SumFunctionOnSet(f, DOMAIN fleet)
      /\ SumFunctionOnSet(f, DOMAIN part) \in Nat /\ SumFunctionOnSet(f, DOMAIN fleet) \in Nat
  BY <1>1, SumOfFewer, SumType, FS_Subset DEF IsFleet
<1>. QED
  BY <1>2, <1>3, <1>4

LEMMA OccupantsType ==
  ASSUME NEW v, NEW fleet, IsFleet(fleet), NEW s
  PROVE  Occupants(v, fleet, s) \in Nat
<1>. DEFINE f == [i \in DOMAIN fleet |-> Times(v, fleet[i], s)]
<1>1. \A i \in DOMAIN fleet : f[i] \in Nat
  BY TimesType DEF IsFleet
<1>2. Occupants(v, fleet, s) = SumFunctionOnSet(f, DOMAIN fleet)
  BY DEF Occupants, SumFunction
<1>. HIDE DEF f
<1>. QED
  BY <1>1, <1>2, SumType DEF IsFleet

-----------------------------------------------------------------------------
(* What is free. *)

LEMMA LeastOf ==
  ASSUME NEW S \in SUBSET Nat, NEW a \in S, \A x \in S : a <= x
  PROVE  Min(S) = a
<1>1. Min(S) \in S /\ \A y \in S : Min(S) <= y
  BY DEF Min
<1>. DEFINE b == Min(S)
<1>2. b \in Nat /\ a \in Nat /\ b <= a /\ a <= b
  BY <1>1
<1>. HIDE DEF b
<1>3. a = b
  BY <1>2
<1>. QED
  BY <1>3 DEF b

LEMMA LeastIsIn ==
  ASSUME NEW S \in SUBSET Nat, S # {}
  PROVE  Min(S) \in S
<1>. PICK a \in S : TRUE
  OBVIOUS
<1>. DEFINE T == {0..x : x \in {y \in S : y <= a}}
<1>1. IsFiniteSet(0..a)
  BY FS_Interval
<1>2. T \in SUBSET (SUBSET (0..a)) /\ T # {}
  OBVIOUS
<1>3. PICK X \in T : \A Y \in T : Y \subseteq X => Y = X
  <2>. DEFINE B == 0..a
  <2>1. IsFiniteSet(B) /\ T \in SUBSET (SUBSET B) /\ T # {}
    BY <1>1, <1>2
  <2>. HIDE DEF T, B
  <2>. QED
    BY <2>1, SmallestSet
<1>4. PICK x \in S : x <= a /\ X = 0..x
  OBVIOUS
<1>5. ASSUME NEW y \in S, y < x PROVE FALSE
  <2>1. 0..y \in T /\ 0..y \subseteq 0..x
    BY <1>4, <1>5
  <2>2. 0..y = 0..x
    BY <1>3, <1>4, <2>1
  <2>. QED
    BY <1>5, <2>2
<1>6. \A y \in S : x <= y
  BY <1>5
<1>. HIDE DEF T
<1>. QED
  BY <1>6 DEF Min

LEMMA MaxWithNothing ==
  ASSUME NEW k \in Int PROVE Max({0, k}) = IF k <= 0 THEN 0 ELSE k
<1>1. \E x \in {0, k} : \A y \in {0, k} : x >= y
  OBVIOUS
<1>2. Max({0, k}) \in {0, k} /\ \A y \in {0, k} : Max({0, k}) >= y
  BY <1>1 DEF Max
<1>. QED
  BY <1>2

LEMMA CapacityType ==
  ASSUME NEW v, WellFormed(v), NEW kind, NEW d, Capacities(v, kind, d) # {}
  PROVE  /\ Min(Capacities(v, kind, d)) \in Nat
         /\ v.slots[kind][d] \in DOMAIN Total =>
              Min(Capacities(v, kind, d)) <= Total[v.slots[kind][d]]
<1>. DEFINE s == v.slots[kind][d]
            limit == LimitsOf(v, kind)[d]
            C == Capacities(v, kind, d)
<1>1. d \in DOMAIN LimitsOf(v, kind) => limit \in Nat
  BY DEF WellFormed, LimitsOf
<1>2. s \in DOMAIN Total => Total[s] \in Nat
  BY TotalAssumption
<1>3. CASE s \in DOMAIN Total /\ d \in DOMAIN LimitsOf(v, kind)
  <2>1. C = {limit, Total[s]}
    BY <1>3 DEF Capacities
  <2>2. C \in SUBSET Nat /\ limit \in C /\ Total[s] \in C
    BY <1>1, <1>2, <1>3, <2>1
  <2>. HIDE DEF limit, s, C
  <2>3. CASE limit <= Total[s]
    <3>1. Min(C) = limit
      BY <1>1, <1>2, <1>3, <2>1, <2>2, <2>3, LeastOf DEF s
    <3>. QED
      BY <1>1, <1>3, <2>3, <3>1 DEF s, C
  <2>4. CASE ~(limit <= Total[s])
    <3>1. Min(C) = Total[s]
      BY <1>1, <1>2, <1>3, <2>1, <2>2, <2>4, LeastOf DEF s
    <3>. QED
      BY <1>2, <1>3, <3>1 DEF s, C
  <2>. QED
    BY <2>3, <2>4
<1>4. CASE s \in DOMAIN Total /\ d \notin DOMAIN LimitsOf(v, kind)
  <2>1. C = {Total[s]}
    BY <1>4 DEF Capacities
  <2>2. Min({Total[s]}) = Total[s]
    BY <1>2, <1>4, LeastOf
  <2>. QED
    BY <1>2, <1>4, <2>1, <2>2
<1>5. CASE s \notin DOMAIN Total
  <2>1. C = {limit} /\ d \in DOMAIN LimitsOf(v, kind)
    BY <1>5 DEF Capacities
  <2>2. Min({limit}) = limit
    BY <1>1, <2>1, LeastOf
  <2>. QED
    BY <1>1, <1>5, <2>1, <2>2
<1>. QED
  BY <1>3, <1>4, <1>5

LEMMA FreeType ==
  ASSUME NEW v, WellFormed(v), NEW fleet, IsFleet(fleet), NEW kind, NEW d,
         Capacities(v, kind, d) # {}
  PROVE  LET s == v.slots[kind][d] IN
         /\ Free(v, fleet, kind, d) \in Nat /\ Used(v, fleet, s) \in Nat
         /\ Free(v, fleet, kind, d) =
              IF Min(Capacities(v, kind, d)) <= Used(v, fleet, s) THEN 0
              ELSE Min(Capacities(v, kind, d)) - Used(v, fleet, s)
<1>. DEFINE s == v.slots[kind][d]
            least == Min(Capacities(v, kind, d))
            used == Used(v, fleet, s)
<1>1. used \in Nat
  BY UsedByFewer
<1>2. least \in Nat
  BY CapacityType
<1>3. Free(v, fleet, kind, d) = Max({0, least - used})
  BY DEF Free
<1>. HIDE DEF least, used
<1>4. least - used \in Int
  BY <1>1, <1>2
<1>5. Max({0, least - used}) = IF least - used <= 0 THEN 0 ELSE least - used
  BY <1>4, MaxWithNothing
<1>6. Free(v, fleet, kind, d) \in Nat
      /\ Free(v, fleet, kind, d) = IF least <= used THEN 0 ELSE least - used
  BY <1>1, <1>2, <1>3, <1>5
<1>. QED
  BY <1>1, <1>6 DEF least, used
-----------------------------------------------------------------------------
(* What is selected. *)

\* In a finite order each place is taken, if every element knows who is in front.
LEMMA Ranking ==
  ASSUME NEW C, IsFiniteSet(C), NEW ahead \in [C -> SUBSET C],
         \A k \in C : k \notin ahead[k],
         \A j, k \in C : j # k => j \in ahead[k] \/ k \in ahead[j],
         \A j, k \in C : j \in ahead[k] => ahead[j] \subseteq ahead[k]
  PROVE  \A n \in 1..Cardinality(C) : \E k \in C : Cardinality(ahead[k]) = n - 1
<1>. DEFINE N == Cardinality(C)
            rank == [k \in C |-> Cardinality(ahead[k]) + 1]
<1>1. N \in Nat
  BY FS_CardinalityType
<1>2. ASSUME NEW k \in C
      PROVE  /\ IsFiniteSet(ahead[k])
             /\ Cardinality(ahead[k]) \in Nat /\ Cardinality(ahead[k]) < N
  <2>1. ahead[k] \in SUBSET C /\ ahead[k] # C
    OBVIOUS
  <2>2. IsFiniteSet(ahead[k]) /\ Cardinality(ahead[k]) <= N /\ Cardinality(ahead[k]) # N
    BY <2>1, FS_Subset
  <2>. QED
    BY <1>1, <2>2, FS_CardinalityType
<1>3. rank \in [C -> 1..N]
  BY <1>1, <1>2
<1>4. ASSUME NEW j \in C, NEW k \in C, j # k PROVE rank[j] # rank[k]
  <2>1. ASSUME NEW a \in C, NEW b \in C, a \in ahead[b]
        PROVE  Cardinality(ahead[a]) # Cardinality(ahead[b])
    <3>1. ahead[a] \in SUBSET ahead[b] /\ ahead[a] # ahead[b]
      BY <2>1
    <3>. QED
      BY <1>2, <3>1, FS_Subset
  <2>2. Cardinality(ahead[j]) # Cardinality(ahead[k])
    BY <1>4, <2>1
  <2>3. Cardinality(ahead[j]) \in Nat /\ Cardinality(ahead[k]) \in Nat
    BY <1>2
  <2>. QED
    BY <2>2, <2>3
<1>5. rank \in Injection(C, 1..N)
  BY <1>3, <1>4 DEF Injection, IsInjective
<1>6. IsFiniteSet(1..N) /\ Cardinality(1..N) = N
  BY <1>1, FS_Interval
<1>7. rank \in Surjection(C, 1..N)
  BY <1>5, <1>6, FS_Injection
<1>8. ASSUME NEW n \in 1..N PROVE \E k \in C : Cardinality(ahead[k]) = n - 1
  <2>1. PICK k \in C : rank[k] = n
    BY <1>7 DEF Surjection
  <2>2. Cardinality(ahead[k]) + 1 = n /\ Cardinality(ahead[k]) \in Nat
    BY <1>2, <2>1
  <2>. QED
    BY <2>2
<1>. QED
  BY <1>8

\* The candidates are ordered.
LEMMA AheadOrders ==
  ASSUME NEW v, WellFormed(v), NEW fleet, IsFleet(fleet), NEW m \in DOMAIN v.models
  PROVE  LET C == Candidates(v, fleet, m)
             ahead == Ahead(v, fleet, m)
         IN /\ IsFiniteSet(C) /\ C \in SUBSET Nat
            /\ ahead \in [C -> SUBSET C]
            /\ \A k \in C : k \notin ahead[k]
            /\ \A j, k \in C : j # k => j \in ahead[k] \/ k \in ahead[j]
            /\ \A j, k \in C : j \in ahead[k] => ahead[j] \subseteq ahead[k]
<1>. DEFINE c == v.models[m]
            pool == c.pool
            C == Candidates(v, fleet, m)
            count == [k \in C |-> Occupants(v, fleet, v.slots[c.kind][pool[k]])]
            free  == [k \in C |-> Free(v, fleet, c.kind, pool[k])]
            before(j, k) ==
              \/ count[j] < count[k]
              \/ count[j] = count[k] /\ free[j] > free[k]
              \/ count[j] = count[k] /\ free[j] = free[k] /\ pool[j] < pool[k]
              \/ count[j] = count[k] /\ free[j] = free[k] /\ pool[j] = pool[k] /\ j < k
            ahead == [k \in C |-> {j \in C : before(j, k)}]
<1>1. pool \in Seq(Nat)
  BY DEF WellFormed
<1>2. C \subseteq 1..Len(pool)
  <2>1. C \subseteq DOMAIN pool
    BY DEF Candidates
  <2>. HIDE DEF C, pool
  <2>. QED
    BY <1>1, <2>1
<1>3. IsFiniteSet(C) /\ C \in SUBSET Nat
  <2>1. IsFiniteSet(1..Len(pool)) /\ C \in SUBSET (1..Len(pool)) /\ 1..Len(pool) \subseteq Nat
    BY <1>1, <1>2, FS_Interval
  <2>. HIDE DEF C, pool
  <2>. QED
    BY <2>1, FS_Subset
<1>4. ASSUME NEW k \in C
      PROVE  count[k] \in Nat /\ free[k] \in Nat /\ pool[k] \in Nat
  <2>1. count[k] \in Nat
    BY OccupantsType
  <2>2. Capacities(v, c.kind, pool[k]) # {}
    BY DEF Candidates, Fits
  <2>3. free[k] \in Nat
    BY <2>2, FreeType
  <2>4. pool[k] \in Nat
    BY <1>1, <1>2
  <2>. QED
    BY <2>1, <2>3, <2>4
<1>5. ahead = Ahead(v, fleet, m)
  BY DEF Ahead
<1>. HIDE DEF count, free, pool, C
<1>6. /\ \A k \in C : ~before(k, k)
      /\ \A j, k \in C : j # k => before(j, k) \/ before(k, j)
      /\ \A i, j, k \in C : before(i, j) /\ before(j, k) => before(i, k)
  BY <1>3, <1>4
<1>. HIDE DEF before
<1>7. /\ ahead \in [C -> SUBSET C]
      /\ \A k \in C : k \notin ahead[k]
      /\ \A j, k \in C : j # k => j \in ahead[k] \/ k \in ahead[j]
      /\ \A j, k \in C : j \in ahead[k] => ahead[j] \subseteq ahead[k]
  BY <1>6
<1>. HIDE DEF ahead
<1>. QED
  BY <1>3, <1>5, <1>7 DEF C

\* A choice of entries of a pool, none of them twice, from the places in C.
PicksFrom(chosen, C, pool) ==
  \E p \in [DOMAIN chosen -> C] :
    /\ \A a, b \in DOMAIN chosen : p[a] = p[b] => a = b
    /\ \A n \in DOMAIN chosen : chosen[n] = pool[p[n]]

\* What is selected are devices of the pool that fit, at as many places of it as
\* the model needs; or nothing, if there are not so many.
LEMMA Selected ==
  ASSUME NEW v, WellFormed(v), NEW fleet, IsFleet(fleet), NEW m \in DOMAIN v.models
  PROVE  /\ SelectGpus(v, fleet, m) \in Seq(Nat)
         /\ PicksFrom(SelectGpus(v, fleet, m), Candidates(v, fleet, m), v.models[m].pool)
         /\ Len(SelectGpus(v, fleet, m)) =
              IF Cardinality(Candidates(v, fleet, m)) < v.models[m].gpus
              THEN 0 ELSE v.models[m].gpus
<1>. DEFINE C == Candidates(v, fleet, m)
            gpus == v.models[m].gpus
            pool == v.models[m].pool
            ahead == Ahead(v, fleet, m)
            ranked(n) == CHOOSE k \in C : Cardinality(ahead[k]) = n - 1
            chosen == SelectGpus(v, fleet, m)
            p == [n \in 1..gpus |-> ranked(n)]
<1>1. /\ IsFiniteSet(C) /\ C \in SUBSET Nat
      /\ ahead \in [C -> SUBSET C]
      /\ \A k \in C : k \notin ahead[k]
      /\ \A j, k \in C : j # k => j \in ahead[k] \/ k \in ahead[j]
      /\ \A j, k \in C : j \in ahead[k] => ahead[j] \subseteq ahead[k]
  BY AheadOrders
<1>2. Cardinality(C) \in Nat /\ gpus \in Nat \ {0} /\ pool \in Seq(Nat)
      /\ C \subseteq DOMAIN pool
  BY <1>1, FS_CardinalityType DEF WellFormed, Candidates
<1>3. chosen = IF Cardinality(C) < gpus THEN <<>> ELSE [n \in 1..gpus |-> pool[p[n]]]
  <2>1. chosen = IF Cardinality(C) < gpus THEN <<>> ELSE [n \in 1..gpus |-> pool[ranked(n)]]
    BY DEF SelectGpus
  <2>. HIDE DEF ranked, chosen
  <2>. QED
    BY <2>1
<1>. HIDE DEF C, gpus, pool, ahead, chosen
<1>4. \A n \in 1..Cardinality(C) : \E k \in C : Cardinality(ahead[k]) = n - 1
  BY <1>1, Ranking
<1>5. CASE ~(Cardinality(C) < gpus)
  <2>1. ASSUME NEW n \in 1..gpus
        PROVE  ranked(n) \in C /\ Cardinality(ahead[ranked(n)]) = n - 1
    <3>1. n \in 1..Cardinality(C)
      BY <1>2, <1>5
    <3>2. \E k \in C : Cardinality(ahead[k]) = n - 1
      BY <1>4, <3>1, Zenon
    <3>. QED
      BY <3>2
  <2>2. p \in [1..gpus -> C] /\ \A n \in 1..gpus : Cardinality(ahead[p[n]]) = n - 1
    BY <2>1
  <2>. HIDE DEF p
  <2>3. \A a, b \in 1..gpus : p[a] = p[b] => a = b
    <3>. SUFFICES ASSUME NEW a \in 1..gpus, NEW b \in 1..gpus, p[a] = p[b] PROVE a = b
      OBVIOUS
    <3>1. a - 1 = b - 1
      BY <2>2
    <3>. QED
      BY <1>2, <3>1
  <2>4. chosen = [n \in 1..gpus |-> pool[p[n]]]
    BY <1>3, <1>5
  <2>5. chosen \in Seq(Nat) /\ Len(chosen) = gpus /\ DOMAIN chosen = 1..gpus
    BY <1>2, <2>2, <2>4
  <2>6. \A n \in 1..gpus : chosen[n] = pool[p[n]]
    BY <2>4
  <2>7. PicksFrom(chosen, C, pool)
    <3>1. /\ \A a, b \in DOMAIN chosen : p[a] = p[b] => a = b
          /\ \A n \in DOMAIN chosen : chosen[n] = pool[p[n]]
      BY <2>3, <2>5, <2>6
    <3>2. p \in [DOMAIN chosen -> C]
      BY <2>2, <2>5
    <3>. QED
      BY <3>1, <3>2, Zenon DEF PicksFrom
  <2>. QED
    BY <1>5, <2>5, <2>7 DEF C, gpus, pool, chosen
<1>6. CASE Cardinality(C) < gpus
  <2>1. chosen = <<>> /\ chosen \in Seq(Nat) /\ Len(chosen) = 0 /\ DOMAIN chosen = {}
    BY <1>3, <1>6
  <2>. DEFINE none == [x \in {} |-> x]
  <2>2. none \in [DOMAIN chosen -> C] /\ \A n \in DOMAIN chosen : FALSE
    BY <2>1
  <2>. HIDE DEF none
  <2>3. PicksFrom(chosen, C, pool)
    BY <2>2 DEF PicksFrom
  <2>. QED
    BY <1>6, <2>1, <2>3 DEF C, gpus, pool, chosen
<1>. QED
  BY <1>5, <1>6

\* Where the first g elements of a finite order are, nothing else is in front.
LEMMA FirstInFront ==
  ASSUME NEW C, IsFiniteSet(C), NEW ahead \in [C -> SUBSET C],
         \A k \in C : k \notin ahead[k],
         \A j, k \in C : j # k => j \in ahead[k] \/ k \in ahead[j],
         \A j, k \in C : j \in ahead[k] => ahead[j] \subseteq ahead[k],
         NEW g \in Nat, NEW p \in [1..g -> C],
         \A n \in 1..g : Cardinality(ahead[p[n]]) = n - 1
  PROVE  \A n \in 1..g : \A k \in C :
           k \in ahead[p[n]] <=> \E j \in 1..(n - 1) : k = p[j]
<1>1. ASSUME NEW j \in C, NEW k \in C, j \in ahead[k]
      PROVE  /\ Cardinality(ahead[j]) \in Nat /\ Cardinality(ahead[k]) \in Nat
             /\ Cardinality(ahead[j]) < Cardinality(ahead[k])
  <2>1. ahead[k] \in SUBSET C /\ ahead[j] \in SUBSET ahead[k] /\ ahead[j] # ahead[k]
    BY <1>1
  <2>2. IsFiniteSet(ahead[k])
    BY <2>1, FS_Subset
  <2>3. /\ IsFiniteSet(ahead[j])
        /\ Cardinality(ahead[j]) <= Cardinality(ahead[k])
        /\ Cardinality(ahead[j]) # Cardinality(ahead[k])
    BY <2>1, <2>2, FS_Subset
  <2>4. Cardinality(ahead[j]) \in Nat /\ Cardinality(ahead[k]) \in Nat
    BY <2>2, <2>3, FS_CardinalityType
  <2>. QED
    BY <2>3, <2>4
<1>2. ASSUME NEW n \in 1..g, NEW j \in 1..(n - 1) PROVE p[j] \in ahead[p[n]]
  <2>1. j \in 1..g /\ p[j] \in C /\ p[n] \in C /\ j < n
    OBVIOUS
  <2>2. Cardinality(ahead[p[j]]) = j - 1 /\ Cardinality(ahead[p[n]]) = n - 1
    BY <2>1
  <2>3. p[j] # p[n]
    BY <2>1, <2>2
  <2>4. ~(p[n] \in ahead[p[j]])
    BY <1>1, <2>1, <2>2
  <2>. QED
    BY <2>1, <2>3, <2>4
<1>3. ASSUME NEW n \in 1..g, NEW k \in ahead[p[n]] PROVE \E j \in 1..(n - 1) : k = p[j]
  <2>1. k \in C /\ p[n] \in C /\ Cardinality(ahead[p[n]]) = n - 1
    OBVIOUS
  <2>2. Cardinality(ahead[k]) \in Nat /\ Cardinality(ahead[k]) < n - 1
    BY <1>1, <2>1
  <2>. DEFINE j == Cardinality(ahead[k]) + 1
  <2>3. j \in 1..(n - 1) /\ j \in 1..g
    BY <2>2
  <2>4. p[j] \in C /\ Cardinality(ahead[p[j]]) = Cardinality(ahead[k])
    BY <2>2, <2>3
  <2>. HIDE DEF j
  <2>5. ~(p[j] \in ahead[k]) /\ ~(k \in ahead[p[j]])
    BY <1>1, <2>1, <2>2, <2>4
  <2>6. k = p[j]
    BY <2>1, <2>4, <2>5
  <2>. QED
    BY <2>3, <2>6
<1>. QED
  BY <1>2, <1>3

\* The sort of select_gpus_inner: the n-th device selected is that of a candidate
\* with exactly the first n - 1 in front of it, so the list is in the order of
\* occupancy, free memory and number, and no candidate that was left out comes
\* before one that was taken.
THEOREM PacksInOrder ==
  ASSUME NEW v, WellFormed(v), NEW fleet, IsFleet(fleet), NEW m \in DOMAIN v.models,
         ~(Cardinality(Candidates(v, fleet, m)) < v.models[m].gpus)
  PROVE  \E p \in [1..v.models[m].gpus -> Candidates(v, fleet, m)] :
           /\ SelectGpus(v, fleet, m) = [n \in 1..v.models[m].gpus |-> v.models[m].pool[p[n]]]
           /\ \A n \in 1..v.models[m].gpus :
                Ahead(v, fleet, m)[p[n]] = {p[j] : j \in 1..(n - 1)}
<1>. DEFINE C == Candidates(v, fleet, m)
            gpus == v.models[m].gpus
            pool == v.models[m].pool
            ahead == Ahead(v, fleet, m)
            ranked(n) == CHOOSE k \in C : Cardinality(ahead[k]) = n - 1
            chosen == SelectGpus(v, fleet, m)
            p == [n \in 1..gpus |-> ranked(n)]
<1>1. /\ IsFiniteSet(C) /\ ahead \in [C -> SUBSET C]
      /\ \A k \in C : k \notin ahead[k]
      /\ \A j, k \in C : j # k => j \in ahead[k] \/ k \in ahead[j]
      /\ \A j, k \in C : j \in ahead[k] => ahead[j] \subseteq ahead[k]
  BY AheadOrders
<1>2. Cardinality(C) \in Nat /\ gpus \in Nat /\ ~(Cardinality(C) < gpus)
  BY <1>1, FS_CardinalityType DEF WellFormed
<1>3. chosen = [n \in 1..gpus |-> pool[p[n]]]
  <2>1. chosen = [n \in 1..gpus |-> pool[ranked(n)]]
    BY DEF SelectGpus
  <2>. HIDE DEF ranked, chosen
  <2>. QED
    BY <2>1
<1>. HIDE DEF C, gpus, pool, ahead, chosen
<1>4. \A n \in 1..Cardinality(C) : \E k \in C : Cardinality(ahead[k]) = n - 1
  BY <1>1, Ranking
<1>5. ASSUME NEW n \in 1..gpus
      PROVE  ranked(n) \in C /\ Cardinality(ahead[ranked(n)]) = n - 1
  <2>1. n \in 1..Cardinality(C)
    BY <1>2
  <2>2. \E k \in C : Cardinality(ahead[k]) = n - 1
    BY <1>4, <2>1, Zenon
  <2>. QED
    BY <2>2
<1>6. p \in [1..gpus -> C] /\ \A n \in 1..gpus : Cardinality(ahead[p[n]]) = n - 1
  BY <1>5
<1>. HIDE DEF p
<1>7. \A n \in 1..gpus : ahead[p[n]] = {p[j] : j \in 1..(n - 1)}
  <2>1. \A n \in 1..gpus : \A k \in C :
          k \in ahead[p[n]] <=> \E j \in 1..(n - 1) : k = p[j]
    BY <1>1, <1>2, <1>6, FirstInFront
  <2>. TAKE n \in 1..gpus
  <2>2. ahead[p[n]] \subseteq C /\ \A j \in 1..(n - 1) : p[j] \in C
    BY <1>1, <1>2, <1>6
  <2>. QED
    BY <2>1, <2>2
<1>8. \E q \in [1..gpus -> C] :
        /\ chosen = [n \in 1..gpus |-> pool[q[n]]]
        /\ \A n \in 1..gpus : ahead[q[n]] = {q[j] : j \in 1..(n - 1)}
  BY <1>3, <1>6, <1>7, Zenon
<1>. QED
  BY <1>8 DEF C, gpus, pool, ahead, chosen
================================================================================
