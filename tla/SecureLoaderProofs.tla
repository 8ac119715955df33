-------------------------- MODULE SecureLoaderProofs --------------------------
(***************************************************************************)
(* Proofs about SecureLoader: what is loaded, and why a load fails, for    *)
(* every tree, every ignore file and every number of links.                *)
(*                                                                         *)
(* The order of the proof: where links lead; the entries of a directory;   *)
(* that the names of a chart are all the names there are, although links   *)
(* lead back up; and what each step of the walk keeps.                     *)
(***************************************************************************)
EXTENDS SecureLoader, TLAPS, WellFoundedInduction, FiniteSetTheorems, SequenceTheorems

Inputs == tree \in Trees /\ aliased \in BOOLEAN /\ rules \in IgnoreFiles

\* Induction, over a set of natural numbers.
LEMMA Induction ==
  ASSUME NEW A \in SUBSET Nat, 0 \in A, \A n \in A : n + 1 \in A
  PROVE  \A n \in Nat : n \in A
<1> SUFFICES ASSUME Nat \ A # {} PROVE FALSE
  OBVIOUS
<1>1. PICK m \in Nat \ A : \A l \in Nat \ A : ~(<<l, m>> \in OpToRel(<, Nat))
  <2>1. Nat \ A \subseteq Nat
    OBVIOUS
  <2> QED BY <2>1, NatLessThanWellFounded, WFMin
<1>2. \A l \in Nat \ A : ~(l < m)
  BY <1>1 DEF OpToRel
<1>3. m - 1 \in Nat /\ m - 1 < m /\ m - 1 + 1 = m
  OBVIOUS
<1> QED BY <1>2, <1>3

-----------------------------------------------------------------------------
(***************************************************************************)
(* Where links lead.                                                       *)
(***************************************************************************)
LEMMA TreeFacts ==
  ASSUME Inputs
  PROVE  /\ tree.kind \in [Place -> Kind] /\ tree.target \in [Place -> Place \cup {0}]
         /\ tree.kind[Root] = "dir"
         /\ IsFiniteSet(Place) /\ Cardinality(Place) \in Nat /\ Place = 1..Cardinality(Place)
         /\ Links \subseteq Place /\ Cardinality(Links) \in Nat
<1>1. Links \subseteq Place
  BY DEF Links
<1>2. IsFiniteSet(Place)
  BY LoaderAssumption
<1>3. IsFiniteSet(Links)
  BY <1>1, <1>2, FS_Subset
<1>4. Cardinality(Place) \in Nat /\ Cardinality(Links) \in Nat
  BY <1>2, <1>3, FS_CardinalityType
<1> QED BY <1>1, <1>2, <1>4, LoaderAssumption DEF Inputs, Tree

\* One link further.
Further(q) == IF q \in Links THEN tree.target[q] ELSE q

IsPath(p, m, f) == f = [n \in 0..m |-> IF n = 0 THEN p ELSE Further(f[n - 1])]

LEMMA FurtherIsAPlace ==
  ASSUME Inputs, NEW q \in Place \cup {0} PROVE Further(q) \in Place \cup {0}
BY TreeFacts DEF Further

\* A path along links can be followed for any number of steps.
LEMMA PathIsDefined ==
  ASSUME Inputs, NEW p \in Place, NEW m \in Nat PROVE \E f : IsPath(p, m, f)
<1> DEFINE A == {k \in Nat : \E f : IsPath(p, k, f)}
<1>1. 0 \in A
  <2> DEFINE f == [n \in 0..0 |-> p]
  <2>1. IsPath(p, 0, f)
    BY DEF IsPath
  <2> QED BY <2>1
<1>2. ASSUME NEW k \in A PROVE k + 1 \in A
  <2>1. PICK g : IsPath(p, k, g)
    OBVIOUS
  <2> DEFINE h == [n \in 0..(k + 1) |-> IF n = k + 1 THEN Further(g[k]) ELSE g[n]]
  <2>2. ASSUME NEW n \in 0..(k + 1) PROVE h[n] = IF n = 0 THEN p ELSE Further(h[n - 1])
    <3>1. CASE n = k + 1
      BY <3>1
    <3>2. CASE n # k + 1
      <4>1. n \in 0..k /\ (n # 0 => n - 1 \in 0..(k + 1) /\ n - 1 # k + 1)
        BY <3>2
      <4>2. g[n] = IF n = 0 THEN p ELSE Further(g[n - 1])
        BY <2>1, <4>1 DEF IsPath
      <4> QED BY <4>1, <4>2
    <3> QED BY <3>1, <3>2
  <2>3. \A n \in 0..(k + 1) : h[n] = IF n = 0 THEN p ELSE Further(h[n - 1])
    BY <2>2
  <2>4. h = [n \in 0..(k + 1) |-> h[n]]
    OBVIOUS
  <2> HIDE DEF h
  <2>5. IsPath(p, k + 1, h)
    BY <2>3, <2>4 DEF IsPath
  <2> QED BY <2>5
<1>3. A \in SUBSET Nat /\ \A k \in A : k + 1 \in A
  BY <1>2
<1> HIDE DEF A
<1>4. \A k \in Nat : k \in A
  BY <1>1, <1>3, Induction
<1> QED BY <1>4 DEF A

LEMMA PathStep ==
  ASSUME NEW p, NEW m \in Nat, NEW f, IsPath(p, m, f)
  PROVE  f[0] = p /\ \A k \in Nat : k + 1 <= m => f[k + 1] = Further(f[k])
<1>1. 0 \in 0..m
  OBVIOUS
<1>2. ASSUME NEW k \in Nat, k + 1 <= m PROVE f[k + 1] = Further(f[k])
  <2>1. k + 1 \in 0..m /\ k + 1 # 0 /\ k + 1 - 1 = k
    BY <1>2
  <2>2. f[k + 1] = IF k + 1 = 0 THEN p ELSE Further(f[k + 1 - 1])
    BY <2>1 DEF IsPath
  <2> QED BY <2>1, <2>2
<1>3. f[0] = p
  BY <1>1 DEF IsPath
<1> QED BY <1>2, <1>3

LEMMA LeadsAlongLinks ==
  ASSUME Inputs, NEW p \in Place
  PROVE  /\ \A n \in 0..Cardinality(Links) : Leads(p)[n] \in Place \cup {0}
         /\ DOMAIN Leads(p) = 0..Cardinality(Links)
         /\ IsPath(p, Cardinality(Links), Leads(p))
<1> DEFINE L == Cardinality(Links)
           next == [q \in Place \cup {0} |-> IF q \in Links THEN tree.target[q] ELSE q]
           Made(f) == f = [n \in 0..L |-> IF n = 0 THEN p ELSE next[f[n - 1]]]
           In(f) == \A n \in 0..L : f[n] \in Place \cup {0}
<1>0. L \in Nat
  BY TreeFacts
<1>1. ASSUME NEW f, f[0] = p, \A q \in Place \cup {0} : Further(q) \in Place \cup {0},
             \A k \in Nat : k + 1 <= L /\ f[k] \in Place \cup {0} => f[k + 1] = Further(f[k])
      PROVE  In(f)
  <2> DEFINE A == {k \in Nat : k <= L => f[k] \in Place \cup {0}}
  <2>1. 0 \in A
    BY <1>1
  <2>2. ASSUME NEW k \in A PROVE k + 1 \in A
    <3> SUFFICES ASSUME k + 1 <= L PROVE f[k + 1] \in Place \cup {0}
      OBVIOUS
    <3>1. k \in Nat /\ f[k] \in Place \cup {0}
      BY <1>0
    <3> QED BY <1>1, <3>1
  <2>3. A \in SUBSET Nat /\ \A k \in A : k + 1 \in A
    BY <2>2
  <2> HIDE DEF A
  <2>4. \A k \in Nat : k \in A
    BY <2>1, <2>3, Induction
  <2> QED BY <1>0, <2>4 DEF A
<1>2. ASSUME NEW f, In(f) PROVE IsPath(p, L, f) <=> Made(f)
  <2>1. ASSUME NEW n \in 0..L, n # 0 PROVE next[f[n - 1]] = Further(f[n - 1])
    <3>1. n - 1 \in 0..L
      BY <1>0, <2>1
    <3> QED BY <1>2, <3>1 DEF Further
  <2>2. \A n \in 0..L : (IF n = 0 THEN p ELSE next[f[n - 1]]) = IF n = 0 THEN p ELSE Further(f[n - 1])
    BY <2>1
  <2> HIDE DEF next
  <2> QED BY <2>2 DEF IsPath
<1>3. Leads(p) = CHOOSE f : Made(f)
  BY DEF Leads
<1>4. \E f : Made(f)
  <2>1. PICK f : IsPath(p, L, f)
    BY <1>0, PathIsDefined
  <2>2. In(f)
    <3> HIDE DEF In
    <3>1. f[0] = p /\ \A k \in Nat : k + 1 <= L => f[k + 1] = Further(f[k])
      BY <1>0, <2>1, PathStep
    <3>2. \A q \in Place \cup {0} : Further(q) \in Place \cup {0}
      BY FurtherIsAPlace
    <3>3. \A k \in Nat : k + 1 <= L /\ f[k] \in Place \cup {0} => f[k + 1] = Further(f[k])
      BY <3>1
    <3> QED BY <1>1, <3>1, <3>2, <3>3
  <2>3. Made(f)
    BY <1>2, <2>1, <2>2
  <2> QED BY <2>3
<1>5. Made(Leads(p))
  <2> HIDE DEF Made
  <2> QED BY <1>3, <1>4
<1>6. DOMAIN Leads(p) = 0..L
  BY <1>5
<1>7. In(Leads(p))
  <2> DEFINE f == Leads(p)
  <2> HIDE DEF f
  <2>1. Made(f)
    BY <1>5 DEF f
  <2>2. 0 \in 0..L
    BY <1>0
  <2>3. f[0] = p
    BY <2>1, <2>2
  <2>4. ASSUME NEW k \in Nat, k + 1 <= L, f[k] \in Place \cup {0}
        PROVE  f[k + 1] = Further(f[k])
    <3>1. k + 1 \in 0..L /\ k + 1 # 0 /\ k + 1 - 1 = k
      BY <1>0, <2>4
    <3>2. f[k + 1] = IF k + 1 = 0 THEN p ELSE next[f[k + 1 - 1]]
      <4> HIDE DEF next
      <4> DEFINE after(n) == IF n = 0 THEN p ELSE next[f[n - 1]]
      <4>1. f = [n \in 0..L |-> after(n)]
        BY <2>1
      <4>2. f[k + 1] = after(k + 1)
        <5> HIDE DEF after
        <5> QED BY <3>1, <4>1
      <4> QED BY <4>2
    <3>3. next[f[k]] = Further(f[k])
      BY <2>4 DEF Further
    <3> QED BY <3>1, <3>2, <3>3
  <2>5. In(f)
    <3> HIDE DEF In
    <3> QED BY <1>1, <2>3, <2>4, FurtherIsAPlace
  <2> QED BY <2>5 DEF f
<1>8. IsPath(p, L, Leads(p))
  <2> HIDE DEF Made, In
  <2> QED BY <1>2, <1>5, <1>7
<1> QED BY <1>6, <1>7, <1>8

\* What a path resolves to is no link and something; so is its resolution.
LEMMA Resolves ==
  ASSUME Inputs, NEW p \in Place
  PROVE  /\ EvalSymlinks(p) \in Place \cup {0}
         /\ EvalSymlinks(p) # 0 => tree.kind[EvalSymlinks(p)] \notin {"none", "link"}
<1>1. Cardinality(Links) \in 0..Cardinality(Links)
  BY TreeFacts
<1> QED BY <1>1, LeadsAlongLinks DEF EvalSymlinks

\* What is no link stands for itself, and no link is followed.
LEMMA ResolvesToItself ==
  ASSUME Inputs, NEW p \in Place, tree.kind[p] \notin {"none", "link"}
  PROVE  EvalSymlinks(p) = p /\ Hops(p) = 0
<1> DEFINE L == Cardinality(Links)
           A == {k \in Nat : k <= L => Leads(p)[k] = p}
<1>0. L \in Nat /\ L \in 0..L /\ p \notin Links /\ p # 0
  BY TreeFacts DEF Links
<1>1. IsPath(p, L, Leads(p))
  BY LeadsAlongLinks
<1>2. 0 \in A
  BY <1>0, <1>1 DEF IsPath
<1>3. ASSUME NEW k \in A PROVE k + 1 \in A
  <2> SUFFICES ASSUME k + 1 <= L PROVE Leads(p)[k + 1] = p
    OBVIOUS
  <2>1. k \in Nat /\ Leads(p)[k] = p
    BY <1>0
  <2>2. Leads(p)[k + 1] = Further(Leads(p)[k])
    <3> DEFINE f == Leads(p)
    <3>1. IsPath(p, L, f)
      BY <1>1
    <3> HIDE DEF f
    <3>2. \A i \in Nat : i + 1 <= L => f[i + 1] = Further(f[i])
      <4> HIDE DEF L
      <4> QED BY <1>0, <3>1, PathStep
    <3>3. f[k + 1] = Further(f[k])
      BY <2>1, <3>2
    <3> QED BY <3>3 DEF f
  <2> QED BY <1>0, <2>1, <2>2 DEF Further
<1>4. A \in SUBSET Nat /\ \A k \in A : k + 1 \in A
  BY <1>3
<1> HIDE DEF A
<1>5. \A k \in Nat : k \in A
  BY <1>2, <1>4, Induction
<1>6. \A n \in 0..L : Leads(p)[n] = p
  BY <1>0, <1>5 DEF A
<1>7. EvalSymlinks(p) = p
  BY <1>0, <1>6 DEF EvalSymlinks
<1>8. Range(Leads(p)) \cap Links = {}
  BY <1>0, <1>6, LeadsAlongLinks DEF Range
<1> QED BY <1>7, <1>8, FS_EmptySet DEF Hops

LEMMA HopsAreCounted ==
  ASSUME Inputs, NEW p \in Place
  PROVE  Hops(p) \in Nat /\ (tree.kind[p] = "link" => Hops(p) >= 1)
<1> DEFINE passed == Range(Leads(p)) \cap Links
<1>1. IsFiniteSet(passed)
  BY TreeFacts, FS_Subset
<1>2. Cardinality(passed) \in Nat /\ (passed # {} => Cardinality(passed) # 0)
  BY <1>1, FS_CardinalityType, FS_EmptySet
<1>3. ASSUME tree.kind[p] = "link" PROVE passed # {}
  <2>1. 0 \in 0..Cardinality(Links) /\ p \in Links
    BY <1>3, TreeFacts DEF Links
  <2>2. Leads(p)[0] = p
    BY <2>1, LeadsAlongLinks DEF IsPath
  <2>3. p \in Range(Leads(p))
    BY <2>1, <2>2, LeadsAlongLinks DEF Range
  <2> QED BY <2>1, <2>3
<1>4. Hops(p) = Cardinality(passed)
  BY DEF Hops
<1> HIDE DEF passed
<1> QED BY <1>2, <1>3, <1>4
-----------------------------------------------------------------------------
(***************************************************************************)
(* The entries of a directory: the numbers from 1 on are theirs, one each. *)
(***************************************************************************)
LEMMA EntriesInOrder ==
  ASSUME Inputs, NEW d \in Place
  PROVE  /\ Entries(d) \subseteq Place /\ Cardinality(Entries(d)) \in Nat
         /\ \A i \in 1..Cardinality(Entries(d)) : Entry(d, i) \in Entries(d)
         /\ \A q \in Entries(d) : \E i \in 1..Cardinality(Entries(d)) : Entry(d, i) = q
<1> DEFINE E == Entries(d)
           C == Cardinality(E)
           upto(q) == {r \in E : r <= q}
           rank == [q \in E |-> Cardinality(upto(q))]
<1>1. E \subseteq Place
  BY DEF Entries
<1>2. IsFiniteSet(E)
  BY <1>1, TreeFacts, FS_Subset
<1>3. C \in Nat /\ E \subseteq Nat
  BY <1>1, <1>2, TreeFacts, FS_CardinalityType
<1> HIDE DEF E
<1>4. ASSUME NEW q \in E PROVE IsFiniteSet(upto(q)) /\ Cardinality(upto(q)) \in 1..C
  <2>1. upto(q) \in SUBSET E /\ q \in upto(q)
    BY <1>3
  <2> HIDE DEF upto
  <2>2. IsFiniteSet(upto(q)) /\ Cardinality(upto(q)) <= C
    BY <1>2, <2>1, FS_Subset
  <2>3. Cardinality(upto(q)) \in Nat /\ Cardinality(upto(q)) # 0
    BY <2>1, <2>2, FS_CardinalityType, FS_EmptySet
  <2> QED BY <1>3, <2>2, <2>3
<1>5. ASSUME NEW q \in E, NEW r \in E, q < r PROVE rank[q] # rank[r]
  <2>1. upto(q) \in SUBSET upto(r) /\ r \in upto(r) /\ r \notin upto(q)
    <3>1. q \in Nat /\ r \in Nat /\ \A s \in E : s \in Nat
      BY <1>3
    <3>2. r <= r /\ ~(r <= q) /\ \A s \in E : s <= q => s <= r
      BY <1>5, <3>1
    <3> QED BY <3>2
  <2>2. IsFiniteSet(upto(r))
    BY <1>4
  <2> HIDE DEF upto
  <2>3. Cardinality(upto(q)) # Cardinality(upto(r))
    BY <2>1, <2>2, FS_Subset
  <2> QED BY <2>3
<1>6. \A q, r \in E : rank[q] = rank[r] => q = r
  <2>1. \A q, r \in E : q < r => rank[q] # rank[r]
    BY <1>5
  <2> HIDE DEF rank
  <2> QED BY <1>3, <2>1
<1>7. rank \in [E -> 1..C]
  BY <1>4
<1>8. \A i \in 1..C : \E q \in E : rank[q] = i
  <2>1. IsFiniteSet(1..C) /\ Cardinality(1..C) = C
    BY <1>3, FS_Interval
  <2> HIDE DEF rank, C
  <2>2. rank \in Injection(E, 1..C)
    BY <1>6, <1>7 DEF Injection, IsInjective
  <2>3. rank \in Surjection(E, 1..C)
    BY <2>1, <2>2, FS_Injection DEF C
  <2> QED BY <2>3 DEF Surjection
<1>9. ASSUME NEW i \in 1..C
      PROVE  Entry(d, i) \in E /\ \A q \in E : rank[q] = i => Entry(d, i) = q
  <2>1. Entry(d, i) = CHOOSE q \in E : rank[q] = i
    BY DEF Entry, E
  <2> HIDE DEF rank, C
  <2>2. Entry(d, i) \in E /\ rank[Entry(d, i)] = i
    BY <1>8, <2>1
  <2> QED BY <1>6, <2>2
<1>10. ASSUME NEW q \in E PROVE \E i \in 1..C : Entry(d, i) = q
  <2> HIDE DEF rank, C
  <2>1. rank[q] \in 1..C
    BY <1>7
  <2> QED BY <1>9, <2>1
<1> QED BY <1>1, <1>3, <1>9, <1>10 DEF E

-----------------------------------------------------------------------------
(***************************************************************************)
(* The names of the chart.                                                 *)
(***************************************************************************)
Name == [path : Seq(Names), place : Place \cup {0}, links : Nat]

More(es) == es \cup UNION {Below(e) : e \in {x \in es : Open(x)}}

Bound == Cardinality(Place) * (MaxLinks + 2)

IsLevels(m, f) == f = [n \in 0..m |-> IF n = 0 THEN {TheChart} ELSE More(f[n - 1])]

LEMMA LevelStep ==
  ASSUME NEW m \in Nat, NEW f, IsLevels(m, f)
  PROVE  f[0] = {TheChart} /\ \A k \in Nat : k + 1 <= m => f[k + 1] = More(f[k])
<1>1. 0 \in 0..m
  OBVIOUS
<1>2. ASSUME NEW k \in Nat, k + 1 <= m PROVE f[k + 1] = More(f[k])
  <2>1. k + 1 \in 0..m /\ k + 1 # 0 /\ k + 1 - 1 = k
    BY <1>2
  <2> DEFINE level(n) == IF n = 0 THEN {TheChart} ELSE More(f[n - 1])
  <2>2. f = [n \in 0..m |-> level(n)]
    BY DEF IsLevels
  <2>3. f[k + 1] = level(k + 1)
    <3> HIDE DEF level
    <3> QED BY <2>1, <2>2
  <2> QED BY <2>1, <2>3
<1>3. f[0] = {TheChart}
  BY <1>1 DEF IsLevels
<1> QED BY <1>2, <1>3

LEMMA BoundIsANumber ==
  Bound \in Nat /\ Cardinality(Place) \in Nat \ {0} /\ MaxLinks \in Nat \ {0}
<1>1. Cardinality(Place) \in Nat
  BY LoaderAssumption, FS_CardinalityType
<1>2. Place # {}
  BY LoaderAssumption
<1>3. Cardinality(Place) # 0
  BY <1>2, LoaderAssumption, FS_EmptySet
<1>4. MaxLinks \in Nat \ {0}
  BY LoaderAssumption
<1>5. \A a, b \in Nat : a * (b + 2) \in Nat
  OBVIOUS
<1> QED BY <1>1, <1>3, <1>4, <1>5 DEF Bound

\* The names can be listed, level by level.
LEMMA LevelsAreDefined ==
  ASSUME NEW m \in Nat PROVE \E f : IsLevels(m, f)
<1> DEFINE A == {k \in Nat : \E f : IsLevels(k, f)}
<1>1. 0 \in A
  <2> DEFINE f == [n \in 0..0 |-> {TheChart}]
  <2>1. IsLevels(0, f)
    BY DEF IsLevels
  <2> QED BY <2>1
<1>2. ASSUME NEW k \in A PROVE k + 1 \in A
  <2>1. PICK g : IsLevels(k, g)
    OBVIOUS
  <2> DEFINE h == [n \in 0..(k + 1) |-> IF n = k + 1 THEN More(g[k]) ELSE g[n]]
  <2>2. ASSUME NEW n \in 0..(k + 1) PROVE h[n] = IF n = 0 THEN {TheChart} ELSE More(h[n - 1])
    <3>1. CASE n = k + 1
      BY <3>1
    <3>2. CASE n # k + 1
      <4>1. n \in 0..k /\ (n # 0 => n - 1 \in 0..(k + 1) /\ n - 1 # k + 1)
        BY <3>2
      <4>2. g[n] = IF n = 0 THEN {TheChart} ELSE More(g[n - 1])
        BY <2>1, <4>1 DEF IsLevels
      <4> QED BY <4>1, <4>2
    <3> QED BY <3>1, <3>2
  <2>3. \A n \in 0..(k + 1) : h[n] = IF n = 0 THEN {TheChart} ELSE More(h[n - 1])
    BY <2>2
  <2>4. h = [n \in 0..(k + 1) |-> h[n]]
    OBVIOUS
  <2> HIDE DEF h
  <2>5. IsLevels(k + 1, h)
    BY <2>3, <2>4 DEF IsLevels
  <2> QED BY <2>5
<1>3. A \in SUBSET Nat /\ \A k \in A : k + 1 \in A
  BY <1>2
<1> HIDE DEF A
<1>4. \A k \in Nat : k \in A
  BY <1>1, <1>3, Induction
<1> QED BY <1>4 DEF A

LEMMA NamedIsTheLastLevel ==
  \E f : IsLevels(Bound, f) /\ Named = f[Bound]
<1> DEFINE f == CHOOSE g : IsLevels(Bound, g)
<1>1. Named = f[Bound]
  BY DEF Named, IsLevels, Bound, More
<1>2. IsLevels(Bound, f)
  BY BoundIsANumber, LevelsAreDefined
<1> HIDE DEF f
<1> QED BY <1>1, <1>2

\* Whatever has the chart, and what is below all it has, has every name.
LEMMA NamedIsLeast ==
  ASSUME NEW X, TheChart \in X, \A x \in X : Open(x) => Below(x) \subseteq X
  PROVE  Named \subseteq X
<1>1. PICK f : IsLevels(Bound, f) /\ Named = f[Bound]
  BY NamedIsTheLastLevel
<1> DEFINE A == {k \in Nat : k <= Bound => f[k] \subseteq X}
<1>2. Bound \in Nat
  BY BoundIsANumber
<1>3. f[0] = {TheChart} /\ \A k \in Nat : k + 1 <= Bound => f[k + 1] = More(f[k])
  BY <1>1, <1>2, LevelStep
<1>4. 0 \in A
  BY <1>3
<1>5. ASSUME NEW k \in A PROVE k + 1 \in A
  <2> SUFFICES ASSUME k + 1 <= Bound PROVE f[k + 1] \subseteq X
    OBVIOUS
  <2>1. f[k] \subseteq X /\ f[k + 1] = More(f[k])
    BY <1>2, <1>3
  <2> QED BY <2>1 DEF More
<1>6. A \in SUBSET Nat /\ \A k \in A : k + 1 \in A
  BY <1>5
<1> HIDE DEF A
<1>7. \A k \in Nat : k \in A
  BY <1>4, <1>6, Induction
<1> QED BY <1>1, <1>2, <1>7 DEF A

\* Below a name are names, deeper in the tree or through more links.
Depth(e) == e.links * Cardinality(Place) + e.place

LEMMA MoreLinks ==
  ASSUME NEW K \in Nat, NEW l \in Nat, NEW h \in Nat, NEW d \in Nat, NEW p \in Nat,
         d <= K, (h = 0 /\ d < p) \/ (h >= 1 /\ p # 0)
  PROVE  l * K + d < (l + h) * K + p
<1>1. (l + h) * K = l * K + h * K
  OBVIOUS
<1>2. l * K \in Nat /\ h * K \in Nat
  OBVIOUS
<1>3. h >= 1 => h * K >= K
  OBVIOUS
<1>4. h = 0 => h * K = 0
  OBVIOUS
<1> QED BY <1>1, <1>2, <1>3, <1>4

LEMMA BelowIsDeeper ==
  ASSUME Inputs, NEW x \in Name, Open(x), NEW e \in Below(x)
  PROVE  /\ e \in Name
         /\ e.place # 0 => Depth(x) < Depth(e)
<1>1. PICK p \in Entries(x.place) :
        e = [path |-> Append(x.path, NameOf[p]), place |-> EvalSymlinks(p), links |-> x.links + Hops(p)]
  BY DEF Below
<1>2. p \in Place /\ Parent[p] = x.place /\ tree.kind[p] # "none"
  BY DEF Entries
<1>3. x.path \in Seq(Names) /\ x.place \in Place /\ x.links \in Nat
  BY DEF Name, Open
<1>4. Append(x.path, NameOf[p]) \in Seq(Names)
  BY <1>2, <1>3 DEF Names
<1>5. Hops(p) \in Nat /\ EvalSymlinks(p) \in Place \cup {0}
  BY <1>2, HopsAreCounted, Resolves
<1>6. e \in Name
  BY <1>1, <1>3, <1>4, <1>5 DEF Name
<1>7. ASSUME e.place # 0 PROVE Depth(x) < Depth(e)
  <2> DEFINE K == Cardinality(Place)
  <2>1. K \in Nat /\ x.place \in Nat /\ x.place <= K /\ e.place \in Nat
    BY <1>3, <1>6, TreeFacts DEF Name
  <2>2. (Hops(p) = 0 /\ x.place < e.place) \/ (Hops(p) >= 1 /\ e.place # 0)
    <3>1. CASE tree.kind[p] = "link"
      BY <1>2, <1>7, <3>1, HopsAreCounted
    <3>2. CASE tree.kind[p] # "link"
      <4>1. EvalSymlinks(p) = p /\ Hops(p) = 0
        BY <1>2, <3>2, ResolvesToItself
      <4>2. Parent[p] < p
        BY <1>2, LoaderAssumption
      <4> QED BY <1>1, <1>2, <4>1, <4>2
    <3> QED BY <3>1, <3>2
  <2>3. e.links = x.links + Hops(p)
    BY <1>1
  <2> HIDE DEF K
  <2>4. x.links * K + x.place < (x.links + Hops(p)) * K + e.place
    BY <1>3, <1>5, <2>1, <2>2, MoreLinks
  <2> QED BY <2>3, <2>4 DEF Depth, K
<1> QED BY <1>6, <1>7

\* A directory that is read is not that deep.
LEMMA OpenIsNotDeep ==
  ASSUME Inputs, NEW x \in Name, Open(x) PROVE Depth(x) \in Nat /\ Depth(x) < Bound
<1> DEFINE K == Cardinality(Place)
<1>1. x.links \in Nat /\ x.links <= MaxLinks /\ x.place \in Nat /\ x.place <= K /\ K \in Nat \ {0}
  <2>1. x.links \in Nat /\ x.place \in Place
    BY DEF Name, Open
  <2> QED BY <2>1, BoundIsANumber, TreeFacts DEF Open, Readable
<1>2. MaxLinks \in Nat
  BY BoundIsANumber
<1> HIDE DEF K
<1>3. x.links * K <= MaxLinks * K /\ x.links * K \in Nat
  BY <1>1, <1>2
<1>4. K * (MaxLinks + 2) = MaxLinks * K + K + K /\ MaxLinks * K \in Nat
  BY <1>1, <1>2
<1>5. x.links * K + x.place < K * (MaxLinks + 2) /\ x.links * K + x.place \in Nat
  BY <1>1, <1>3, <1>4
<1> QED BY <1>5 DEF Depth, Bound, K

LEMMA TheChartIsAName == TheChart \in Name
<1>1. <<>> \in Seq(Names) /\ ChartPlace \in Place
  BY LoaderAssumption
<1> QED BY <1>1 DEF TheChart, Name

\* No name is missing: what is below a name that is one of them is one of them.
LEMMA NamedIsClosed ==
  ASSUME Inputs
  PROVE  /\ Named \subseteq Name /\ TheChart \in Named
         /\ \A x \in Named : Open(x) => Below(x) \subseteq Named
<1>1. PICK f : IsLevels(Bound, f) /\ Named = f[Bound]
  BY NamedIsTheLastLevel
<1>2. Bound \in Nat
  BY BoundIsANumber
<1>3. f[0] = {TheChart} /\ \A k \in Nat : k + 1 <= Bound => f[k + 1] = More(f[k])
  BY <1>1, <1>2, LevelStep
<1> DEFINE New(k) == \A x \in f[k] : Open(x) => Below(x) \subseteq f[k] \/ k <= Depth(x)
           A == {k \in Nat : k <= Bound => f[k] \subseteq Name /\ TheChart \in f[k] /\ New(k)}
<1>4. 0 \in A
  <2>1. f[0] \subseteq Name /\ TheChart \in f[0]
    BY <1>3, TheChartIsAName
  <2>2. \A x \in f[0] : Open(x) => 0 <= Depth(x)
    BY <2>1, OpenIsNotDeep
  <2> QED BY <2>1, <2>2
<1>5. ASSUME NEW k \in A PROVE k + 1 \in A
  <2> SUFFICES ASSUME k + 1 <= Bound
               PROVE  f[k + 1] \subseteq Name /\ TheChart \in f[k + 1] /\ New(k + 1)
    OBVIOUS
  <2>1. f[k] \subseteq Name /\ TheChart \in f[k] /\ New(k) /\ f[k + 1] = More(f[k]) /\ k \in Nat
    BY <1>2, <1>3
  <2>2. \A x \in f[k] : Open(x) => Below(x) \subseteq f[k + 1]
    BY <2>1 DEF More
  <2>3. \A e \in f[k + 1] : e \in f[k] \/ \E x \in f[k] : Open(x) /\ e \in Below(x)
    BY <2>1 DEF More
  <2>4. f[k + 1] \subseteq Name
    BY <2>1, <2>3, BelowIsDeeper
  <2>5. ASSUME NEW e \in f[k + 1], Open(e) PROVE Below(e) \subseteq f[k + 1] \/ k + 1 <= Depth(e)
    <3>1. CASE e \in f[k]
      BY <2>2, <2>5, <3>1
    <3>2. CASE e \notin f[k]
      <4>1. PICK x \in f[k] : Open(x) /\ e \in Below(x)
        BY <2>3, <3>2
      <4>2. k <= Depth(x)
        BY <2>1, <3>2, <4>1
      <4>3. Depth(x) < Depth(e)
        BY <2>1, <2>5, <4>1, BelowIsDeeper DEF Open
      <4>4. Depth(x) \in Nat /\ Depth(e) \in Nat
        BY <2>1, <2>4, <2>5, <4>1, OpenIsNotDeep
      <4> QED BY <2>1, <4>2, <4>3, <4>4
    <3> QED BY <3>1, <3>2
  <2> QED BY <2>1, <2>4, <2>5 DEF More
<1>6. A \in SUBSET Nat /\ \A k \in A : k + 1 \in A
  BY <1>5
<1> HIDE DEF A
<1>7. \A k \in Nat : k \in A
  BY <1>4, <1>6, Induction
<1>8. Named \subseteq Name /\ TheChart \in Named
      /\ \A x \in Named : Open(x) => Below(x) \subseteq Named \/ Bound <= Depth(x)
  BY <1>1, <1>2, <1>7 DEF A
<1>9. ASSUME NEW x \in Named, Open(x) PROVE ~(Bound <= Depth(x))
  BY <1>2, <1>8, <1>9, OpenIsNotDeep
<1> QED BY <1>8, <1>9

-----------------------------------------------------------------------------
(***************************************************************************)
(* The walk.                                                               *)
(***************************************************************************)
Item == [path : Seq(Names), place : Place, links : Nat]

\* The name that an item of the walk is about, its links resolved.
Canonical(e) ==
  [path |-> e.path, place |-> EvalSymlinks(e.place), links |-> e.links + Hops(e.place)]

Pending(s) == {Canonical(s[i]) : i \in 1..Len(s)}

FilesOf(es) == {[path |-> e.path, place |-> e.place] : e \in es}

Got(e, F) ==
  e.place # 0 /\ tree.kind[e.place] # "dir" /\ ~Ignored(e)
  => [path |-> e.path, place |-> e.place] \in F

\* X is what has been visited or is pending: the chart and, of what has been
\* visited, all that is below it, or the file.
Covers(X, P, F) ==
  /\ TheChart \in X
  /\ \A x \in X : x \in P \/ ((Open(x) => Below(x) \subseteq X) /\ Got(x, F))

\* What holds of the items still to be visited and the files read so far.
Walk(s, F) ==
  /\ Pending(s) \subseteq Named
  /\ F \subseteq FilesOf(Wanted)
  /\ \E X : Covers(X, Pending(s), F)

Stages ==
  /\ status \in {"open", "rules"} => todo = <<>> /\ files = {}
  /\ status \in {"rules", "walk"} => tree.kind[ChartPlace] = "dir"
  /\ status = "walk" => Walk(todo, files)

LoaderTypes ==
  /\ Inputs
  /\ todo \in Seq(Item)
  /\ \A f \in files : f.path \in Seq(Names) /\ f.place \in Place /\ tree.kind[f.place] = "file"
  /\ status \in {"open", "rules", "walk"} \cup Ends

LoaderInv == LoaderTypes /\ Stages /\ LoadsTheChart /\ FailsForAReason

LEMMA CanonicalOfALink ==
  ASSUME Inputs, NEW e \in Item, EvalSymlinks(e.place) # 0
  PROVE  LET o == [e EXCEPT !.place = EvalSymlinks(@), !.links = @ + Hops(e.place)]
         IN  o \in Item /\ Canonical(o) = Canonical(e)
<1> DEFINE q == EvalSymlinks(e.place)
           h == Hops(e.place)
           o == [e EXCEPT !.place = EvalSymlinks(@), !.links = @ + Hops(e.place)]
<1>1. e.path \in Seq(Names) /\ e.place \in Place /\ e.links \in Nat
  BY DEF Item
<1>2. q \in Place /\ tree.kind[q] \notin {"none", "link"} /\ h \in Nat
  BY <1>1, Resolves, HopsAreCounted
<1>3. EvalSymlinks(q) = q /\ Hops(q) = 0
  BY <1>2, ResolvesToItself
<1>4. o = [path |-> e.path, place |-> q, links |-> e.links + h]
  <2>1. o = [e EXCEPT !.place = q, !.links = e.links + h]
    OBVIOUS
  <2> HIDE DEF o, q, h
  <2>2. e = [path |-> e.path, place |-> e.place, links |-> e.links]
    BY DEF Item
  <2> QED BY <2>1, <2>2
<1> HIDE DEF o, q, h
<1>5. e.links + h + 0 = e.links + h /\ e.links + h \in Nat
  BY <1>1, <1>2
<1>6. o \in Item
  BY <1>1, <1>2, <1>4, <1>5 DEF Item
<1>7. Canonical(o) = [path |-> e.path, place |-> q, links |-> e.links + h]
  BY <1>3, <1>4, <1>5 DEF Canonical
<1> QED BY <1>6, <1>7 DEF Canonical, o, q, h

LEMMA CanonicalOfOthers ==
  ASSUME Inputs, NEW e \in Item, tree.kind[e.place] \notin {"none", "link"}
  PROVE  Canonical(e) = e
<1>1. e.place \in Place /\ e.links \in Nat /\ e.links + 0 = e.links
  BY DEF Item
<1>2. EvalSymlinks(e.place) = e.place /\ Hops(e.place) = 0
  BY <1>1, ResolvesToItself
<1>3. e = [path |-> e.path, place |-> e.place, links |-> e.links]
  BY DEF Item
<1> QED BY <1>1, <1>2, <1>3 DEF Canonical

LEMMA PendingOfParts ==
  ASSUME NEW s \in Seq(Item), NEW t \in Seq(Item)
  PROVE  s \o t \in Seq(Item) /\ Pending(s \o t) = Pending(s) \cup Pending(t)
<1>1. /\ Len(s \o t) = Len(s) + Len(t) /\ Len(s) \in Nat /\ Len(t) \in Nat
      /\ \A i \in 1..Len(s) : (s \o t)[i] = s[i] /\ i \in 1..Len(s \o t)
      /\ \A i \in 1..Len(t) : (s \o t)[Len(s) + i] = t[i] /\ Len(s) + i \in 1..Len(s \o t)
  BY ConcatProperties
<1>2. \A i \in 1..Len(s \o t) : i \in 1..Len(s) \/ (i - Len(s) \in 1..Len(t) /\ Len(s) + (i - Len(s)) = i)
  BY <1>1
<1> DEFINE u == s \o t
<1> HIDE DEF u
<1>3. Pending(u) \subseteq Pending(s) \cup Pending(t)
  BY <1>1, <1>2 DEF Pending, u
<1>4. Pending(s) \subseteq Pending(u) /\ Pending(t) \subseteq Pending(u)
  BY <1>1 DEF Pending, u
<1>5. u \in Seq(Item)
  BY ConcatProperties DEF u
<1> QED BY <1>3, <1>4, <1>5 DEF u

LEMMA PendingOfOne ==
  ASSUME NEW e \in Item PROVE <<e>> \in Seq(Item) /\ Pending(<<e>>) = {Canonical(e)}
<1>1. <<e>> \in Seq(Item) /\ Len(<<e>>) = 1 /\ <<e>>[1] = e
  OBVIOUS
<1>2. \A i \in 1..1 : i = 1
  OBVIOUS
<1> QED BY <1>1, <1>2 DEF Pending

LEMMA PendingOfHead ==
  ASSUME NEW s \in Seq(Item), s # <<>>
  PROVE  /\ Head(s) \in Item /\ Tail(s) \in Seq(Item)
         /\ Pending(s) = {Canonical(Head(s))} \cup Pending(Tail(s))
<1>1. Head(s) \in Item /\ Tail(s) \in Seq(Item) /\ s = <<Head(s)>> \o Tail(s)
  OBVIOUS
<1>2. <<Head(s)>> \in Seq(Item) /\ Pending(<<Head(s)>>) = {Canonical(Head(s))}
  BY <1>1, PendingOfOne
<1> QED BY <1>1, <1>2, PendingOfParts

\* The walk can begin with the chart.
LEMMA WalkBegins ==
  ASSUME Inputs, tree.kind[ChartPlace] = "dir"
  PROVE  <<TheChart>> \in Seq(Item) /\ Walk(<<TheChart>>, {})
<1>1. TheChart \in Item /\ TheChart.place = ChartPlace
  <2>1. <<>> \in Seq(Names) /\ ChartPlace \in Place
    BY LoaderAssumption
  <2> QED BY <2>1 DEF TheChart, Item
<1>2. Pending(<<TheChart>>) = {TheChart}
  BY <1>1, PendingOfOne, CanonicalOfOthers
<1>3. TheChart \in Named
  BY NamedIsClosed
<1>4. Covers({TheChart}, Pending(<<TheChart>>), {})
  BY <1>2 DEF Covers
<1> QED BY <1>1, <1>2, <1>3, <1>4, PendingOfOne DEF Walk

\* It goes on when a visit leaves what is below the name, or has read its file.
LEMMA WalkGoesOn ==
  ASSUME NEW s \in Seq(Item), s # <<>>, NEW F, Walk(s, F),
         NEW Q \in SUBSET Named, NEW t, Pending(t) = Q \cup Pending(Tail(s)),
         NEW G, F \subseteq G, G \subseteq FilesOf(Wanted),
         LET c == Canonical(Head(s)) IN c \in Q \/ ((Open(c) => Below(c) \subseteq Q) /\ Got(c, G))
  PROVE  Walk(t, G)
<1> DEFINE c == Canonical(Head(s))
<1>1. Pending(s) = {c} \cup Pending(Tail(s))
  BY PendingOfHead
<1>2. PICK X : Covers(X, Pending(s), F)
  BY DEF Walk
<1>3. c \in Q \/ ((Open(c) => Below(c) \subseteq Q) /\ Got(c, G))
  OBVIOUS
<1> HIDE DEF c
<1>4. Covers(X \cup Q, Pending(t), G)
  BY <1>1, <1>2, <1>3 DEF Covers, Got
<1>5. Pending(t) \subseteq Named
  BY <1>1 DEF Walk
<1> QED BY <1>4, <1>5 DEF Walk

\* Reading a directory leaves what is below it to be visited.
LEMMA EntriesArePending ==
  ASSUME Inputs, NEW e \in Item
  PROVE  LET s == [i \in 1..Cardinality(Entries(e.place)) |->
                     LET p == Entry(e.place, i) IN
                     [path |-> Append(e.path, NameOf[p]), place |-> p, links |-> e.links]]
         IN  s \in Seq(Item) /\ Pending(s) = Below(e)
<1> DEFINE C == Cardinality(Entries(e.place))
           item(p) == [path |-> Append(e.path, NameOf[p]), place |-> p, links |-> e.links]
           s == [i \in 1..C |-> item(Entry(e.place, i))]
<1>1. e.path \in Seq(Names) /\ e.place \in Place /\ e.links \in Nat
  BY DEF Item
<1>2. /\ Entries(e.place) \subseteq Place /\ C \in Nat
      /\ \A i \in 1..C : Entry(e.place, i) \in Entries(e.place)
      /\ \A q \in Entries(e.place) : \E i \in 1..C : Entry(e.place, i) = q
  BY <1>1, EntriesInOrder
<1> HIDE DEF C
<1>3. ASSUME NEW p \in Entries(e.place)
      PROVE  /\ item(p) \in Item
             /\ Canonical(item(p)) = [path |-> Append(e.path, NameOf[p]), place |-> EvalSymlinks(p),
                                      links |-> e.links + Hops(p)]
  <2>1. p \in Place /\ NameOf[p] \in Names
    BY <1>2 DEF Names
  <2>2. Append(e.path, NameOf[p]) \in Seq(Names)
    BY <1>1, <2>1
  <2> QED BY <1>1, <2>1, <2>2 DEF Item, Canonical
<1>4. s \in Seq(Item) /\ Len(s) = C /\ \A i \in 1..C : s[i] = item(Entry(e.place, i))
  <2> HIDE DEF item
  <2>1. s \in [1..C -> Item]
    BY <1>2, <1>3
  <2> QED BY <1>2, <2>1
<1> HIDE DEF s
<1>5. Pending(s) = {Canonical(item(p)) : p \in Entries(e.place)}
  <2> HIDE DEF item
  <2> QED BY <1>2, <1>4 DEF Pending
<1>6. Below(e) = {Canonical(item(p)) : p \in Entries(e.place)}
  <2> HIDE DEF item
  <2> QED BY <1>3 DEF Below
<1> QED BY <1>4, <1>5, <1>6 DEF s, C, item

\* When there is nothing left to visit, the files are those of the chart.
LEMMA WalkIsComplete ==
  ASSUME NEW F, Walk(<<>>, F) PROVE F = FilesOf(Wanted)
<1>1. PICK X : Covers(X, Pending(<<>>), F)
  BY DEF Walk
<1>2. Pending(<<>>) = {}
  <2>1. Len(<<>>) = 0 /\ 1..0 = {}
    OBVIOUS
  <2> QED BY <2>1 DEF Pending
<1>3. Named \subseteq X
  BY <1>1, <1>2, NamedIsLeast DEF Covers
<1>4. FilesOf(Wanted) \subseteq F
  BY <1>1, <1>2, <1>3 DEF Covers, Got, FilesOf, Wanted
<1> QED BY <1>4 DEF Walk

-----------------------------------------------------------------------------
(***************************************************************************)
(* What the steps keep.                                                    *)
(***************************************************************************)
\* There is a reason for the load to fail.
Reason ==
  \/ tree.kind[ChartPlace] = "none"
  \/ ParseFails(rules)
  \/ \A e \in Wanted : e.path # <<"Chart.yaml">>
  \/ \E e \in Named : e.place = 0
  \/ \E e \in Named : e.place # 0 /\ Unfit(e)

LEMMA TheTreeStays ==
  ASSUME UNCHANGED input
  PROVE  /\ Inputs => Inputs'
         /\ Named' = Named /\ Wanted' = Wanted /\ InsideRoot' = InsideRoot
         /\ Reason => Reason'
<1>1. Inputs => Inputs'
  BY DEF Inputs, input
<1>2. InsideRoot' = InsideRoot
  BY DEF InsideRoot
<1>3. Named' = Named
  BY DEF Named, Below, Open, TheChart, Readable, Ignored, Decides, Matches, Patterns, Defaults,
         EvalSymlinks, Hops, Leads, Links, Entries, input
<1>4. Wanted' = Wanted
  BY <1>3 DEF Wanted, Ignored, Decides, Matches, Patterns, Defaults, input
<1>5. Reason => Reason'
  BY <1>2, <1>3, <1>4 DEF Reason, Unfit, Ignored, Decides, Matches, Patterns, Defaults, ParseFails, input
<1> QED BY <1>1, <1>2, <1>3, <1>4, <1>5

LEMMA TheWalkStays ==
  ASSUME UNCHANGED input, Walk(todo', files') PROVE Walk(todo, files)'
<1>1. Pending(todo)' = Pending(todo')
  BY DEF Pending, Canonical, EvalSymlinks, Hops, Leads, Links, input
<1>2. Named' = Named /\ FilesOf(Wanted)' = FilesOf(Wanted)
  BY TheTreeStays DEF FilesOf
<1>3. ASSUME NEW X, Covers(X, Pending(todo'), files') PROVE Covers(X, Pending(todo), files)'
  <2>1. TheChart' = TheChart
    BY DEF TheChart
  <2>2. ASSUME NEW x PROVE Open(x)' = Open(x) /\ Below(x)' = Below(x) /\ (Got(x, files') => Got(x, files)')
    BY DEF Open, Below, Got, Readable, Ignored, Decides, Matches, Patterns, Defaults,
           EvalSymlinks, Hops, Leads, Links, Entries, input
  <2>3. \A x \in X : x \in Pending(todo)' \/ ((Open(x)' => Below(x)' \subseteq X) /\ Got(x, files)')
    BY <1>1, <1>3, <2>2 DEF Covers
  <2> QED BY <1>3, <2>1, <2>3 DEF Covers
<1> QED BY <1>1, <1>2, <1>3 DEF Walk

LEMMA LoaderBegins == Init => LoaderInv
<1> SUFFICES ASSUME Init PROVE LoaderInv
  OBVIOUS
<1>1. LoaderTypes
  BY DEF Init, LoaderTypes, Inputs
<1>2. Stages /\ LoadsTheChart /\ FailsForAReason
  BY DEF Init, Stages, LoadsTheChart, FailsForAReason
<1> QED BY <1>1, <1>2 DEF LoaderInv

LEMMA FailKeeps ==
  ASSUME LoaderInv, Fail, Reason PROVE LoaderInv'
<1>1. Inputs' /\ InsideRoot' = InsideRoot /\ Reason'
  BY TheTreeStays DEF Fail, LoaderInv, LoaderTypes
<1>2. UNCHANGED <<tree, todo, files>> /\ status' = "failed"
  BY DEF Fail, input
<1>3. LoaderTypes'
  BY <1>1, <1>2 DEF LoaderInv, LoaderTypes, Item, Names, Ends
<1>4. Stages' /\ LoadsTheChart'
  BY <1>1, <1>2 DEF LoaderInv, Stages, LoadsTheChart
<1>5. FailsForAReason'
  BY <1>1 DEF FailsForAReason, Reason
<1> QED BY <1>3, <1>4, <1>5 DEF LoaderInv

LEMMA VisitKeeps ==
  ASSUME LoaderInv, status = "walk", UNCHANGED <<input, status>>, todo' \in Seq(Item),
         \A f \in files' : /\ f.path \in Seq(Names) /\ f.place \in InsideRoot
                           /\ f.place \in Place /\ tree.kind[f.place] = "file",
         Walk(todo', files')
  PROVE  LoaderInv'
<1>1. Inputs' /\ InsideRoot' = InsideRoot /\ UNCHANGED tree
  BY TheTreeStays DEF LoaderInv, LoaderTypes, input
<1>2. LoaderTypes'
  BY <1>1 DEF LoaderTypes, Item, Names
<1>3. Walk(todo, files)'
  BY TheWalkStays
<1>4. Stages'
  BY <1>1, <1>3 DEF LoaderInv, Stages
<1>5. LoadsTheChart' /\ FailsForAReason'
  BY <1>1 DEF LoadsTheChart, FailsForAReason
<1> QED BY <1>2, <1>4, <1>5 DEF LoaderInv

LEMMA LoaderKeeps == ASSUME LoaderInv, Loader PROVE LoaderInv'
<1>1. CASE tree.kind[ChartPlace] = "none"
  <2>1. Fail /\ Reason
    BY <1>1 DEF Loader, Fail, Reason
  <2> QED BY <2>1, FailKeeps
<1>2. CASE tree.kind[ChartPlace] # "none"
  <2>1. /\ UNCHANGED <<input, tree, todo, files>> /\ todo = <<>> /\ files = {}
        /\ status' \in {"rules", "archive"}
        /\ status' = "rules" => tree.kind[ChartPlace] = "dir"
    BY <1>2 DEF Loader, LoaderInv, Stages, input
  <2>2. Inputs'
    BY <2>1, TheTreeStays DEF LoaderInv, LoaderTypes
  <2>3. LoaderTypes'
    BY <2>1, <2>2 DEF LoaderInv, LoaderTypes, Item, Names, Ends
  <2>4. Stages' /\ LoadsTheChart' /\ FailsForAReason'
    BY <2>1 DEF Stages, LoadsTheChart, FailsForAReason
  <2> QED BY <2>3, <2>4 DEF LoaderInv
<1> QED BY <1>1, <1>2

LEMMA LoadIgnoreRulesKeeps == ASSUME LoaderInv, LoadIgnoreRules PROVE LoaderInv'
<1>1. CASE ParseFails(rules)
  <2>1. Fail /\ Reason
    BY <1>1 DEF LoadIgnoreRules, Fail, Reason
  <2> QED BY <2>1, FailKeeps
<1>2. CASE ~ParseFails(rules)
  <2>1. /\ UNCHANGED <<input, tree, files>> /\ files = {} /\ todo' = <<TheChart>>
        /\ status' = "walk" /\ tree.kind[ChartPlace] = "dir"
    BY <1>2 DEF LoadIgnoreRules, LoaderInv, Stages, input
  <2>2. Inputs' /\ Inputs
    BY <2>1, TheTreeStays DEF LoaderInv, LoaderTypes
  <2>3. todo' \in Seq(Item) /\ Walk(todo', files')
    BY <2>1, <2>2, WalkBegins
  <2>4. LoaderTypes'
    BY <2>1, <2>2, <2>3 DEF LoaderTypes, Item, Names
  <2>5. Walk(todo, files)'
    BY <2>1, <2>3, TheWalkStays
  <2>6. Stages' /\ LoadsTheChart' /\ FailsForAReason'
    BY <2>1, <2>5 DEF Stages, LoadsTheChart, FailsForAReason
  <2> QED BY <2>4, <2>6 DEF LoaderInv
<1> QED BY <1>1, <1>2

\* The head of the walk, and what its visit may say of the files.
LEMMA AtHead ==
  ASSUME LoaderInv, NEW kinds, At(kinds)
  PROVE  /\ Inputs /\ status = "walk" /\ Walk(todo, files)
         /\ todo \in Seq(Item) /\ todo # <<>>
         /\ Head(todo) \in Item /\ Tail(todo) \in Seq(Item)
         /\ tree.kind[Head(todo).place] \in kinds
         /\ Canonical(Head(todo)) \in Named
         /\ files \subseteq FilesOf(Wanted)
         /\ \A f \in files : /\ f.path \in Seq(Names) /\ f.place \in InsideRoot
                             /\ f.place \in Place /\ tree.kind[f.place] = "file"
<1>1. /\ Inputs /\ todo \in Seq(Item) /\ todo # <<>> /\ status = "walk"
      /\ tree.kind[Head(todo).place] \in kinds
  BY DEF LoaderInv, LoaderTypes, At
<1>2. Walk(todo, files)
  BY <1>1 DEF LoaderInv, Stages
<1>3. Head(todo) \in Item /\ Tail(todo) \in Seq(Item) /\ Canonical(Head(todo)) \in Pending(todo)
  BY <1>1, PendingOfHead
<1>4. \A f \in files : /\ f.path \in Seq(Names) /\ f.place \in InsideRoot
                       /\ f.place \in Place /\ tree.kind[f.place] = "file"
  BY DEF LoaderInv, LoaderTypes, LoadsTheChart
<1> QED BY <1>1, <1>2, <1>3, <1>4 DEF Walk

LEMMA FollowLinkKeeps == ASSUME LoaderInv, FollowLink PROVE LoaderInv'
<1> DEFINE e == Head(todo)
           c == Canonical(e)
<1>1. At({"link"})
  BY DEF FollowLink
<1>2. CASE EvalSymlinks(e.place) = 0
  <2>1. Fail
    BY <1>2 DEF FollowLink
  <2>2. c \in Named /\ c.place = 0
    BY <1>1, <1>2, AtHead DEF Canonical
  <2> QED BY <2>1, <2>2, FailKeeps DEF Reason
<1>3. CASE EvalSymlinks(e.place) # 0
  <2> DEFINE o == [e EXCEPT !.place = EvalSymlinks(@), !.links = @ + Hops(e.place)]
  <2>1. UNCHANGED <<input, files, status>>
    BY <1>3 DEF FollowLink, Fail
  <2>2. todo' = <<o>> \o Tail(todo)
    BY <1>3 DEF FollowLink
  <2>3. o \in Item /\ Canonical(o) = c
    BY <1>1, <1>3, AtHead, CanonicalOfALink
  <2> HIDE DEF o
  <2>4. <<o>> \in Seq(Item) /\ Pending(<<o>>) = {c}
    BY <2>3, PendingOfOne
  <2>5. Tail(todo) \in Seq(Item) /\ c \in Named
    BY <1>1, AtHead
  <2>6. Pending(todo') = {c} \cup Pending(Tail(todo)) /\ todo' \in Seq(Item)
    <3> DEFINE s == <<o>>
               t == Tail(todo)
    <3>1. s \in Seq(Item) /\ t \in Seq(Item) /\ Pending(s) = {c} /\ todo' = s \o t
      BY <2>2, <2>4, <2>5
    <3> HIDE DEF s, t, c
    <3>2. Pending(todo') = {c} \cup Pending(t) /\ todo' \in Seq(Item)
      BY <3>1, PendingOfParts
    <3> QED BY <3>2 DEF t
  <2>7. Walk(todo', files)
    <3> DEFINE Q == {c}
    <3>1. Q \in SUBSET Named /\ c \in Q /\ Pending(todo') = Q \cup Pending(Tail(todo))
      BY <2>5, <2>6
    <3> HIDE DEF Q
    <3> QED BY <1>1, <3>1, AtHead, WalkGoesOn
  <2> QED BY <1>1, <2>1, <2>6, <2>7, AtHead, VisitKeeps
<1> QED BY <1>2, <1>3

\* What is passed over: nothing is below it, and it is no file to be read.
LEMMA PassKeeps ==
  ASSUME LoaderInv, NEW kinds, At(kinds), todo' = Tail(todo), UNCHANGED <<input, files, status>>,
         LET c == Canonical(Head(todo)) IN ~Open(c) /\ Got(c, files)
  PROVE  LoaderInv'
<1>1. Pending(todo') = {} \cup Pending(Tail(todo)) /\ todo' \in Seq(Item)
  BY AtHead
<1>2. Walk(todo', files)
  BY <1>1, AtHead, WalkGoesOn
<1> QED BY <1>1, <1>2, AtHead, VisitKeeps

LEMMA VisitDirKeeps == ASSUME LoaderInv, VisitDir PROVE LoaderInv'
<1> DEFINE e == Head(todo)
<1>1. At({"dir"})
  BY DEF VisitDir
<1>2. /\ Inputs /\ e \in Item /\ tree.kind[e.place] = "dir" /\ e.place \in Place /\ e.place # 0
      /\ Canonical(e) = e /\ e \in Named
  <2>1. Inputs /\ e \in Item /\ tree.kind[e.place] = "dir" /\ Canonical(e) \in Named
    BY <1>1, AtHead
  <2>2. Canonical(e) = e
    BY <2>1, CanonicalOfOthers
  <2>3. e.place \in Place /\ e.place # 0
    BY <2>1, TreeFacts DEF Item
  <2> QED BY <2>1, <2>2, <2>3
<1>3. Got(e, files)
  BY <1>2 DEF Got
<1>4. ASSUME todo' = Tail(todo), UNCHANGED <<input, files, status>>, ~Open(e) PROVE LoaderInv'
  <2> HIDE DEF e
  <2>1. Canonical(Head(todo)) = e
    BY <1>2 DEF e
  <2> QED BY <1>1, <1>3, <1>4, <2>1, PassKeeps
<1>5. CASE Ignored(e)
  <2>1. todo' = Tail(todo) /\ UNCHANGED <<input, files, status>> /\ ~Open(e)
    BY <1>5 DEF VisitDir, Open
  <2> QED BY <1>4, <2>1
<1>6. CASE ~Ignored(e) /\ Refused(e)
  <2>1. Fail
    BY <1>6 DEF VisitDir
  <2>2. Unfit(e)
    <3>1. e.links \in Nat
      BY <1>2 DEF Item
    <3> QED BY <1>6, <3>1 DEF Unfit, Refused, Secure
  <2> QED BY <1>2, <2>1, <2>2, FailKeeps DEF Reason
<1>7. CASE ~Ignored(e) /\ ~Refused(e)
  <2>1. ReadDir(e)
    BY <1>7 DEF VisitDir
  <2>2. CASE ~Readable(e) /\ e.path = <<>>
    <3>1. todo' = Tail(todo) /\ UNCHANGED <<input, files, status>> /\ ~Open(e)
      BY <2>1, <2>2 DEF ReadDir, Open
    <3> QED BY <1>4, <3>1
  <2>3. CASE ~Readable(e) /\ e.path # <<>>
    <3>1. Fail
      BY <2>1, <2>3 DEF ReadDir
    <3>2. e.links \in Nat /\ MaxLinks \in Nat
      BY <1>2, BoundIsANumber DEF Item
    <3>3. Unfit(e)
      BY <1>2, <1>7, <2>3, <3>2 DEF Unfit, Readable
    <3> QED BY <1>2, <3>1, <3>3, FailKeeps DEF Reason
  <2>4. CASE Readable(e)
    <3> DEFINE s == [i \in 1..Cardinality(Entries(e.place)) |->
                       LET p == Entry(e.place, i) IN
                       [path |-> Append(e.path, NameOf[p]), place |-> p, links |-> e.links]]
    <3>1. todo' = s \o Tail(todo) /\ UNCHANGED <<input, files, status>>
      BY <2>1, <2>4 DEF ReadDir
    <3>2. s \in Seq(Item) /\ Pending(s) = Below(e)
      BY <1>2, EntriesArePending
    <3> HIDE DEF s
    <3>3. Open(e)
      BY <1>2, <1>7, <2>4 DEF Open
    <3>4. Below(e) \subseteq Named
      BY <1>2, <3>3, NamedIsClosed
    <3>5. Tail(todo) \in Seq(Item)
      BY <1>1, AtHead
    <3>6. Pending(todo') = Below(e) \cup Pending(Tail(todo)) /\ todo' \in Seq(Item)
      <4> DEFINE t == Tail(todo)
      <4>1. t \in Seq(Item) /\ todo' = s \o t
        BY <3>1, <3>5
      <4> HIDE DEF t, e
      <4>2. Pending(todo') = Below(e) \cup Pending(t) /\ todo' \in Seq(Item)
        BY <3>2, <4>1, PendingOfParts
      <4> QED BY <4>2 DEF t
    <3>7. Walk(todo', files)
      <4> DEFINE Q == Below(e)
      <4>1. /\ Q \in SUBSET Named /\ Pending(todo') = Q \cup Pending(Tail(todo))
            /\ Below(Canonical(Head(todo))) \subseteq Q /\ Got(Canonical(Head(todo)), files)
        BY <1>2, <1>3, <3>4, <3>6
      <4> HIDE DEF Q, e
      <4> QED BY <1>1, <4>1, AtHead, WalkGoesOn
    <3> QED BY <1>1, <3>1, <3>6, <3>7, AtHead, VisitKeeps
  <2> QED BY <2>2, <2>3, <2>4
<1> QED BY <1>5, <1>6, <1>7

LEMMA VisitFileKeeps == ASSUME LoaderInv, VisitFile PROVE LoaderInv'
<1> DEFINE e == Head(todo)
           fit == Secure(e) /\ tree.kind[e.place] = "file" /\ e.place \notin tree.closed
<1>1. At({"file", "irregular", "big"})
  BY DEF VisitFile
<1>2. /\ Inputs /\ e \in Item /\ tree.kind[e.place] \in {"file", "irregular", "big"}
      /\ e.place \in Place /\ e.place # 0 /\ Canonical(e) = e /\ e \in Named
  <2>1. Inputs /\ e \in Item /\ tree.kind[e.place] \in {"file", "irregular", "big"}
        /\ Canonical(e) \in Named
    BY <1>1, AtHead
  <2>2. Canonical(e) = e
    BY <2>1, CanonicalOfOthers
  <2>3. e.place \in Place /\ e.place # 0
    BY <2>1, TreeFacts DEF Item
  <2> QED BY <2>1, <2>2, <2>3
<1>3. ~Open(e)
  BY <1>2 DEF Open
<1>4. CASE Ignored(e)
  <2>1. todo' = Tail(todo) /\ UNCHANGED <<input, files, status>> /\ Got(e, files)
    BY <1>4 DEF VisitFile, Got
  <2> HIDE DEF e
  <2>2. Canonical(Head(todo)) = e
    BY <1>2 DEF e
  <2> QED BY <1>1, <1>3, <2>1, <2>2, PassKeeps
<1>5. CASE ~Ignored(e) /\ ~fit
  <2>1. Fail
    BY <1>5 DEF VisitFile
  <2>2. e.links \in Nat
    BY <1>2 DEF Item
  <2>3. Unfit(e)
    BY <1>2, <1>5, <2>2 DEF Unfit, Secure
  <2> QED BY <1>2, <2>1, <2>3, FailKeeps DEF Reason
<1>6. CASE ~Ignored(e) /\ fit
  <2> DEFINE file == [path |-> e.path, place |-> e.place]
             G == files \cup {file}
  <2>1. todo' = Tail(todo) /\ files' = G /\ UNCHANGED <<input, status>>
    BY <1>6 DEF VisitFile
  <2>2. e \in Wanted
    BY <1>2, <1>6 DEF Wanted
  <2>3. e.path \in Seq(Names)
    BY <1>2 DEF Item
  <2>4. /\ file.path \in Seq(Names) /\ file.place \in InsideRoot
        /\ file.place \in Place /\ tree.kind[file.place] = "file"
    BY <1>2, <1>6, <2>3 DEF Secure
  <2>5. \A f \in G : /\ f.path \in Seq(Names) /\ f.place \in InsideRoot
                     /\ f.place \in Place /\ tree.kind[f.place] = "file"
    <3> HIDE DEF file
    <3> QED BY <1>1, <2>4, AtHead
  <2>6. G \subseteq FilesOf(Wanted) /\ Got(e, G)
    <3>1. file \in FilesOf(Wanted)
      BY <2>2 DEF FilesOf
    <3>2. Got(e, G)
      BY DEF Got
    <3> QED BY <1>1, <3>1, <3>2, AtHead
  <2>7. Pending(todo') = {} \cup Pending(Tail(todo)) /\ todo' \in Seq(Item)
    BY <1>1, <2>1, AtHead
  <2>8. Canonical(Head(todo)) = e /\ files \subseteq G
    BY <1>2
  <2> HIDE DEF e, G
  <2>9. Walk(todo', G)
    BY <1>1, <1>3, <2>6, <2>7, <2>8, AtHead, WalkGoesOn
  <2> QED BY <1>1, <2>1, <2>5, <2>7, <2>9, AtHead, VisitKeeps
<1> QED BY <1>4, <1>5, <1>6 DEF VisitFile

LEMMA LoadFilesKeeps == ASSUME LoaderInv, LoadFiles PROVE LoaderInv'
<1>1. /\ Inputs /\ status = "walk" /\ todo = <<>> /\ UNCHANGED <<input, tree, todo, files>>
      /\ status' = IF \E f \in files : f.path = <<"Chart.yaml">> THEN "loaded" ELSE "failed"
  BY DEF LoadFiles, LoaderInv, LoaderTypes, input
<1>2. files = FilesOf(Wanted)
  BY <1>1, WalkIsComplete DEF LoaderInv, Stages
<1>3. CASE \E f \in files : f.path = <<"Chart.yaml">>
  <2>1. Inputs' /\ InsideRoot' = InsideRoot /\ Wanted' = Wanted /\ status' = "loaded"
    BY <1>1, <1>3, TheTreeStays
  <2>2. LoaderTypes'
    BY <1>1, <2>1 DEF LoaderInv, LoaderTypes, Item, Names, Ends
  <2>3. LoadsTheChart'
    BY <1>1, <1>2, <2>1 DEF LoaderInv, LoadsTheChart, FilesOf
  <2>4. Stages' /\ FailsForAReason'
    BY <2>1 DEF Stages, FailsForAReason
  <2> QED BY <2>2, <2>3, <2>4 DEF LoaderInv
<1>4. CASE ~\E f \in files : f.path = <<"Chart.yaml">>
  <2>1. \A e \in Wanted : e.path # <<"Chart.yaml">>
    <3> SUFFICES ASSUME NEW e \in Wanted PROVE e.path # <<"Chart.yaml">>
      OBVIOUS
    <3>1. [path |-> e.path, place |-> e.place] \in files
      BY <1>2 DEF FilesOf
    <3> QED BY <1>4, <3>1
  <2>2. Fail
    BY <1>1, <1>4 DEF Fail
  <2> QED BY <2>1, <2>2, FailKeeps DEF Reason
<1> QED BY <1>3, <1>4

LEMMA NothingKeeps == ASSUME LoaderInv, UNCHANGED vars PROVE LoaderInv'
<1>1. UNCHANGED <<input, tree, aliased, rules, todo, files, status>>
  BY DEF vars, input
<1>2. Inputs' /\ InsideRoot' = InsideRoot /\ Wanted' = Wanted /\ (Reason => Reason')
  BY <1>1, TheTreeStays DEF LoaderInv, LoaderTypes
<1>3. LoaderTypes'
  BY <1>1, <1>2 DEF LoaderInv, LoaderTypes, Item, Names
<1>4. status = "walk" => Walk(todo, files)'
  BY <1>1, TheWalkStays DEF LoaderInv, Stages
<1>5. Stages'
  BY <1>1, <1>4 DEF LoaderInv, Stages
<1>6. LoadsTheChart'
  BY <1>1, <1>2 DEF LoaderInv, LoadsTheChart
<1>7. FailsForAReason'
  BY <1>1, <1>2 DEF LoaderInv, FailsForAReason, Reason
<1> QED BY <1>3, <1>5, <1>6, <1>7 DEF LoaderInv

LEMMA LoaderStep == LoaderInv /\ [Next]_vars => LoaderInv'
<1> SUFFICES ASSUME LoaderInv, [Next]_vars PROVE LoaderInv'
  OBVIOUS
<1>1. CASE Loader
  BY <1>1, LoaderKeeps
<1>2. CASE LoadIgnoreRules
  BY <1>2, LoadIgnoreRulesKeeps
<1>3. CASE FollowLink
  BY <1>3, FollowLinkKeeps
<1>4. CASE VisitDir
  BY <1>4, VisitDirKeeps
<1>5. CASE VisitFile
  BY <1>5, VisitFileKeeps
<1>6. CASE LoadFiles
  BY <1>6, LoadFilesKeeps
<1>7. CASE UNCHANGED vars
  BY <1>7, NothingKeeps
<1> QED BY <1>1, <1>2, <1>3, <1>4, <1>5, <1>6, <1>7 DEF Next, Load, SecureLoadDir, Finished

LEMMA LoaderInvariant == Spec => []LoaderInv
BY LoaderBegins, LoaderStep, PTL DEF Spec

-----------------------------------------------------------------------------
(***************************************************************************)
(* Theorems.                                                               *)
(***************************************************************************)
\* The walk stays on places of the tree, its names are of the tree, and what
\* it reads are files: what a link resolves to is never handed on when it
\* resolves to nothing.
THEOREM LoaderTypeCorrect == Spec => []TypeOK
<1>1. LoaderInv => TypeOK
  <2> SUFFICES ASSUME LoaderInv PROVE TypeOK
    OBVIOUS
  <2>1. \A i \in DOMAIN todo : todo[i] \in Item
    BY DEF LoaderInv, LoaderTypes
  <2>2. \A i \in DOMAIN todo :
          todo[i].path \in Seq(Names) /\ todo[i].place \in Place /\ todo[i].links \in Nat
    BY <2>1 DEF Item
  <2> QED BY <2>2 DEF LoaderInv, LoaderTypes, Inputs, TypeOK
<1> QED BY <1>1, LoaderInvariant, PTL

\* In every tree, however its links lead, no file outside root is read, and a
\* chart that loads has each of its files under each of its names.
THEOREM LoadIsComplete == Spec => []LoadsTheChart
<1>1. LoaderInv => LoadsTheChart
  BY DEF LoaderInv
<1> QED BY <1>1, LoaderInvariant, PTL

\* In every tree and under every ignore file, a load fails only for a name that
\* is not ignored, a link to nowhere, or for want of a chart.
THEOREM FailuresHaveAReason == Spec => []FailsForAReason
<1>1. LoaderInv => FailsForAReason
  BY DEF LoaderInv
<1> QED BY <1>1, LoaderInvariant, PTL
=============================================================================
