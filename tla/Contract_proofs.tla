--------------------------- MODULE Contract_proofs ---------------------------
(***************************************************************************)
(* The space of a supplier and his contracts, for any customers with any   *)
(* needs, and any number of requests and troubles.                         *)
(***************************************************************************)
EXTENDS Contract, FiniteSetTheorems, SequenceTheorems, WellFoundedInduction, TLAPS

(* A space file says of each customer in it what he needs.                 *)
Quota(S) == [c \in S |-> Needed[c]]
Total(S) == Consumed(Quota(S))

-----------------------------------------------------------------------------
(* Induction over numbers and over subsets of a finite set, for sets.      *)

LEMMA Least ==
  ASSUME NEW T \in SUBSET Nat, T # {}
  PROVE  \E i \in T : \A j \in T : i <= j
<1> DEFINE Less == OpToRel(<, Nat)
<1>1. \E i \in T : \A j \in T : ~ (<<j, i>> \in Less)
  BY NatLessThanWellFounded, WFMin
<1>2. \A i, j \in Nat : j < i => <<j, i>> \in Less
  BY Zenon DEF OpToRel
<1>3. PICK R : /\ \E i \in T : \A j \in T : ~ (<<j, i>> \in R)
              /\ \A i, j \in Nat : j < i => <<j, i>> \in R
  BY <1>1, <1>2, Zenon
<1>4. PICK i \in T : \A j \in T : ~ (<<j, i>> \in R)
  BY <1>3, Zenon
<1>5. \A j \in T : ~ (j < i)
  BY <1>3, <1>4, Zenon
<1> QED  BY <1>5

LEMMA AllNumbers ==
  ASSUME NEW T \in SUBSET Nat, 0 \in T, \A n \in T : n + 1 \in T
  PROVE  T = Nat
<1>1. SUFFICES ASSUME Nat \ T # {} PROVE FALSE
  OBVIOUS
<1>2. Nat \ T \in SUBSET Nat
  OBVIOUS
<1>3. PICK m \in Nat \ T : \A j \in Nat \ T : m <= j
  BY <1>1, <1>2, Least
<1>4. m - 1 \in Nat
  BY <1>3
<1>5. m - 1 \in T
  BY <1>3, <1>4
<1>6. (m - 1) + 1 = m
  BY <1>3
<1> QED  BY <1>3, <1>5, <1>6

LEMMA AllSubsets ==
  ASSUME NEW S, IsFiniteSet(S), NEW P,
         \A s \in SUBSET S : (\A x \in s : s \ {x} \in P) => s \in P
  PROVE  SUBSET S \subseteq P
<1> DEFINE T == {n \in Nat : \A s \in SUBSET S : Cardinality(s) = n => s \in P}
<1>1. \A s \in SUBSET S : IsFiniteSet(s) /\ Cardinality(s) \in Nat
  BY FS_Subset, FS_CardinalityType
<1>2. 0 \in T
  <2>1. \A s \in SUBSET S : Cardinality(s) = 0 => s = {}
    BY <1>1, FS_EmptySet
  <2> QED  BY <2>1
<1>3. \A n \in T : n + 1 \in T
  <2>1. SUFFICES ASSUME NEW n \in T, NEW s \in SUBSET S, Cardinality(s) = n + 1 PROVE s \in P
    OBVIOUS
  <2>2. \A x \in s : s \ {x} \in P
    <3>1. SUFFICES ASSUME NEW x \in s PROVE s \ {x} \in P
      OBVIOUS
    <3>2. Cardinality(s \ {x}) = (n + 1) - 1
      BY <1>1, <2>1, FS_RemoveElement
    <3>3. Cardinality(s \ {x}) = n
      BY <3>2
    <3> QED  BY <3>3
  <2> QED  BY <2>2
<1>4. T = Nat
  <2>1. T \in SUBSET Nat
    OBVIOUS
  <2> HIDE DEF T
  <2> QED  BY <1>2, <1>3, <2>1, AllNumbers
<1> QED  BY <1>1, <1>4

-----------------------------------------------------------------------------
(* The sum of what some customers need.                                    *)

Some(s) == CHOOSE x \in s : TRUE
Sums(f, s) == IF s = {} THEN 0 ELSE Needed[Some(s)] + f[s \ {Some(s)}]
IsSum(f, S) == f = [s \in SUBSET S |-> Sums(f, s)]

LEMMA SomeIn ==
  ASSUME NEW s, s # {}
  PROVE  Some(s) \in s
  BY DEF Some

LEMMA SumExists ==
  ASSUME NEW S \in SUBSET Customer
  PROVE  \E f : IsSum(f, S)
<1>1. IsFiniteSet(S) /\ \A s \in SUBSET S : IsFiniteSet(s) /\ Cardinality(s) \in Nat /\ Cardinality(s) <= Cardinality(S)
  BY SpaceAssumption, FS_Subset, FS_CardinalityType
<1> DEFINE Upto(f, n) == \A s \in SUBSET S : Cardinality(s) <= n => f[s] = Sums(f, s)
           T == {n \in Nat : \E f : Upto(f, n)}
<1>2. 0 \in T
  <2> DEFINE f == [s \in SUBSET S |-> 0]
  <2>1. \A s \in SUBSET S : Cardinality(s) <= 0 => s = {}
    BY <1>1, FS_EmptySet
  <2>2. Upto(f, 0)
    BY <2>1 DEF Sums
  <2> HIDE DEF f
  <2> QED  BY <2>2
<1>3. \A n \in T : n + 1 \in T
  <2>1. SUFFICES ASSUME NEW n \in Nat, NEW f, Upto(f, n) PROVE \E g : Upto(g, n + 1)
    OBVIOUS
  <2> DEFINE g == [s \in SUBSET S |-> Sums(f, s)]
  <2>2. ASSUME NEW s \in SUBSET S, Cardinality(s) <= n + 1
        PROVE  g[s] = Sums(g, s)
    <3>1. CASE s = {}
      BY <3>1 DEF Sums
    <3>2. CASE s # {}
      <4> DEFINE x == Some(s)
                 t == s \ {x}
      <4>1. x \in s
        BY <3>2, SomeIn
      <4> HIDE DEF x
      <4>2. Cardinality(t) = Cardinality(s) - 1 /\ t \in SUBSET S
        BY <1>1, <4>1, FS_RemoveElement
      <4>3. Cardinality(t) <= n
        BY <1>1, <2>2, <4>2
      <4>4. f[t] = Sums(f, t)
        BY <2>1, <4>2, <4>3
      <4>5. g[t] = Sums(f, t) /\ g[s] = Sums(f, s)
        BY <4>2
      <4>6. g[t] = f[t]
        BY <4>4, <4>5
      <4> HIDE DEF g, t
      <4>7. Sums(f, s) = Needed[x] + f[t] /\ Sums(g, s) = Needed[x] + g[t]
        BY <3>2 DEF Sums, x, t
      <4> QED  BY <4>5, <4>6, <4>7
    <3> QED  BY <3>1, <3>2
  <2> HIDE DEF g
  <2> QED  BY <2>2
<1>4. T = Nat
  <2>1. T \in SUBSET Nat
    OBVIOUS
  <2> HIDE DEF T
  <2> QED  BY <1>2, <1>3, <2>1, AllNumbers
<1>5. Cardinality(S) \in T
  BY <1>1, <1>4
<1>6. PICK f : Upto(f, Cardinality(S))
  BY <1>5
<1> DEFINE g == [s \in SUBSET S |-> f[s]]
<1>7. ASSUME NEW s \in SUBSET S
      PROVE  g[s] = Sums(g, s)
  <2>1. f[s] = Sums(f, s) /\ g[s] = f[s]
    BY <1>1, <1>6
  <2>2. CASE s = {}
    BY <2>1, <2>2 DEF Sums
  <2>3. CASE s # {}
    <3> DEFINE t == s \ {Some(s)}
    <3>1. t \in SUBSET S /\ g[t] = f[t]
      OBVIOUS
    <3> HIDE DEF g
    <3> QED  BY <2>1, <2>3, <3>1 DEF Sums
  <2> QED  BY <2>2, <2>3
<1>8. IsSum(g, S)
  <2>1. g = [s \in SUBSET S |-> g[s]]
    OBVIOUS
  <2> HIDE DEF g
  <2>2. [s \in SUBSET S |-> g[s]] = [s \in SUBSET S |-> Sums(g, s)]
    BY <1>7
  <2> QED  BY <2>1, <2>2 DEF IsSum
<1> HIDE DEF g
<1> QED  BY <1>8

LEMMA SumStep ==
  ASSUME NEW S, NEW f, IsSum(f, S), NEW s \in SUBSET S
  PROVE  f[s] = Sums(f, s)
  BY DEF IsSum

(* The sum over a set is a number, and each of the set contributes.        *)
Parts(f, S) ==
  /\ f[{}] = 0
  /\ \A s \in SUBSET S : f[s] \in Nat
  /\ \A s \in SUBSET S : \A x \in s : f[s] = Needed[x] + f[s \ {x}]

LEMMA SumParts ==
  ASSUME NEW S \in SUBSET Customer, NEW f, IsSum(f, S)
  PROVE  Parts(f, S)
<1>1. IsFiniteSet(S) /\ \A x \in S : Needed[x] \in Nat
  BY SpaceAssumption, FS_Subset
<1>2. f[{}] = 0
  BY SumStep DEF Sums
<1>3. \A s \in SUBSET S : f[s] \in Nat
  <2> DEFINE P == {s \in SUBSET S : f[s] \in Nat}
  <2>1. ASSUME NEW s \in SUBSET S, \A x \in s : s \ {x} \in P
        PROVE  s \in P
    <3>1. CASE s = {}
      BY <1>2, <3>1
    <3>2. CASE s # {}
      <4>1. Some(s) \in s /\ f[s] = Needed[Some(s)] + f[s \ {Some(s)}]
        BY <3>2, SomeIn, SumStep DEF Sums
      <4>2. s \ {Some(s)} \in P
        BY <2>1, <4>1
      <4> QED  BY <1>1, <4>1, <4>2
    <3> QED  BY <3>1, <3>2
  <2> HIDE DEF P
  <2>2. SUBSET S \subseteq P
    BY <1>1, <2>1, AllSubsets
  <2> QED  BY <2>2 DEF P
<1>4. \A s \in SUBSET S : \A x \in s : f[s] = Needed[x] + f[s \ {x}]
  <2> DEFINE P == {s \in SUBSET S : \A x \in s : f[s] = Needed[x] + f[s \ {x}]}
  <2>1. ASSUME NEW s \in SUBSET S, \A x \in s : s \ {x} \in P
        PROVE  s \in P
    <3>1. SUFFICES ASSUME NEW x \in s PROVE f[s] = Needed[x] + f[s \ {x}]
      OBVIOUS
    <3> DEFINE y == Some(s)
    <3>2. y \in s /\ f[s] = Needed[y] + f[s \ {y}]
      BY SomeIn, SumStep DEF Sums
    <3> HIDE DEF y
    <3>3. CASE x = y
      BY <3>2, <3>3
    <3>4. CASE x # y
      <4>1. s \ {y} \in P /\ s \ {x} \in P /\ x \in s \ {y} /\ y \in s \ {x}
        BY <2>1, <3>2, <3>4
      <4>2. f[s \ {y}] = Needed[x] + f[(s \ {y}) \ {x}] /\ f[s \ {x}] = Needed[y] + f[(s \ {x}) \ {y}]
        BY <4>1
      <4>3. (s \ {y}) \ {x} = (s \ {x}) \ {y} /\ (s \ {x}) \ {y} \in SUBSET S
        OBVIOUS
      <4>4. Needed[x] \in Nat /\ Needed[y] \in Nat /\ f[(s \ {x}) \ {y}] \in Nat
        BY <1>1, <1>3, <3>2, <4>3
      <4>5. f[(s \ {y}) \ {x}] = f[(s \ {x}) \ {y}]
        BY <4>3
      <4> DEFINE a == f[s \ {y}]
                 b == f[s \ {x}]
                 z == f[(s \ {x}) \ {y}]
      <4>6. f[s] = Needed[y] + a /\ a = Needed[x] + z /\ b = Needed[y] + z /\ z \in Nat
        BY <3>2, <4>2, <4>4, <4>5
      <4> HIDE DEF a, b, z
      <4>7. f[s] = Needed[x] + b
        BY <4>4, <4>6
      <4> QED  BY <4>7 DEF b
    <3> QED  BY <3>3, <3>4
  <2> HIDE DEF P
  <2>2. SUBSET S \subseteq P
    BY <1>1, <2>1, AllSubsets
  <2> QED  BY <2>2 DEF P
<1> QED  BY <1>2, <1>3, <1>4 DEF Parts

LEMMA SumUnique ==
  ASSUME NEW S \in SUBSET Customer, NEW f, IsSum(f, S), NEW R \in SUBSET S, NEW g, IsSum(g, R)
  PROVE  \A s \in SUBSET R : f[s] = g[s]
<1>1. IsFiniteSet(R)
  BY SpaceAssumption, FS_Subset
<1> DEFINE P == {s \in SUBSET R : f[s] = g[s]}
<1>2. ASSUME NEW s \in SUBSET R, \A x \in s : s \ {x} \in P
      PROVE  s \in P
  <2>1. f[s] = Sums(f, s) /\ g[s] = Sums(g, s)
    BY SumStep
  <2>2. CASE s = {}
    BY <2>1, <2>2 DEF Sums
  <2>3. CASE s # {}
    <3>1. f[s \ {Some(s)}] = g[s \ {Some(s)}]
      BY <1>2, <2>3, SomeIn
    <3> QED  BY <2>1, <2>3, <3>1 DEF Sums
  <2> QED  BY <2>2, <2>3
<1> HIDE DEF P
<1>3. SUBSET R \subseteq P
  BY <1>1, <1>2, AllSubsets
<1> QED  BY <1>3 DEF P

LEMMA TotalIsSum ==
  ASSUME NEW S \in SUBSET Customer
  PROVE  \E f : IsSum(f, S) /\ Total(S) = f[S]
<1> DEFINE iter == CHOOSE f : f = [s \in SUBSET S |-> IF s = {} THEN 0
                                     ELSE Quota(S)[CHOOSE x \in s : TRUE] + f[s \ {CHOOSE x \in s : TRUE}]]
<1>1. Total(S) = iter[S]
  <2>1. DOMAIN Quota(S) = S
    BY DEF Quota
  <2> QED  BY <2>1 DEF Total, Consumed, FoldFunction, FoldFunctionOnSet, MapThenFoldSet
<1>2. \A f : IsSum(f, S) <=> f = [s \in SUBSET S |-> IF s = {} THEN 0
                                     ELSE Quota(S)[CHOOSE x \in s : TRUE] + f[s \ {CHOOSE x \in s : TRUE}]]
  <2>1. ASSUME NEW f, NEW s \in SUBSET S
        PROVE  Sums(f, s) = IF s = {} THEN 0
                            ELSE Quota(S)[CHOOSE x \in s : TRUE] + f[s \ {CHOOSE x \in s : TRUE}]
    <3>1. CASE s = {}
      BY <3>1 DEF Sums
    <3>2. CASE s # {}
      <4>1. Some(s) \in S
        BY <3>2, SomeIn
      <4>2. Quota(S)[Some(s)] = Needed[Some(s)]
        BY <4>1 DEF Quota
      <4> QED  BY <3>2, <4>2 DEF Sums, Some
    <3> QED  BY <3>1, <3>2
  <2> QED  BY <2>1 DEF IsSum
<1>3. IsSum(iter, S)
  <2> DEFINE Def(f) == f = [s \in SUBSET S |-> IF s = {} THEN 0
                              ELSE Quota(S)[CHOOSE x \in s : TRUE] + f[s \ {CHOOSE x \in s : TRUE}]]
  <2>1. \E f : Def(f)
    BY <1>2, SumExists
  <2>2. iter = CHOOSE f : Def(f)
    OBVIOUS
  <2> HIDE DEF Def, iter
  <2>3. Def(iter)
    BY <2>1, <2>2
  <2> QED  BY <1>2, <2>3 DEF Def
<1> HIDE DEF iter
<1> QED  BY <1>1, <1>3

(* The space that is given to a set of customers is what each of them      *)
(* needs, whatever the order in which it is summed.                        *)
LEMMA TotalParts ==
  ASSUME NEW S \in SUBSET Customer
  PROVE  /\ Total(S) \in Nat
         /\ S = {} => Total(S) = 0
         /\ \A c \in S : Total(S) = Needed[c] + Total(S \ {c})
<1>1. PICK f : IsSum(f, S) /\ Total(S) = f[S]
  BY TotalIsSum
<1>4. Parts(f, S)
  BY <1>1, SumParts
<1>2. Total(S) \in Nat /\ (S = {} => Total(S) = 0)
  <2>1. S \in SUBSET S
    OBVIOUS
  <2> QED  BY <1>1, <1>4, <2>1 DEF Parts
<1>3. ASSUME NEW c \in S
      PROVE  Total(S) = Needed[c] + Total(S \ {c})
  <2>1. PICK g : IsSum(g, S \ {c}) /\ Total(S \ {c}) = g[S \ {c}]
    BY TotalIsSum
  <2>2. f[S \ {c}] = g[S \ {c}]
    BY <1>1, <2>1, SumUnique
  <2>3. f[S] = Needed[c] + f[S \ {c}]
    <3>1. S \in SUBSET S
      OBVIOUS
    <3> QED  BY <1>4, <3>1 DEF Parts
  <2> QED  BY <1>1, <2>1, <2>2, <2>3
<1> QED  BY <1>2, <1>3

-----------------------------------------------------------------------------
(* The space of the supplier.                                              *)

Quotas == {Quota(S) : S \in SUBSET Customer}

(* What customers_rejector has decided, and will write to both files.      *)
Overflow ==
  {e \in [name : {"space-overflow"}, quotas : Quotas, free : Int, keep : SUBSET Customer, removed : SUBSET Customer] :
     e.free + Consumed(e.quotas) \in Donations}

Posted == [name : {"restart", "space-enough", "packets-sent"}] \cup Overflow

SpaceOK ==
  /\ customers \in SUBSET Customer /\ saved \in SUBSET Customer
  /\ shared \in BOOLEAN /\ (shared \/ saved = customers)
  /\ quotas \in Quotas /\ free \in Int /\ donated \in Donations
  /\ rejector \in {"READY", "CAPACITY?", "REJECT_GUYS"}
  /\ events \in Seq(Posted)
  /\ SpaceConserved

LEMMA QuotaParts ==
  ASSUME NEW S \in SUBSET Customer
  PROVE  /\ Quota(S) \in Quotas /\ DOMAIN Quota(S) = S
         /\ \A c \in S : Quota(S)[c] = Needed[c]
         /\ \A R : Without(Quota(S), R) = Quota(S \ R)
         /\ \A c : [d \in S \cup {c} |-> IF d = c THEN Needed[c] ELSE Quota(S)[d]] = Quota(S \cup {c})
<1>1. Quota(S) \in Quotas /\ DOMAIN Quota(S) = S /\ \A c \in S : Quota(S)[c] = Needed[c]
  BY DEF Quota, Quotas
<1>2. ASSUME NEW R
      PROVE  Without(Quota(S), R) = Quota(S \ R)
  BY <1>1 DEF Without, Quota
<1>3. ASSUME NEW c
      PROVE  [d \in S \cup {c} |-> IF d = c THEN Needed[c] ELSE Quota(S)[d]] = Quota(S \cup {c})
  <2>1. \A d \in S \cup {c} : (IF d = c THEN Needed[c] ELSE Quota(S)[d]) = Needed[d]
    BY <1>1
  <2> QED  BY <2>1 DEF Quota
<1> QED  BY <1>1, <1>2, <1>3

LEMMA PostedEvents ==
  ASSUME NEW q \in Seq(Posted), q # <<>>
  PROVE  /\ Head(q) \in Posted /\ Tail(q) \in Seq(Posted)
         /\ \A e \in Posted : Append(Tail(q), e) \in Seq(Posted)
<1>1. Head(q) \in Posted /\ Tail(q) \in Seq(Posted)
  BY HeadTailProperties
<1> QED  BY <1>1, AppendProperties

LEMMA EventNames ==
  /\ \A n \in {"restart", "space-enough", "packets-sent"} : Ev(n) \in Posted
  /\ \A e \in Posted : e.name = "space-overflow" => e \in Overflow
  BY DEF Ev, Posted, Overflow

LEMMA InPlaceType ==
  ASSUME events \in Seq(Posted), NEW add \in SUBSET Customer, NEW drop \in SUBSET Customer
  PROVE  InPlace(add, drop) \in Seq(Posted)
<1>1. Len(events) \in Nat /\ DOMAIN events = 1..Len(events) /\ \A i \in 1..Len(events) : events[i] \in Posted
  BY LenProperties, ElementOfSeq
<1> DEFINE edited(e) == IF e.name = "space-overflow" THEN [e EXCEPT !.keep = (@ \ drop) \cup add] ELSE e
<1>2. ASSUME NEW e \in Posted
      PROVE  edited(e) \in Posted
  <2>1. CASE e.name = "space-overflow"
    <3>1. e \in Overflow
      BY <2>1, EventNames
    <3> DEFINE f == [e EXCEPT !.keep = (@ \ drop) \cup add]
    <3>2. /\ f \in [name : {"space-overflow"}, quotas : Quotas, free : Int, keep : SUBSET Customer,
                    removed : SUBSET Customer]
          /\ f.free = e.free /\ f.quotas = e.quotas
      BY <3>1 DEF Overflow
    <3>3. f \in Overflow
      BY <3>1, <3>2 DEF Overflow
    <3> QED  BY <2>1, <3>3 DEF Posted
  <2>2. CASE e.name # "space-overflow"
    BY <2>2
  <2> QED  BY <2>1, <2>2
<1>3. InPlace(add, drop) = IF shared /\ events # <<>> THEN [i \in 1..Len(events) |-> edited(events[i])] ELSE events
  BY <1>1 DEF InPlace
<1> HIDE DEF edited
<1>4. [i \in 1..Len(events) |-> edited(events[i])] \in [1..Len(events) -> Posted]
  BY <1>1, <1>2
<1>5. [i \in 1..Len(events) |-> edited(events[i])] \in Seq(Posted)
  BY <1>1, <1>4, SeqDef
<1> QED  BY <1>3, <1>5

LEMMA StepAccept ==
  ASSUME SpaceOK, NEW c \in Customer, Accept(c)
  PROVE  SpaceOK'
<1>1. PICK S \in SUBSET Customer : quotas = Quota(S)
  BY DEF SpaceOK, Quotas
<1>2. DOMAIN quotas = S /\ (c \in S => quotas[c] = Needed[c]) /\ S \cup {c} \in SUBSET Customer
  BY <1>1, QuotaParts
<1>3. quotas' = Quota(S \cup {c}) /\ quotas' \in Quotas
  BY <1>1, <1>2, QuotaParts DEF Accept
<1>4. Needed[c] \in Nat /\ Total(S) \in Nat
  BY SpaceAssumption, TotalParts
<1>5. free \in Int /\ free' = Available(c) - Needed[c]
  BY DEF SpaceOK, Accept
<1>6. free' \in Int /\ free' + Total(S \cup {c}) = free + Total(S)
  <2> DEFINE n == Needed[c]
             total == Total(S)
  <2>1. n \in Nat /\ total \in Nat /\ free' = Available(c) - n
    BY <1>4, <1>5
  <2>2. CASE c \in S
    <3>1. S \cup {c} = S
      BY <2>2
    <3>2. Available(c) = free + n
      BY <1>2, <2>2 DEF Available
    <3>3. Total(S \cup {c}) = total
      BY <3>1
    <3> HIDE DEF n, total
    <3>4. free' \in Int /\ free' + total = free + total
      BY <1>5, <2>1, <3>2
    <3> QED  BY <3>3, <3>4 DEF total
  <2>3. CASE c \notin S
    <3>1. (S \cup {c}) \ {c} = S
      BY <2>3
    <3>2. Total(S \cup {c}) = n + total
      <4>1. c \in S \cup {c}
        OBVIOUS
      <4>2. Total(S \cup {c}) = Needed[c] + Total((S \cup {c}) \ {c})
        BY <1>2, <4>1, TotalParts
      <4> QED  BY <3>1, <4>2
    <3>3. Available(c) = free + 0
      BY <1>2, <2>3 DEF Available
    <3> HIDE DEF n, total
    <3>4. free' \in Int /\ free' + (n + total) = free + total
      BY <1>5, <2>1, <3>3
    <3> QED  BY <3>2, <3>4 DEF total
  <2> QED  BY <2>2, <2>3
<1>7. SpaceConserved'
  BY <1>1, <1>3, <1>6 DEF SpaceOK, SpaceConserved, Total
<1>8. events' \in Seq(Posted)
  <2>1. {c} \in SUBSET Customer /\ {} \in SUBSET Customer
    OBVIOUS
  <2> QED  BY <2>1, InPlaceType DEF Accept, SpaceOK
<1> QED  BY <1>3, <1>6, <1>7, <1>8 DEF SpaceOK, Accept, Save

(* Who is removed gives back what he had.                                  *)
LEMMA GivenBack ==
  ASSUME SpaceOK, NEW c \in Customer
  PROVE  /\ Without(quotas, {c}) \in Quotas /\ Available(c) \in Int
         /\ Available(c) + Consumed(Without(quotas, {c})) \in Donations
<1>1. PICK S \in SUBSET Customer : quotas = Quota(S)
  BY DEF SpaceOK, Quotas
<1>2. DOMAIN quotas = S /\ (c \in S => quotas[c] = Needed[c])
  BY <1>1, QuotaParts
<1>3. Without(quotas, {c}) = Quota(S \ {c}) /\ Quota(S \ {c}) \in Quotas
  BY <1>1, QuotaParts
<1>4. Needed[c] \in Nat /\ Total(S \ {c}) \in Nat
  BY SpaceAssumption, TotalParts
<1>5. free \in Int
  BY DEF SpaceOK
<1>6. Available(c) \in Int /\ Available(c) + Total(S \ {c}) = free + Total(S)
  <2> DEFINE n == Needed[c]
             total == Total(S \ {c})
  <2>1. n \in Nat /\ total \in Nat
    BY <1>4
  <2>2. CASE c \in S
    <3>1. Total(S) = n + total
      BY <2>2, TotalParts
    <3>2. Available(c) = free + n
      BY <1>2, <2>2 DEF Available
    <3> HIDE DEF n, total
    <3>3. free + n \in Int /\ (free + n) + total = free + (n + total)
      BY <1>5, <2>1
    <3> QED  BY <3>1, <3>2, <3>3 DEF total
  <2>3. CASE c \notin S
    <3>1. S \ {c} = S
      BY <2>3
    <3>2. Available(c) = free + 0
      BY <1>2, <2>3 DEF Available
    <3>3. Available(c) = free
      BY <1>5, <3>2
    <3> QED  BY <1>5, <3>1, <3>3
  <2> QED  BY <2>2, <2>3
<1> QED  BY <1>1, <1>3, <1>6 DEF SpaceOK, SpaceConserved, Total

LEMMA StepDeny ==
  ASSUME SpaceOK, NEW c \in Customer, Deny(c)
  PROVE  SpaceOK'
<1>1. events' \in Seq(Posted)
  <2>1. {c} \in SUBSET Customer /\ {} \in SUBSET Customer
    OBVIOUS
  <2> QED  BY <2>1, InPlaceType DEF Deny, SpaceOK
<1> QED  BY <1>1, GivenBack DEF SpaceOK, Deny, Save, SpaceConserved

LEMMA StepTerminate ==
  ASSUME SpaceOK, NEW c \in Customer, Cancel(c)
  PROVE  SpaceOK'
  BY GivenBack DEF SpaceOK, Cancel, Save, SpaceConserved

LEMMA QuotasClosed ==
  ASSUME NEW q \in Quotas
  PROVE  Consumed(q) \in Nat /\ \A R : Without(q, R) \in Quotas
<1>1. PICK S \in SUBSET Customer : q = Quota(S)
  BY DEF Quotas
<1>2. Consumed(q) \in Nat
  BY <1>1, TotalParts DEF Total
<1>3. ASSUME NEW R
      PROVE  Without(q, R) \in Quotas
  <2>1. S \ R \in SUBSET Customer /\ Without(q, R) = Quota(S \ R)
    BY <1>1, QuotaParts
  <2> QED  BY <2>1, QuotaParts
<1> QED  BY <1>2, <1>3

(* What is written anew adds up to what is donated now.                    *)
LEMMA WrittenAnew ==
  ASSUME donated \in Donations, NEW q \in Quotas
  PROVE  donated - Consumed(q) \in Int /\ (donated - Consumed(q)) + Consumed(q) \in Donations
<1>1. donated \in Nat /\ Consumed(q) \in Nat
  BY SpaceAssumption, QuotasClosed
<1> DEFINE n == Consumed(q)
<1> HIDE DEF n
<1>2. n \in Nat
  BY <1>1 DEF n
<1>3. donated - n \in Int /\ (donated - n) + n = donated
  BY <1>1, <1>2
<1> QED  BY <1>3 DEF n

LEMMA StepRestart ==
  ASSUME SpaceOK, Restart
  PROVE  SpaceOK'
<1>1. /\ events \in Seq(Posted) /\ events # <<>>
      /\ \A e \in Posted : Append(Tail(events), e) \in Seq(Posted)
  BY PostedEvents DEF SpaceOK, Restart
<1> DEFINE unknown == customers \ DOMAIN quotas
           known == Without(quotas, DOMAIN quotas \ customers)
<1>2. known \in Quotas /\ donated \in Donations
  BY QuotasClosed DEF SpaceOK
<1>3. CASE /\ quotas' = known /\ free' = donated - Consumed(known)
           /\ events' = Append(Tail(events), Ev("space-enough"))
           /\ UNCHANGED <<customers, shared>>
  <2>1. events' \in Seq(Posted)
    BY <1>1, <1>3, EventNames
  <2>2. free' \in Int /\ SpaceConserved'
    BY <1>2, <1>3, WrittenAnew DEF SpaceConserved
  <2>3. quotas' \in Quotas
    BY <1>2, <1>3
  <2> HIDE DEF known
  <2> QED  BY <1>3, <2>1, <2>2, <2>3 DEF SpaceOK, Restart
<1>4. CASE \E R \in SUBSET customers :
             /\ customers' = customers \ R
             /\ shared' = TRUE
             /\ LET q == Without(known, R)
                IN  events' = Append(Tail(events),
                                [name |-> "space-overflow", quotas |-> q, free |-> donated - Consumed(q),
                                 keep |-> customers \ R, removed |-> R])
             /\ UNCHANGED <<quotas, free>>
  <2>1. PICK R \in SUBSET customers :
             /\ customers' = customers \ R
             /\ shared' = TRUE
             /\ LET q == Without(known, R)
                IN  events' = Append(Tail(events),
                                [name |-> "space-overflow", quotas |-> q, free |-> donated - Consumed(q),
                                 keep |-> customers \ R, removed |-> R])
             /\ UNCHANGED <<quotas, free>>
    BY <1>4
  <2> DEFINE q == Without(known, R)
             e == [name |-> "space-overflow", quotas |-> q, free |-> donated - Consumed(q),
                   keep |-> customers \ R, removed |-> R]
  <2>2. q \in Quotas
    BY <1>2, QuotasClosed
  <2>3. events' = Append(Tail(events), e)
    BY <2>1
  <2> HIDE DEF known, q
  <2>4. donated - Consumed(q) \in Int /\ (donated - Consumed(q)) + Consumed(q) \in Donations
    BY <1>2, <2>2, WrittenAnew
  <2>5. customers \ R \in SUBSET Customer /\ R \in SUBSET Customer
    BY DEF SpaceOK
  <2>6. e \in Overflow
    BY <2>2, <2>4, <2>5 DEF Overflow
  <2>7. events' \in Seq(Posted)
    BY <1>1, <2>3, <2>6 DEF Posted
  <2> HIDE DEF e
  <2> QED  BY <2>1, <2>5, <2>7 DEF SpaceOK, Restart, SpaceConserved
<1>5. Removable(known, customers) \subseteq SUBSET customers /\ unknown \in SUBSET customers
  BY DEF Removable
<1>6. DoTestMyCapacity
  BY DEF Restart
<1> HIDE DEF unknown, known
<1> QED  BY <1>3, <1>4, <1>5, <1>6 DEF DoTestMyCapacity, unknown, known

LEMMA StepOverflow ==
  ASSUME SpaceOK, SpaceOverflow
  PROVE  SpaceOK'
<1>1. /\ Head(events) \in Posted
      /\ \A e \in Posted : Append(Tail(events), e) \in Seq(Posted)
  BY PostedEvents DEF SpaceOK, SpaceOverflow
<1>2. events' \in Seq(Posted)
  BY <1>1, EventNames DEF SpaceOverflow
<1>3. Head(events) \in Overflow
  BY <1>1, EventNames DEF SpaceOverflow
<1> QED  BY <1>2, <1>3 DEF SpaceOK, SpaceOverflow, Save, Overflow, SpaceConserved

(* The other events only take themselves from those posted.                *)
LEMMA StepTaken ==
  ASSUME SpaceOK, SpaceEnough \/ PacketsSent \/ Unhandled
  PROVE  SpaceOK'
<1>1. events # <<>> /\ events' = Tail(events)
  BY DEF SpaceEnough, PacketsSent, Unhandled
<1>2. events' \in Seq(Posted)
  BY <1>1, PostedEvents DEF SpaceOK
<1>3. /\ UNCHANGED <<customers, saved, quotas, free, donated, shared>>
      /\ rejector' \in {rejector, "READY"}
  BY DEF SpaceEnough, PacketsSent, Unhandled
<1> QED  BY <1>2, <1>3 DEF SpaceOK, SpaceConserved

LEMMA StepRejector ==
  ASSUME SpaceOK, RejectorHandles
  PROVE  SpaceOK'
  BY StepRestart, StepOverflow, StepTaken DEF RejectorHandles

LEMMA StepSpaceChanges ==
  ASSUME SpaceOK, RestartRejector \/ \E d \in Donations : Donate(d)
  PROVE  SpaceOK'
<1>1. events' = Append(events, Ev("restart"))
  BY DEF RestartRejector, Donate
<1>2. events' \in Seq(Posted)
  BY <1>1, EventNames, AppendProperties DEF SpaceOK
<1>3. UNCHANGED <<customers, saved, quotas, free, rejector, shared>> /\ donated' \in Donations
  BY DEF RestartRejector, Donate, SpaceOK
<1> QED  BY <1>2, <1>3 DEF SpaceOK, SpaceConserved

(* A restart finds the files as they were written.                         *)
LEMMA StepRebooted ==
  ASSUME SpaceOK, NEW file \in SUBSET Customer, Rebooted(file)
  PROVE  SpaceOK'
<1>1. events' \in Seq(Posted)
  <2>1. Ev("restart") \in Posted
    BY EventNames
  <2> QED  BY <2>1 DEF Rebooted
<1> QED  BY <1>1 DEF SpaceOK, Rebooted, Save, SpaceConserved

LEMMA StepSpaceAnswers ==
  ASSUME SpaceOK, NEW c \in Customer, NEW a, Request(c, a) \/ Terminate(c, a)
  PROVE  SpaceOK'
<1>1. ASSUME UNCHANGED space
      PROVE  SpaceOK'
  BY <1>1 DEF SpaceOK, SpaceConserved, space
<1> QED  BY <1>1, StepAccept, StepDeny, StepTerminate DEF Request, Terminate

LEMMA StepCrash ==
  ASSUME SpaceOK,
         Crash \/ CrashInOverflow \/ \E c \in Customer : CrashInRequest(c) \/ CrashInCancel(c)
  PROVE  SpaceOK'
<1>1. CASE Crash
  BY <1>1, StepRebooted DEF Crash, SpaceOK
<1>2. CASE CrashInOverflow
  <2>1. Head(events) \in Overflow
    BY <1>2, PostedEvents, EventNames DEF CrashInOverflow, SpaceOK
  <2>2. Head(events).keep \in SUBSET Customer
    BY <2>1 DEF Overflow
  <2> QED  BY <1>2, <2>2, StepRebooted DEF CrashInOverflow
<1>3. CASE \E c \in Customer : CrashInRequest(c) \/ CrashInCancel(c)
  <2>1. PICK c \in Customer : CrashInRequest(c) \/ CrashInCancel(c)
    BY <1>3
  <2>2. customers \cup {c} \in SUBSET Customer /\ customers \ {c} \in SUBSET Customer
    BY DEF SpaceOK
  <2>3. Rebooted(customers \cup {c}) \/ Rebooted(customers \ {c})
    BY <2>1 DEF CrashInRequest, CrashInCancel
  <2> QED  BY <2>2, <2>3, StepRebooted
<1> QED  BY <1>1, <1>2, <1>3

LEMMA SpaceStarts ==
  ASSUME SpaceInit
  PROVE  SpaceOK
<1>1. quotas = Quota({}) /\ {} \in SUBSET Customer
  BY DEF SpaceInit, Quota
<1>2. quotas \in Quotas
  BY <1>1, QuotaParts
<1>3. Consumed(quotas) = 0
  BY <1>1, TotalParts DEF Total
<1>4. free \in Int /\ free + 0 = free /\ free \in Donations
  BY SpaceAssumption DEF SpaceInit
<1>5. events \in Seq(Posted)
  <2>1. Ev("restart") \in Posted
    BY EventNames
  <2> QED  BY <2>1 DEF SpaceInit
<1> QED  BY <1>2, <1>3, <1>4, <1>5 DEF SpaceOK, SpaceInit, SpaceConserved

-----------------------------------------------------------------------------
(* The connectors.                                                         *)

Packet == [kind : {"request", "cancel", "queue"}, answer : {"none", "accepted", "deny", "fail", "items"}, heard : BOOLEAN]
Kinds == {<<>>, <<"request">>, <<"cancel">>, <<"queue">>}
Handled == [state : States, leaving : BOOLEAN, sends : Kinds, reports : BOOLEAN]

ConnectorOK ==
  /\ state \in [Customer -> States]
  /\ leaving \in [Customer -> BOOLEAN] /\ asked \in [Customer -> BOOLEAN] /\ smooth \in [Customer -> BOOLEAN]
  /\ packets \in [Customer -> Seq(Packet)]

LEMMA ToType ==
  ASSUME NEW s \in States, NEW go \in BOOLEAN, NEW kinds \in Kinds, NEW told \in BOOLEAN
  PROVE  To(s, go, kinds, told) \in Handled
  BY DEF To, Handled

LEMMA HandlesType ==
  ASSUME NEW s \in States, NEW go \in BOOLEAN, NEW e
  PROVE  Handles(s, go, e) \in Handled
<1>1. \A t \in States : \A b \in BOOLEAN : \A k \in Kinds : \A r \in BOOLEAN : To(t, b, k, r) \in Handled
  BY ToType
<1>2. /\ TRUE \in BOOLEAN /\ FALSE \in BOOLEAN
      /\ <<>> \in Kinds /\ <<"request">> \in Kinds /\ <<"cancel">> \in Kinds /\ <<"queue">> \in Kinds
      /\ "NO_SERVICE" \in States /\ "CONNECTED" \in States /\ "DISCONNECTED" \in States
      /\ "REQUEST" \in States /\ "REFUSE" \in States /\ "QUEUE?" \in States /\ "CLOSED" \in States
  BY DEF Kinds, States
<1>3. CASE s = "NO_SERVICE"
  BY <1>1, <1>2, <1>3 DEF Handles
<1>4. CASE s = "CONNECTED"
  BY <1>1, <1>2, <1>4 DEF Handles
<1>5. CASE s = "DISCONNECTED"
  BY <1>1, <1>2, <1>5 DEF Handles
<1>6. CASE s = "REQUEST"
  BY <1>1, <1>2, <1>6 DEF Handles, AcceptedLeaving
<1>7. CASE s = "REFUSE"
  BY <1>1, <1>2, <1>7 DEF Handles
<1>8. CASE s = "QUEUE?"
  BY <1>1, <1>2, <1>8 DEF Handles
<1>9. CASE s = "CLOSED"
  BY <1>1, <1>2, <1>9 DEF Handles
<1> QED  BY <1>3, <1>4, <1>5, <1>6, <1>7, <1>8, <1>9 DEF States

LEMMA PacketsLeft ==
  ASSUME NEW q \in Seq(Packet), NEW i \in DOMAIN q
  PROVE  RemoveAt(q, i) \in Seq(Packet) /\ Len(RemoveAt(q, i)) = Len(q) - 1
<1>1. Len(q) \in Nat /\ i \in 1..Len(q) /\ \A j \in 1..Len(q) : q[j] \in Packet
  BY LenProperties, ElementOfSeq
<1>2. /\ i - 1 \in Int /\ i + 1 \in Int /\ Len(q) \in Int
      /\ \A j \in 1..(i - 1) : q[j] \in Packet
      /\ \A j \in (i + 1)..Len(q) : q[j] \in Packet
  BY <1>1
<1> DEFINE a == SubSeq(q, 1, i - 1)
           b == SubSeq(q, i + 1, Len(q))
<1>3. a \in Seq(Packet) /\ Len(a) = i - 1
  <2>1. a \in Seq(Packet) /\ Len(a) = IF 1 <= i - 1 THEN (i - 1) - 1 + 1 ELSE 0
    BY <1>2, SubSeqProperties
  <2> HIDE DEF a
  <2> QED  BY <1>1, <2>1
<1>4. b \in Seq(Packet) /\ Len(b) = Len(q) - i
  <2>1. b \in Seq(Packet) /\ Len(b) = IF i + 1 <= Len(q) THEN Len(q) - (i + 1) + 1 ELSE 0
    BY <1>2, SubSeqProperties
  <2> HIDE DEF b
  <2> QED  BY <1>1, <2>1
<1>5. RemoveAt(q, i) = a \o b
  BY DEF RemoveAt
<1> HIDE DEF a, b
<1>6. a \o b \in Seq(Packet) /\ Len(a \o b) = Len(a) + Len(b)
  BY <1>3, <1>4, ConcatProperties
<1> QED  BY <1>1, <1>3, <1>4, <1>5, <1>6

(* The packets of a connector that is closed or started anew.              *)
Unheard(q) == [i \in DOMAIN q |-> [q[i] EXCEPT !.heard = FALSE]]

LEMMA UnheardType ==
  ASSUME NEW q \in Seq(Packet)
  PROVE  Unheard(q) \in Seq(Packet) /\ Len(Unheard(q)) = Len(q)
<1>1. Len(q) \in Nat /\ DOMAIN q = 1..Len(q) /\ \A j \in 1..Len(q) : q[j] \in Packet
  BY LenProperties, ElementOfSeq
<1>2. \A p \in Packet : [p EXCEPT !.heard = FALSE] \in Packet
  BY DEF Packet
<1>3. Unheard(q) = [i \in 1..Len(q) |-> [q[i] EXCEPT !.heard = FALSE]]
  BY <1>1 DEF Unheard
<1>4. [i \in 1..Len(q) |-> [q[i] EXCEPT !.heard = FALSE]] \in [1..Len(q) -> Packet]
  BY <1>1, <1>2
<1> QED  BY <1>1, <1>3, <1>4, IsASeq, LenProperties

LEMMA SentType ==
  ASSUME NEW kinds \in Kinds
  PROVE  [i \in DOMAIN kinds |-> Sent(kinds[i])] \in Seq(Packet)
<1>1. CASE kinds = <<>>
  BY <1>1
<1>2. CASE \E k \in {"request", "cancel", "queue"} : kinds = <<k>>
  <2>1. PICK k \in {"request", "cancel", "queue"} : kinds = <<k>>
    BY <1>2
  <2>2. Sent(k) \in Packet
    BY DEF Sent, Packet
  <2>3. [i \in DOMAIN kinds |-> Sent(kinds[i])] = <<Sent(k)>>
    BY <2>1
  <2> QED  BY <2>2, <2>3
<1> QED  BY <1>1, <1>2 DEF Kinds

LEMMA FlagSet ==
  ASSUME NEW f \in [Customer -> BOOLEAN], NEW c \in Customer, NEW b \in BOOLEAN
  PROVE  [f EXCEPT ![c] = b] \in [Customer -> BOOLEAN]
  OBVIOUS

LEMMA QueueSet ==
  ASSUME NEW c \in Customer, NEW q \in Seq(Packet), packets \in [Customer -> Seq(Packet)]
  PROVE  [packets EXCEPT ![c] = q] \in [Customer -> Seq(Packet)]
  OBVIOUS

(* What is written to the variables of the connector by an event.          *)
LEMMA EventTypes ==
  ASSUME ConnectorOK, NEW c \in Customer, NEW e, NEW left \in Seq(Packet), Event(c, e, left)
  PROVE  /\ state' \in [Customer -> States] /\ leaving' \in [Customer -> BOOLEAN]
         /\ asked' \in [Customer -> BOOLEAN] /\ packets' \in [Customer -> Seq(Packet)]
<1> DEFINE h == Handles(state[c], leaving[c], e)
<1>1. h \in Handled
  BY HandlesType DEF ConnectorOK
<1>2. state' = [state EXCEPT ![c] = h.state] /\ leaving' = [leaving EXCEPT ![c] = h.leaving]
  BY DEF Event, Goto, Leaving
<1>3. packets' = [packets EXCEPT ![c] = IF h.state = "CLOSED" THEN Unheard(left)
                                        ELSE left \o [i \in DOMAIN h.sends |-> Sent(h.sends[i])]]
  BY DEF Event, Unheard
<1>4. asked' = [asked EXCEPT ![c] = (asked[c] \/ (e = "disconnect" /\ state[c] # "CLOSED"))
                                       /\ ~ h.reports /\ h.state # "CLOSED"]
  BY DEF Event, ConnectorOK
<1> HIDE DEF h
<1>5. h.state \in States /\ h.leaving \in BOOLEAN /\ h.sends \in Kinds
  BY <1>1 DEF Handled
<1>6. state' \in [Customer -> States] /\ leaving' \in [Customer -> BOOLEAN]
  BY <1>2, <1>5 DEF ConnectorOK
<1>7. asked' \in [Customer -> BOOLEAN]
  BY <1>4, FlagSet DEF ConnectorOK
<1>8. packets' \in [Customer -> Seq(Packet)]
  <2>1. Unheard(left) \in Seq(Packet) /\ left \o [i \in DOMAIN h.sends |-> Sent(h.sends[i])] \in Seq(Packet)
    BY <1>5, UnheardType, SentType, ConcatProperties
  <2> QED  BY <1>3, <2>1, QueueSet DEF ConnectorOK
<1> QED  BY <1>6, <1>7, <1>8

LEMMA ConnectorStepTypes ==
  ASSUME ConnectorOK, NEW c \in Customer,
         Connect(c) \/ Disconnect(c) \/ Shutdown(c) \/ Create(c) \/ CustomerRestarts(c) \/ Timer(c) \/ DataAnswered(c)
  PROVE  ConnectorOK'
<1>1. packets[c] \in Seq(Packet) /\ smooth[c] \in BOOLEAN /\ TRUE \in BOOLEAN /\ FALSE \in BOOLEAN
  BY DEF ConnectorOK
<1>2. ASSUME NEW e, Event(c, e, packets[c]), smooth' \in [Customer -> BOOLEAN]
      PROVE  ConnectorOK'
  BY <1>1, <1>2, EventTypes DEF ConnectorOK
<1>3. smooth \in [Customer -> BOOLEAN] /\ [smooth EXCEPT ![c] = FALSE] \in [Customer -> BOOLEAN]
  BY <1>1, FlagSet DEF ConnectorOK
<1>4. CASE Connect(c) \/ Disconnect(c)
  BY <1>2, <1>3, <1>4 DEF Connect, Disconnect
<1>5. CASE Shutdown(c)
  <2>1. smooth' = [smooth EXCEPT ![c] = smooth[c] /\ packets[c] = <<>>]
    BY <1>5 DEF Shutdown, ConnectorOK
  <2>2. smooth' \in [Customer -> BOOLEAN]
    BY <2>1, FlagSet DEF ConnectorOK
  <2> QED  BY <1>2, <1>5, <2>2 DEF Shutdown
<1>6. CASE Create(c)
  <2>1. "DISCONNECTED" \in States
    BY DEF States
  <2> QED  BY <1>1, <1>6, <2>1 DEF Create, Goto, Leaving, ConnectorOK
<1>7. CASE CustomerRestarts(c)
  <2>1. "DISCONNECTED" \in States
    BY DEF States
  <2>2. packets' = [packets EXCEPT ![c] = Unheard(packets[c])]
    BY <1>7 DEF CustomerRestarts, Unheard, ConnectorOK
  <2>3. packets' \in [Customer -> Seq(Packet)]
    BY <1>1, <2>2, UnheardType, QueueSet DEF ConnectorOK
  <2>4. smooth' \in [Customer -> BOOLEAN]
    BY <1>3, <1>7 DEF CustomerRestarts, Rough
  <2>5. /\ state' = [state EXCEPT ![c] = "DISCONNECTED"] /\ leaving' = [leaving EXCEPT ![c] = FALSE]
        /\ asked' = [asked EXCEPT ![c] = FALSE]
    BY <1>7 DEF CustomerRestarts, Goto, Leaving, NotAsked
  <2> QED  BY <1>1, <2>1, <2>3, <2>4, <2>5, FlagSet DEF ConnectorOK
<1>8. CASE Timer(c)
  BY <1>2, <1>3, <1>8 DEF Timer, Rough
<1>9. CASE DataAnswered(c)
  BY <1>2, <1>3, <1>9 DEF DataAnswered, Rough
<1> QED  BY <1>4, <1>5, <1>6, <1>7, <1>8, <1>9

LEMMA PacketStepTypes ==
  ASSUME ConnectorOK, NEW c \in Customer, NEW i \in DOMAIN packets[c],
         Arrives(c, i) \/ Answered(c, i) \/ Lost(c, i)
  PROVE  ConnectorOK'
<1>1. packets[c] \in Seq(Packet)
  BY DEF ConnectorOK
<1>2. RemoveAt(packets[c], i) \in Seq(Packet)
  BY <1>1, PacketsLeft
<1>3. CASE Arrives(c, i)
  <2>1. PICK a \in {"accepted", "deny", "fail", "items"} : Answer(c, i, a)
    BY <1>3 DEF Arrives
  <2>2. packets' = [packets EXCEPT ![c] = IF packets[c][i].heard THEN [packets[c] EXCEPT ![i].answer = a]
                                          ELSE RemoveAt(packets[c], i)]
    BY <2>1 DEF Answer, ConnectorOK
  <2>3. [packets[c] EXCEPT ![i].answer = a] \in Seq(Packet)
    <3> DEFINE q == packets[c]
               p == [q[i] EXCEPT !.answer = a]
    <3>1. q[i] \in Packet /\ i \in 1..Len(q)
      BY <1>1, ElementOfSeq, LenProperties
    <3>2. p \in Packet
      BY <3>1 DEF Packet
    <3>3. [q EXCEPT ![i].answer = a] = [q EXCEPT ![i] = p]
      BY <3>1
    <3>4. [q EXCEPT ![i] = p] \in Seq(Packet)
      BY <1>1, <3>1, <3>2, ExceptSeq
    <3> QED  BY <3>3, <3>4
  <2>4. packets' \in [Customer -> Seq(Packet)]
    BY <1>2, <2>2, <2>3, QueueSet DEF ConnectorOK
  <2> QED  BY <1>3, <2>4 DEF Arrives, ConnectorOK
<1>4. CASE Answered(c, i)
  <2>1. Event(c, Means(packets[c][i].answer), RemoveAt(packets[c], i)) /\ UNCHANGED smooth
    BY <1>4 DEF Answered
  <2> QED  BY <1>2, <2>1, EventTypes DEF ConnectorOK
<1>5. CASE Lost(c, i)
  <2>1. packets' = [packets EXCEPT ![c] = RemoveAt(packets[c], i)] /\ smooth' = [smooth EXCEPT ![c] = FALSE]
    BY <1>5 DEF Lost, Rough, ConnectorOK
  <2>2. packets' \in [Customer -> Seq(Packet)] /\ smooth' \in [Customer -> BOOLEAN]
    BY <1>2, <2>1, FlagSet, QueueSet DEF ConnectorOK
  <2> QED  BY <1>5, <2>2 DEF Lost, ConnectorOK
<1> QED  BY <1>3, <1>4, <1>5

LEMMA SupplierStepTypes ==
  ASSUME ConnectorOK, RejectorWorks \/ SpaceChanges \/ SupplierCrashes
  PROVE  ConnectorOK'
<1>1. CASE RejectorWorks
  <2>1. smooth' = [c \in Customer |-> smooth[c] /\ (customers' = customers /\ quotas' = quotas)]
    BY <1>1 DEF RejectorWorks
  <2>2. smooth' \in [Customer -> BOOLEAN]
    BY <2>1
  <2> QED  BY <1>1, <2>2 DEF RejectorWorks, ConnectorOK
<1>2. CASE SpaceChanges
  BY <1>2 DEF SpaceChanges, connector, ConnectorOK
<1>3. CASE SupplierCrashes
  <2>1. packets' \in [Customer -> Seq(Packet)]
    <3>1. CASE UNCHANGED packets
      BY <3>1 DEF ConnectorOK
    <3>2. CASE \E c \in Customer : \E i \in DOMAIN packets[c] : packets' = [packets EXCEPT ![c] = RemoveAt(packets[c], i)]
      <4>1. PICK c \in Customer : \E i \in DOMAIN packets[c] : packets' = [packets EXCEPT ![c] = RemoveAt(packets[c], i)]
        BY <3>2
      <4>2. PICK i \in DOMAIN packets[c] : packets' = [packets EXCEPT ![c] = RemoveAt(packets[c], i)]
        BY <4>1
      <4>3. RemoveAt(packets[c], i) \in Seq(Packet)
        BY PacketsLeft DEF ConnectorOK
      <4> QED  BY <4>2, <4>3, QueueSet DEF ConnectorOK
    <3> QED  BY <1>3, <3>1, <3>2 DEF SupplierCrashes, ConnectorOK
  <2>2. smooth' \in [Customer -> BOOLEAN]
    BY <1>3 DEF SupplierCrashes
  <2> QED  BY <1>3, <2>1, <2>2 DEF SupplierCrashes, ConnectorOK
<1> QED  BY <1>1, <1>2, <1>3

LEMMA SpaceStep ==
  ASSUME SpaceOK, ConnectorOK, [Next]_vars
  PROVE  SpaceOK'
<1>1. ASSUME UNCHANGED space
      PROVE  SpaceOK'
  BY <1>1 DEF SpaceOK, SpaceConserved, space
<1>2. CASE UNCHANGED vars
  BY <1>1, <1>2 DEF vars
<1>3. CASE \E c \in Customer :
             \/ Connect(c) \/ Disconnect(c) \/ Shutdown(c) \/ Create(c) \/ CustomerRestarts(c)
             \/ Timer(c) \/ DataAnswered(c)
             \/ \E i \in DOMAIN packets[c] : Answered(c, i) \/ Lost(c, i)
  BY <1>1, <1>3 DEF Connect, Disconnect, Shutdown, Create, CustomerRestarts, Timer, DataAnswered, Answered, Lost
<1>4. CASE \E c \in Customer : \E i \in DOMAIN packets[c] : Arrives(c, i)
  <2>1. PICK c \in Customer : \E i \in DOMAIN packets[c] : Arrives(c, i)
    BY <1>4
  <2>2. PICK i \in DOMAIN packets[c] : Arrives(c, i)
    BY <2>1
  <2>3. packets[c][i] \in Packet
    BY ElementOfSeq, LenProperties DEF ConnectorOK
  <2>4. packets[c][i].kind \in {"request", "cancel", "queue"}
    BY <2>3 DEF Packet
  <2>5. (\E a : Request(c, a) \/ Terminate(c, a)) \/ UNCHANGED space
    BY <2>2, <2>4 DEF Arrives
  <2> QED  BY <1>1, <2>5, StepSpaceAnswers
<1>5. CASE RejectorWorks \/ SpaceChanges \/ SupplierCrashes
  BY <1>5, StepRejector, StepSpaceChanges, StepCrash DEF RejectorWorks, SpaceChanges, SupplierCrashes
<1> QED  BY <1>2, <1>3, <1>4, <1>5 DEF Next

InvOK == SpaceOK /\ ConnectorOK

LEMMA ContractTyped == Spec => []InvOK
<1>1. Init => InvOK
  <2>1. "DISCONNECTED" \in States
    BY DEF States
  <2> QED  BY <2>1, SpaceStarts DEF Init, InvOK, ConnectorOK
<1>2. InvOK /\ [Next]_vars => InvOK'
  <2> SUFFICES ASSUME InvOK, [Next]_vars PROVE InvOK'
    OBVIOUS
  <2>1. SpaceOK'
    BY SpaceStep DEF InvOK
  <2>2. ConnectorOK'
    <3>1. CASE UNCHANGED vars
      BY <3>1 DEF vars, connector, ConnectorOK, InvOK
    <3>2. CASE Next
      BY <3>2, ConnectorStepTypes, PacketStepTypes, SupplierStepTypes DEF Next, InvOK
    <3> QED  BY <3>1, <3>2
  <2> QED  BY <2>1, <2>2 DEF InvOK
<1> QED  BY <1>1, <1>2, PTL DEF Spec

(* The files of the supplier and the connectors of the customers are what  *)
(* request(), cancel(), customers_rejector and supplier_connector make of  *)
(* them: a file of customers and a space file that differ after a crash    *)
(* still give each customer what he needs.                                 *)
THEOREM ContractTypes == Spec => []TypeOK
<1>1. InvOK => TypeOK
  <2> SUFFICES ASSUME InvOK PROVE TypeOK
    OBVIOUS
  <2>1. PICK S \in SUBSET Customer : quotas = Quota(S)
    BY DEF InvOK, SpaceOK, Quotas
  <2>2. DOMAIN quotas \subseteq Customer /\ \A c \in DOMAIN quotas : quotas[c] = Needed[c]
    BY <2>1, QuotaParts
  <2> QED  BY <2>2 DEF InvOK, SpaceOK, ConnectorOK, TypeOK, Packet
<1> QED  BY <1>1, ContractTyped, PTL

(* request() and cancel() of service_supplier and customers_rejector give, *)
(* take back and count anew: whatever happens between their steps, what is *)
(* given to customers and what is free add up to a value of donated-space. *)
THEOREM ContractSpace == Spec => []SpaceConserved
<1>1. InvOK => SpaceConserved
  BY DEF InvOK, SpaceOK
<1> QED  BY <1>1, ContractTyped, PTL

-----------------------------------------------------------------------------
(* As long as nothing is lost or late, a customer has at most one packet,  *)
(* its connector waits for the answer to it, and what the supplier has     *)
(* done by then is what the answer will say.                               *)

Asking(kind, answer) == [kind |-> kind, answer |-> answer, heard |-> TRUE]
One(c, kind, answers) == \E a \in answers : packets[c] = <<Asking(kind, a)>>

Requesting(c) ==
  \/ packets[c] = <<>> /\ leaving[c] = TRUE /\ c \notin customers
  \/ One(c, "request", {"none"})
  \/ One(c, "request", {"accepted"}) /\ c \in customers
  \/ One(c, "request", {"deny"}) /\ c \notin customers

Refusing(c) ==
  \/ One(c, "cancel", {"none"})
  \/ One(c, "cancel", {"accepted", "fail"}) /\ c \notin customers

InStep(c) ==
  /\ (c \in customers) <=> (c \in DOMAIN quotas)
  /\ state[c] = "REQUEST" => Requesting(c)
  /\ state[c] = "REFUSE" => Refusing(c)
  /\ state[c] = "QUEUE?" => One(c, "queue", {"none", "items"}) /\ c \in customers
  /\ state[c] = "CONNECTED" => packets[c] = <<>> /\ c \in customers
  /\ state[c] = "NO_SERVICE" => packets[c] = <<>> /\ c \notin customers
  /\ state[c] \in {"DISCONNECTED", "CLOSED"} => packets[c] = <<>>

InSteps == \A c \in Customer : smooth[c] => InStep(c)

SameContract(c) ==
  /\ (c \in customers') <=> (c \in customers)
  /\ (c \in DOMAIN quotas') <=> (c \in DOMAIN quotas)

SameConnector(c) == state'[c] = state[c] /\ leaving'[c] = leaving[c] /\ packets'[c] = packets[c]

LEMMA Untouched ==
  ASSUME NEW c \in Customer, InStep(c), SameConnector(c), SameContract(c)
  PROVE  InStep(c)'
  BY DEF InStep, Requesting, Refusing, One, SameConnector, SameContract

LEMMA SentIs ==
  /\ \A k : Sent(k) = Asking(k, "none")
  /\ \A k \in {"request", "cancel", "queue"} : \A a \in {"accepted", "deny", "fail", "items"} :
       [<<Asking(k, "none")>> EXCEPT ![1].answer = a] = <<Asking(k, a)>>
<1>1. ASSUME NEW k PROVE Sent(k) = Asking(k, "none")
  BY DEF Sent, Asking
<1>2. ASSUME NEW k \in {"request", "cancel", "queue"}, NEW a \in {"accepted", "deny", "fail", "items"}
      PROVE  [<<Asking(k, "none")>> EXCEPT ![1].answer = a] = <<Asking(k, a)>>
  <2> DEFINE b == Asking(k, "none")
             e == [b EXCEPT !.answer = a]
  <2>1. b \in Packet /\ b.kind = k /\ b.heard = TRUE
    BY DEF Asking, Packet
  <2> HIDE DEF b
  <2>2. e \in Packet /\ e.kind = b.kind /\ e.heard = b.heard /\ e.answer = a
    BY <2>1 DEF Packet
  <2>3. [<<b>> EXCEPT ![1].answer = a] = <<e>>
    OBVIOUS
  <2> HIDE DEF e
  <2>4. e = [kind |-> k, answer |-> a, heard |-> TRUE]
    BY <2>1, <2>2 DEF Packet
  <2> QED  BY <2>3, <2>4 DEF Asking, b
<1> QED  BY <1>1, <1>2

(* An event when the connector has no other packet.                        *)
LEMMA EventAlone ==
  ASSUME ConnectorOK, NEW c \in Customer, NEW e, Event(c, e, <<>>)
  PROVE  LET h == Handles(state[c], leaving[c], e)
         IN  /\ state'[c] = h.state /\ leaving'[c] = h.leaving
             /\ h.sends = <<>> => packets'[c] = <<>>
             /\ \A k : h.sends = <<k>> /\ h.state # "CLOSED" => packets'[c] = <<Asking(k, "none")>>
             /\ \A d \in Customer \ {c} : SameConnector(d)
<1> DEFINE h == Handles(state[c], leaving[c], e)
<1>1. state' = [state EXCEPT ![c] = h.state] /\ leaving' = [leaving EXCEPT ![c] = h.leaving]
  BY DEF Event, Goto, Leaving
<1>2. packets' = [packets EXCEPT ![c] = IF h.state = "CLOSED" THEN Unheard(<<>>)
                                        ELSE <<>> \o [i \in DOMAIN h.sends |-> Sent(h.sends[i])]]
  BY DEF Event, Unheard
<1>3. h.sends \in Kinds
  BY HandlesType DEF ConnectorOK, Handled
<1> HIDE DEF h
<1>4. Unheard(<<>>) = <<>>
  BY DEF Unheard
<1>5. <<>> \o [i \in DOMAIN h.sends |-> Sent(h.sends[i])] = [i \in DOMAIN h.sends |-> Sent(h.sends[i])]
  BY <1>3, SentType, ConcatEmptySeq
<1>6. h.sends = <<>> => [i \in DOMAIN h.sends |-> Sent(h.sends[i])] = <<>>
  OBVIOUS
<1>7. ASSUME NEW k, h.sends = <<k>>
      PROVE  [i \in DOMAIN h.sends |-> Sent(h.sends[i])] = <<Asking(k, "none")>>
  BY <1>7, SentIs
<1>8. packets'[c] = IF h.state = "CLOSED" THEN <<>> ELSE [i \in DOMAIN h.sends |-> Sent(h.sends[i])]
  BY <1>2, <1>4, <1>5 DEF ConnectorOK
<1>9. state'[c] = h.state /\ leaving'[c] = h.leaving
  BY <1>1 DEF ConnectorOK
<1>10. \A d \in Customer \ {c} : SameConnector(d)
  BY <1>1, <1>2 DEF ConnectorOK, SameConnector
<1>11. h.sends = <<>> => packets'[c] = <<>>
  BY <1>6, <1>8
<1>12. \A k : h.sends = <<k>> /\ h.state # "CLOSED" => packets'[c] = <<Asking(k, "none")>>
  BY <1>7, <1>8
<1> QED  BY <1>9, <1>10, <1>11, <1>12 DEF h

(* Of two customers one alone is changed by an event of the other.         *)
LEMMA EventOthers ==
  ASSUME ConnectorOK, NEW c \in Customer, NEW e, NEW left, Event(c, e, left), NEW d \in Customer, d # c
  PROVE  SameConnector(d)
  BY DEF Event, Goto, Leaving, ConnectorOK, SameConnector

(* What the supplier does for a customer concerns only that one.           *)
LEMMA RequestOthers ==
  ASSUME NEW c \in Customer, NEW a, Request(c, a) \/ Terminate(c, a), NEW d \in Customer, d # c
  PROVE  SameContract(d)
<1>1. CASE UNCHANGED space
  BY <1>1 DEF SameContract, space
<1>2. CASE Accept(c)
  BY <1>2 DEF Accept, Save, SameContract
<1>3. CASE Deny(c)
  BY <1>3 DEF Deny, Save, SameContract, Without
<1>4. CASE Cancel(c)
  BY <1>4 DEF Cancel, Save, SameContract, Without
<1> QED  BY <1>1, <1>2, <1>3, <1>4 DEF Request, Terminate

(* What an answer says of the contract of the one who asks.                *)
LEMMA AnswerSays ==
  ASSUME NEW c \in Customer, NEW a, (c \in customers) <=> (c \in DOMAIN quotas)
  PROVE  /\ Request(c, a) => \/ a = "accepted" /\ c \in customers' /\ c \in DOMAIN quotas'
                             \/ a = "deny" /\ c \notin customers' /\ c \notin DOMAIN quotas'
         /\ Terminate(c, a) => a \in {"accepted", "fail"} /\ c \notin customers' /\ c \notin DOMAIN quotas'
<1>1. ~ Broken(c)
  BY DEF Broken
<1>2. Accept(c) => c \in customers' /\ c \in DOMAIN quotas'
  BY DEF Accept, Save
<1>3. Deny(c) => c \notin customers' /\ c \notin DOMAIN quotas'
  BY DEF Deny, Save, Without
<1>4. Cancel(c) => c \notin customers' /\ c \notin DOMAIN quotas'
  BY DEF Cancel, Save, Without
<1>5. ~ (c \in customers /\ c \in DOMAIN quotas) /\ UNCHANGED space => c \notin customers' /\ c \notin DOMAIN quotas'
  BY DEF space
<1> QED  BY <1>1, <1>2, <1>3, <1>4, <1>5 DEF Request, Terminate

LEMMA ConnectInStep ==
  ASSUME ConnectorOK, NEW c \in Customer, InStep(c), Connect(c)
  PROVE  InStep(c)'
<1>1. Matters(c, "connect") /\ Event(c, "connect", packets[c]) /\ UNCHANGED space
  BY DEF Connect
<1>2. state[c] \in States /\ leaving[c] \in BOOLEAN
  BY DEF ConnectorOK
<1>3. state[c] \in {"NO_SERVICE", "CONNECTED", "DISCONNECTED"}
  BY <1>1, <1>2 DEF Matters, Handles, States, To
<1>4. packets[c] = <<>>
  BY <1>3 DEF InStep
<1>5. Handles(state[c], leaving[c], "connect") = To("REQUEST", FALSE, <<"request">>, FALSE)
  BY <1>3 DEF Handles
<1>6. state'[c] = "REQUEST" /\ packets'[c] = <<Asking("request", "none")>>
  BY <1>1, <1>4, <1>5, EventAlone DEF To
<1> QED  BY <1>1, <1>6 DEF InStep, Requesting, One, space

LEMMA ShutdownInStep ==
  ASSUME ConnectorOK, NEW c \in Customer, InStep(c), Shutdown(c), smooth'[c]
  PROVE  InStep(c)'
<1>1. Matters(c, "shutdown") /\ Event(c, "shutdown", packets[c]) /\ UNCHANGED space
  BY DEF Shutdown
<1>2. state[c] \in States /\ leaving[c] \in BOOLEAN
  BY DEF ConnectorOK
<1>3. packets[c] = <<>>
  BY DEF Shutdown, ConnectorOK
<1>4. state[c] \in {"NO_SERVICE", "DISCONNECTED", "REQUEST", "REFUSE"}
  BY <1>1, <1>2 DEF Matters, Handles, States, To
<1>5. Handles(state[c], leaving[c], "shutdown") = To("CLOSED", leaving[c], <<>>, FALSE)
  BY <1>4 DEF Handles
<1>6. state'[c] = "CLOSED" /\ packets'[c] = <<>>
  BY <1>1, <1>3, <1>5, EventAlone DEF To
<1> QED  BY <1>1, <1>6 DEF InStep, space

LEMMA CreateInStep ==
  ASSUME ConnectorOK, NEW c \in Customer, InStep(c), Create(c)
  PROVE  InStep(c)'
<1>1. state[c] = "CLOSED" /\ state'[c] = "DISCONNECTED" /\ packets' = packets /\ UNCHANGED space
  BY DEF Create, Goto, ConnectorOK
<1> QED  BY <1>1 DEF InStep, space

(* A connector that is told to disconnect while it waits remembers it.     *)
LEMMA DisconnectInStep ==
  ASSUME ConnectorOK, NEW c \in Customer, InStep(c), Disconnect(c)
  PROVE  InStep(c)'
<1>1. state[c] # "CLOSED" /\ Event(c, "disconnect", packets[c]) /\ UNCHANGED space
  BY DEF Disconnect
<1>2. state[c] \in States /\ leaving[c] \in BOOLEAN /\ packets[c] \in Seq(Packet)
  BY DEF ConnectorOK
<1>3. CASE state[c] = "NO_SERVICE"
  <2>1. Handles(state[c], leaving[c], "disconnect") = To("NO_SERVICE", leaving[c], <<>>, TRUE) /\ packets[c] = <<>>
    BY <1>3 DEF Handles, InStep
  <2>2. state'[c] = "NO_SERVICE" /\ packets'[c] = <<>>
    BY <1>1, <2>1, EventAlone DEF To
  <2> QED  BY <1>1, <1>3, <2>2 DEF InStep, space
<1>4. CASE state[c] \in {"CONNECTED", "DISCONNECTED"}
  <2>1. Handles(state[c], leaving[c], "disconnect") = To("REFUSE", leaving[c], <<"cancel">>, FALSE) /\ packets[c] = <<>>
    BY <1>4 DEF Handles, InStep
  <2>2. state'[c] = "REFUSE" /\ packets'[c] = <<Asking("cancel", "none")>>
    BY <1>1, <2>1, EventAlone DEF To
  <2> QED  BY <1>1, <2>2 DEF InStep, Refusing, One, space
<1>5. CASE state[c] \in {"REQUEST", "REFUSE", "QUEUE?"}
  <2>1. /\ Handles(state[c], leaving[c], "disconnect").state = state[c]
        /\ Handles(state[c], leaving[c], "disconnect").sends = <<>>
        /\ Handles(state[c], leaving[c], "disconnect").leaving \in {TRUE, leaving[c]}
    BY <1>5 DEF Handles, To
  <2>2. state' = [state EXCEPT ![c] = state[c]] /\ leaving'[c] \in {TRUE, leaving[c]}
    BY <1>1, <2>1 DEF Event, Goto, Leaving, ConnectorOK
  <2>3. packets' = [packets EXCEPT ![c] = packets[c] \o [i \in DOMAIN <<>> |-> Sent(<<>>[i])]]
    BY <1>1, <1>5, <2>1 DEF Event
  <2>4. packets[c] \o [i \in DOMAIN <<>> |-> Sent(<<>>[i])] = packets[c]
    BY <1>2, ConcatEmptySeq
  <2>5. state'[c] = state[c] /\ packets'[c] = packets[c] /\ (leaving[c] = TRUE => leaving'[c] = TRUE)
    BY <2>2, <2>3, <2>4 DEF ConnectorOK
  <2> QED  BY <1>1, <1>5, <2>5 DEF InStep, Requesting, Refusing, One, space
<1> QED  BY <1>1, <1>2, <1>3, <1>4, <1>5 DEF States

(* What waits for an answer is the only packet.                            *)
LEMMA OnlyOne ==
  ASSUME ConnectorOK, NEW c \in Customer, InStep(c), NEW i \in DOMAIN packets[c]
  PROVE  /\ i = 1
         /\ \/ state[c] = "REQUEST" /\ \/ One(c, "request", {"none"})
                                       \/ One(c, "request", {"accepted"}) /\ c \in customers
                                       \/ One(c, "request", {"deny"}) /\ c \notin customers
            \/ state[c] = "REFUSE" /\ Refusing(c)
            \/ state[c] = "QUEUE?" /\ One(c, "queue", {"none", "items"}) /\ c \in customers
<1>1. packets[c] # <<>> /\ state[c] \in States
  BY DEF ConnectorOK
<1>2. ASSUME NEW k, NEW A, One(c, k, A)
      PROVE  i = 1
  BY <1>2 DEF One
<1> QED  BY <1>1, <1>2 DEF InStep, Requesting, Refusing, States

LEMMA ArrivesInStep ==
  ASSUME ConnectorOK, NEW c \in Customer, InStep(c), NEW i \in DOMAIN packets[c], Arrives(c, i)
  PROVE  InStep(c)'
<1>1. PICK a \in {"accepted", "deny", "fail", "items"} :
        /\ Answer(c, i, a)
        /\ CASE packets[c][i].kind = "request" -> Request(c, a)
             [] packets[c][i].kind = "cancel" -> Terminate(c, a)
             [] packets[c][i].kind = "queue" -> a = "items" /\ UNCHANGED space
  BY DEF Arrives
<1>2. packets[c][1].answer = "none" /\ state' = state /\ leaving' = leaving
  BY OnlyOne DEF Arrives
<1>3. ASSUME NEW k \in {"request", "cancel", "queue"}, NEW A, One(c, k, A)
      PROVE  packets[c][1].kind = k /\ packets'[c] = <<Asking(k, a)>> /\ packets[c] = <<Asking(k, "none")>>
  <2>1. packets[c] = <<Asking(k, "none")>>
    <3>1. PICK b \in A : packets[c] = <<Asking(k, b)>>
      BY <1>3 DEF One
    <3>2. packets[c][1].answer = b
      BY <3>1 DEF Asking
    <3> QED  BY <1>2, <3>1, <3>2
  <2>2. packets[c][1].heard = TRUE /\ packets[c][1].kind = k
    BY <2>1 DEF Asking
  <2>3. packets'[c] = [packets[c] EXCEPT ![1].answer = a]
    BY <1>1, <2>2, OnlyOne DEF Answer, ConnectorOK
  <2>4. [<<Asking(k, "none")>> EXCEPT ![1].answer = a] = <<Asking(k, a)>>
    BY SentIs
  <2>5. packets'[c] = <<Asking(k, a)>>
    BY <2>1, <2>3, <2>4, Zenon
  <2> QED  BY <2>1, <2>2, <2>5, Zenon
<1>4. CASE state[c] = "REQUEST"
  <2>1. One(c, "request", {"none"}) \/ One(c, "request", {"accepted"}) \/ One(c, "request", {"deny"})
    BY <1>4, OnlyOne
  <2>2. packets[c][1].kind = "request" /\ packets'[c] = <<Asking("request", a)>>
    BY <1>3, <2>1
  <2>3. Request(c, a)
    BY <1>1, <2>2, OnlyOne
  <2>4. \/ a = "accepted" /\ c \in customers' /\ c \in DOMAIN quotas'
        \/ a = "deny" /\ c \notin customers' /\ c \notin DOMAIN quotas'
    BY <2>3, AnswerSays DEF InStep
  <2> QED  BY <1>2, <1>4, <2>2, <2>4 DEF InStep, Requesting, One
<1>5. CASE state[c] = "REFUSE"
  <2>1. One(c, "cancel", {"none"}) \/ One(c, "cancel", {"accepted", "fail"})
    BY <1>5, OnlyOne DEF Refusing
  <2>2. packets[c][1].kind = "cancel" /\ packets'[c] = <<Asking("cancel", a)>>
    BY <1>3, <2>1
  <2>3. Terminate(c, a)
    BY <1>1, <2>2, OnlyOne
  <2>4. a \in {"accepted", "fail"} /\ c \notin customers' /\ c \notin DOMAIN quotas'
    BY <2>3, AnswerSays DEF InStep
  <2> QED  BY <1>2, <1>5, <2>2, <2>4 DEF InStep, Refusing, One
<1>6. CASE state[c] = "QUEUE?"
  <2>1. One(c, "queue", {"none", "items"}) /\ c \in customers
    BY <1>6, OnlyOne
  <2>2. packets[c][1].kind = "queue" /\ packets'[c] = <<Asking("queue", a)>>
    BY <1>3, <2>1
  <2>3. a = "items" /\ UNCHANGED space
    BY <1>1, <2>2, OnlyOne
  <2> QED  BY <1>2, <1>6, <2>1, <2>2, <2>3 DEF InStep, One, space
<1> QED  BY <1>4, <1>5, <1>6, OnlyOne

LEMMA AnsweredInStep ==
  ASSUME ConnectorOK, NEW c \in Customer, InStep(c), NEW i \in DOMAIN packets[c], Answered(c, i)
  PROVE  InStep(c)'
<1>1. /\ packets[c][1].answer # "none" /\ UNCHANGED space /\ i = 1
      /\ Event(c, Means(packets[c][1].answer), RemoveAt(packets[c], 1))
  BY OnlyOne DEF Answered
<1>2. leaving[c] \in BOOLEAN /\ packets[c] \in Seq(Packet)
  BY DEF ConnectorOK
<1>3. RemoveAt(packets[c], 1) = <<>>
  <2>1. Len(packets[c]) = 1
    BY OnlyOne DEF One, Refusing
  <2>2. RemoveAt(packets[c], 1) \in Seq(Packet) /\ Len(RemoveAt(packets[c], 1)) = 1 - 1
    BY <1>1, <1>2, <2>1, PacketsLeft
  <2> QED  BY <2>2, EmptySeq
<1> DEFINE e == Means(packets[c][1].answer)
<1>4. Event(c, e, <<>>)
  BY <1>1, <1>3
<1>5. ASSUME NEW k, NEW A, One(c, k, A)
      PROVE  packets[c][1].answer \in A /\ packets[c][1].answer # "none"
  BY <1>1, <1>5 DEF One, Asking
<1> HIDE DEF e
<1>6. CASE state[c] = "REQUEST"
  <2>1. CASE e = "accepted" /\ c \in customers /\ leaving[c] = TRUE
    <3>1. Handles(state[c], leaving[c], e) = To("REFUSE", leaving[c], <<"cancel">>, FALSE)
      BY <1>6, <2>1 DEF Handles, AcceptedLeaving
    <3>2. state'[c] = "REFUSE" /\ packets'[c] = <<Asking("cancel", "none")>>
      BY <1>4, <3>1, EventAlone DEF To
    <3> QED  BY <1>1, <3>2 DEF InStep, Refusing, One, space
  <2>2. CASE e = "accepted" /\ c \in customers /\ leaving[c] = FALSE
    <3>1. Handles(state[c], leaving[c], e) = To("QUEUE?", leaving[c], <<"queue">>, FALSE)
      BY <1>6, <2>2 DEF Handles
    <3>2. state'[c] = "QUEUE?" /\ packets'[c] = <<Asking("queue", "none")>>
      BY <1>4, <3>1, EventAlone DEF To
    <3> QED  BY <1>1, <2>2, <3>2 DEF InStep, One, space
  <2>3. CASE e = "other" /\ c \notin customers /\ leaving[c] = TRUE
    <3>1. Handles(state[c], leaving[c], e) = To("REQUEST", leaving[c], <<>>, FALSE)
      BY <1>6, <2>3 DEF Handles
    <3>2. state'[c] = "REQUEST" /\ packets'[c] = <<>> /\ leaving'[c] = leaving[c]
      BY <1>4, <3>1, EventAlone DEF To
    <3> QED  BY <1>1, <2>3, <3>2 DEF InStep, Requesting, space
  <2>4. CASE e = "other" /\ c \notin customers /\ leaving[c] = FALSE
    <3>1. Handles(state[c], leaving[c], e) = To("NO_SERVICE", leaving[c], <<>>, TRUE)
      BY <1>6, <2>4 DEF Handles
    <3>2. state'[c] = "NO_SERVICE" /\ packets'[c] = <<>>
      BY <1>4, <3>1, EventAlone DEF To
    <3> QED  BY <1>1, <2>4, <3>2 DEF InStep, space
  <2>5. \/ packets[c][1].answer = "accepted" /\ c \in customers
        \/ packets[c][1].answer = "deny" /\ c \notin customers
    BY <1>5, <1>6, OnlyOne
  <2>6. (e = "accepted" /\ c \in customers) \/ (e = "other" /\ c \notin customers)
    BY <2>5 DEF e, Means
  <2> QED  BY <1>2, <2>1, <2>2, <2>3, <2>4, <2>6
<1>7. CASE state[c] = "REFUSE"
  <2>1. packets[c][1].answer \in {"accepted", "fail"} /\ c \notin customers
    BY <1>5, <1>7, OnlyOne DEF Refusing
  <2>2. e \in {"accepted", "fail"}
    BY <2>1 DEF e, Means
  <2>3. Handles(state[c], leaving[c], e) = To("NO_SERVICE", leaving[c], <<>>, TRUE)
    BY <1>7, <2>2 DEF Handles
  <2>4. state'[c] = "NO_SERVICE" /\ packets'[c] = <<>>
    BY <1>4, <2>3, EventAlone DEF To
  <2> QED  BY <1>1, <2>1, <2>4 DEF InStep, space
<1>8. CASE state[c] = "QUEUE?"
  <2>1. packets[c][1].answer = "items" /\ c \in customers
    BY <1>5, <1>8, OnlyOne
  <2>2. e = "other"
    BY <2>1 DEF e, Means
  <2>3. CASE leaving[c] = TRUE
    <3>1. Handles(state[c], leaving[c], e) = To("REFUSE", leaving[c], <<"cancel">>, FALSE)
      BY <1>8, <2>2, <2>3 DEF Handles
    <3>2. state'[c] = "REFUSE" /\ packets'[c] = <<Asking("cancel", "none")>>
      BY <1>4, <3>1, EventAlone DEF To
    <3> QED  BY <1>1, <3>2 DEF InStep, Refusing, One, space
  <2>4. CASE leaving[c] = FALSE
    <3>1. Handles(state[c], leaving[c], e) = To("CONNECTED", leaving[c], <<>>, TRUE)
      BY <1>8, <2>2, <2>4 DEF Handles
    <3>2. state'[c] = "CONNECTED" /\ packets'[c] = <<>>
      BY <1>4, <3>1, EventAlone DEF To
    <3> QED  BY <1>1, <2>1, <3>2 DEF InStep, space
  <2> QED  BY <1>2, <2>3, <2>4
<1> QED  BY <1>6, <1>7, <1>8, OnlyOne

LEMMA InStepsNext ==
  ASSUME ConnectorOK, InSteps, [Next]_vars
  PROVE  InSteps'
<1>1. SUFFICES ASSUME NEW d \in Customer, smooth'[d] PROVE InStep(d)'
  BY DEF InSteps
<1>2. CASE UNCHANGED vars
  <2>1. smooth' = smooth /\ SameConnector(d) /\ SameContract(d)
    BY <1>2 DEF vars, connector, space, SameConnector, SameContract
  <2> QED  BY <1>1, <2>1, Untouched DEF InSteps
<1>3. ASSUME NEW c \in Customer,
             \/ Connect(c) \/ Disconnect(c) \/ Shutdown(c) \/ Create(c) \/ CustomerRestarts(c)
             \/ Timer(c) \/ DataAnswered(c)
      PROVE  InStep(d)'
  <2>1. UNCHANGED space
    BY <1>3 DEF Connect, Disconnect, Shutdown, Create, CustomerRestarts, Timer, DataAnswered
  <2>2. CASE d = c
    <3>1. ~ (CustomerRestarts(c) \/ Timer(c) \/ DataAnswered(c))
      BY <1>1, <2>2 DEF CustomerRestarts, Timer, DataAnswered, Rough, ConnectorOK
    <3>2. smooth[c]
      BY <1>1, <1>3, <2>2, <3>1 DEF Connect, Disconnect, Shutdown, Create, ConnectorOK
    <3> QED  BY <1>1, <1>3, <2>2, <3>1, <3>2, ConnectInStep, DisconnectInStep, ShutdownInStep, CreateInStep DEF InSteps
  <2>3. CASE d # c
    <3>1. smooth[d]
      BY <1>1, <1>3, <2>3 DEF Connect, Disconnect, Shutdown, Create, CustomerRestarts, Timer, DataAnswered, Rough, ConnectorOK
    <3>2. SameConnector(d)
      <4>1. CASE \E e : Event(c, e, packets[c])
        BY <2>3, <4>1, EventOthers
      <4>2. CASE Create(c) \/ CustomerRestarts(c)
        BY <2>3, <4>2 DEF Create, CustomerRestarts, Goto, Leaving, SameConnector, ConnectorOK
      <4> QED  BY <1>3, <4>1, <4>2 DEF Connect, Disconnect, Shutdown, Timer, DataAnswered
    <3>3. SameContract(d)
      BY <2>1 DEF space, SameContract
    <3> QED  BY <3>1, <3>2, <3>3, Untouched DEF InSteps
  <2> QED  BY <2>2, <2>3
<1>4. ASSUME NEW c \in Customer, NEW i \in DOMAIN packets[c], Arrives(c, i) \/ Answered(c, i) \/ Lost(c, i)
      PROVE  InStep(d)'
  <2>1. CASE d = c
    <3>1. ~ Lost(c, i)
      BY <1>1, <2>1 DEF Lost, Rough, ConnectorOK
    <3>2. smooth[c]
      BY <1>1, <1>4, <2>1, <3>1 DEF Arrives, Answered
    <3> QED  BY <1>4, <2>1, <3>1, <3>2, ArrivesInStep, AnsweredInStep DEF InSteps
  <2>2. CASE d # c
    <3>1. smooth[d]
      BY <1>1, <1>4, <2>2 DEF Arrives, Answered, Lost, Rough, ConnectorOK
    <3>2. SameConnector(d)
      <4>1. CASE Arrives(c, i) \/ Lost(c, i)
        BY <2>2, <4>1 DEF Arrives, Answer, Lost, SameConnector, ConnectorOK
      <4>2. CASE Answered(c, i)
        BY <2>2, <4>2, EventOthers DEF Answered
      <4> QED  BY <1>4, <4>1, <4>2
    <3>3. SameContract(d)
      <4>1. CASE UNCHANGED space
        BY <4>1 DEF space, SameContract
      <4>2. CASE \E a : Request(c, a) \/ Terminate(c, a)
        BY <2>2, <4>2, RequestOthers
      <4>3. packets[c][i] \in Packet
        BY ElementOfSeq, LenProperties DEF ConnectorOK
      <4>4. packets[c][i].kind \in {"request", "cancel", "queue"}
        BY <4>3 DEF Packet
      <4> QED  BY <1>4, <4>1, <4>2, <4>4 DEF Arrives, Answered, Lost
    <3> QED  BY <3>1, <3>2, <3>3, Untouched DEF InSteps
  <2> QED  BY <2>1, <2>2
<1>5. CASE RejectorWorks
  <2>1. smooth' = [c \in Customer |-> smooth[c] /\ (customers' = customers /\ quotas' = quotas)]
    BY <1>5 DEF RejectorWorks
  <2>2. smooth[d] /\ customers' = customers /\ quotas' = quotas
    BY <1>1, <2>1
  <2>3. SameConnector(d) /\ SameContract(d)
    BY <1>5, <2>2 DEF RejectorWorks, SameConnector, SameContract
  <2> QED  BY <2>2, <2>3, Untouched DEF InSteps
<1>6. CASE SpaceChanges
  <2>1. smooth' = smooth /\ SameConnector(d) /\ SameContract(d)
    BY <1>6 DEF SpaceChanges, RestartRejector, Donate, connector, SameConnector, SameContract
  <2> QED  BY <1>1, <2>1, Untouched DEF InSteps
<1>7. CASE SupplierCrashes
  BY <1>1, <1>7 DEF SupplierCrashes
<1> QED  BY <1>2, <1>3, <1>4, <1>5, <1>6, <1>7 DEF Next

(* supplier_connector and service_supplier: a customer whose connector is  *)
(* CONNECTED, with no packet under way, has a contract, and one whose      *)
(* connector says NO_SERVICE has none, for any number of customers and of  *)
(* 'connect', 'disconnect' and 'shutdown' in any order, as long as nothing *)
(* was lost or late for it.                                                *)
THEOREM ContractAgrees == Spec => []Agrees
<1>1. Init => InSteps
  <2> SUFFICES ASSUME Init, NEW c \in Customer PROVE InStep(c)
    BY DEF InSteps
  <2>1. state[c] = "DISCONNECTED" /\ packets[c] = <<>> /\ customers = {} /\ quotas = <<>>
    BY DEF Init, SpaceInit
  <2> QED  BY <2>1 DEF InStep
<1>2. InvOK /\ InSteps /\ [Next]_vars => InSteps'
  BY InStepsNext DEF InvOK
<1>3. InSteps => Agrees
  BY DEF InSteps, InStep, Agrees
<1> QED  BY <1>1, <1>2, <1>3, ContractTyped, PTL DEF Spec
=============================================================================
