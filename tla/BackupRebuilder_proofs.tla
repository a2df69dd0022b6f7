------------------------ MODULE BackupRebuilder_proofs ------------------------
(***************************************************************************)
(* The rebuilder, for any erasure code, backups and number of processes.   *)
(*                                                                         *)
(* rebuild() and raidread() find all that can be found: their passes grow  *)
(* until nothing can be added, stay in every set that nothing can be added *)
(* to, and are as many as are needed.                                      *)
(*                                                                         *)
(* The types and the books of the rebuilder follow from IInv.  Its heart   *)
(* is the order of the messages: of the chain of calls that rebuilds a     *)
(* backup, and of the job of the user, there is one message in the queue   *)
(* or one task with the worker, and never both; so each answer meets the   *)
(* state it was asked for in.  A message counts only while it can be       *)
(* acted upon: the worker is alive and is not told to end before, or the   *)
(* message tells of a task that was done.                                  *)
(***************************************************************************)
EXTENDS BackupRebuilder, FiniteSetTheorems, SequenceTheorems, WellFoundedInduction, TLAPS

USE CodeAssumption

-----------------------------------------------------------------------------
(* Numbers, and functions that are defined from one number to the next.    *)

LEMMA Least ==
  ASSUME NEW T \in SUBSET Nat, T # {}
  PROVE  \E i \in T : \A j \in T : i <= j
<1> DEFINE Less == OpToRel(<, Nat)
<1>1. \E i \in T : \A j \in T : ~ (<<j, i>> \in Less)
  BY NatLessThanWellFounded, WFMin
<1>2. \A i, j \in Nat : j < i => <<j, i>> \in Less
  BY Zenon DEF OpToRel
<1>3. PICK R : /\ \E i \in T : \A j \in T : ~ (<<j, i>> \in R)
              /\ \A i, j \in Nat : j < i => <<j, i>> \in R
  BY <1>1, <1>2, Zenon
<1>4. PICK i \in T : \A j \in T : ~ (<<j, i>> \in R)
  BY <1>3, Zenon
<1>5. \A j \in T : ~ (j < i)
  BY <1>3, <1>4, Zenon
<1> QED  BY <1>5

LEMMA AllNumbers ==
  ASSUME NEW T \in SUBSET Nat, 0 \in T, \A n \in T : n + 1 \in T
  PROVE  T = Nat
<1>1. SUFFICES ASSUME Nat \ T # {} PROVE FALSE
  OBVIOUS
<1>2. Nat \ T \in SUBSET Nat
  OBVIOUS
<1>3. PICK m \in Nat \ T : \A j \in Nat \ T : m <= j
  BY <1>1, <1>2, Least
<1>4. m - 1 \in Nat
  BY <1>3
<1>5. m - 1 \in T
  BY <1>3, <1>4
<1>6. (m - 1) + 1 = m
  BY <1>3
<1> QED  BY <1>3, <1>5, <1>6

(* What each step keeps is kept to the end.                                *)
LEMMA Kept ==
  ASSUME NEW X, NEW N \in Nat, NEW f, f[0] \in X,
         \A n \in 1..N : f[n - 1] \in X => f[n] \in X
  PROVE  \A n \in 0..N : f[n] \in X
<1> DEFINE T == {n \in Nat : n <= N => f[n] \in X}
<1>1. 0 \in T
  OBVIOUS
<1>2. \A n \in T : n + 1 \in T
  <2>1. SUFFICES ASSUME NEW n \in T, n + 1 <= N PROVE f[n + 1] \in X
    OBVIOUS
  <2>2. n + 1 \in 1..N /\ (n + 1) - 1 = n /\ f[n] \in X
    BY <2>1
  <2> QED  BY <2>2
<1>3. T \in SUBSET Nat
  OBVIOUS
<1> HIDE DEF T
<1>4. T = Nat
  BY <1>1, <1>2, <1>3, AllNumbers
<1> QED  BY <1>4 DEF T

Iterates(f, a, N, step) == f[0] = a /\ (\A n \in 1..N : f[n] = step[n][f[n - 1]])

(* Steps can be made one after the other.                                  *)
LEMMA Iteration ==
  ASSUME NEW X, NEW a \in X, NEW N \in Nat, NEW step \in [1..N -> [X -> X]]
  PROVE  \E f \in [0..N -> X] : Iterates(f, a, N, step)
<1> DEFINE T == {n \in Nat : n <= N => \E f \in [0..n -> X] : Iterates(f, a, n, step)}
<1>1. 0 \in T
  <2>1. [i \in 0..0 |-> a] \in [0..0 -> X] /\ Iterates([i \in 0..0 |-> a], a, 0, step)
    BY DEF Iterates
  <2> QED  BY <2>1
<1>2. \A n \in T : n + 1 \in T
  <2>1. SUFFICES ASSUME NEW n \in T, n + 1 <= N
                 PROVE  \E f \in [0..(n + 1) -> X] : Iterates(f, a, n + 1, step)
    OBVIOUS
  <2>2. n \in Nat /\ n <= N
    BY <2>1
  <2>3. PICK f \in [0..n -> X] : Iterates(f, a, n, step)
    BY <2>2
  <2> DEFINE g == [i \in 0..(n + 1) |-> IF i <= n THEN f[i] ELSE step[n + 1][f[n]]]
  <2>4. step[n + 1] \in [X -> X] /\ f[n] \in X
    BY <2>1, <2>2
  <2>5. step[n + 1][f[n]] \in X
    BY <2>4
  <2>6. g \in [0..(n + 1) -> X]
    BY <2>2, <2>5
  <2>7. g[0] = a
    BY <2>2, <2>3 DEF Iterates
  <2>8. ASSUME NEW i \in 1..(n + 1) PROVE g[i] = step[i][g[i - 1]]
    <3>1. CASE i <= n
      <4>1. i \in 1..n /\ i - 1 \in 0..n /\ i \in 0..n /\ i - 1 <= n
        BY <2>2, <3>1
      <4>2. f[i] = step[i][f[i - 1]]
        BY <2>3, <4>1 DEF Iterates
      <4>3. g[i] = f[i] /\ g[i - 1] = f[i - 1]
        BY <4>1, <2>2
      <4> QED  BY <4>2, <4>3
    <3>2. CASE i = n + 1
      <4>1. g[i] = step[n + 1][f[n]] /\ g[n] = f[n] /\ i - 1 = n
        BY <2>2, <3>2
      <4> HIDE DEF g
      <4> QED  BY <4>1, <3>2
    <3> QED  BY <3>1, <3>2, <2>2
  <2> HIDE DEF g
  <2>9. Iterates(g, a, n + 1, step)
    BY <2>7, <2>8 DEF Iterates
  <2> QED  BY <2>6, <2>9
<1>3. T \in SUBSET Nat
  OBVIOUS
<1> HIDE DEF T
<1>4. T = Nat
  BY <1>1, <1>2, <1>3, AllNumbers
<1> QED  BY <1>4 DEF T

-----------------------------------------------------------------------------
(* Erasure codes.                                                          *)

LEMMA Numbers ==
  /\ Total \in Nat /\ Number = 0..Total - 1
  /\ \A k \in 1..Total : k - 1 \in Number
  /\ \A p \in Number : p \in Nat /\ p + 1 \in 1..Total /\ (p + 1) - 1 = p
<1>1. Total \in Nat
  BY FS_CardinalityType DEF Total
<1>2. Number = 0..Total - 1
  BY DEF Total
<1> QED  BY <1>1, <1>2

LEMMA Lacking1 ==
  ASSUME NEW p \in Number, NEW data
  PROVE  /\ Lacks(p, data) \subseteq Number /\ Lacks(p, data) \cap data = {}
         /\ LacksOne(p, data) <=> \E d : Lacks(p, data) = {d}
<1>1. Lacks(p, data) \subseteq Number /\ Lacks(p, data) \cap data = {}
  BY DEF Lacks
<1>2. IsFiniteSet(Lacks(p, data))
  BY <1>1, FS_Subset
<1> QED  BY <1>1, <1>2, FS_Singleton DEF LacksOne

(* What is rebuilt from some pieces is in every closed set around them.    *)
LEMMA OnePiece ==
  ASSUME NEW p \in Number, NEW parity, p \in parity, NEW data, NEW S,
         data \subseteq S, Closed(S, parity), LacksOne(p, data)
  PROVE  Lacks(p, data) \subseteq S
<1>1. PICK d : Lacks(p, data) = {d}
  BY Lacking1
<1>2. ASSUME d \notin S PROVE FALSE
  <2>1. Lacks(p, S) = {d}
    BY <1>1, <1>2 DEF Lacks
  <2>2. LacksOne(p, S)
    BY <2>1, Lacking1
  <2> QED  BY <2>2 DEF Closed
<1> QED  BY <1>1, <1>2

LEMMA Increasing ==
  ASSUME NEW N \in Nat, NEW f, \A k \in 1..N : f[k - 1] \subseteq f[k]
  PROVE  \A k \in 0..N : f[0] \subseteq f[k] /\ f[k] \subseteq f[N]
<1> DEFINE T == {n \in Nat : n <= N => \A k \in 0..n : f[k] \subseteq f[n]}
<1>1. 0 \in T
  OBVIOUS
<1>2. \A n \in T : n + 1 \in T
  <2>1. SUFFICES ASSUME NEW n \in T, n + 1 <= N, NEW k \in 0..(n + 1)
                 PROVE  f[k] \subseteq f[n + 1]
    OBVIOUS
  <2>2. n \in Nat /\ n <= N /\ n + 1 \in 1..N /\ (n + 1) - 1 = n /\ (k = n + 1 \/ k \in 0..n)
    BY <2>1
  <2>3. f[n] \subseteq f[n + 1]
    BY <2>2
  <2>4. \A i \in 0..n : f[i] \subseteq f[n]
    BY <2>2
  <2> QED  BY <2>2, <2>3, <2>4
<1>3. T \in SUBSET Nat
  OBVIOUS
<1> HIDE DEF T
<1>4. T = Nat
  BY <1>1, <1>2, <1>3, AllNumbers
<1>5. \A n \in 0..N : \A k \in 0..n : f[k] \subseteq f[n]
  BY <1>4 DEF T
<1> QED  BY <1>5

(* Passes that go on as long as they find something find everything, and   *)
(* as many as there are pieces are enough.                                 *)
LEMMA Passes ==
  ASSUME NEW data \in SUBSET Number, NEW parity \in SUBSET Number,
         NEW h \in [0..Total -> SUBSET Number], h[0] = data,
         \A k \in 1..Total : h[k - 1] \subseteq h[k],
         \A k \in 1..Total : h[k] = h[k - 1] => Closed(h[k - 1], parity),
         \A k \in 1..Total : \A S \in SUBSET Number :
            h[k - 1] \subseteq S /\ Closed(S, parity) => h[k] \subseteq S
  PROVE  h[Total] = Recoverable(data, parity)
<1> DEFINE Done(n) == Closed(h[n], parity) \/ Cardinality(h[n]) >= n
           T == {n \in Nat : n <= Total => Done(n)}
<1>1. \A n \in 0..Total : IsFiniteSet(h[n]) /\ Cardinality(h[n]) \in Nat
  BY Numbers, FS_Subset, FS_CardinalityType
<1>2. 0 \in T
  BY <1>1, Numbers
<1>3. \A n \in T : n + 1 \in T
  <2>0. SUFFICES ASSUME NEW n \in T PROVE n + 1 <= Total => Done(n + 1)
    <3> HIDE DEF Done
    <3> QED  OBVIOUS
  <2>1. SUFFICES ASSUME n + 1 <= Total PROVE Done(n + 1)
    OBVIOUS
  <2>2. /\ n \in Nat /\ n + 1 \in 1..Total /\ (n + 1) - 1 = n /\ n \in 0..Total /\ n + 1 \in 0..Total
        /\ Done(n)
    <3> HIDE DEF Done
    <3> QED  BY <2>1, Numbers
  <2>3. h[n] \subseteq h[n + 1] /\ (h[n + 1] = h[n] => Closed(h[n], parity)) /\ h[n] \in SUBSET Number
    BY <2>2
  <2>4. Closed(h[n], parity) => h[n + 1] \subseteq h[n]
    BY <2>2
  <2>5. CASE Closed(h[n], parity)
    <3>1. h[n + 1] = h[n]
      BY <2>3, <2>4, <2>5
    <3> QED  BY <3>1, <2>5
  <2>6. CASE ~ Closed(h[n], parity)
    <3>1. Cardinality(h[n]) >= n
      BY <2>2, <2>6
    <3>2. h[n + 1] # h[n]
      BY <2>3, <2>6
    <3>3. IsFiniteSet(h[n + 1]) /\ Cardinality(h[n]) \in Nat /\ Cardinality(h[n + 1]) \in Nat
      BY <1>1, <2>2
    <3>4. /\ Cardinality(h[n]) <= Cardinality(h[n + 1])
          /\ Cardinality(h[n + 1]) = Cardinality(h[n]) => h[n + 1] = h[n]
      BY <2>3, <3>3, FS_Subset
    <3> QED  BY <3>1, <3>2, <3>3, <3>4, <2>2
  <2> QED  BY <2>5, <2>6
<1>4. T \in SUBSET Nat
  OBVIOUS
<1> HIDE DEF T
<1>5. T = Nat
  BY <1>2, <1>3, <1>4, AllNumbers
<1>6. Closed(h[Total], parity) \/ Cardinality(h[Total]) >= Total
  BY <1>5, Numbers DEF T
<1>7. Closed(h[Total], parity)
  <2>1. CASE Cardinality(h[Total]) >= Total
    <3>1. h[Total] \in SUBSET Number /\ Cardinality(h[Total]) \in Nat
      BY <1>1, Numbers
    <3>2. Cardinality(h[Total]) <= Total /\ (Total = Cardinality(h[Total]) => h[Total] = Number)
      BY <3>1, FS_Subset DEF Total
    <3>3. h[Total] = Number
      BY <3>1, <3>2, <2>1, Numbers
    <3>4. \A p \in parity : ~ LacksOne(p, Number)
      <4>1. SUFFICES ASSUME NEW p \in parity PROVE ~ LacksOne(p, Number)
        OBVIOUS
      <4>2. p \in Number /\ Lacks(p, Number) = {}
        BY DEF Lacks
      <4> QED  BY <4>2, Lacking1
    <3> QED  BY <3>3, <3>4 DEF Closed
  <2> QED  BY <2>1, <1>6
<1>8. \A k \in 0..Total : data \subseteq h[k]
  BY Numbers, Increasing
<1>9. ASSUME NEW S \in SUBSET Number, data \subseteq S, Closed(S, parity)
      PROVE  h[Total] \subseteq S
  <2> DEFINE X == SUBSET S
  <2>1. h[0] \in X
    BY <1>9
  <2>2. \A k \in 1..Total : h[k - 1] \in X => h[k] \in X
    BY <1>9
  <2> HIDE DEF X
  <2>3. \A k \in 0..Total : h[k] \in X
    BY <2>1, <2>2, Kept, Numbers
  <2> QED  BY <2>3, Numbers DEF X
<1>10. data \subseteq h[Total] /\ h[Total] \in SUBSET Number
  BY <1>8, Numbers
<1> QED  BY <1>7, <1>9, <1>10 DEF Recoverable

-----------------------------------------------------------------------------
(* The loops over the pieces.                                              *)

Tried(k, had, parity) ==
  IF k - 1 \in parity /\ LacksOne(k - 1, had) THEN had \cup Lacks(k - 1, had) ELSE had
IsRound(f, data, parity) ==
  f = [k \in 0..Total |-> IF k = 0 THEN data ELSE Tried(k, f[k - 1], parity)]

LEMMA TriedTypes ==
  ASSUME NEW k \in 1..Total, NEW had \in SUBSET Number, NEW parity
  PROVE  Tried(k, had, parity) \in SUBSET Number
<1>1. k - 1 \in Number
  BY Numbers
<1>2. Lacks(k - 1, had) \subseteq Number
  BY <1>1, Lacking1
<1> QED  BY <1>2 DEF Tried

LEMMA RoundSteps ==
  ASSUME NEW data \in SUBSET Number, NEW parity \in SUBSET Number
  PROVE  \E f \in [0..Total -> SUBSET Number] :
            /\ Round(data, parity) = f[Total] /\ f[0] = data
            /\ \A k \in 1..Total : f[k] = Tried(k, f[k - 1], parity)
<1> DEFINE X == SUBSET Number
           try(k) == [had \in X |-> Tried(k, had, parity)]
           step == [k \in 1..Total |-> try(k)]
<1>1. \A k \in 1..Total : try(k) \in [X -> X]
  BY TriedTypes
<1>2. step \in [1..Total -> [X -> X]]
  <2> HIDE DEF try, X
  <2> QED  BY <1>1
<1>3. data \in X /\ Total \in Nat
  BY Numbers
<1>4. PICK g \in [0..Total -> X] : Iterates(g, data, Total, step)
  <2> HIDE DEF X, step
  <2> QED  BY <1>2, <1>3, Iteration
<1>5. ASSUME NEW k \in 0..Total
      PROVE  g[k] = IF k = 0 THEN data ELSE Tried(k, g[k - 1], parity)
  <2>1. CASE k = 0
    BY <1>4, <2>1 DEF Iterates
  <2>2. CASE k # 0
    <3>1. k \in 1..Total /\ k - 1 \in 0..Total
      BY <1>3, <2>2
    <3>2. g[k - 1] \in X /\ g[k] = step[k][g[k - 1]]
      <4> HIDE DEF X, step
      <4> QED  BY <1>4, <3>1 DEF Iterates
    <3>3. step[k] = try(k)
      BY <3>1
    <3> QED  BY <2>2, <3>2, <3>3
  <2> QED  BY <2>1, <2>2
<1>6. IsRound(g, data, parity)
  <2>1. g = [k \in 0..Total |-> g[k]]
    BY <1>4
  <2>2. [k \in 0..Total |-> g[k]] = [k \in 0..Total |-> IF k = 0 THEN data ELSE Tried(k, g[k - 1], parity)]
    BY <1>5
  <2> QED  BY <2>1, <2>2 DEF IsRound
<1> DEFINE f == CHOOSE f : IsRound(f, data, parity)
<1>7. IsRound(f, data, parity)
  BY <1>6
<1>8. Round(data, parity) = f[Total]
  BY DEF Round, IsRound, Tried
<1> HIDE DEF f
<1>9. f[0] = data /\ \A k \in 1..Total : f[k] = Tried(k, f[k - 1], parity)
  BY <1>3, <1>7 DEF IsRound
<1>10. \A k \in 0..Total : f[k] \in X
  <2> HIDE DEF X
  <2>1. f[0] \in X /\ \A k \in 1..Total : f[k - 1] \in X => f[k] \in X
    BY <1>3, <1>9, TriedTypes DEF X
  <2> QED  BY <1>3, <2>1, Kept
<1>11. f \in [0..Total -> X]
  <2>1. f = [k \in 0..Total |-> IF k = 0 THEN data ELSE Tried(k, f[k - 1], parity)]
    BY <1>7 DEF IsRound
  <2>2. \A k \in 0..Total : f[k] = IF k = 0 THEN data ELSE Tried(k, f[k - 1], parity)
    BY <1>9
  <2>3. DOMAIN f = 0..Total /\ f = [k \in DOMAIN f |-> f[k]]
    BY <2>1
  <2> HIDE DEF X
  <2> QED  BY <1>10, <2>3
<1> QED  BY <1>8, <1>9, <1>11

(* A round finds what is in every closed set, and finds nothing only when  *)
(* nothing can be found.                                                   *)
LEMMA OneRound ==
  ASSUME NEW data \in SUBSET Number, NEW parity \in SUBSET Number
  PROVE  /\ Round(data, parity) \in SUBSET Number /\ data \subseteq Round(data, parity)
         /\ Round(data, parity) = data => Closed(data, parity)
         /\ \A S \in SUBSET Number :
               data \subseteq S /\ Closed(S, parity) => Round(data, parity) \subseteq S
<1>1. PICK f \in [0..Total -> SUBSET Number] :
            /\ Round(data, parity) = f[Total] /\ f[0] = data
            /\ \A k \in 1..Total : f[k] = Tried(k, f[k - 1], parity)
  BY RoundSteps
<1>2. \A k \in 1..Total : f[k - 1] \subseteq f[k]
  BY <1>1 DEF Tried
<1>3. \A k \in 0..Total : data \subseteq f[k] /\ f[k] \subseteq f[Total]
  BY <1>1, <1>2, Numbers, Increasing
<1>4. ASSUME f[Total] = data PROVE Closed(data, parity)
  <2>1. SUFFICES ASSUME NEW p \in parity PROVE ~ LacksOne(p, data)
    BY DEF Closed
  <2>2. p \in Number /\ p + 1 \in 1..Total /\ (p + 1) - 1 = p /\ p \in 0..Total /\ p + 1 \in 0..Total
    BY Numbers
  <2>3. f[p] = data /\ f[p + 1] = data
    BY <1>3, <1>4, <2>2
  <2>4. f[p + 1] = Tried(p + 1, data, parity)
    BY <1>1, <2>2, <2>3
  <2>5. LacksOne(p, data) => data = data \cup Lacks(p, data)
    BY <2>2, <2>3, <2>4 DEF Tried
  <2>6. LacksOne(p, data) => Lacks(p, data) \cap data = {} /\ Lacks(p, data) # {}
    BY <2>2, Lacking1
  <2> QED  BY <2>5, <2>6
<1>5. ASSUME NEW S \in SUBSET Number, data \subseteq S, Closed(S, parity)
      PROVE  f[Total] \subseteq S
  <2> DEFINE X == SUBSET S
  <2>1. f[0] \in X
    BY <1>1, <1>5
  <2>2. ASSUME NEW k \in 1..Total, f[k - 1] \in X PROVE f[k] \in X
    <3>1. f[k] = Tried(k, f[k - 1], parity) /\ k - 1 \in Number /\ f[k - 1] \subseteq S
      BY <1>1, <2>2, Numbers
    <3>2. k - 1 \in parity /\ LacksOne(k - 1, f[k - 1]) => Lacks(k - 1, f[k - 1]) \subseteq S
      BY <1>5, <3>1, OnePiece
    <3> QED  BY <3>1, <3>2 DEF Tried
  <2> HIDE DEF X
  <2>3. \A k \in 0..Total : f[k] \in X
    BY <2>1, <2>2, Kept, Numbers
  <2> QED  BY <2>3, Numbers DEF X
<1>6. f[Total] \in SUBSET Number /\ data \subseteq f[Total]
  BY <1>1, <1>3, Numbers
<1> QED  BY <1>1, <1>4, <1>5, <1>6

(* Rounds until nothing more is found.                                     *)
IsRounds(f, data, parity) ==
  f = [k \in 0..Total |-> IF k = 0 THEN data ELSE Round(f[k - 1], parity)]

LEMMA RoundsSteps ==
  ASSUME NEW data \in SUBSET Number, NEW parity \in SUBSET Number
  PROVE  \E f \in [0..Total -> SUBSET Number] :
            /\ Rounds(data, parity) = f[Total] /\ f[0] = data
            /\ \A k \in 1..Total : f[k] = Round(f[k - 1], parity)
<1> DEFINE X == SUBSET Number
           try(k) == [had \in X |-> Round(had, parity)]
           step == [k \in 1..Total |-> try(k)]
<1>1. \A k \in 1..Total : try(k) \in [X -> X]
  BY OneRound
<1>2. step \in [1..Total -> [X -> X]]
  <2> HIDE DEF try, X
  <2> QED  BY <1>1
<1>3. data \in X /\ Total \in Nat
  BY Numbers
<1>4. PICK g \in [0..Total -> X] : Iterates(g, data, Total, step)
  <2> HIDE DEF X, step
  <2> QED  BY <1>2, <1>3, Iteration
<1>5. ASSUME NEW k \in 0..Total
      PROVE  g[k] = IF k = 0 THEN data ELSE Round(g[k - 1], parity)
  <2>1. CASE k = 0
    BY <1>4, <2>1 DEF Iterates
  <2>2. CASE k # 0
    <3>1. k \in 1..Total /\ k - 1 \in 0..Total
      BY <1>3, <2>2
    <3>2. g[k - 1] \in X /\ g[k] = step[k][g[k - 1]]
      <4> HIDE DEF X, step
      <4> QED  BY <1>4, <3>1 DEF Iterates
    <3>3. step[k] = try(k)
      BY <3>1
    <3> QED  BY <2>2, <3>2, <3>3
  <2> QED  BY <2>1, <2>2
<1>6. IsRounds(g, data, parity)
  <2>1. g = [k \in 0..Total |-> g[k]]
    BY <1>4
  <2>2. [k \in 0..Total |-> g[k]] = [k \in 0..Total |-> IF k = 0 THEN data ELSE Round(g[k - 1], parity)]
    BY <1>5
  <2> QED  BY <2>1, <2>2 DEF IsRounds
<1> DEFINE f == CHOOSE f : IsRounds(f, data, parity)
<1>7. IsRounds(f, data, parity)
  BY <1>6
<1>8. Rounds(data, parity) = f[Total]
  BY DEF Rounds, IsRounds
<1> HIDE DEF f
<1>9. f[0] = data /\ \A k \in 1..Total : f[k] = Round(f[k - 1], parity)
  BY <1>3, <1>7 DEF IsRounds
<1>10. \A k \in 0..Total : f[k] \in X
  <2> HIDE DEF X
  <2>1. f[0] \in X /\ \A k \in 1..Total : f[k - 1] \in X => f[k] \in X
    BY <1>3, <1>9, OneRound DEF X
  <2> QED  BY <1>3, <2>1, Kept
<1>11. f \in [0..Total -> X]
  <2>1. f = [k \in 0..Total |-> IF k = 0 THEN data ELSE Round(f[k - 1], parity)]
    BY <1>7 DEF IsRounds
  <2>2. \A k \in 0..Total : f[k] = IF k = 0 THEN data ELSE Round(f[k - 1], parity)
    BY <1>9
  <2>3. DOMAIN f = 0..Total /\ f = [k \in DOMAIN f |-> f[k]]
    BY <2>1
  <2> HIDE DEF X
  <2> QED  BY <1>10, <2>3
<1> QED  BY <1>8, <1>9, <1>11

(* The loops of raidread() and Fixable() find all that can be found.       *)
LEMMA AllRounds ==
  ASSUME NEW data \in SUBSET Number, NEW parity \in SUBSET Number
  PROVE  Rounds(data, parity) = Recoverable(data, parity)
<1>1. PICK f \in [0..Total -> SUBSET Number] :
            /\ Rounds(data, parity) = f[Total] /\ f[0] = data
            /\ \A k \in 1..Total : f[k] = Round(f[k - 1], parity)
  BY RoundsSteps
<1>2. ASSUME NEW k \in 1..Total
      PROVE  /\ f[k - 1] \subseteq f[k]
             /\ f[k] = f[k - 1] => Closed(f[k - 1], parity)
             /\ \A S \in SUBSET Number : f[k - 1] \subseteq S /\ Closed(S, parity) => f[k] \subseteq S
  <2>1. k - 1 \in 0..Total
    BY Numbers
  <2>2. f[k - 1] \in SUBSET Number /\ f[k] = Round(f[k - 1], parity)
    BY <1>1, <2>1
  <2> QED  BY <2>2, OneRound
<1>3. f[Total] = Recoverable(data, parity)
  BY <1>1, <1>2, Passes
<1> QED  BY <1>1, <1>3

-----------------------------------------------------------------------------
(* The passes of rebuild().                                                *)

LEMMA FixPath ==
  ASSUME NEW data, NEW parity \in SUBSET Number, NEW d
  PROVE  GetDataFixPath(data, parity, d) # -1 <=> \E p \in parity : Lacks(p, data) = {d}
<1> DEFINE paths == {p \in parity : Lacks(p, data) = {d}}
           Size(p) == Cardinality(ParityToData[p])
           Best(p) == \A q \in paths : Size(p) < Size(q) \/ (Size(p) = Size(q) /\ p <= q)
<1>1. \A p \in Number : Size(p) \in Nat /\ p \in Nat
  <2>1. SUFFICES ASSUME NEW p \in Number PROVE Size(p) \in Nat /\ p \in Nat
    OBVIOUS
  <2>2. IsFiniteSet(ParityToData[p])
    BY FS_Subset
  <2> QED  BY <2>2, FS_CardinalityType, Numbers
<1>2. ASSUME paths # {} PROVE \E p \in paths : Best(p)
  <2> HIDE DEF Size
  <2> DEFINE sizes == {Size(p) : p \in paths}
  <2>1. sizes \in SUBSET Nat /\ sizes # {}
    BY <1>1, <1>2
  <2> HIDE DEF sizes
  <2>2. PICK m \in sizes : \A n \in sizes : m <= n
    BY <2>1, Least
  <2> DEFINE short == {p \in paths : Size(p) = m}
  <2>3. short \in SUBSET Nat /\ short # {}
    BY <1>1, <2>2 DEF sizes
  <2> HIDE DEF short
  <2>4. PICK p \in short : \A q \in short : p <= q
    BY <2>3, Least
  <2>5. p \in paths /\ Size(p) = m
    BY <2>4 DEF short
  <2>6. ASSUME NEW q \in paths PROVE Size(p) < Size(q) \/ (Size(p) = Size(q) /\ p <= q)
    <3>1. m <= Size(q) /\ Size(q) \in Nat /\ m \in Nat
      BY <1>1, <2>1, <2>2 DEF sizes
    <3>2. Size(q) = m => p <= q
      BY <2>4 DEF short
    <3> QED  BY <2>5, <3>1, <3>2
  <2> QED  BY <2>5, <2>6
<1>3. GetDataFixPath(data, parity, d) = IF paths = {} THEN -1 ELSE CHOOSE p \in paths : Best(p)
  BY DEF GetDataFixPath
<1> HIDE DEF Best
<1>4. paths # {} => GetDataFixPath(data, parity, d) \in paths
  <2>1. ASSUME paths # {} PROVE (CHOOSE p \in paths : Best(p)) \in paths
    BY <1>2, <2>1
  <2> QED  BY <1>3, <2>1
<1>5. \A p \in paths : p # -1
  BY <1>1
<1>6. paths = {} => GetDataFixPath(data, parity, d) = -1
  BY <1>3
<1> QED  BY <1>4, <1>5, <1>6

Pass == [data : SUBSET Number, made : SUBSET Number]

Searched(k, had, parity, dataFiles) ==
  LET path == GetDataFixPath(had.data, parity, k - 1) # -1
  IN  IF k - 1 \in had.data \/ ~ (path \/ k - 1 \in dataFiles) THEN had
      ELSE [data |-> had.data \cup {k - 1},
            made |-> IF path THEN had.made \cup {k - 1} ELSE had.made]
IsPass(f, start, parity, dataFiles) ==
  f = [k \in 0..Total |-> IF k = 0 THEN start ELSE Searched(k, f[k - 1], parity, dataFiles)]
IsPasses(f, start, parity, dataFiles) ==
  f = [k \in 0..Total |-> IF k = 0 THEN start ELSE DataPass(f[k - 1], parity, dataFiles)]

LEMMA SearchedTypes ==
  ASSUME NEW k \in 1..Total, NEW had \in Pass, NEW parity, NEW dataFiles
  PROVE  Searched(k, had, parity, dataFiles) \in Pass
<1>1. k - 1 \in Number /\ had.data \in SUBSET Number /\ had.made \in SUBSET Number
  BY Numbers DEF Pass
<1>2. had.data \cup {k - 1} \in SUBSET Number /\ had.made \cup {k - 1} \in SUBSET Number
  BY <1>1
<1> QED  BY <1>1, <1>2 DEF Searched, Pass

LEMMA PassSteps ==
  ASSUME NEW start \in Pass, NEW parity \in SUBSET Number, NEW dataFiles \in SUBSET Number
  PROVE  \E f \in [0..Total -> Pass] :
            /\ DataPass(start, parity, dataFiles) = f[Total] /\ f[0] = start
            /\ \A k \in 1..Total : f[k] = Searched(k, f[k - 1], parity, dataFiles)
<1> DEFINE X == Pass
           try(k) == [had \in X |-> Searched(k, had, parity, dataFiles)]
           step == [k \in 1..Total |-> try(k)]
<1>1. \A k \in 1..Total : try(k) \in [X -> X]
  BY SearchedTypes
<1>2. step \in [1..Total -> [X -> X]]
  <2> HIDE DEF try, X
  <2> QED  BY <1>1
<1>3. start \in X /\ Total \in Nat
  BY Numbers
<1>4. PICK g \in [0..Total -> X] : Iterates(g, start, Total, step)
  <2> HIDE DEF X, step
  <2> QED  BY <1>2, <1>3, Iteration
<1>5. ASSUME NEW k \in 0..Total
      PROVE  g[k] = IF k = 0 THEN start ELSE Searched(k, g[k - 1], parity, dataFiles)
  <2>1. CASE k = 0
    BY <1>4, <2>1 DEF Iterates
  <2>2. CASE k # 0
    <3>1. k \in 1..Total /\ k - 1 \in 0..Total
      BY <1>3, <2>2
    <3>2. g[k - 1] \in X /\ g[k] = step[k][g[k - 1]]
      <4> HIDE DEF X, step
      <4> QED  BY <1>4, <3>1 DEF Iterates
    <3>3. step[k] = try(k)
      BY <3>1
    <3> QED  BY <2>2, <3>2, <3>3
  <2> QED  BY <2>1, <2>2
<1>6. IsPass(g, start, parity, dataFiles)
  <2>1. g = [k \in 0..Total |-> g[k]]
    BY <1>4
  <2>2. [k \in 0..Total |-> g[k]] = [k \in 0..Total |-> IF k = 0 THEN start ELSE Searched(k, g[k - 1], parity, dataFiles)]
    BY <1>5
  <2> QED  BY <2>1, <2>2 DEF IsPass
<1> DEFINE f == CHOOSE f : IsPass(f, start, parity, dataFiles)
<1>7. IsPass(f, start, parity, dataFiles)
  BY <1>6
<1>8. DataPass(start, parity, dataFiles) = f[Total]
  BY DEF DataPass, IsPass, Searched
<1> HIDE DEF f
<1>9. f[0] = start /\ \A k \in 1..Total : f[k] = Searched(k, f[k - 1], parity, dataFiles)
  BY <1>3, <1>7 DEF IsPass
<1>10. \A k \in 0..Total : f[k] \in X
  <2> HIDE DEF X
  <2>1. f[0] \in X /\ \A k \in 1..Total : f[k - 1] \in X => f[k] \in X
    BY <1>3, <1>9, SearchedTypes DEF X
  <2> QED  BY <1>3, <2>1, Kept
<1>11. f \in [0..Total -> X]
  <2>1. f = [k \in 0..Total |-> IF k = 0 THEN start ELSE Searched(k, f[k - 1], parity, dataFiles)]
    BY <1>7 DEF IsPass
  <2>2. \A k \in 0..Total : f[k] = IF k = 0 THEN start ELSE Searched(k, f[k - 1], parity, dataFiles)
    BY <1>9
  <2>3. DOMAIN f = 0..Total /\ f = [k \in DOMAIN f |-> f[k]]
    BY <2>1
  <2> HIDE DEF X
  <2> QED  BY <1>10, <2>3
<1> QED  BY <1>8, <1>9, <1>11

LEMMA PassType ==
  ASSUME NEW start \in Pass, NEW parity \in SUBSET Number, NEW dataFiles \in SUBSET Number
  PROVE  DataPass(start, parity, dataFiles) \in Pass
<1>1. PICK f \in [0..Total -> Pass] : DataPass(start, parity, dataFiles) = f[Total]
  BY PassSteps
<1> QED  BY <1>1, Numbers

(* A pass finds what is in every closed set, and finds nothing only when   *)
(* nothing can be found.                                                   *)
LEMMA OnePass ==
  ASSUME NEW start \in Pass, NEW parity \in SUBSET Number
  PROVE  /\ DataPass(start, parity, {}) \in Pass
         /\ start.data \subseteq DataPass(start, parity, {}).data
         /\ DataPass(start, parity, {}).data = start.data => Closed(start.data, parity)
         /\ \A S \in SUBSET Number :
               start.data \subseteq S /\ Closed(S, parity) => DataPass(start, parity, {}).data \subseteq S
<1>1. PICK f \in [0..Total -> Pass] :
            /\ DataPass(start, parity, {}) = f[Total] /\ f[0] = start
            /\ \A k \in 1..Total : f[k] = Searched(k, f[k - 1], parity, {})
  <2>1. {} \in SUBSET Number
    OBVIOUS
  <2>2. \A z \in SUBSET Number : \E f \in [0..Total -> Pass] :
            /\ DataPass(start, parity, z) = f[Total] /\ f[0] = start
            /\ \A k \in 1..Total : f[k] = Searched(k, f[k - 1], parity, z)
    BY PassSteps
  <2> QED  BY <2>1, <2>2, Zenon
<1> DEFINE d == [k \in 0..Total |-> f[k].data]
           Found(k) == \E p \in parity : Lacks(p, d[k - 1]) = {k - 1}
<1>2. d \in [0..Total -> SUBSET Number] /\ d[0] = start.data /\ d[Total] = f[Total].data
  <2>1. \A k \in 0..Total : f[k].data \in SUBSET Number
    BY <1>1 DEF Pass
  <2> QED  BY <1>1, <2>1, Numbers
<1>3. ASSUME NEW k \in 1..Total
      PROVE  /\ k - 1 \in d[k - 1] \/ ~ Found(k) => d[k] = d[k - 1]
             /\ k - 1 \notin d[k - 1] /\ Found(k) => d[k] = d[k - 1] \cup {k - 1}
  <2>1. k \in 0..Total /\ k - 1 \in 0..Total
    BY Numbers
  <2>2. f[k] = Searched(k, f[k - 1], parity, {}) /\ d[k] = f[k].data /\ d[k - 1] = f[k - 1].data
    BY <1>1, <2>1
  <2>3. GetDataFixPath(d[k - 1], parity, k - 1) # -1 <=> Found(k)
    BY FixPath
  <2> HIDE DEF Found, d
  <2> QED  BY <2>2, <2>3 DEF Searched
<1> HIDE DEF d
<1>4. \A k \in 1..Total : d[k - 1] \subseteq d[k]
  <2> HIDE DEF Found
  <2> QED  BY <1>3
<1>5. \A k \in 0..Total : start.data \subseteq d[k] /\ d[k] \subseteq d[Total]
  BY <1>2, <1>4, Numbers, Increasing
<1>6. ASSUME d[Total] = start.data PROVE Closed(start.data, parity)
  <2>1. SUFFICES ASSUME NEW p \in parity, LacksOne(p, start.data) PROVE FALSE
    BY DEF Closed
  <2>2. PICK x : Lacks(p, start.data) = {x}
    BY <2>1, Lacking1
  <2>3. x \in Number /\ x \notin start.data
    BY <2>2, Lacking1
  <2>4. x + 1 \in 1..Total /\ (x + 1) - 1 = x /\ x \in 0..Total /\ x + 1 \in 0..Total
    BY <2>3, Numbers
  <2>5. d[x] = start.data /\ d[x + 1] = start.data
    BY <1>5, <1>6, <2>4
  <2>6. Found(x + 1)
    BY <2>2, <2>4, <2>5
  <2> HIDE DEF Found
  <2>7. d[x + 1] = d[x] \cup {x}
    BY <1>3, <2>3, <2>4, <2>5, <2>6
  <2> QED  BY <2>3, <2>5, <2>7
<1>7. ASSUME NEW S \in SUBSET Number, start.data \subseteq S, Closed(S, parity)
      PROVE  d[Total] \subseteq S
  <2> DEFINE X == SUBSET S
  <2>1. d[0] \in X
    BY <1>2, <1>7
  <2>2. ASSUME NEW k \in 1..Total, d[k - 1] \in X PROVE d[k] \in X
    <3>1. CASE Found(k)
      <4>1. PICK p \in parity : Lacks(p, d[k - 1]) = {k - 1}
        BY <3>1
      <4>2. p \in Number
        OBVIOUS
      <4> HIDE DEF Found
      <4>4. LacksOne(p, d[k - 1])
        BY <4>1, <4>2, Lacking1
      <4>3. Lacks(p, d[k - 1]) \subseteq S
        BY <1>7, <2>2, <4>2, <4>4, OnePiece
      <4> QED  BY <1>3, <2>2, <3>1, <4>1, <4>3
    <3>2. CASE ~ Found(k)
      <4> HIDE DEF Found
      <4> QED  BY <1>3, <2>2, <3>2
    <3> QED  BY <3>1, <3>2
  <2> HIDE DEF X
  <2>3. \A k \in 0..Total : d[k] \in X
    BY <2>1, <2>2, Kept, Numbers
  <2> QED  BY <2>3, Numbers DEF X
<1>8. f[Total] \in Pass /\ start.data \subseteq d[Total]
  BY <1>1, <1>5, Numbers
<1> QED  BY <1>1, <1>2, <1>6, <1>7, <1>8

LEMMA PassesSteps ==
  ASSUME NEW start \in Pass, start.made = {}, NEW parity \in SUBSET Number, NEW dataFiles \in SUBSET Number
  PROVE  \E f \in [0..Total -> Pass] :
            /\ DataPasses(start.data, parity, dataFiles) = f[Total] /\ f[0] = start
            /\ \A k \in 1..Total : f[k] = DataPass(f[k - 1], parity, dataFiles)
<1> DEFINE X == Pass
           try(k) == [had \in X |-> DataPass(had, parity, dataFiles)]
           step == [k \in 1..Total |-> try(k)]
<1>1. \A k \in 1..Total : try(k) \in [X -> X]
  BY PassType
<1>2. step \in [1..Total -> [X -> X]]
  <2> HIDE DEF try, X
  <2> QED  BY <1>1
<1>3. start \in X /\ Total \in Nat
  BY Numbers
<1>4. PICK g \in [0..Total -> X] : Iterates(g, start, Total, step)
  <2> HIDE DEF X, step
  <2> QED  BY <1>2, <1>3, Iteration
<1>5. ASSUME NEW k \in 0..Total
      PROVE  g[k] = IF k = 0 THEN start ELSE DataPass(g[k - 1], parity, dataFiles)
  <2>1. CASE k = 0
    BY <1>4, <2>1 DEF Iterates
  <2>2. CASE k # 0
    <3>1. k \in 1..Total /\ k - 1 \in 0..Total
      BY <1>3, <2>2
    <3>2. g[k - 1] \in X /\ g[k] = step[k][g[k - 1]]
      <4> HIDE DEF X, step
      <4> QED  BY <1>4, <3>1 DEF Iterates
    <3>3. step[k] = try(k)
      BY <3>1
    <3> QED  BY <2>2, <3>2, <3>3
  <2> QED  BY <2>1, <2>2
<1>6. IsPasses(g, start, parity, dataFiles)
  <2>1. g = [k \in 0..Total |-> g[k]]
    BY <1>4
  <2>2. [k \in 0..Total |-> g[k]] = [k \in 0..Total |-> IF k = 0 THEN start ELSE DataPass(g[k - 1], parity, dataFiles)]
    BY <1>5
  <2> QED  BY <2>1, <2>2 DEF IsPasses
<1> DEFINE f == CHOOSE f : IsPasses(f, start, parity, dataFiles)
<1>7. IsPasses(f, start, parity, dataFiles)
  BY <1>6
<1>8. DataPasses(start.data, parity, dataFiles) = f[Total]
  <2>1. start = [data |-> start.data, made |-> {}]
    BY DEF Pass
  <2> QED  BY <2>1 DEF DataPasses, IsPasses
<1> HIDE DEF f
<1>9. f[0] = start /\ \A k \in 1..Total : f[k] = DataPass(f[k - 1], parity, dataFiles)
  BY <1>3, <1>7 DEF IsPasses
<1>10. \A k \in 0..Total : f[k] \in X
  <2> HIDE DEF X
  <2>1. f[0] \in X /\ \A k \in 1..Total : f[k - 1] \in X => f[k] \in X
    BY <1>3, <1>9, PassType DEF X
  <2> QED  BY <1>3, <2>1, Kept
<1>11. f \in [0..Total -> X]
  <2>1. f = [k \in 0..Total |-> IF k = 0 THEN start ELSE DataPass(f[k - 1], parity, dataFiles)]
    BY <1>7 DEF IsPasses
  <2>2. \A k \in 0..Total : f[k] = IF k = 0 THEN start ELSE DataPass(f[k - 1], parity, dataFiles)
    BY <1>9
  <2>3. DOMAIN f = 0..Total /\ f = [k \in DOMAIN f |-> f[k]]
    BY <2>1
  <2> HIDE DEF X
  <2> QED  BY <1>10, <2>3
<1> QED  BY <1>8, <1>9, <1>11

(* rebuild() finds all that can be found.                                  *)
LEMMA AllPasses ==
  ASSUME NEW data \in SUBSET Number, NEW parity \in SUBSET Number
  PROVE  DataPasses(data, parity, {}).data = Recoverable(data, parity)
<1> DEFINE start == [data |-> data, made |-> {}]
<1>1. start \in Pass /\ start.data = data /\ start.made = {}
  BY DEF Pass
<1> HIDE DEF start
<1>2. PICK f \in [0..Total -> Pass] :
            /\ DataPasses(start.data, parity, {}) = f[Total] /\ f[0] = start
            /\ \A k \in 1..Total : f[k] = DataPass(f[k - 1], parity, {})
  <2>1. {} \in SUBSET Number
    OBVIOUS
  <2>2. \A z \in SUBSET Number : \E f \in [0..Total -> Pass] :
            /\ DataPasses(start.data, parity, z) = f[Total] /\ f[0] = start
            /\ \A k \in 1..Total : f[k] = DataPass(f[k - 1], parity, z)
    BY <1>1, PassesSteps
  <2> QED  BY <2>1, <2>2, Zenon
<1> DEFINE d == [k \in 0..Total |-> f[k].data]
<1>3. d \in [0..Total -> SUBSET Number] /\ d[0] = data /\ d[Total] = f[Total].data
  <2>1. \A k \in 0..Total : f[k].data \in SUBSET Number
    BY <1>2 DEF Pass
  <2> QED  BY <1>1, <1>2, <2>1, Numbers
<1>4. ASSUME NEW k \in 1..Total
      PROVE  /\ d[k - 1] \subseteq d[k]
             /\ d[k] = d[k - 1] => Closed(d[k - 1], parity)
             /\ \A S \in SUBSET Number : d[k - 1] \subseteq S /\ Closed(S, parity) => d[k] \subseteq S
  <2>1. k \in 0..Total /\ k - 1 \in 0..Total
    BY Numbers
  <2>2. f[k - 1] \in Pass /\ d[k - 1] = f[k - 1].data /\ d[k] = DataPass(f[k - 1], parity, {}).data
    BY <1>2, <2>1
  <2> QED  BY <2>2, OnePass
<1> HIDE DEF d
<1>5. d[Total] = Recoverable(data, parity)
  BY <1>3, <1>4, Passes
<1> QED  BY <1>1, <1>2, <1>3, <1>5

HIDE CodeAssumption  \* nothing below depends on the code

-----------------------------------------------------------------------------
(* Lists.                                                                  *)
Keep(s, G, f, n) == IF n = 0 THEN <<>> ELSE IF s[n] \in G THEN Append(f[n - 1], s[n]) ELSE f[n - 1]
IsKept(s, G, f) == f = [n \in 0..Len(s) |-> Keep(s, G, f, n)]

(* Among has a value, and is what it keeps of the sequence step by step.   *)
LEMMA AmongSteps ==
  ASSUME NEW S, NEW s \in Seq(S), NEW G
  PROVE  \E f : /\ Among(s, G) = f[Len(s)]
                /\ \A n \in 0..Len(s) : f[n] = Keep(s, G, f, n)
<1> DEFINE X == Seq(S)
           grow(n) == [q \in X |-> IF s[n] \in G THEN Append(q, s[n]) ELSE q]
           step == [n \in 1..Len(s) |-> grow(n)]
<1>1. Len(s) \in Nat /\ \A i \in 1..Len(s) : s[i] \in S
  BY LenProperties, ElementOfSeq
<1>2. <<>> \in X /\ \A q \in X : \A x \in S : Append(q, x) \in X
  BY AppendProperties
<1>3. step \in [1..Len(s) -> [X -> X]]
  <2> HIDE DEF X
  <2>1. \A n \in 1..Len(s) : grow(n) \in [X -> X]
    BY <1>1, <1>2
  <2> QED  BY <2>1
<1>4. PICK g \in [0..Len(s) -> X] : Iterates(g, <<>>, Len(s), step)
  <2> HIDE DEF X, step
  <2> QED  BY <1>1, <1>2, <1>3, Iteration
<1>5. ASSUME NEW n \in 0..Len(s) PROVE g[n] = Keep(s, G, g, n)
  <2> HIDE DEF X
  <2>1. CASE n = 0
    BY <1>4, <2>1 DEF Iterates, Keep
  <2>2. CASE n # 0
    <3>1. n \in 1..Len(s) /\ n - 1 \in 0..Len(s)
      BY <1>1, <2>2
    <3>2. g[n - 1] \in X /\ g[n] = step[n][g[n - 1]]
      BY <1>4, <3>1 DEF Iterates
    <3>3. step[n] = grow(n)
      BY <3>1
    <3>4. g[n] = grow(n)[g[n - 1]]
      BY <3>2, <3>3
    <3> QED  BY <2>2, <3>2, <3>4 DEF Keep
  <2> QED  BY <2>1, <2>2
<1>6. IsKept(s, G, g)
  <2>1. g = [n \in 0..Len(s) |-> g[n]]
    BY <1>4
  <2>2. [n \in 0..Len(s) |-> g[n]] = [n \in 0..Len(s) |-> Keep(s, G, g, n)]
    BY <1>5
  <2> QED  BY <2>1, <2>2 DEF IsKept
<1> DEFINE f == CHOOSE f : IsKept(s, G, f)
<1>7. IsKept(s, G, f)
  BY <1>6
<1>8. Among(s, G) = f[Len(s)]
  BY DEF Among, IsKept, Keep
<1> HIDE DEF f
<1>9. \A n \in 0..Len(s) : f[n] = Keep(s, G, f, n)
  BY <1>7 DEF IsKept
<1> QED  BY <1>8, <1>9

LEMMA AmongType ==
  ASSUME NEW S, NEW s \in Seq(S), NEW G
  PROVE  Among(s, G) \in Seq(S) /\ Len(Among(s, G)) <= Len(s)
<1>1. Len(s) \in Nat /\ \A i \in 1..Len(s) : s[i] \in S
  BY LenProperties, ElementOfSeq
<1>2. PICK f : /\ Among(s, G) = f[Len(s)]
               /\ \A n \in 0..Len(s) : f[n] = Keep(s, G, f, n)
  BY AmongSteps
<1> DEFINE Short(n) == f[n] \in Seq(S) /\ Len(f[n]) <= n
           T == {n \in Nat : n <= Len(s) => Short(n)}
<1>3. 0 \in T
  <2>1. f[0] = <<>> /\ <<>> \in Seq(S) /\ Len(<<>>) = 0
    BY <1>1, <1>2 DEF Keep
  <2>2. Short(0)
    BY <2>1
  <2> HIDE DEF Short
  <2> QED  BY <2>2
<1>4. \A n \in T : n + 1 \in T
  <2>1. SUFFICES ASSUME NEW n \in T, n + 1 <= Len(s) PROVE Short(n + 1)
    OBVIOUS
  <2>2. n \in Nat /\ n + 1 \in 0..Len(s) /\ n + 1 # 0 /\ (n + 1) - 1 = n /\ n + 1 \in 1..Len(s)
    BY <1>1, <2>1
  <2>3. f[n] \in Seq(S) /\ Len(f[n]) <= n /\ Len(f[n]) \in Nat
    BY <1>1, <2>1, <2>2, LenProperties
  <2>4. f[n + 1] = IF s[n + 1] \in G THEN Append(f[n], s[n + 1]) ELSE f[n]
    BY <1>2, <2>2 DEF Keep
  <2>5. Append(f[n], s[n + 1]) \in Seq(S) /\ Len(Append(f[n], s[n + 1])) = Len(f[n]) + 1
    BY <1>1, <2>2, <2>3, AppendProperties
  <2> QED  BY <2>2, <2>3, <2>4, <2>5
<1>5. T \in SUBSET Nat
  OBVIOUS
<1> HIDE DEF T
<1>6. T = Nat
  BY <1>3, <1>4, <1>5, AllNumbers
<1> QED  BY <1>1, <1>2, <1>6 DEF T

-----------------------------------------------------------------------------
(* The worker, its tasks and the messages about them.                      *)

Rows == [D : SUBSET Number, P : SUBSET Number]
RebuildTask == [kind : {"rebuild"}, backup : Backup, block : Block, active : SUBSET Number,
                remote : Rows, local : Rows]
MakeTask == [kind : {"make"}]
Task == RebuildTask \cup MakeTask
Found == [done : {TRUE}, D : SUBSET Number, P : SUBSET Number, madeD : SUBSET Number,
          madeP : SUBSET Number, newD : SUBSET Number, newP : SUBSET Number]
Result == {NoResult, [done |-> TRUE]} \cup Found

ToTheWorker == [to : {"worker"}, event : {"new-task", "task-done"}, task : Task, result : Result]
ToTheUser == [to : {"user"}, event : {"finished"}, task : Task, result : Result]
ForRebuilder == {"instant", "timer-1sec", "inbox-data-packet", "requests-sent", "found-missing",
                 "no-requests", "start", "backup-ready", "rebuilding-finished"}
Plain == [to : {"rebuilder"}, event : ForRebuilder] \cup [to : {"monitor"}, event : {"DONE", "STOPPED"}]
         \cup [to : {"chain"}, event : {"_start_one_block", "_finish_rebuilding"}]
ForProcesses == {ToWorker("process-started", NoTask, NoResult), ToWorker("shutdown", NoTask, NoResult)}
Message == Plain \cup ForProcesses \cup ToTheWorker \cup ToTheUser

WorkerType == [state : {"OFF", "READY", "WORK", "NONE"}, tasks : Seq(Task), active : SUBSET Task,
               running : SUBSET Task, callbacks : SUBSET Task]

(* The tasks of a worker that are still to be done; of a kind there is one.*)
Held(w) == ToSet(w.tasks) \cup w.running
HeldOnce(w) ==
  /\ \A i, j \in DOMAIN w.tasks : w.tasks[i].kind = w.tasks[j].kind => i = j
  /\ \A t \in ToSet(w.tasks), u \in w.running : t.kind # u.kind
  /\ \A t, u \in w.running : t.kind = u.kind => t = u

(* The books between two calls of the worker, and within one.              *)
Fair(w) ==
  /\ w \in WorkerType /\ IsFiniteSet(w.active) /\ HeldOnce(w)
  /\ w.callbacks = ToSet(w.tasks) \cup w.active
  /\ w.running \subseteq w.active
  /\ Cardinality(w.active) <= Cpus
Sound(w) == Fair(w) /\ BooksAgree(w)

LEMMA Rebuilt ==
  ASSUME NEW t \in RebuildTask, NEW F \in SUBSET Number
  PROVE  Rebuild(t.active, t.remote, t.local, F) \in Found
<1> DEFINE start == [data |-> t.local.D, made |-> {}]
<1>1. /\ t.local.D \in SUBSET Number /\ t.local.P \in SUBSET Number /\ t.active \in SUBSET Number
  BY DEF RebuildTask, Rows
<1>2. start \in Pass /\ start.data = t.local.D /\ start.made = {}
  BY <1>1 DEF Pass
<1> HIDE DEF start
<1>3. PICK f \in [0..Total -> Pass] : DataPasses(start.data, t.local.P, F) = f[Total]
  <2>1. \A y, z \in SUBSET Number : \E f \in [0..Total -> Pass] :
            /\ DataPasses(start.data, y, z) = f[Total] /\ f[0] = start
            /\ \A k \in 1..Total : f[k] = DataPass(f[k - 1], y, z)
    BY <1>2, PassesSteps
  <2> QED  BY <1>1, <2>1
<1> DEFINE found == DataPasses(t.local.D, t.local.P, F)
<1>4. found \in Pass
  BY <1>2, <1>3, Numbers
<1> HIDE DEF found
<1>5. found.data \in SUBSET Number /\ found.made \in SUBSET Number
  BY <1>4 DEF Pass
<1> DEFINE parity == t.local.P \cup {p \in Number : Lacks(p, found.data) = {}}
<1>6. parity \in SUBSET Number
  BY <1>1
<1> DEFINE result == [done |-> TRUE, D |-> found.data, P |-> parity,
                      madeD |-> found.made, madeP |-> parity \ t.local.P,
                      newD |-> found.data \cap (t.active \ t.remote.D),
                      newP |-> parity \cap (t.active \ t.remote.P)]
<1>7. Rebuild(t.active, t.remote, t.local, F) = result
  BY DEF Rebuild, found
<1> HIDE DEF parity
<1>8. result \in Found
  BY <1>5, <1>6 DEF Found
<1> QED  BY <1>7, <1>8

LEMMA HeadTail ==
  ASSUME NEW S, NEW s \in Seq(S), s # <<>>
  PROVE  /\ Head(s) = s[1] /\ Head(s) \in S /\ Tail(s) \in Seq(S) /\ Len(Tail(s)) = Len(s) - 1 /\ Len(s) >= 1
         /\ \A i \in 1..Len(s) - 1 : Tail(s)[i] = s[i + 1]
         /\ ToSet(s) = {Head(s)} \cup ToSet(Tail(s))
<1>1. Len(s) \in Nat /\ Len(s) >= 1
  BY LenProperties, EmptySeq
<1>2. /\ Head(s) = s[1] /\ Tail(s) \in Seq(S) /\ Len(Tail(s)) = Len(s) - 1
      /\ \A i \in 1..Len(s) - 1 : Tail(s)[i] = s[i + 1]
  BY HeadTailProperties
<1>3. s[1] \in S
  BY <1>1, ElementOfSeq
<1>4. ToSet(s) = {s[i] : i \in 1..Len(s)} /\ ToSet(Tail(s)) = {Tail(s)[i] : i \in 1..Len(s) - 1}
  BY <1>2, LenProperties DEF ToSet
<1>5. \A i \in 1..Len(s) : i = 1 \/ (i - 1 \in 1..Len(s) - 1 /\ s[i] = Tail(s)[i - 1])
  <2>1. SUFFICES ASSUME NEW i \in 1..Len(s), i # 1 PROVE i - 1 \in 1..Len(s) - 1 /\ s[i] = Tail(s)[i - 1]
    OBVIOUS
  <2>2. i - 1 \in 1..Len(s) - 1 /\ (i - 1) + 1 = i
    BY <1>1, <2>1
  <2> QED  BY <1>2, <2>2
<1>6. \A i \in 1..Len(s) - 1 : i + 1 \in 1..Len(s) /\ 1 \in 1..Len(s)
  BY <1>1
<1>7. 1 \in 1..Len(s)
  BY <1>1
<1>8. \A x \in ToSet(s) : x = s[1] \/ x \in ToSet(Tail(s))
  BY <1>4, <1>5
<1>9. s[1] \in ToSet(s) /\ \A x \in ToSet(Tail(s)) : x \in ToSet(s)
  BY <1>2, <1>4, <1>6, <1>7
<1>10. ToSet(s) = {Head(s)} \cup ToSet(Tail(s))
  BY <1>2, <1>8, <1>9
<1> QED  BY <1>1, <1>2, <1>3, <1>10

LEMMA Appended ==
  ASSUME NEW S, NEW q \in Seq(S), NEW x \in S
  PROVE  /\ Append(q, x) \in Seq(S)
         /\ Len(Append(q, x)) = Len(q) + 1
         /\ \A i \in 1..Len(q) : Append(q, x)[i] = q[i]
         /\ Append(q, x)[Len(q) + 1] = x
         /\ ToSet(Append(q, x)) = ToSet(q) \cup {x}
<1> DEFINE r == Append(q, x)
<1>1. /\ r \in Seq(S) /\ Len(r) = Len(q) + 1 /\ Len(q) \in Nat
      /\ \A i \in 1..Len(q) : r[i] = q[i]
      /\ r[Len(q) + 1] = x
  BY AppendProperties, LenProperties
<1> HIDE DEF r
<1>2. DOMAIN r = 1..Len(q) + 1 /\ DOMAIN q = 1..Len(q)
  BY <1>1, LenProperties
<1>3. ToSet(r) = ToSet(q) \cup {x}
  BY <1>1, <1>2 DEF ToSet
<1> QED  BY <1>1, <1>3 DEF r

(* One more task is given to a process.                                    *)
LEMMA Given ==
  ASSUME NEW w, Fair(w)
  PROVE  /\ Fair(StartTask(w)) /\ StartTask(w).state = w.state
         /\ Held(StartTask(w)) = Held(w)
         /\ ToSet(StartTask(w).tasks) \subseteq ToSet(w.tasks)
         /\ StartTask(w).active \subseteq StartTask(w).running \cup (w.active \ w.running)
         /\ StartTask(w).active = {} => StartTask(w).tasks = <<>>
         /\ w.tasks = <<>> => StartTask(w).tasks = <<>>
<1> USE CpusAssumption
<1> DEFINE v == StartTask(w)
<1>1. w \in WorkerType /\ w.tasks \in Seq(Task) /\ Cardinality(w.active) \in Nat
  BY FS_CardinalityType DEF Fair, WorkerType
<1>2. CASE Cardinality(w.active) >= Cpus \/ w.tasks = <<>>
  <2>1. v = w
    BY <1>2 DEF StartTask
  <2>2. Cardinality({}) = 0
    BY FS_EmptySet
  <2>3. w.active = {} => w.tasks = <<>>
    BY <1>2, <2>2
  <2>4. w.running \subseteq w.active
    BY DEF Fair
  <2> QED  BY <2>1, <2>3, <2>4
<1>3. CASE ~ (Cardinality(w.active) >= Cpus \/ w.tasks = <<>>)
  <2> DEFINE t == Head(w.tasks)
  <2>1. /\ t = w.tasks[1] /\ t \in Task /\ Tail(w.tasks) \in Seq(Task)
        /\ ToSet(w.tasks) = {t} \cup ToSet(Tail(w.tasks))
        /\ Len(Tail(w.tasks)) = Len(w.tasks) - 1 /\ Len(w.tasks) >= 1
        /\ \A i \in 1..Len(w.tasks) - 1 : Tail(w.tasks)[i] = w.tasks[i + 1]
    BY <1>1, <1>3, HeadTail
  <2> HIDE DEF t
  <2>2. v = [w EXCEPT !.tasks = Tail(w.tasks), !.active = w.active \cup {t}, !.running = w.running \cup {t}]
    BY <1>3 DEF StartTask, t
  <2>3. /\ v.state = w.state /\ v.tasks = Tail(w.tasks) /\ v.active = w.active \cup {t}
        /\ v.running = w.running \cup {t} /\ v.callbacks = w.callbacks
    BY <1>1, <2>2 DEF WorkerType
  <2>4. v \in WorkerType
    <3>1. w.active \cup {t} \in SUBSET Task /\ w.running \cup {t} \in SUBSET Task
      BY <1>1, <2>1 DEF WorkerType
    <3> HIDE DEF v
    <3> QED  BY <1>1, <2>1, <2>2, <3>1 DEF WorkerType
  <2> HIDE DEF v
  <2>5. IsFiniteSet(w.active \cup {t}) /\ Cardinality(w.active \cup {t}) <= Cardinality(w.active) + 1
    <3>1. IsFiniteSet(w.active)
      BY DEF Fair
    <3>2. t \in w.active => w.active \cup {t} = w.active
      OBVIOUS
    <3> QED  BY <3>1, <3>2, <1>1, FS_AddElement
  <2>6. Cardinality(w.active \cup {t}) <= Cpus
    BY <1>1, <1>3, <2>5, FS_CardinalityType
  <2>7. HeldOnce(v)
    <3>1. /\ \A i, j \in DOMAIN w.tasks : w.tasks[i].kind = w.tasks[j].kind => i = j
          /\ \A u \in ToSet(w.tasks), r \in w.running : u.kind # r.kind
          /\ \A u, r \in w.running : u.kind = r.kind => u = r
      BY DEF Fair, HeldOnce
    <3>2. /\ DOMAIN w.tasks = 1..Len(w.tasks) /\ DOMAIN Tail(w.tasks) = 1..Len(w.tasks) - 1
          /\ Len(w.tasks) \in Nat
      BY <1>1, <2>1, LenProperties
    <3>3. ASSUME NEW i \in DOMAIN v.tasks
          PROVE  i + 1 \in DOMAIN w.tasks /\ v.tasks[i] = w.tasks[i + 1] /\ i + 1 # 1 /\ i \in Nat
      BY <2>1, <2>3, <3>2
    <3>4. ASSUME NEW i \in DOMAIN v.tasks, NEW j \in DOMAIN v.tasks, v.tasks[i].kind = v.tasks[j].kind
          PROVE  i = j
      <4>1. i + 1 = j + 1
        BY <3>1, <3>3, <3>4, Zenon
      <4> QED  BY <3>3, <4>1
    <3>5. 1 \in DOMAIN w.tasks
      BY <2>1, <3>2
    <3>6. ASSUME NEW u \in ToSet(v.tasks) PROVE u.kind # t.kind /\ u \in ToSet(w.tasks)
      <4>1. PICK i \in DOMAIN v.tasks : u = v.tasks[i]
        BY DEF ToSet
      <4>2. u = w.tasks[i + 1] /\ i + 1 \in DOMAIN w.tasks /\ i + 1 # 1
        BY <3>3, <4>1
      <4>3. u \in ToSet(w.tasks)
        BY <2>1, <2>3
      <4> QED  BY <2>1, <3>1, <3>5, <4>2, <4>3
    <3>7. t \in ToSet(w.tasks)
      BY <2>1
    <3> QED  BY <2>3, <3>1, <3>4, <3>6, <3>7 DEF HeldOnce
  <2>8. Fair(v)
    <3>1. w.callbacks = ToSet(w.tasks) \cup w.active /\ w.running \subseteq w.active
      BY DEF Fair
    <3>2. v.callbacks = ToSet(v.tasks) \cup v.active /\ v.running \subseteq v.active
      BY <2>1, <2>3, <3>1
    <3> QED  BY <2>3, <2>4, <2>5, <2>6, <2>7, <3>2 DEF Fair
  <2>9. Held(v) = Held(w) /\ ToSet(v.tasks) \subseteq ToSet(w.tasks)
    BY <2>1, <2>3 DEF Held
  <2>10. v.active \subseteq v.running \cup (w.active \ w.running) /\ v.active # {}
    BY <2>3
  <2> QED  BY <1>3, <2>3, <2>8, <2>9, <2>10 DEF v
<1> QED  BY <1>2, <1>3

LEMMA WorkerFields ==
  ASSUME NEW w, Fair(w)
  PROVE  /\ w \in WorkerType /\ w.tasks \in Seq(Task) /\ w.active \in SUBSET Task
         /\ w.running \in SUBSET Task /\ w.callbacks \in SUBSET Task
         /\ w.state \in {"OFF", "READY", "WORK", "NONE"}
BY DEF Fair, WorkerType

(* A worker that is WORK in the middle of a call: what StartTask makes of  *)
(* it has its books in order.                                              *)
LEMMA BooksKept ==
  ASSUME NEW w, Fair(w), 
         \/ w.state = "WORK" /\ w.active # {}
         \/ w.state = "READY" /\ w.active = {} /\ w.tasks = <<>>
  PROVE  Sound(w)
BY DEF Sound, Fair, BooksAgree

LEMMA OtherState ==
  ASSUME NEW w, Fair(w), NEW s \in {"OFF", "READY", "WORK", "NONE"}
  PROVE  LET v == [w EXCEPT !.state = s]
         IN  /\ Fair(v) /\ v.state = s /\ v.tasks = w.tasks /\ v.active = w.active
             /\ v.running = w.running /\ v.callbacks = w.callbacks /\ Held(v) = Held(w)
<1> DEFINE v == [w EXCEPT !.state = s]
<1>1. /\ v.state = s /\ v.tasks = w.tasks /\ v.active = w.active /\ v.running = w.running
      /\ v.callbacks = w.callbacks /\ v \in WorkerType
  BY WorkerFields DEF WorkerType
<1> HIDE DEF v
<1>2. Fair(v) /\ Held(v) = Held(w)
  BY <1>1 DEF Fair, HeldOnce, Held
<1> QED  BY <1>1, <1>2 DEF v

LEMMA TaskAdded ==
  ASSUME NEW w, Fair(w), NEW t \in Task, \A u \in Held(w) : u.kind # t.kind
  PROVE  /\ Fair(AddTask(w, t)) /\ AddTask(w, t).state = w.state
         /\ AddTask(w, t).active = w.active /\ AddTask(w, t).running = w.running
         /\ Held(AddTask(w, t)) = Held(w) \cup {t} /\ AddTask(w, t).tasks # <<>>
<1> DEFINE v == AddTask(w, t)
           q == w.tasks
<1>1. /\ w \in WorkerType /\ q \in Seq(Task)
      /\ w.callbacks \in SUBSET Task
  BY WorkerFields
<1> HIDE DEF q
<1>2. /\ Append(q, t) \in Seq(Task) /\ Len(Append(q, t)) = Len(q) + 1
      /\ \A i \in 1..Len(q) : Append(q, t)[i] = q[i]
      /\ Append(q, t)[Len(q) + 1] = t
      /\ ToSet(Append(q, t)) = ToSet(q) \cup {t}
  BY <1>1, Appended
<1>3. v = [w EXCEPT !.tasks = Append(q, t), !.callbacks = w.callbacks \cup {t}]
  BY DEF AddTask, q
<1>4. w.callbacks \cup {t} \in SUBSET Task
  BY <1>1
<1> HIDE DEF v
<1>5. /\ v \in WorkerType /\ v.state = w.state /\ v.tasks = Append(q, t) /\ v.active = w.active
      /\ v.running = w.running /\ v.callbacks = w.callbacks \cup {t}
  BY <1>1, <1>2, <1>3, <1>4 DEF WorkerType
<1>6. Len(q) \in Nat /\ DOMAIN q = 1..Len(q) /\ DOMAIN v.tasks = 1..Len(q) + 1
  BY <1>1, <1>2, <1>5, LenProperties
<1>7. /\ \A i, j \in DOMAIN q : q[i].kind = q[j].kind => i = j
      /\ \A u \in ToSet(q), r \in w.running : u.kind # r.kind
      /\ \A u, r \in w.running : u.kind = r.kind => u = r
  BY DEF Fair, HeldOnce, q
<1>8. \A i \in DOMAIN q : q[i].kind # t.kind
  <2>1. \A i \in DOMAIN q : q[i] \in Held(w)
    BY DEF Held, ToSet, q
  <2> QED  BY <2>1
<1>9. \A i \in DOMAIN v.tasks : (i \in DOMAIN q /\ v.tasks[i] = q[i]) \/ (i = Len(q) + 1 /\ v.tasks[i] = t)
  BY <1>2, <1>5, <1>6
<1>10. \A i, j \in DOMAIN v.tasks : v.tasks[i].kind = v.tasks[j].kind => i = j
  BY <1>7, <1>8, <1>9
<1>11. \A u \in ToSet(v.tasks), r \in v.running : u.kind # r.kind
  BY <1>2, <1>5, <1>7 DEF Held
<1>12. Fair(v)
  BY <1>2, <1>5, <1>7, <1>10, <1>11 DEF Fair, HeldOnce, q
<1>13. Held(v) = Held(w) \cup {t}
  BY <1>2, <1>5 DEF Held, q
<1>14. v.tasks # <<>>
  <2>1. Len(v.tasks) # 0
    BY <1>2, <1>5, <1>6
  <2> QED  BY <2>1, EmptySeq
<1> QED  BY <1>5, <1>12, <1>13, <1>14 DEF v

ProcessStartedEvent == ToWorker("process-started", NoTask, NoResult)

LEMMA NewTaskSound ==
  ASSUME NEW w, Sound(w), NEW t \in Task, w.state # "NONE" => \A u \in Held(w) : u.kind # t.kind
  PROVE  LET v == NewTask(w, t).worker
             posts == NewTask(w, t).posts
         IN  /\ Sound(v) /\ Held(v) \subseteq Held(w) \cup {t}
             /\ v.state = "NONE" <=> w.state = "NONE"
             /\ w.state = "NONE" => v = w
             /\ posts = <<>> \/ posts = <<ProcessStartedEvent>>
             /\ v.state = "OFF" /\ v.tasks # <<>> => posts = <<ProcessStartedEvent>>
             /\ v.active \subseteq v.running \cup (w.active \ w.running)
<1>1. Fair(w) /\ BooksAgree(w)
  BY DEF Sound
<1>2. w.state \in {"OFF", "READY", "WORK", "NONE"} /\ w.running \subseteq w.active
  BY <1>1, WorkerFields DEF Fair
<1>3. CASE w.state = "OFF"
  <2> DEFINE v == AddTask(w, t)
  <2>1. NewTask(w, t) = [worker |-> v, posts |-> <<ProcessStartedEvent>>]
    BY <1>3 DEF NewTask, ProcessStartedEvent
  <2>2. NewTask(w, t).worker = v /\ NewTask(w, t).posts = <<ProcessStartedEvent>>
    BY <2>1
  <2>3. /\ Fair(v) /\ v.state = w.state /\ v.active = w.active /\ v.running = w.running
        /\ Held(v) = Held(w) \cup {t}
    BY <1>1, <1>3, TaskAdded
  <2> HIDE DEF v
  <2>4. w.active = {}
    BY <1>1, <1>3 DEF BooksAgree
  <2>5. Sound(v)
    BY <1>3, <2>3, <2>4 DEF Sound, BooksAgree, Fair
  <2> QED  BY <1>3, <2>2, <2>3, <2>4, <2>5
<1>4. CASE w.state \in {"READY", "WORK"}
  <2> DEFINE a == [w EXCEPT !.state = "WORK"]
             b == AddTask(a, t)
             v == StartTask(b)
  <2>1. NewTask(w, t) = [worker |-> v, posts |-> <<>>]
    BY <1>4 DEF NewTask
  <2>2. NewTask(w, t).worker = v /\ NewTask(w, t).posts = <<>>
    BY <2>1
  <2>3. Fair(a) /\ a.state = "WORK" /\ a.active = w.active /\ a.running = w.running /\ Held(a) = Held(w)
    BY <1>1, OtherState
  <2> HIDE DEF a
  <2>4. /\ Fair(b) /\ b.state = "WORK" /\ b.active = w.active /\ b.running = w.running
        /\ Held(b) = Held(w) \cup {t} /\ b.tasks # <<>>
    BY <1>4, <2>3, TaskAdded
  <2> HIDE DEF b
  <2>5. /\ Fair(v) /\ v.state = "WORK" /\ Held(v) = Held(b)
        /\ v.active \subseteq v.running \cup (b.active \ b.running)
        /\ v.active = {} => v.tasks = <<>>
    BY <2>4, Given
  <2>6. v.active # {}
    <3>1. CASE Cardinality(b.active) >= Cpus
      <4>1. b.active # {}
        BY <3>1, FS_EmptySet, CpusAssumption
      <4>2. v = b
        BY <3>1 DEF StartTask
      <4> QED  BY <4>1, <4>2
    <3>2. CASE ~ (Cardinality(b.active) >= Cpus)
      <4>1. v = [b EXCEPT !.tasks = Tail(@), !.active = @ \cup {Head(b.tasks)}, !.running = @ \cup {Head(b.tasks)}]
        BY <2>4, <3>2 DEF StartTask
      <4>2. b \in WorkerType
        BY <2>4, WorkerFields
      <4>3. v.active = b.active \cup {Head(b.tasks)}
        BY <4>1, <4>2 DEF WorkerType
      <4> QED  BY <4>3
    <3> QED  BY <3>1, <3>2
  <2> HIDE DEF v
  <2>7. Sound(v)
    BY <2>5, <2>6, BooksKept
  <2> QED  BY <1>4, <2>2, <2>4, <2>5, <2>7
<1>5. CASE w.state = "NONE"
  <2>1. NewTask(w, t) = [worker |-> w, posts |-> <<>>]
    BY <1>5 DEF NewTask
  <2>2. NewTask(w, t).worker = w /\ NewTask(w, t).posts = <<>>
    BY <2>1
  <2>3. w.active = {} /\ w.tasks = <<>>
    BY <1>1, <1>5 DEF BooksAgree
  <2> QED  BY <1>5, <2>2, <2>3
<1> QED  BY <1>2, <1>3, <1>4, <1>5

LEMMA ProcessStartedSound ==
  ASSUME NEW w, Sound(w)
  PROVE  LET v == ProcessStarted(w)
         IN  /\ Sound(v) /\ Held(v) \subseteq Held(w)
             /\ v.state = "NONE" <=> w.state = "NONE"
             /\ v.state # "OFF" /\ v.active \subseteq v.running \cup (w.active \ w.running)
<1>1. Fair(w) /\ BooksAgree(w)
  BY DEF Sound
<1>2. w.running \subseteq w.active
  BY <1>1 DEF Fair
<1>3. CASE w.state # "OFF"
  <2>1. ProcessStarted(w) = w
    BY <1>3 DEF ProcessStarted
  <2> QED  BY <1>2, <1>3, <2>1
<1>4. CASE w.state = "OFF" /\ w.tasks = <<>>
  <2> DEFINE v == [w EXCEPT !.state = "READY"]
  <2>1. ProcessStarted(w) = v
    BY <1>4 DEF ProcessStarted
  <2>2. /\ Fair(v) /\ v.state = "READY" /\ v.active = w.active /\ v.running = w.running
        /\ Held(v) = Held(w) /\ v.tasks = w.tasks
    BY <1>1, OtherState
  <2>3. w.active = {}
    BY <1>1, <1>4 DEF BooksAgree
  <2> HIDE DEF v
  <2>4. Sound(v)
    BY <1>4, <2>2, <2>3, BooksKept
  <2> QED  BY <1>4, <2>1, <2>2, <2>3, <2>4
<1>5. CASE w.state = "OFF" /\ w.tasks # <<>>
  <2> DEFINE a == [w EXCEPT !.state = "WORK"]
             v == StartTask(a)
  <2>1. ProcessStarted(w) = v
    BY <1>5 DEF ProcessStarted
  <2>2. /\ Fair(a) /\ a.state = "WORK" /\ a.active = w.active /\ a.running = w.running
        /\ Held(a) = Held(w) /\ a.tasks = w.tasks
    BY <1>1, OtherState
  <2>3. w.active = {}
    BY <1>1, <1>5 DEF BooksAgree
  <2> HIDE DEF a
  <2>4. /\ Fair(v) /\ v.state = "WORK" /\ Held(v) = Held(a)
        /\ v.active \subseteq v.running \cup (a.active \ a.running)
    BY <2>2, Given
  <2>5. v.active # {}
    <3>1. Cardinality(a.active) = 0
      BY <2>2, <2>3, FS_EmptySet
    <3>2. v = [a EXCEPT !.tasks = Tail(@), !.active = @ \cup {Head(a.tasks)}, !.running = @ \cup {Head(a.tasks)}]
      BY <1>5, <2>2, <3>1, CpusAssumption DEF StartTask
    <3>3. a \in WorkerType
      BY <2>2, WorkerFields
    <3>4. v.active = a.active \cup {Head(a.tasks)}
      BY <3>2, <3>3 DEF WorkerType
    <3> QED  BY <3>4
  <2> HIDE DEF v
  <2>6. Sound(v)
    BY <2>4, <2>5, BooksKept
  <2> QED  BY <1>5, <2>1, <2>2, <2>4, <2>6
<1> QED  BY <1>3, <1>4, <1>5

LEMMA TaskDoneSound ==
  ASSUME NEW w, Sound(w), NEW t \in Task, NEW r, \A u \in Held(w) : u.kind # t.kind
  PROVE  LET v == TaskDone(w, t, r).worker
             posts == TaskDone(w, t, r).posts
         IN  /\ Sound(v) /\ Held(v) \subseteq Held(w)
             /\ v.state = "NONE" <=> w.state = "NONE"
             /\ posts = <<>> \/ (w.state = "WORK" /\ posts = <<CallBack(t, r)>>)
             /\ v.state = "OFF" => v = w
             /\ v.active \subseteq v.running \cup ((w.active \ {t}) \ w.running)
<1>1. Fair(w) /\ BooksAgree(w)
  BY DEF Sound
<1>2. CASE w.state # "WORK"
  <2>1. TaskDone(w, t, r) = [worker |-> w, posts |-> <<>>]
    BY <1>2 DEF TaskDone
  <2>2. TaskDone(w, t, r).worker = w /\ TaskDone(w, t, r).posts = <<>>
    BY <2>1
  <2>3. w.active = {}
    BY <1>1, <1>2 DEF BooksAgree
  <2> QED  BY <2>2, <2>3
<1>3. CASE w.state = "WORK"
  <2> DEFINE a == [w EXCEPT !.callbacks = @ \ {t}, !.active = @ \ {t}]
             b == StartTask(a)
             s == IF b.active = {} THEN "READY" ELSE "WORK"
             v == [b EXCEPT !.state = s]
  <2>1. TaskDone(w, t, r) = [worker |-> v, posts |-> <<CallBack(t, r)>>]
    BY <1>3 DEF TaskDone
  <2>2. TaskDone(w, t, r).worker = v /\ TaskDone(w, t, r).posts = <<CallBack(t, r)>>
    BY <2>1
  <2>3. w \in WorkerType
    BY <1>1, WorkerFields
  <2>4. /\ a.state = "WORK" /\ a.tasks = w.tasks /\ a.active = w.active \ {t} /\ a.running = w.running
        /\ a.callbacks = w.callbacks \ {t}
    BY <1>3, <2>3 DEF WorkerType
  <2>5. a \in WorkerType
    <3>1. w.active \ {t} \in SUBSET Task /\ w.callbacks \ {t} \in SUBSET Task
      BY <2>3 DEF WorkerType
    <3> QED  BY <2>3, <3>1 DEF WorkerType
  <2> HIDE DEF a
  <2>6. t \notin Held(w)
    OBVIOUS
  <2>7. Fair(a)
    <3>1. IsFiniteSet(w.active \ {t}) /\ Cardinality(w.active \ {t}) <= Cardinality(w.active)
      <4>1. IsFiniteSet(w.active)
        BY <1>1 DEF Fair
      <4>2. w.active \ {t} \in SUBSET w.active
        OBVIOUS
      <4> QED  BY <4>1, <4>2, FS_Subset
    <3>2. Cardinality(w.active \ {t}) <= Cpus
      <4>1. IsFiniteSet(w.active) /\ Cardinality(w.active) <= Cpus
        BY <1>1 DEF Fair
      <4> QED  BY <3>1, <4>1, FS_CardinalityType, CpusAssumption
    <3>3. HeldOnce(a)
      BY <1>1, <2>4 DEF Fair, HeldOnce
    <3>4. a.callbacks = ToSet(a.tasks) \cup a.active /\ a.running \subseteq a.active
      BY <1>1, <2>4, <2>6 DEF Fair, Held
    <3> QED  BY <2>4, <2>5, <3>1, <3>2, <3>3, <3>4 DEF Fair
  <2>8. Held(a) = Held(w)
    BY <2>4 DEF Held
  <2>9. /\ Fair(b) /\ Held(b) = Held(a)
        /\ b.active \subseteq b.running \cup (a.active \ a.running)
        /\ b.active = {} => b.tasks = <<>>
    BY <2>7, Given
  <2> HIDE DEF b
  <2>10. s \in {"OFF", "READY", "WORK", "NONE"} /\ s # "OFF" /\ s # "NONE"
    OBVIOUS
  <2>11. /\ Fair(v) /\ v.state = s /\ v.tasks = b.tasks /\ v.active = b.active
         /\ v.running = b.running /\ Held(v) = Held(b)
    <3> HIDE DEF s
    <3> QED  BY <2>9, <2>10, OtherState
  <2> HIDE DEF v
  <2>12. Sound(v)
    BY <2>9, <2>11, BooksKept
  <2> QED  BY <1>3, <2>2, <2>4, <2>8, <2>9, <2>10, <2>11, <2>12
<1> QED  BY <1>2, <1>3

LEMMA InOrder ==
  ASSUME NEW S, NEW T \in SUBSET S, IsFiniteSet(T)
  PROVE  SetToSeq(T) \in Seq(S)
<1> DEFINE n == Cardinality(T)
<1>1. n \in Nat
  BY FS_CardinalityType
<1>2. ExistsBijection(1..n, T)
  BY FS_CardinalityType
<1>3. PICK f \in [1..n -> T] : IsInjective(f)
  BY <1>2, Zenon DEF ExistsBijection, Bijection, Injection
<1>4. SetToSeq(T) \in [1..n -> T]
  BY <1>3 DEF SetToSeq
<1> QED  BY <1>1, <1>4, IsASeq

LEMMA ShutdownSound ==
  ASSUME NEW w, Sound(w)
  PROVE  LET v == Shutdown(w).worker
             posts == Shutdown(w).posts
         IN  /\ Sound(v) /\ Held(v) = {} /\ v.state = "NONE" /\ v.active = {}
             /\ posts \in Seq(ToTheUser) /\ \A i \in DOMAIN posts : ~ posts[i].result.done
<1>1. Fair(w) /\ w.tasks \in Seq(Task) /\ w.active \in SUBSET Task /\ IsFiniteSet(w.active)
  BY WorkerFields DEF Sound, Fair
<1>2. /\ NoWorker.state = "NONE" /\ NoWorker.tasks = <<>> /\ NoWorker.active = {}
      /\ NoWorker.running = {} /\ NoWorker.callbacks = {}
  BY DEF NoWorker, NewWorker
<1>3. NoWorker \in WorkerType
  <2>1. <<>> \in Seq(Task)
    OBVIOUS
  <2> QED  BY <2>1 DEF NoWorker, NewWorker, WorkerType
<1>4. ToSet(<<>>) = {} /\ IsFiniteSet({}) /\ Cardinality({}) = 0
  BY FS_EmptySet DEF ToSet
<1>5. Sound(NoWorker)
  BY <1>2, <1>3, <1>4, CpusAssumption DEF Sound, Fair, BooksAgree, HeldOnce
<1>6. Held(NoWorker) = {}
  BY <1>2, <1>4 DEF Held
<1> DEFINE order == w.tasks \o SetToSeq(w.active)
           told == [i \in DOMAIN order |-> CallBack(order[i], NoResult)]
<1>7. order \in Seq(Task)
  BY <1>1, InOrder, ConcatProperties
<1> HIDE DEF order
<1>8. ASSUME NEW i \in DOMAIN order
      PROVE  CallBack(order[i], NoResult) \in ToTheUser /\ CallBack(order[i], NoResult).result = NoResult
  <2>1. order[i] \in Task
    BY <1>7, ElementOfSeq, LenProperties
  <2> QED  BY <2>1 DEF CallBack, ToTheUser, Result
<1>9. told \in Seq(ToTheUser) /\ \A i \in DOMAIN told : ~ told[i].result.done
  <2>1. DOMAIN order = 1..Len(order) /\ Len(order) \in Nat
    BY <1>7, LenProperties
  <2>2. told \in [1..Len(order) -> ToTheUser]
    BY <1>8, <2>1
  <2>3. told \in Seq(ToTheUser)
    BY <2>1, <2>2, IsASeq
  <2>4. \A i \in DOMAIN order : told[i] = CallBack(order[i], NoResult)
    OBVIOUS
  <2>5. \A i \in DOMAIN order : told[i].result = NoResult
    BY <1>8, <2>4
  <2>6. DOMAIN told = DOMAIN order /\ NoResult.done = FALSE
    BY DEF NoResult
  <2> HIDE DEF told
  <2> QED  BY <2>3, <2>5, <2>6
<1>10. /\ Shutdown(w).worker = NoWorker
       /\ Shutdown(w).posts = <<>> \/ Shutdown(w).posts = told
  BY DEF Shutdown, order
<1> HIDE DEF told
<1>11. <<>> \in Seq(ToTheUser) /\ DOMAIN <<>> = {}
  OBVIOUS
<1> QED  BY <1>2, <1>5, <1>6, <1>9, <1>10, <1>11

(* The timers of the worker.                                               *)
LEMMA TimersSound ==
  ASSUME NEW w, Sound(w)
  PROVE  LET v == IF w.state = "WORK" THEN TaskStarted(w) ELSE Idle(w)
         IN  /\ Sound(v) /\ Held(v) = Held(w) /\ (v.state = "NONE" <=> w.state = "NONE")
             /\ v.state = "OFF" /\ v.tasks # <<>> => w.state = "OFF" /\ w.tasks # <<>>
             /\ v.active \subseteq v.running \cup (w.active \ w.running)
<1>1. Fair(w) /\ BooksAgree(w) /\ w.running \subseteq w.active
  BY DEF Sound, Fair
<1>2. CASE w.state = "WORK"
  <2> DEFINE v == StartTask(w)
  <2>1. TaskStarted(w) = v
    BY <1>2 DEF TaskStarted
  <2>2. /\ Fair(v) /\ v.state = "WORK" /\ Held(v) = Held(w)
        /\ v.active \subseteq v.running \cup (w.active \ w.running)
        /\ v.active = {} => v.tasks = <<>>
    BY <1>1, <1>2, Given
  <2>3. v.active # {}
    <3>1. w.active # {}
      BY <1>1, <1>2 DEF BooksAgree
    <3>2. CASE Cardinality(w.active) >= Cpus \/ w.tasks = <<>>
      BY <3>1, <3>2 DEF StartTask
    <3>3. CASE ~ (Cardinality(w.active) >= Cpus \/ w.tasks = <<>>)
      <4>1. v = [w EXCEPT !.tasks = Tail(@), !.active = @ \cup {Head(w.tasks)}, !.running = @ \cup {Head(w.tasks)}]
        BY <3>3 DEF StartTask
      <4>2. w \in WorkerType
        BY <1>1, WorkerFields
      <4>3. v.active = w.active \cup {Head(w.tasks)}
        BY <4>1, <4>2 DEF WorkerType
      <4> QED  BY <4>3
    <3> QED  BY <3>2, <3>3
  <2> HIDE DEF v
  <2>4. Sound(v)
    BY <2>2, <2>3, BooksKept
  <2> QED  BY <1>2, <2>1, <2>2, <2>4
<1>3. CASE w.state = "READY"
  <2> DEFINE v == [w EXCEPT !.state = "OFF"]
  <2>1. Idle(w) = v
    BY <1>3 DEF Idle
  <2>2. /\ Fair(v) /\ v.state = "OFF" /\ v.active = w.active /\ v.running = w.running
        /\ Held(v) = Held(w) /\ v.tasks = w.tasks
    BY <1>1, OtherState
  <2>3. w.active = {} /\ w.tasks = <<>>
    BY <1>1, <1>3 DEF BooksAgree
  <2> HIDE DEF v
  <2>4. Sound(v)
    BY <2>2, <2>3 DEF Sound, Fair, BooksAgree
  <2> QED  BY <1>3, <2>1, <2>2, <2>3, <2>4
<1>4. CASE w.state \notin {"WORK", "READY"}
  <2>1. Idle(w) = w
    BY <1>4 DEF Idle
  <2> QED  BY <1>1, <1>4, <2>1
<1> QED  BY <1>2, <1>3, <1>4

LEMMA EndedSound ==
  ASSUME NEW w, Sound(w), NEW t \in w.running
  PROVE  LET v == [w EXCEPT !.running = @ \ {t}]
         IN  /\ Sound(v) /\ Held(v) \subseteq Held(w) /\ v.state = w.state /\ v.tasks = w.tasks
             /\ v.active = w.active /\ v.running = w.running \ {t}
             /\ w.state # "NONE" /\ t \in Task /\ \A u \in Held(v) : u.kind # t.kind
<1> DEFINE v == [w EXCEPT !.running = w.running \ {t}]
<1>1. Fair(w) /\ BooksAgree(w) /\ w \in WorkerType /\ t \in Task
  BY WorkerFields DEF Sound
<1>2. w.running \ {t} \in SUBSET Task
  BY <1>1, WorkerFields
<1>3. /\ v \in WorkerType /\ v.state = w.state /\ v.tasks = w.tasks /\ v.active = w.active
      /\ v.running = w.running \ {t} /\ v.callbacks = w.callbacks
  BY <1>1, <1>2 DEF WorkerType
<1> HIDE DEF v
<1>4. Fair(v)
  BY <1>1, <1>3 DEF Fair, HeldOnce
<1>5. Sound(v)
  BY <1>1, <1>3, <1>4 DEF Sound, BooksAgree
<1>6. w.state # "NONE"
  BY <1>1 DEF Fair, BooksAgree
<1>7. \A u \in Held(v) : u.kind # t.kind
  BY <1>1, <1>3 DEF Fair, HeldOnce, Held
<1>8. Held(v) \subseteq Held(w)
  BY <1>3 DEF Held
<1> QED  BY <1>1, <1>3, <1>5, <1>6, <1>7, <1>8 DEF v

-----------------------------------------------------------------------------
(* Where a task is: spoken of by a message of the queue, or with the       *)
(* worker.  A message counts while the worker that will hear of it lives,  *)
(* and a result that is told to the user counts in any case.               *)

Token(m, k) ==
  \/ m.to = "worker" /\ m.event \in {"new-task", "task-done"} /\ m.task.kind = k
  \/ m.to = "user" /\ m.task.kind = k
  \/ k = "rebuild" /\ (m.to = "chain" \/ (m.to = "rebuilder" /\ m.event = "rebuilding-finished"))
Tells(m) == m.to = "user" /\ m.result.done
Live(q, s, i) == s # "NONE" /\ \A j \in 1..i - 1 : q[j].event # "shutdown"
Counts(q, s, i, k) == Token(q[i], k) /\ (Live(q, s, i) \/ Tells(q[i]))
Stopping(q, s) == s = "NONE" \/ \E i \in 1..Len(q) : q[i].event = "shutdown"

Has(w, k) == \E t \in Held(w) : t.kind = k
Free(q, s, k) == \A i \in 1..Len(q) : ~ Counts(q, s, i, k)
Single(q, s, k) == \A i, j \in 1..Len(q) : Counts(q, s, i, k) /\ Counts(q, s, j, k) => i = j
OneTask(q, w, k) == Single(q, w.state, k) /\ (Has(w, k) => Free(q, w.state, k))
NoTaskOf(q, w, k) == Free(q, w.state, k) /\ ~ Has(w, k)

(* What follows a queue: without its first o messages and with ms more.    *)
Follows(q, r, o, ms) ==
  /\ o \in {0, 1} /\ o <= Len(q) /\ Len(r) = (Len(q) - o) + Len(ms)
  /\ \A i \in 1..Len(q) - o : r[i] = q[i + o]
  /\ \A i \in 1..Len(ms) : r[(Len(q) - o) + i] = ms[i]
(* A shutdown is not passed over.                                          *)
Heard(q, o, s) == o = 1 => q[1].event # "shutdown" \/ s = "NONE"

LEMMA FollowsPost ==
  ASSUME NEW q \in Seq(Message), q # <<>>, NEW ms \in Seq(Message)
  PROVE  /\ Tail(q) \o ms \in Seq(Message) /\ Follows(q, Tail(q) \o ms, 1, ms)
         /\ Head(q) = q[1] /\ Head(q) \in Message /\ 1 \in 1..Len(q)
<1>1. /\ Head(q) = q[1] /\ Head(q) \in Message /\ Tail(q) \in Seq(Message) /\ Len(Tail(q)) = Len(q) - 1
      /\ Len(q) >= 1 /\ \A i \in 1..Len(q) - 1 : Tail(q)[i] = q[i + 1]
  BY HeadTail
<1>2. Len(q) \in Nat /\ Len(ms) \in Nat
  BY LenProperties
<1> DEFINE t == Tail(q)
           r == t \o ms
<1> HIDE DEF t
<1>3. /\ r \in Seq(Message) /\ Len(r) = Len(t) + Len(ms)
      /\ \A i \in 1..Len(t) + Len(ms) : r[i] = IF i <= Len(t) THEN t[i] ELSE ms[i - Len(t)]
  BY <1>1, ConcatProperties DEF t
<1> HIDE DEF r
<1>4. ASSUME NEW i \in 1..Len(q) - 1 PROVE r[i] = q[i + 1]
  <2>1. i \in 1..Len(t) + Len(ms) /\ i <= Len(t) /\ i \in 1..Len(t)
    BY <1>1, <1>2 DEF t
  <2>2. r[i] = t[i]
    BY <1>3, <2>1
  <2> QED  BY <1>1, <2>2 DEF t
<1>5. ASSUME NEW i \in 1..Len(ms) PROVE r[(Len(q) - 1) + i] = ms[i]
  <2>1. (Len(q) - 1) + i \in 1..Len(t) + Len(ms) /\ ~ ((Len(q) - 1) + i <= Len(t)) /\ ((Len(q) - 1) + i) - Len(t) = i
    BY <1>1, <1>2 DEF t
  <2> QED  BY <1>3, <2>1
<1>6. Follows(q, r, 1, ms)
  BY <1>1, <1>2, <1>3, <1>4, <1>5 DEF Follows, t
<1>7. 1 \in 1..Len(q)
  BY <1>1, <1>2
<1> QED  BY <1>1, <1>3, <1>6, <1>7 DEF r, t

LEMMA FollowsAppend ==
  ASSUME NEW q \in Seq(Message), NEW m \in Message
  PROVE  Append(q, m) \in Seq(Message) /\ Follows(q, Append(q, m), 0, <<m>>)
<1>1. /\ Append(q, m) \in Seq(Message) /\ Len(Append(q, m)) = Len(q) + 1
      /\ \A i \in 1..Len(q) : Append(q, m)[i] = q[i]
      /\ Append(q, m)[Len(q) + 1] = m
  BY Appended
<1> DEFINE r == Append(q, m)
           ms == <<m>>
<1>2. Len(ms) = 1 /\ ms[1] = m /\ Len(q) \in Nat
  BY LenProperties
<1> HIDE DEF r, ms
<1>3. Follows(q, r, 0, ms)
  BY <1>1, <1>2 DEF Follows, r
<1> QED  BY <1>1, <1>3 DEF r, ms

(* Nothing happens to the queue.                                           *)
LEMMA FollowsItself ==
  ASSUME NEW q \in Seq(Message)
  PROVE  Follows(q, q, 0, <<>>)
<1>1. Len(q) \in Nat /\ Len(<<>>) = 0
  BY LenProperties
<1> QED  BY <1>1 DEF Follows

(* A message that counts did so before, or is new.                         *)
LEMMA Counted ==
  ASSUME NEW q \in Seq(Message), NEW r \in Seq(Message), NEW ms \in Seq(Message), NEW o,
         Follows(q, r, o, ms), NEW s, NEW s2, Heard(q, o, s2), s2 # "NONE" => s # "NONE",
         NEW k, NEW i \in 1..Len(r), Counts(r, s2, i, k)
  PROVE  \/ i + o \in 1..Len(q) /\ i + o # o /\ r[i] = q[i + o] /\ Counts(q, s, i + o, k)
         \/ \E j \in 1..Len(ms) : /\ i = (Len(q) - o) + j /\ r[i] = ms[j] /\ Token(ms[j], k)
                                  /\ Tells(ms[j]) \/ ~ Stopping(q, s2)
<1>1. /\ Len(q) \in Nat /\ Len(ms) \in Nat /\ o \in {0, 1} /\ o <= Len(q)
      /\ Len(r) = (Len(q) - o) + Len(ms)
  BY LenProperties DEF Follows
<1>2. Live(r, s2, i) => \A j \in 1 + o..Len(q) : j < i + o => q[j].event # "shutdown"
  <2>1. SUFFICES ASSUME Live(r, s2, i), NEW j \in 1 + o..Len(q), j < i + o PROVE q[j].event # "shutdown"
    OBVIOUS
  <2>2. j - o \in 1..Len(q) - o /\ (j - o) + o = j /\ j - o \in 1..i - 1
    BY <1>1, <2>1
  <2>3. r[j - o] = q[j]
    BY <2>2 DEF Follows
  <2> QED  BY <2>1, <2>2, <2>3 DEF Live
<1>3. Live(r, s2, i) => s2 # "NONE" /\ s # "NONE" /\ (o = 1 => q[1].event # "shutdown")
  BY DEF Live, Heard
<1>4. Live(r, s2, i) => \A j \in 1..Len(q) : j < i + o => q[j].event # "shutdown"
  <2>1. SUFFICES ASSUME Live(r, s2, i), NEW j \in 1..Len(q), j < i + o PROVE q[j].event # "shutdown"
    OBVIOUS
  <2>2. j \in 1 + o..Len(q) \/ (o = 1 /\ j = 1)
    BY <1>1
  <2> QED  BY <1>2, <1>3, <2>1, <2>2
<1>5. CASE i \in 1..Len(q) - o
  <2>1. i + o \in 1..Len(q) /\ r[i] = q[i + o] /\ i + o # o
    BY <1>1, <1>5 DEF Follows
  <2>2. Live(r, s2, i) => Live(q, s, i + o)
    <3>1. \A j \in 1..(i + o) - 1 : j \in 1..Len(q) /\ j < i + o
      BY <1>1, <2>1
    <3> QED  BY <1>3, <1>4, <3>1 DEF Live
  <2> QED  BY <2>1, <2>2 DEF Counts
<1>6. CASE i \notin 1..Len(q) - o
  <2> DEFINE j == i - (Len(q) - o)
  <2>1. j \in 1..Len(ms) /\ i = (Len(q) - o) + j /\ \A x \in 1..Len(q) : x < i + o
    BY <1>1, <1>6
  <2> HIDE DEF j
  <2>2. r[i] = ms[j]
    BY <2>1 DEF Follows
  <2>3. Live(r, s2, i) => ~ Stopping(q, s2)
    BY <1>3, <1>4, <2>1 DEF Stopping
  <2> QED  BY <2>1, <2>2, <2>3 DEF Counts
<1> QED  BY <1>5, <1>6

(* A shutdown in the queue stays there until the worker is gone.           *)
LEMMA StillStopping ==
  ASSUME NEW q \in Seq(Message), NEW r \in Seq(Message), NEW ms \in Seq(Message), NEW o,
         Follows(q, r, o, ms), NEW s, NEW s2, Heard(q, o, s2), s2 # "NONE" => s # "NONE",
         Stopping(q, s)
  PROVE  Stopping(r, s2)
<1>1. /\ Len(q) \in Nat /\ Len(ms) \in Nat /\ o \in {0, 1} /\ o <= Len(q)
      /\ Len(r) = (Len(q) - o) + Len(ms)
  BY LenProperties DEF Follows
<1>2. SUFFICES ASSUME s2 # "NONE" PROVE Stopping(r, s2)
  BY DEF Stopping
<1>3. PICK i \in 1..Len(q) : q[i].event = "shutdown"
  BY <1>2 DEF Stopping
<1>4. ~ (o = 1 /\ i = 1)
  BY <1>2, <1>3 DEF Heard
<1>5. i - o \in 1..Len(q) - o /\ (i - o) + o = i /\ i - o \in 1..Len(r)
  BY <1>1, <1>4
<1>6. r[i - o] = q[i]
  BY <1>5 DEF Follows
<1> QED  BY <1>3, <1>5, <1>6 DEF Stopping

(* A step of the queue from q to r and of the worker from w to v.          *)
Step(q, r, o, ms, w, v) ==
  /\ Follows(q, r, o, ms) /\ Heard(q, o, v.state) /\ (v.state # "NONE" => w.state # "NONE")
(* No new message counts, and no task is new to the worker.                *)
Mute(ms, q, s, k) == \A j \in 1..Len(ms) : Token(ms[j], k) => Stopping(q, s) /\ ~ Tells(ms[j])
Quiet(q, ms, w, v, k) == Mute(ms, q, v.state, k) /\ (Has(v, k) => Has(w, k))
(* Nothing counts but the message that is taken, and one that is new.      *)
Moves(q, o, ms, w, v, k) ==
  /\ \A i \in 1..Len(q) : Counts(q, w.state, i, k) => i <= o
  /\ \A i, j \in 1..Len(ms) : Token(ms[i], k) /\ Token(ms[j], k) => i = j
  /\ (\E j \in 1..Len(ms) : Token(ms[j], k)) => ~ Has(v, k)

LEMMA QuietStep ==
  ASSUME NEW q \in Seq(Message), NEW r \in Seq(Message), NEW ms \in Seq(Message), NEW o,
         NEW w, NEW v, Step(q, r, o, ms, w, v), NEW k, Quiet(q, ms, w, v, k), OneTask(q, w, k)
  PROVE  /\ OneTask(r, v, k) /\ (NoTaskOf(q, w, k) => NoTaskOf(r, v, k))
         /\ \A i \in 1..Len(r) : Counts(r, v.state, i, k) =>
              i + o \in 1..Len(q) /\ r[i] = q[i + o] /\ Counts(q, w.state, i + o, k)
<1>1. Follows(q, r, o, ms) /\ Heard(q, o, v.state) /\ (v.state # "NONE" => w.state # "NONE")
  BY DEF Step
<1>2. ASSUME NEW i \in 1..Len(r), Counts(r, v.state, i, k)
      PROVE  i + o \in 1..Len(q) /\ r[i] = q[i + o] /\ Counts(q, w.state, i + o, k)
  BY <1>1, <1>2, Counted DEF Quiet, Mute
<1>3. o \in {0, 1}
  BY <1>1 DEF Follows
<1>4. Single(r, v.state, k)
  <2>1. SUFFICES ASSUME NEW i \in 1..Len(r), NEW j \in 1..Len(r), Counts(r, v.state, i, k), Counts(r, v.state, j, k)
                 PROVE  i = j
    BY Zenon DEF Single
  <2>2. i + o = j + o
    BY <1>2, <2>1, Zenon DEF OneTask, Single
  <2> QED  BY <1>3, <2>2
<1>5. Free(q, w.state, k) => Free(r, v.state, k)
  BY <1>2, Zenon DEF Free
<1>6. Has(v, k) => Has(w, k)
  BY DEF Quiet
<1> QED  BY <1>2, <1>4, <1>5, <1>6 DEF OneTask, NoTaskOf

LEMMA MovesStep ==
  ASSUME NEW q \in Seq(Message), NEW r \in Seq(Message), NEW ms \in Seq(Message), NEW o,
         NEW w, NEW v, Step(q, r, o, ms, w, v), NEW k, Moves(q, o, ms, w, v, k)
  PROVE  /\ OneTask(r, v, k)
         /\ \A i \in 1..Len(r) : Counts(r, v.state, i, k) =>
              \E j \in 1..Len(ms) : i = (Len(q) - o) + j /\ r[i] = ms[j] /\ Token(ms[j], k)
<1>1. Follows(q, r, o, ms) /\ Heard(q, o, v.state) /\ (v.state # "NONE" => w.state # "NONE")
  BY DEF Step
<1>2. o \in {0, 1} /\ Len(q) \in Nat /\ Len(r) \in Nat
  BY <1>1, LenProperties DEF Follows
<1>3. ASSUME NEW i \in 1..Len(r), Counts(r, v.state, i, k)
      PROVE  \E j \in 1..Len(ms) : i = (Len(q) - o) + j /\ r[i] = ms[j] /\ Token(ms[j], k)
  <2>1. ~ (i + o <= o)
    BY <1>2
  <2>2. ~ (i + o \in 1..Len(q) /\ Counts(q, w.state, i + o, k))
    BY <2>1 DEF Moves
  <2> QED  BY <1>1, <1>3, <2>2, Counted
<1>4. Single(r, v.state, k)
  <2>1. SUFFICES ASSUME NEW i \in 1..Len(r), NEW j \in 1..Len(r), Counts(r, v.state, i, k), Counts(r, v.state, j, k)
                 PROVE  i = j
    BY Zenon DEF Single
  <2>2. PICK a \in 1..Len(ms) : i = (Len(q) - o) + a /\ Token(ms[a], k)
    BY <1>3, <2>1
  <2>3. PICK b \in 1..Len(ms) : j = (Len(q) - o) + b /\ Token(ms[b], k)
    BY <1>3, <2>1
  <2>4. a = b
    BY <2>2, <2>3 DEF Moves
  <2> QED  BY <2>2, <2>3, <2>4
<1>5. Has(v, k) => Free(r, v.state, k)
  BY <1>3 DEF Moves, Free
<1> QED  BY <1>3, <1>4, <1>5 DEF OneTask

(* The message that is taken is the one that counts.                       *)
LEMMA HeadCounts ==
  ASSUME NEW q \in Seq(Message), q # <<>>, NEW w, NEW k, OneTask(q, w, k),
         Token(q[1], k), w.state # "NONE" \/ Tells(q[1])
  PROVE  /\ Counts(q, w.state, 1, k) /\ ~ Has(w, k) /\ ~ NoTaskOf(q, w, k)
         /\ \A i \in 1..Len(q) : Counts(q, w.state, i, k) => i <= 1
<1>1. 1 \in 1..Len(q)
  <2>1. Len(q) \in Nat /\ Len(q) # 0
    BY LenProperties, EmptySeq
  <2> QED  BY <2>1
<1>2. Counts(q, w.state, 1, k)
  <2>1. 1..1 - 1 = {}
    OBVIOUS
  <2> QED  BY <2>1 DEF Counts, Live
<1>3. ~ Free(q, w.state, k)
  BY <1>1, <1>2, Zenon DEF Free
<1>4. \A i \in 1..Len(q) : Counts(q, w.state, i, k) => i = 1
  BY <1>1, <1>2, Zenon DEF OneTask, Single
<1> QED  BY <1>2, <1>3, <1>4 DEF OneTask, NoTaskOf

(* The orders of the rebuilder and of the job of the user: one task of a   *)
(* kind; none is left when the rebuilder does not wait for one, or the     *)
(* worker is being stopped; with no block before the one in hand, the      *)
(* chain only ends.                                                        *)
RebuildOrder(q, w, x, st) ==
  /\ OneTask(q, w, "rebuild")
  /\ st # "REBUILDING" => NoTaskOf(q, w, "rebuild") \/ Stopping(q, w.state)
  /\ x = 0 => /\ ~ Has(w, "rebuild")
              /\ \A i \in 1..Len(q) : Counts(q, w.state, i, "rebuild") => q[i].to \notin {"worker", "user"}
MakeOrder(q, w, jb) ==
  /\ OneTask(q, w, "make")
  /\ jb # "running" => NoTaskOf(q, w, "make") \/ w.state = "NONE"

LEMMA RebuildQuiet ==
  ASSUME NEW q \in Seq(Message), NEW r \in Seq(Message), NEW ms \in Seq(Message), NEW o,
         NEW w, NEW v, Step(q, r, o, ms, w, v), Quiet(q, ms, w, v, "rebuild"),
         NEW x, NEW y, y = x \/ y # 0, NEW st, NEW st2,
         st # "REBUILDING" \/ st2 = "REBUILDING" \/ Stopping(r, v.state),
         RebuildOrder(q, w, x, st)
  PROVE  RebuildOrder(r, v, y, st2)
<1>1. Follows(q, r, o, ms) /\ Heard(q, o, v.state) /\ (v.state # "NONE" => w.state # "NONE")
  BY DEF Step
<1>2. OneTask(q, w, "rebuild")
  BY DEF RebuildOrder
<1>3. /\ OneTask(r, v, "rebuild") /\ (NoTaskOf(q, w, "rebuild") => NoTaskOf(r, v, "rebuild"))
      /\ \A i \in 1..Len(r) : Counts(r, v.state, i, "rebuild") =>
           i + o \in 1..Len(q) /\ r[i] = q[i + o] /\ Counts(q, w.state, i + o, "rebuild")
  BY <1>2, QuietStep
<1>4. Stopping(q, w.state) => Stopping(r, v.state)
  BY <1>1, StillStopping
<1>5. Has(v, "rebuild") => Has(w, "rebuild")
  BY DEF Quiet
<1> QED  BY <1>3, <1>4, <1>5 DEF RebuildOrder

LEMMA RebuildMoves ==
  ASSUME NEW q \in Seq(Message), NEW r \in Seq(Message), NEW ms \in Seq(Message), NEW o,
         NEW w, NEW v, Step(q, r, o, ms, w, v), Moves(q, o, ms, w, v, "rebuild"),
         NEW y, NEW st2,
         st2 # "REBUILDING" => \/ Stopping(r, v.state)
                               \/ ~ Has(v, "rebuild") /\ \A j \in 1..Len(ms) : ~ Token(ms[j], "rebuild"),
         y = 0 => /\ ~ Has(v, "rebuild")
                  /\ \A j \in 1..Len(ms) : Token(ms[j], "rebuild") => ms[j].to \notin {"worker", "user"}
  PROVE  RebuildOrder(r, v, y, st2)
<1>1. /\ OneTask(r, v, "rebuild")
      /\ \A i \in 1..Len(r) : Counts(r, v.state, i, "rebuild") =>
           \E j \in 1..Len(ms) : r[i] = ms[j] /\ Token(ms[j], "rebuild")
  BY MovesStep
<1> QED  BY <1>1 DEF RebuildOrder, NoTaskOf, Free

LEMMA MakeQuiet ==
  ASSUME NEW q \in Seq(Message), NEW r \in Seq(Message), NEW ms \in Seq(Message), NEW o,
         NEW w, NEW v, Step(q, r, o, ms, w, v), Quiet(q, ms, w, v, "make"),
         NEW jb, NEW jb2, jb # "running" \/ jb2 = "running", MakeOrder(q, w, jb)
  PROVE  MakeOrder(r, v, jb2)
<1>1. v.state # "NONE" => w.state # "NONE"
  BY DEF Step
<1>2. OneTask(q, w, "make")
  BY DEF MakeOrder
<1>3. OneTask(r, v, "make") /\ (NoTaskOf(q, w, "make") => NoTaskOf(r, v, "make"))
  BY <1>2, QuietStep
<1> QED  BY <1>1, <1>3 DEF MakeOrder

LEMMA MakeMoves ==
  ASSUME NEW q \in Seq(Message), NEW r \in Seq(Message), NEW ms \in Seq(Message), NEW o,
         NEW w, NEW v, Step(q, r, o, ms, w, v), Moves(q, o, ms, w, v, "make"),
         NEW jb2,
         jb2 # "running" => \/ v.state = "NONE"
                            \/ ~ Has(v, "make") /\ \A j \in 1..Len(ms) : ~ Token(ms[j], "make")
  PROVE  MakeOrder(r, v, jb2)
<1>1. /\ OneTask(r, v, "make")
      /\ \A i \in 1..Len(r) : Counts(r, v.state, i, "make") =>
           \E j \in 1..Len(ms) : r[i] = ms[j] /\ Token(ms[j], "make")
  BY MovesStep
<1> QED  BY <1>1 DEF MakeOrder, NoTaskOf, Free

(* The books of the worker and the events that are to come.                *)
Booked(q, w) ==
  /\ w.state = "OFF" /\ w.tasks # <<>> => Comes(q, "process-started") # {}
  /\ w.active \subseteq w.running \cup Comes(q, "task-done")

Brings(m, e) == m.to = "worker" /\ m.event = e

LEMMA Coming ==
  ASSUME NEW q \in Seq(Message), NEW r \in Seq(Message), NEW ms \in Seq(Message), NEW o,
         Follows(q, r, o, ms), NEW e
  PROVE  /\ \A t \in Comes(q, e) : t \in Comes(r, e) \/ (o = 1 /\ Brings(q[1], e) /\ q[1].task = t)
         /\ \A j \in 1..Len(ms) : Brings(ms[j], e) => ms[j].task \in Comes(r, e)
<1>1. /\ Len(q) \in Nat /\ Len(ms) \in Nat /\ Len(r) \in Nat /\ o \in {0, 1} /\ o <= Len(q)
      /\ Len(r) = (Len(q) - o) + Len(ms)
      /\ DOMAIN q = 1..Len(q) /\ DOMAIN r = 1..Len(r) /\ DOMAIN ms = 1..Len(ms)
  BY LenProperties DEF Follows
<1>2. ASSUME NEW i \in 1..Len(r), Brings(r[i], e) PROVE r[i].task \in Comes(r, e)
  <2>1. r[i] \in ToSet(r)
    BY <1>1 DEF ToSet
  <2> QED  BY <1>2, <2>1 DEF Comes, Brings
<1>3. ASSUME NEW t \in Comes(q, e), ~ (o = 1 /\ Brings(q[1], e) /\ q[1].task = t)
      PROVE  t \in Comes(r, e)
  <2>1. PICK m \in ToSet(q) : Brings(m, e) /\ m.task = t
    BY DEF Comes, Brings
  <2>2. PICK i \in 1..Len(q) : q[i] = m
    BY <1>1, <2>1 DEF ToSet
  <2>3. ~ (o = 1 /\ i = 1)
    BY <1>3, <2>1, <2>2
  <2>4. i - o \in 1..Len(q) - o /\ (i - o) + o = i /\ i - o \in 1..Len(r)
    BY <1>1, <2>3
  <2>5. r[i - o] = m
    BY <2>2, <2>4 DEF Follows
  <2> QED  BY <1>2, <2>1, <2>4, <2>5
<1>4. ASSUME NEW j \in 1..Len(ms), Brings(ms[j], e) PROVE ms[j].task \in Comes(r, e)
  <2>1. (Len(q) - o) + j \in 1..Len(r)
    BY <1>1
  <2>2. r[(Len(q) - o) + j] = ms[j]
    BY DEF Follows
  <2> QED  BY <1>2, <1>4, <2>1, <2>2
<1> QED  BY <1>3, <1>4

(* What waits or has ended was known before, or is told of now.            *)
StaysBooked(q, o, ms, w, v) ==
  /\ v.state = "OFF" /\ v.tasks # <<>> =>
       \/ w.state = "OFF" /\ w.tasks # <<>> /\ ~ (o = 1 /\ Brings(q[1], "process-started"))
       \/ \E j \in 1..Len(ms) : Brings(ms[j], "process-started")
  /\ \A t \in v.active : \/ t \in v.running
                         \/ t \in w.active \ w.running /\ ~ (o = 1 /\ Brings(q[1], "task-done") /\ q[1].task = t)
                         \/ \E j \in 1..Len(ms) : Brings(ms[j], "task-done") /\ ms[j].task = t

LEMMA BookedStep ==
  ASSUME NEW q \in Seq(Message), NEW r \in Seq(Message), NEW ms \in Seq(Message), NEW o,
         Follows(q, r, o, ms), NEW w, NEW v, Booked(q, w), StaysBooked(q, o, ms, w, v)
  PROVE  Booked(r, v)
<1>1. v.state = "OFF" /\ v.tasks # <<>> => Comes(r, "process-started") # {}
  <2>1. /\ \A t \in Comes(q, "process-started") :
             t \in Comes(r, "process-started") \/ (o = 1 /\ Brings(q[1], "process-started") /\ q[1].task = t)
        /\ \A j \in 1..Len(ms) : Brings(ms[j], "process-started") => ms[j].task \in Comes(r, "process-started")
    BY Coming
  <2> QED  BY <2>1 DEF Booked, StaysBooked
<1>2. ASSUME NEW t \in v.active PROVE t \in v.running \cup Comes(r, "task-done")
  <2>1. /\ \A u \in Comes(q, "task-done") :
             u \in Comes(r, "task-done") \/ (o = 1 /\ Brings(q[1], "task-done") /\ q[1].task = u)
        /\ \A j \in 1..Len(ms) : Brings(ms[j], "task-done") => ms[j].task \in Comes(r, "task-done")
    BY Coming
  <2> QED  BY <2>1 DEF Booked, StaysBooked
<1> QED  BY <1>1, <1>2 DEF Booked

(* A message about the task that counts is passed on, or is the last.      *)
LEMMA PassedOn ==
  ASSUME NEW q \in Seq(Message), q # <<>>, NEW r \in Seq(Message), NEW ms \in Seq(Message),
         NEW w, NEW v, Step(q, r, 1, ms, w, v), NEW x, NEW y, NEW st,
         RebuildOrder(q, w, x, st), Token(q[1], "rebuild"), w.state # "NONE" \/ Tells(q[1]),
         \A i, j \in 1..Len(ms) : Token(ms[i], "rebuild") /\ Token(ms[j], "rebuild") => i = j,
         (\E j \in 1..Len(ms) : Token(ms[j], "rebuild")) => ~ Has(v, "rebuild"),
         y = 0 => /\ ~ Has(v, "rebuild")
                  /\ \A j \in 1..Len(ms) : Token(ms[j], "rebuild") => ms[j].to \notin {"worker", "user"}
  PROVE  RebuildOrder(r, v, y, st)
<1>1. Follows(q, r, 1, ms) /\ Heard(q, 1, v.state) /\ (v.state # "NONE" => w.state # "NONE")
  BY DEF Step
<1>2. /\ Counts(q, w.state, 1, "rebuild") /\ ~ NoTaskOf(q, w, "rebuild")
      /\ \A i \in 1..Len(q) : Counts(q, w.state, i, "rebuild") => i <= 1
  BY HeadCounts DEF RebuildOrder
<1>3. Moves(q, 1, ms, w, v, "rebuild")
  BY <1>2 DEF Moves
<1>4. Stopping(q, w.state) => Stopping(r, v.state)
  BY <1>1, StillStopping
<1>5. st # "REBUILDING" => Stopping(r, v.state)
  BY <1>2, <1>4 DEF RebuildOrder
<1> QED  BY <1>3, <1>5, RebuildMoves

Order(q, w, x, st, jb) == Sound(w) /\ Booked(q, w) /\ RebuildOrder(q, w, x, st) /\ MakeOrder(q, w, jb)

LEMMA Senders ==
  ASSUME NEW m \in Message
  PROVE  /\ m.to \in {"rebuilder", "monitor", "chain", "worker", "user"}
         /\ m.to = "worker" => \/ m.event \in {"new-task", "task-done"} /\ m.task \in Task /\ m.result \in Result
                               \/ m = ToWorker("process-started", NoTask, NoResult)
                               \/ m = ToWorker("shutdown", NoTask, NoResult)
         /\ m.to = "user" => m.task \in Task /\ m.result \in Result /\ m.event # "shutdown"
         /\ m.to = "rebuilder" => m.event \in ForRebuilder
         /\ m.to # "worker" => m.event # "shutdown"
BY DEF Message, Plain, ForRebuilder, ForProcesses, ToTheWorker, ToTheUser, ToWorker

LEMMA TaskKinds == \A t \in Task : t.kind \in {"rebuild", "make"}
BY DEF Task, RebuildTask, MakeTask

(* The worker handles the message about a task of a kind, or one that      *)
(* makes no task of that kind count.                                       *)
Handles(q, ms, w, v, k) ==
  /\ Token(q[1], k) /\ w.state # "NONE"
  /\ \A i, j \in 1..Len(ms) : Token(ms[i], k) /\ Token(ms[j], k) => i = j
  /\ (\E j \in 1..Len(ms) : Token(ms[j], k)) => ~ Has(v, k)

LEMMA WorkerOrders ==
  ASSUME NEW q \in Seq(Message), q # <<>>, q[1].to = "worker",
         NEW r \in Seq(Message), NEW ms \in Seq(Message), NEW w, NEW v, Step(q, r, 1, ms, w, v),
         \A k \in {"rebuild", "make"} : Handles(q, ms, w, v, k) \/ Quiet(q, ms, w, v, k),
         NEW x, NEW st, NEW jb, RebuildOrder(q, w, x, st), MakeOrder(q, w, jb)
  PROVE  RebuildOrder(r, v, x, st) /\ MakeOrder(r, v, jb)
<1>1. RebuildOrder(r, v, x, st)
  <2>1. CASE Quiet(q, ms, w, v, "rebuild")
    <3>1. st # "REBUILDING" \/ st = "REBUILDING" \/ Stopping(r, v.state)
      OBVIOUS
    <3>2. x = x \/ x # 0
      OBVIOUS
    <3> QED  BY <2>1, <3>1, <3>2, RebuildQuiet
  <2>2. CASE Handles(q, ms, w, v, "rebuild")
    <3>1. Token(q[1], "rebuild") /\ w.state # "NONE"
      BY <2>2 DEF Handles
    <3>2. Counts(q, w.state, 1, "rebuild")
      BY <3>1, HeadCounts DEF RebuildOrder
    <3>3. 1 \in 1..Len(q)
      BY FollowsPost
    <3>4. x # 0
      BY <3>2, <3>3 DEF RebuildOrder
    <3> QED  BY <2>2, <3>1, <3>4, PassedOn DEF Handles
  <2> QED  BY <2>1, <2>2
<1>2. MakeOrder(r, v, jb)
  <2>1. CASE Quiet(q, ms, w, v, "make")
    <3>1. jb # "running" \/ jb = "running"
      OBVIOUS
    <3> QED  BY <2>1, <3>1, MakeQuiet
  <2>2. CASE Handles(q, ms, w, v, "make")
    <3>1. Token(q[1], "make") /\ w.state # "NONE"
      BY <2>2 DEF Handles
    <3>2. ~ NoTaskOf(q, w, "make") /\ \A i \in 1..Len(q) : Counts(q, w.state, i, "make") => i <= 1
      BY <3>1, HeadCounts DEF MakeOrder
    <3>3. Moves(q, 1, ms, w, v, "make") /\ jb = "running"
      BY <2>2, <3>1, <3>2 DEF Handles, Moves, MakeOrder
    <3> QED  BY <3>3, MakeMoves
  <2> QED  BY <2>1, <2>2
<1> QED  BY <1>1, <1>2

(* A worker that is gone holds nothing, and one that is to hear of a task  *)
(* of a kind holds no other.                                               *)
LEMMA HoldsNoOther ==
  ASSUME NEW q \in Seq(Message), q # <<>>, NEW w, Sound(w), NEW t \in Task, Token(q[1], t.kind),
         NEW x, NEW st, NEW jb, RebuildOrder(q, w, x, st), MakeOrder(q, w, jb)
  PROVE  \A u \in Held(w) : u.kind # t.kind
<1>1. CASE w.state = "NONE"
  <2>1. ToSet(w.tasks) = {} /\ w.running = {}
    BY <1>1 DEF Sound, Fair, BooksAgree, ToSet
  <2> QED  BY <2>1 DEF Held
<1>2. CASE w.state # "NONE"
  <2>1. OneTask(q, w, t.kind)
    BY TaskKinds DEF RebuildOrder, MakeOrder
  <2>2. ~ Has(w, t.kind)
    BY <1>2, <2>1, HeadCounts
  <2> QED  BY <2>2 DEF Has
<1> QED  BY <1>1, <1>2

LEMMA NewTaskStep ==
  ASSUME NEW q \in Seq(Message), q # <<>>, q[1].to = "worker", q[1].event = "new-task", q[1].task \in Task,
         NEW w, NEW x, NEW st, NEW jb, Order(q, w, x, st, jb)
  PROVE  LET v == NewTask(w, q[1].task).worker
             ms == NewTask(w, q[1].task).posts
         IN  ms \in Seq(Message) /\ Order(Tail(q) \o ms, v, x, st, jb)
<1> DEFINE t == q[1].task
           v == NewTask(w, t).worker
           ms == NewTask(w, t).posts
           r == Tail(q) \o ms
<1>1. Sound(w) /\ Booked(q, w) /\ RebuildOrder(q, w, x, st) /\ MakeOrder(q, w, jb)
  BY DEF Order
<1>2. Token(q[1], t.kind) /\ t \in Task
  BY DEF Token
<1>3. \A u \in Held(w) : u.kind # t.kind
  BY <1>1, <1>2, HoldsNoOther
<1> HIDE DEF t
<1>4. /\ Sound(v) /\ Held(v) \subseteq Held(w) \cup {t}
      /\ v.state = "NONE" <=> w.state = "NONE"
      /\ w.state = "NONE" => v = w
      /\ ms = <<>> \/ ms = <<ProcessStartedEvent>>
      /\ v.state = "OFF" /\ v.tasks # <<>> => ms = <<ProcessStartedEvent>>
      /\ v.active \subseteq v.running \cup (w.active \ w.running)
  BY <1>1, <1>2, <1>3, NewTaskSound
<1> HIDE DEF v, ms
<1>5. /\ ProcessStartedEvent \in Message /\ ProcessStartedEvent.to = "worker"
      /\ ProcessStartedEvent.event = "process-started"
  BY DEF ProcessStartedEvent, Message, ForProcesses, ToWorker
<1>6. ms \in Seq(Message) /\ \A j \in 1..Len(ms) : ms[j] = ProcessStartedEvent
  <2>1. CASE ms = <<>>
    BY <2>1
  <2>2. CASE ms = <<ProcessStartedEvent>>
    <3> DEFINE m == ProcessStartedEvent
    <3> HIDE DEF m
    <3>1. ms = <<m>> /\ m \in Message
      BY <1>5, <2>2 DEF m
    <3>2. ms \in Seq(Message) /\ \A j \in 1..Len(ms) : ms[j] = m
      BY <3>1
    <3> QED  BY <3>2 DEF m
  <2> QED  BY <1>4, <2>1, <2>2
<1>7. \A j \in 1..Len(ms), k \in {"rebuild", "make"} : ~ Token(ms[j], k)
  BY <1>5, <1>6 DEF Token
<1>8. r \in Seq(Message) /\ Follows(q, r, 1, ms)
  BY <1>6, FollowsPost
<1> HIDE DEF r
<1>9. Step(q, r, 1, ms, w, v)
  BY <1>4, <1>8 DEF Step, Heard
<1>10. ASSUME NEW k \in {"rebuild", "make"} PROVE Handles(q, ms, w, v, k) \/ Quiet(q, ms, w, v, k)
  <2>1. Mute(ms, q, v.state, k)
    BY <1>7 DEF Mute
  <2>2. CASE k = t.kind /\ w.state # "NONE"
    BY <1>2, <1>7, <2>2 DEF Handles
  <2>3. CASE ~ (k = t.kind /\ w.state # "NONE")
    <3>1. Has(v, k) => Has(w, k)
      BY <1>4, <2>3 DEF Has
    <3> QED  BY <2>1, <3>1 DEF Quiet
  <2> QED  BY <2>2, <2>3
<1>11. RebuildOrder(r, v, x, st) /\ MakeOrder(r, v, jb)
  BY <1>1, <1>6, <1>8, <1>9, <1>10, WorkerOrders
<1>12. Booked(r, v)
  <2>1. ms = <<ProcessStartedEvent>> => \E j \in 1..Len(ms) : Brings(ms[j], "process-started")
    <3>1. 1 \in 1..Len(<<ProcessStartedEvent>>)
      OBVIOUS
    <3> QED  BY <1>5, <1>6, <3>1 DEF Brings
  <2>2. ~ Brings(q[1], "task-done")
    BY DEF Brings
  <2>3. StaysBooked(q, 1, ms, w, v)
    BY <1>4, <2>1, <2>2 DEF StaysBooked
  <2> QED  BY <1>1, <1>6, <1>8, <2>3, BookedStep
<1>13. Order(r, v, x, st, jb)
  BY <1>4, <1>11, <1>12 DEF Order
<1> QED  BY <1>6, <1>13 DEF r, v, ms, t

LEMMA TaskDoneStep ==
  ASSUME NEW q \in Seq(Message), q # <<>>, q[1].to = "worker", q[1].event = "task-done", q[1].task \in Task,
         q[1].result \in Result, NEW w, NEW x, NEW st, NEW jb, Order(q, w, x, st, jb)
  PROVE  LET v == TaskDone(w, q[1].task, q[1].result).worker
             ms == TaskDone(w, q[1].task, q[1].result).posts
         IN  ms \in Seq(Message) /\ Order(Tail(q) \o ms, v, x, st, jb)
<1> DEFINE t == q[1].task
           result == q[1].result
           v == TaskDone(w, t, result).worker
           ms == TaskDone(w, t, result).posts
           r == Tail(q) \o ms
           m == CallBack(t, result)
<1>1. Sound(w) /\ Booked(q, w) /\ RebuildOrder(q, w, x, st) /\ MakeOrder(q, w, jb)
  BY DEF Order
<1>2. Token(q[1], t.kind) /\ t \in Task
  BY DEF Token
<1>3. \A u \in Held(w) : u.kind # t.kind
  BY <1>1, <1>2, HoldsNoOther
<1>4. m \in Message /\ m.to = "user" /\ m.task = t
  BY DEF Message, ToTheUser, CallBack
<1>5. t \in Task /\ \A e : Brings(q[1], e) => e = "task-done"
  BY DEF Brings
<1>6. /\ Sound(v) /\ Held(v) \subseteq Held(w)
      /\ v.state = "NONE" <=> w.state = "NONE"
      /\ ms = <<>> \/ (w.state = "WORK" /\ ms = <<m>>)
      /\ v.state = "OFF" => v = w
      /\ v.active \subseteq v.running \cup ((w.active \ {t}) \ w.running)
  <2> HIDE DEF t, result
  <2> QED  BY <1>1, <1>3, <1>5, TaskDoneSound
<1> HIDE DEF v, ms, m
<1>7. /\ ms \in Seq(Message) /\ \A j \in 1..Len(ms) : ms[j] = m /\ w.state = "WORK" /\ j = 1
  <2>1. CASE ms = <<>>
    BY <2>1
  <2>2. CASE ms = <<m>> /\ w.state = "WORK"
    BY <1>4, <2>2
  <2> QED  BY <1>6, <2>1, <2>2
<1>8. \A j \in 1..Len(ms), k \in {"rebuild", "make"} : Token(ms[j], k) => k = t.kind /\ w.state = "WORK"
  BY <1>4, <1>7 DEF Token
<1>9. r \in Seq(Message) /\ Follows(q, r, 1, ms)
  BY <1>7, FollowsPost
<1> HIDE DEF r
<1>10. Step(q, r, 1, ms, w, v)
  BY <1>6, <1>9 DEF Step, Heard
<1>11. Has(v, t.kind) => FALSE
  BY <1>3, <1>6 DEF Has
<1>12. ASSUME NEW k \in {"rebuild", "make"} PROVE Handles(q, ms, w, v, k) \/ Quiet(q, ms, w, v, k)
  <2>1. Has(v, k) => Has(w, k)
    BY <1>6 DEF Has
  <2>2. CASE k = t.kind /\ w.state # "NONE"
    BY <1>2, <1>7, <1>11, <2>2 DEF Handles
  <2>3. CASE ~ (k = t.kind /\ w.state # "NONE")
    BY <1>8, <2>1, <2>3 DEF Quiet, Mute
  <2> QED  BY <2>2, <2>3
<1>13. RebuildOrder(r, v, x, st) /\ MakeOrder(r, v, jb)
  BY <1>1, <1>7, <1>9, <1>10, <1>12, WorkerOrders
<1>14. Booked(r, v)
  <2>1. \A u \in v.active : u \in v.running \/ (u \in w.active \ w.running /\ u # t)
    BY <1>6
  <2>2. v.state = "OFF" /\ v.tasks # <<>> => w.state = "OFF" /\ w.tasks # <<>> /\ ~ Brings(q[1], "process-started")
    BY <1>5, <1>6
  <2>3. StaysBooked(q, 1, ms, w, v)
    BY <2>1, <2>2 DEF StaysBooked
  <2> QED  BY <1>1, <1>7, <1>9, <2>3, BookedStep
<1>15. Order(r, v, x, st, jb)
  BY <1>6, <1>13, <1>14 DEF Order
<1> QED  BY <1>7, <1>15 DEF r, v, ms, t, result

(* The worker begins to work, or is shut down.                             *)
LEMMA ProcessStep ==
  ASSUME NEW q \in Seq(Message), q # <<>>, q[1].to = "worker", q[1].event = "process-started",
         NEW w, NEW x, NEW st, NEW jb, Order(q, w, x, st, jb)
  PROVE  Order(Tail(q) \o <<>>, ProcessStarted(w), x, st, jb)
<1> DEFINE v == ProcessStarted(w)
           ms == <<>>
           r == Tail(q) \o ms
<1>1. Sound(w) /\ Booked(q, w) /\ RebuildOrder(q, w, x, st) /\ MakeOrder(q, w, jb)
  BY DEF Order
<1>2. /\ Sound(v) /\ Held(v) \subseteq Held(w)
      /\ v.state = "NONE" <=> w.state = "NONE"
      /\ v.state # "OFF" /\ v.active \subseteq v.running \cup (w.active \ w.running)
  BY <1>1, ProcessStartedSound
<1>3. ms \in Seq(Message) /\ 1..Len(ms) = {}
  OBVIOUS
<1> HIDE DEF v, ms
<1>4. r \in Seq(Message) /\ Follows(q, r, 1, ms)
  BY <1>3, FollowsPost
<1> HIDE DEF r
<1>5. Step(q, r, 1, ms, w, v)
  BY <1>2, <1>4 DEF Step, Heard
<1>6. \A k \in {"rebuild", "make"} : Quiet(q, ms, w, v, k)
  BY <1>2, <1>3 DEF Quiet, Mute, Has
<1>7. RebuildOrder(r, v, x, st) /\ MakeOrder(r, v, jb)
  BY <1>1, <1>3, <1>4, <1>5, <1>6, WorkerOrders
<1>8. Booked(r, v)
  <2>1. ~ Brings(q[1], "task-done")
    BY DEF Brings
  <2>2. StaysBooked(q, 1, ms, w, v)
    BY <1>2, <2>1 DEF StaysBooked
  <2> QED  BY <1>1, <1>3, <1>4, <2>2, BookedStep
<1>9. Order(r, v, x, st, jb)
  BY <1>2, <1>7, <1>8 DEF Order
<1> QED  BY <1>9 DEF r, v, ms

LEMMA ShutdownStep ==
  ASSUME NEW q \in Seq(Message), q # <<>>, q[1].to = "worker", q[1].event = "shutdown",
         NEW w, NEW x, NEW st, NEW jb, Order(q, w, x, st, jb)
  PROVE  LET v == Shutdown(w).worker
             ms == Shutdown(w).posts
         IN  ms \in Seq(Message) /\ Order(Tail(q) \o ms, v, x, st, jb)
<1> DEFINE v == Shutdown(w).worker
           ms == Shutdown(w).posts
           r == Tail(q) \o ms
<1>1. Sound(w) /\ Booked(q, w) /\ RebuildOrder(q, w, x, st) /\ MakeOrder(q, w, jb)
  BY DEF Order
<1>2. /\ Sound(v) /\ Held(v) = {} /\ v.state = "NONE" /\ v.active = {}
      /\ ms \in Seq(ToTheUser) /\ \A i \in DOMAIN ms : ~ ms[i].result.done
  BY <1>1, ShutdownSound
<1> HIDE DEF v, ms
<1>3. /\ ms \in Seq(Message) /\ DOMAIN ms = 1..Len(ms)
  <2>1. ToTheUser \subseteq Message
    BY DEF Message
  <2>2. Len(ms) \in Nat /\ ms \in [1..Len(ms) -> ToTheUser] /\ DOMAIN ms = 1..Len(ms)
    BY <1>2, LenProperties
  <2>3. ms \in [1..Len(ms) -> Message]
    BY <2>1, <2>2
  <2> QED  BY <2>2, <2>3, IsASeq
<1>4. r \in Seq(Message) /\ Follows(q, r, 1, ms)
  BY <1>3, FollowsPost
<1> HIDE DEF r
<1>5. Step(q, r, 1, ms, w, v)
  BY <1>2, <1>4 DEF Step, Heard
<1>6. \A k \in {"rebuild", "make"} : Quiet(q, ms, w, v, k)
  BY <1>2, <1>3 DEF Quiet, Mute, Has, Tells, Stopping
<1>7. RebuildOrder(r, v, x, st) /\ MakeOrder(r, v, jb)
  BY <1>1, <1>3, <1>4, <1>5, <1>6, WorkerOrders
<1>8. Booked(r, v)
  BY <1>2 DEF Booked
<1>9. Order(r, v, x, st, jb)
  BY <1>2, <1>7, <1>8 DEF Order
<1> QED  BY <1>3, <1>9 DEF r, v, ms

(* Whatever the worker handles, the orders are kept.                       *)
LEMMA WorkerStep ==
  ASSUME NEW q \in Seq(Message), q # <<>>, q[1].to = "worker",
         NEW w, NEW x, NEW st, NEW jb, Order(q, w, x, st, jb)
  PROVE  LET v == Handled(w, q[1]).worker
             ms == Handled(w, q[1]).posts
         IN  Tail(q) \o ms \in Seq(Message) /\ Order(Tail(q) \o ms, v, x, st, jb)
<1>1. q[1] \in Message
  BY FollowsPost
<1>2. ASSUME Handled(w, q[1]).posts \in Seq(Message) PROVE Tail(q) \o Handled(w, q[1]).posts \in Seq(Message)
  BY <1>2, FollowsPost
<1>3. CASE q[1].event = "new-task" /\ q[1].task \in Task
  <2>1. Handled(w, q[1]) = NewTask(w, q[1].task)
    BY <1>3 DEF Handled
  <2> QED  BY <1>2, <1>3, <2>1, NewTaskStep
<1>4. CASE q[1].event = "task-done" /\ q[1].task \in Task /\ q[1].result \in Result
  <2>1. Handled(w, q[1]) = TaskDone(w, q[1].task, q[1].result)
    BY <1>4 DEF Handled
  <2> QED  BY <1>2, <1>4, <2>1, TaskDoneStep
<1>5. CASE q[1].event = "process-started"
  <2>1. Handled(w, q[1]) = [worker |-> ProcessStarted(w), posts |-> <<>>]
    BY <1>5 DEF Handled
  <2>2. Handled(w, q[1]).worker = ProcessStarted(w) /\ Handled(w, q[1]).posts = <<>>
    BY <2>1
  <2>3. Handled(w, q[1]).posts \in Seq(Message)
    BY <2>2
  <2> QED  BY <1>2, <1>5, <2>2, <2>3, ProcessStep
<1>6. CASE q[1].event = "shutdown"
  <2>1. Handled(w, q[1]) = Shutdown(w)
    BY <1>6 DEF Handled
  <2> QED  BY <1>2, <1>6, <2>1, ShutdownStep
<1>7. \/ q[1].event \in {"new-task", "task-done"} /\ q[1].task \in Task /\ q[1].result \in Result
      \/ q[1].event = "process-started" \/ q[1].event = "shutdown"
  BY <1>1, Senders DEF ToWorker
<1> QED  BY <1>3, <1>4, <1>5, <1>6, <1>7

(* The worker is let alone: no message to it is taken.                     *)
Alone(q, r, o, ms) == Follows(q, r, o, ms) /\ (o = 1 => q # <<>> /\ q[1].to # "worker")
NoTokens(ms) == \A j \in 1..Len(ms), k \in {"rebuild", "make"} : ~ Token(ms[j], k)

LEMMA LeftAlone ==
  ASSUME NEW q \in Seq(Message), NEW r \in Seq(Message), NEW ms \in Seq(Message), NEW o, Alone(q, r, o, ms),
         NEW w, Booked(q, w)
  PROVE  Step(q, r, o, ms, w, w) /\ Booked(r, w)
<1>1. o = 1 => q[1].to # "worker" /\ q[1].event # "shutdown"
  <2>1. o = 1 => q # <<>> /\ q[1].to # "worker"
    BY DEF Alone
  <2>2. q # <<>> => q[1] \in Message
    BY FollowsPost
  <2> QED  BY <2>1, <2>2, Senders
<1>2. Step(q, r, o, ms, w, w)
  BY <1>1 DEF Alone, Step, Heard
<1>3. StaysBooked(q, o, ms, w, w)
  <2>1. \A t \in w.active : t \in w.running \/ t \in w.active \ w.running
    OBVIOUS
  <2> QED  BY <1>1, <2>1 DEF StaysBooked, Brings
<1>4. Booked(r, w)
  BY <1>3, BookedStep DEF Alone
<1> QED  BY <1>2, <1>4

LEMMA Elsewhere ==
  ASSUME NEW q \in Seq(Message), NEW r \in Seq(Message), NEW ms \in Seq(Message), NEW o, Alone(q, r, o, ms),
         NoTokens(ms), NEW w, NEW x, NEW y, y = x \/ y # 0, NEW st, NEW st2, NEW jb, Order(q, w, x, st, jb),
         st # "REBUILDING" \/ st2 = "REBUILDING" \/ Stopping(r, w.state)
  PROVE  Order(r, w, y, st2, jb)
<1>1. Sound(w) /\ Booked(q, w) /\ RebuildOrder(q, w, x, st) /\ MakeOrder(q, w, jb)
  BY DEF Order
<1>2. Step(q, r, o, ms, w, w) /\ Booked(r, w)
  BY <1>1, LeftAlone
<1>3. Quiet(q, ms, w, w, "rebuild") /\ Quiet(q, ms, w, w, "make")
  BY DEF Quiet, Mute, NoTokens
<1>4. RebuildOrder(r, w, y, st2)
  BY <1>1, <1>2, <1>3, RebuildQuiet
<1>5. MakeOrder(r, w, jb)
  <2>1. jb # "running" \/ jb = "running"
    OBVIOUS
  <2> QED  BY <1>1, <1>2, <1>3, <2>1, MakeQuiet
<1> QED  BY <1>1, <1>2, <1>4, <1>5 DEF Order

(* The chain begins when no task of the kind counts any longer.            *)
LEMMA ChainBegins ==
  ASSUME NEW q \in Seq(Message), NEW r \in Seq(Message), NEW ms \in Seq(Message), NEW o, Alone(q, r, o, ms),
         \A i, j \in 1..Len(ms) : Token(ms[i], "rebuild") /\ Token(ms[j], "rebuild") => i = j,
         \A j \in 1..Len(ms) : ~ Token(ms[j], "make") /\ ~ Tells(ms[j]),
         NEW w, NEW x, NEW y, y # 0, NEW st, st # "REBUILDING", NEW jb, Order(q, w, x, st, jb)
  PROVE  Order(r, w, y, "REBUILDING", jb)
<1>1. Sound(w) /\ Booked(q, w) /\ RebuildOrder(q, w, x, st) /\ MakeOrder(q, w, jb)
  BY DEF Order
<1>2. Step(q, r, o, ms, w, w) /\ Booked(r, w)
  BY <1>1, LeftAlone
<1>3. MakeOrder(r, w, jb)
  <2>1. Quiet(q, ms, w, w, "make")
    BY DEF Quiet, Mute
  <2>2. jb # "running" \/ jb = "running"
    OBVIOUS
  <2> QED  BY <1>1, <1>2, <2>1, <2>2, MakeQuiet
<1>4. RebuildOrder(r, w, y, "REBUILDING")
  <2>1. CASE Stopping(q, w.state)
    <3>1. Quiet(q, ms, w, w, "rebuild")
      BY <2>1 DEF Quiet, Mute
    <3> QED  BY <1>1, <1>2, <3>1, RebuildQuiet
  <2>2. CASE NoTaskOf(q, w, "rebuild")
    <3>1. Moves(q, o, ms, w, w, "rebuild")
      BY <2>2 DEF Moves, NoTaskOf, Free
    <3> QED  BY <1>2, <3>1, RebuildMoves
  <2> QED  BY <1>1, <2>1, <2>2 DEF RebuildOrder
<1> QED  BY <1>1, <1>2, <1>3, <1>4 DEF Order

(* The chain has ended.                                                    *)
LEMMA ChainEnded ==
  ASSUME NEW q \in Seq(Message), q # <<>>, NEW r \in Seq(Message), NEW ms \in Seq(Message), Alone(q, r, 1, ms),
         NoTokens(ms), Token(q[1], "rebuild"),
         NEW w, NEW x, NEW st, NEW st2, NEW jb, Order(q, w, x, st, jb)
  PROVE  Order(r, w, x, st2, jb)
<1>1. Sound(w) /\ Booked(q, w) /\ RebuildOrder(q, w, x, st) /\ MakeOrder(q, w, jb)
  BY DEF Order
<1>2. CASE w.state = "NONE"
  <2>1. Stopping(r, w.state)
    BY <1>2 DEF Stopping
  <2>2. x = x \/ x # 0
    OBVIOUS
  <2> QED  BY <2>1, <2>2, Elsewhere
<1>3. CASE w.state # "NONE"
  <2>1. Step(q, r, 1, ms, w, w) /\ Booked(r, w)
    BY <1>1, LeftAlone
  <2>2. /\ ~ Has(w, "rebuild") /\ \A i \in 1..Len(q) : Counts(q, w.state, i, "rebuild") => i <= 1
    BY <1>1, <1>3, HeadCounts DEF RebuildOrder
  <2>3. Moves(q, 1, ms, w, w, "rebuild")
    BY <2>2 DEF Moves, NoTokens
  <2>4. \A j \in 1..Len(ms) : ~ Token(ms[j], "rebuild")
    BY DEF NoTokens
  <2>5. RebuildOrder(r, w, x, st2)
    BY <2>1, <2>2, <2>3, <2>4, RebuildMoves
  <2>6. MakeOrder(r, w, jb)
    <3>1. Quiet(q, ms, w, w, "make")
      BY DEF Quiet, Mute, NoTokens
    <3>2. jb # "running" \/ jb = "running"
      OBVIOUS
    <3> QED  BY <1>1, <2>1, <3>1, <3>2, MakeQuiet
  <2> QED  BY <1>1, <2>1, <2>5, <2>6 DEF Order
<1> QED  BY <1>2, <1>3

(* One call of the chain makes the next.                                   *)
LEMMA ChainGoesOn ==
  ASSUME NEW q \in Seq(Message), q # <<>>, NEW r \in Seq(Message), NEW ms \in Seq(Message), Alone(q, r, 1, ms),
         Token(q[1], "rebuild"),
         \A j \in 1..Len(ms) : j = 1 /\ ms[j].to # "user" /\ ~ Token(ms[j], "make"),
         NEW w, NEW x, NEW y, y = x \/ Tells(q[1]), y = 0 => \A j \in 1..Len(ms) : ms[j].to # "worker",
         NEW st, NEW jb, Order(q, w, x, st, jb)
  PROVE  Order(r, w, y, st, jb)
<1>1. Sound(w) /\ Booked(q, w) /\ RebuildOrder(q, w, x, st) /\ MakeOrder(q, w, jb)
  BY DEF Order
<1>2. Step(q, r, 1, ms, w, w) /\ Booked(r, w)
  BY <1>1, LeftAlone
<1>3. MakeOrder(r, w, jb)
  <2>1. Quiet(q, ms, w, w, "make")
    BY DEF Quiet, Mute
  <2>2. jb # "running" \/ jb = "running"
    OBVIOUS
  <2> QED  BY <1>1, <1>2, <2>1, <2>2, MakeQuiet
<1>4. RebuildOrder(r, w, y, st)
  <2>1. CASE w.state # "NONE" \/ Tells(q[1])
    <3>1. ~ Has(w, "rebuild")
      BY <1>1, <2>1, HeadCounts DEF RebuildOrder
    <3>2. \A i, j \in 1..Len(ms) : Token(ms[i], "rebuild") /\ Token(ms[j], "rebuild") => i = j
      OBVIOUS
    <3>3. y = 0 => \A j \in 1..Len(ms) : Token(ms[j], "rebuild") => ms[j].to \notin {"worker", "user"}
      OBVIOUS
    <3> QED  BY <1>1, <1>2, <2>1, <3>1, <3>2, <3>3, PassedOn
  <2>2. CASE w.state = "NONE" /\ ~ Tells(q[1])
    <3>1. Quiet(q, ms, w, w, "rebuild")
      BY <2>2 DEF Quiet, Mute, Stopping, Tells
    <3>2. st # "REBUILDING" \/ st = "REBUILDING" \/ Stopping(r, w.state)
      OBVIOUS
    <3>3. y = x \/ y # 0
      BY <2>2
    <3> QED  BY <1>1, <1>2, <3>1, <3>2, <3>3, RebuildQuiet
  <2> QED  BY <2>1, <2>2
<1> QED  BY <1>1, <1>2, <1>3, <1>4 DEF Order

(* A job of the user gives the worker its block, and hears of it.          *)
LEMMA JobGiven ==
  ASSUME NEW q \in Seq(Message), NEW r \in Seq(Message), NEW ms \in Seq(Message), Follows(q, r, 0, ms),
         \A j \in 1..Len(ms) : j = 1 /\ ms[j].to = "worker" /\ ~ Token(ms[j], "rebuild"),
         NEW w, NEW x, NEW st, NEW jb, jb # "running", Order(q, w, x, st, jb)
  PROVE  Order(r, w, x, st, "running")
<1>1. Sound(w) /\ Booked(q, w) /\ RebuildOrder(q, w, x, st) /\ MakeOrder(q, w, jb)
  BY DEF Order
<1>2. Alone(q, r, 0, ms)
  BY DEF Alone
<1>3. Step(q, r, 0, ms, w, w) /\ Booked(r, w)
  BY <1>1, <1>2, LeftAlone
<1>4. RebuildOrder(r, w, x, st)
  <2>1. Quiet(q, ms, w, w, "rebuild")
    BY DEF Quiet, Mute
  <2>2. st # "REBUILDING" \/ st = "REBUILDING" \/ Stopping(r, w.state)
    OBVIOUS
  <2>3. x = x \/ x # 0
    OBVIOUS
  <2> QED  BY <1>1, <1>3, <2>1, <2>2, <2>3, RebuildQuiet
<1>5. MakeOrder(r, w, "running")
  <2>1. CASE w.state = "NONE"
    <3>1. Quiet(q, ms, w, w, "make")
      BY <2>1 DEF Quiet, Mute, Stopping, Tells
    <3> QED  BY <1>1, <1>3, <3>1, MakeQuiet
  <2>2. CASE NoTaskOf(q, w, "make")
    <3>1. Moves(q, 0, ms, w, w, "make")
      BY <2>2 DEF Moves, NoTaskOf, Free
    <3> QED  BY <1>3, <3>1, MakeMoves
  <2> QED  BY <1>1, <2>1, <2>2 DEF MakeOrder
<1> QED  BY <1>1, <1>3, <1>4, <1>5 DEF Order

LEMMA JobHeard ==
  ASSUME NEW q \in Seq(Message), q # <<>>, NEW r \in Seq(Message), NEW ms \in Seq(Message), Alone(q, r, 1, ms),
         ms = <<>>, Token(q[1], "make"),
         NEW w, NEW x, NEW st, NEW jb, NEW jb2, Order(q, w, x, st, jb)
  PROVE  Order(r, w, x, st, jb2)
<1>1. Sound(w) /\ Booked(q, w) /\ RebuildOrder(q, w, x, st) /\ MakeOrder(q, w, jb)
  BY DEF Order
<1>2. Step(q, r, 1, ms, w, w) /\ Booked(r, w)
  BY <1>1, LeftAlone
<1>3. 1..Len(ms) = {}
  OBVIOUS
<1>4. RebuildOrder(r, w, x, st)
  <2>1. Quiet(q, ms, w, w, "rebuild")
    BY <1>3 DEF Quiet, Mute
  <2>2. st # "REBUILDING" \/ st = "REBUILDING" \/ Stopping(r, w.state)
    OBVIOUS
  <2>3. x = x \/ x # 0
    OBVIOUS
  <2> QED  BY <1>1, <1>2, <2>1, <2>2, <2>3, RebuildQuiet
<1>5. MakeOrder(r, w, jb2)
  <2>1. CASE w.state = "NONE"
    <3>1. Quiet(q, ms, w, w, "make")
      BY <1>3 DEF Quiet, Mute
    <3>2. OneTask(r, w, "make")
      BY <1>1, <1>2, <3>1, QuietStep DEF MakeOrder
    <3> QED  BY <2>1, <3>2 DEF MakeOrder
  <2>2. CASE w.state # "NONE"
    <3>1. /\ ~ Has(w, "make") /\ \A i \in 1..Len(q) : Counts(q, w.state, i, "make") => i <= 1
      BY <1>1, <2>2, HeadCounts DEF MakeOrder
    <3>2. Moves(q, 1, ms, w, w, "make")
      BY <1>3, <3>1 DEF Moves
    <3> QED  BY <1>2, <1>3, <3>1, <3>2, MakeMoves
  <2> QED  BY <2>1, <2>2
<1> QED  BY <1>1, <1>2, <1>4, <1>5 DEF Order

(* A process ends: the task is spoken of, and no longer held.              *)
LEMMA TaskEndStep ==
  ASSUME NEW q \in Seq(Message), NEW w, NEW t \in w.running, NEW result \in Result,
         NEW x, NEW st, NEW jb, Order(q, w, x, st, jb)
  PROVE  /\ Append(q, ToWorker("task-done", t, result)) \in Seq(Message)
         /\ Order(Append(q, ToWorker("task-done", t, result)), [w EXCEPT !.running = @ \ {t}], x, st, jb)
<1> DEFINE v == [w EXCEPT !.running = @ \ {t}]
           m == ToWorker("task-done", t, result)
           ms == <<m>>
           r == Append(q, m)
<1>1. Sound(w) /\ Booked(q, w) /\ RebuildOrder(q, w, x, st) /\ MakeOrder(q, w, jb)
  BY DEF Order
<1>2. /\ Sound(v) /\ Held(v) \subseteq Held(w) /\ v.state = w.state /\ v.tasks = w.tasks
      /\ v.active = w.active /\ v.running = w.running \ {t}
      /\ w.state # "NONE" /\ t \in Task /\ \A u \in Held(v) : u.kind # t.kind
  BY <1>1, EndedSound
<1> HIDE DEF v
<1>3. m \in Message /\ m.to = "worker" /\ m.event = "task-done" /\ m.task = t
  BY <1>2 DEF Message, ToTheWorker, ToWorker
<1> HIDE DEF m
<1>4. ms \in Seq(Message) /\ Len(ms) = 1 /\ ms[1] = m
  BY <1>3
<1>5. r \in Seq(Message) /\ Follows(q, r, 0, ms)
  BY <1>3, FollowsAppend
<1> HIDE DEF ms, r
<1>6. Step(q, r, 0, ms, w, v)
  BY <1>2, <1>5 DEF Step, Heard
<1>7. 1..Len(ms) = {1}
  BY <1>4
<1>8. t \in Held(w)
  BY DEF Held
<1>9. ASSUME NEW k \in {"rebuild", "make"}, k = t.kind PROVE Moves(q, 0, ms, w, v, k) /\ OneTask(q, w, k) /\ Has(w, k)
  <2>1. OneTask(q, w, k) /\ Has(w, k)
    BY <1>1, <1>8, <1>9 DEF RebuildOrder, MakeOrder, Has
  <2>2. Free(q, w.state, k)
    BY <2>1 DEF OneTask
  <2>3. ~ Has(v, k)
    BY <1>2, <1>9 DEF Has
  <2> QED  BY <1>7, <2>1, <2>2, <2>3 DEF Moves, Free
<1>10. ASSUME NEW k \in {"rebuild", "make"}, k # t.kind PROVE Quiet(q, ms, w, v, k)
  <2>1. ~ Token(m, k)
    BY <1>3, <1>10 DEF Token
  <2> QED  BY <1>2, <1>4, <1>7, <2>1 DEF Quiet, Mute, Has
<1>11. RebuildOrder(r, v, x, st)
  <2>1. CASE t.kind = "rebuild"
    <3>1. Moves(q, 0, ms, w, v, "rebuild") /\ Has(w, "rebuild")
      BY <1>9, <2>1
    <3>2. x # 0
      BY <1>1, <3>1 DEF RebuildOrder
    <3>3. st # "REBUILDING" => Stopping(r, v.state)
      <4>1. st # "REBUILDING" => Stopping(q, w.state)
        BY <1>1, <3>1 DEF RebuildOrder, NoTaskOf
      <4>2. Stopping(q, w.state) => Stopping(r, v.state)
        BY <1>4, <1>5, <1>6, StillStopping DEF Step
      <4> QED  BY <4>1, <4>2
    <3> QED  BY <1>4, <1>5, <1>6, <3>1, <3>2, <3>3, RebuildMoves
  <2>2. CASE t.kind # "rebuild"
    <3>1. Quiet(q, ms, w, v, "rebuild")
      BY <1>10, <2>2
    <3>2. st # "REBUILDING" \/ st = "REBUILDING" \/ Stopping(r, v.state)
      OBVIOUS
    <3>3. x = x \/ x # 0
      OBVIOUS
    <3> QED  BY <1>1, <1>4, <1>5, <1>6, <3>1, <3>2, <3>3, RebuildQuiet
  <2> QED  BY <2>1, <2>2
<1>12. MakeOrder(r, v, jb)
  <2>1. CASE t.kind = "make"
    <3>1. Moves(q, 0, ms, w, v, "make") /\ Has(w, "make")
      BY <1>9, <2>1
    <3>2. jb = "running"
      BY <1>1, <1>2, <3>1 DEF MakeOrder, NoTaskOf
    <3> QED  BY <1>4, <1>5, <1>6, <3>1, <3>2, MakeMoves
  <2>2. CASE t.kind # "make"
    <3>1. Quiet(q, ms, w, v, "make")
      BY <1>10, <2>2
    <3>2. jb # "running" \/ jb = "running"
      OBVIOUS
    <3> QED  BY <1>1, <1>4, <1>5, <1>6, <3>1, <3>2, MakeQuiet
  <2> QED  BY <2>1, <2>2
<1>13. Booked(r, v)
  <2>1. \A u \in v.active : u \in v.running \/ u \in w.active \ w.running \/ u = t
    BY <1>2
  <2>2. Brings(ms[1], "task-done") /\ ms[1].task = t
    BY <1>3, <1>4 DEF Brings
  <2>3. StaysBooked(q, 0, ms, w, v)
    BY <1>2, <1>7, <2>1, <2>2 DEF StaysBooked
  <2> QED  BY <1>1, <1>4, <1>5, <2>3, BookedStep
<1>14. Order(r, v, x, st, jb)
  BY <1>2, <1>11, <1>12, <1>13 DEF Order
<1> QED  BY <1>5, <1>14 DEF r, v, m

LEMMA TimerStep ==
  ASSUME NEW q \in Seq(Message), NEW w, NEW x, NEW st, NEW jb, Order(q, w, x, st, jb)
  PROVE  Order(q, IF w.state = "WORK" THEN TaskStarted(w) ELSE Idle(w), x, st, jb)
<1> DEFINE v == IF w.state = "WORK" THEN TaskStarted(w) ELSE Idle(w)
           ms == <<>>
<1>1. Sound(w) /\ Booked(q, w) /\ RebuildOrder(q, w, x, st) /\ MakeOrder(q, w, jb)
  BY DEF Order
<1>2. /\ Sound(v) /\ Held(v) = Held(w) /\ (v.state = "NONE" <=> w.state = "NONE")
      /\ v.state = "OFF" /\ v.tasks # <<>> => w.state = "OFF" /\ w.tasks # <<>>
      /\ v.active \subseteq v.running \cup (w.active \ w.running)
  BY <1>1, TimersSound
<1> HIDE DEF v
<1>3. ms \in Seq(Message) /\ 1..Len(ms) = {}
  OBVIOUS
<1>4. Follows(q, q, 0, ms)
  BY FollowsItself
<1> HIDE DEF ms
<1>5. Step(q, q, 0, ms, w, v)
  BY <1>2, <1>4 DEF Step, Heard
<1>6. Quiet(q, ms, w, v, "rebuild") /\ Quiet(q, ms, w, v, "make")
  BY <1>2, <1>3 DEF Quiet, Mute, Has
<1>7. RebuildOrder(q, v, x, st)
  <2>1. st # "REBUILDING" \/ st = "REBUILDING" \/ Stopping(q, v.state)
    OBVIOUS
  <2>2. x = x \/ x # 0
    OBVIOUS
  <2> QED  BY <1>1, <1>3, <1>5, <1>6, <2>1, <2>2, RebuildQuiet
<1>8. MakeOrder(q, v, jb)
  <2>1. jb # "running" \/ jb = "running"
    OBVIOUS
  <2> QED  BY <1>1, <1>3, <1>5, <1>6, <2>1, MakeQuiet
<1>9. Booked(q, v)
  <2>1. StaysBooked(q, 0, ms, w, v)
    BY <1>2 DEF StaysBooked
  <2> QED  BY <1>1, <1>3, <1>4, <2>1, BookedStep
<1> QED  BY <1>2, <1>7, <1>8, <1>9 DEF Order, v

-----------------------------------------------------------------------------
(* The whole: the types, the orders, and what a state of the rebuilder     *)
(* says of the backup it works on.                                         *)

OnBackup(st) == st \in {"PREPARE", "REQUEST", "REBUILDING"}
Stages ==
  /\ Len(working) <= MaxBlock + 1
  /\ OnBackup(state) => current \in Backup
  /\ ~ OnBackup(state) => working = <<>>
  /\ vacant \subseteq Number /\ online \subseteq Number
Owned == requests # {} => state \in {"REQUEST", "REBUILDING"} /\ \A p \in requests : p[1] = current
Orders == queue \in Seq(Message) /\ Order(queue, worker, index, state, job)
IInv == TypeOK /\ Stages /\ Owned /\ Orders

(* What is posted on entering a state is no message about a task.          *)
LEMMA Entering ==
  ASSUME NEW s, NEW ms \in Seq(Message)
  PROVE  /\ ms \o Entered(s) \in Seq(Message)
         /\ \A j \in 1..Len(ms \o Entered(s)) :
              \/ j \in 1..Len(ms) /\ (ms \o Entered(s))[j] = ms[j]
              \/ j > Len(ms) /\ \A k : ~ Token((ms \o Entered(s))[j], k) /\ ~ Tells((ms \o Entered(s))[j])
         /\ \A j \in 1..Len(ms) : j \in 1..Len(ms \o Entered(s)) /\ (ms \o Entered(s))[j] = ms[j]
<1> DEFINE es == Entered(s)
           all == ms \o es
<1>1. /\ es \in Seq(Message)
      /\ \A j \in 1..Len(es) : es[j].to \in {"rebuilder", "monitor"} /\ es[j].event # "rebuilding-finished"
  <2>1. CASE s \in {"NEXT_BACKUP", "REQUEST", "REBUILDING"}
    <3>1. es = <<Rebuilder("instant")>> /\ Rebuilder("instant") \in Message
      BY <2>1 DEF Entered, Rebuilder, Message, Plain, ForRebuilder
    <3> QED  BY <3>1 DEF Rebuilder
  <2>2. CASE s \in {"DONE", "STOPPED"}
    <3>1. es = <<Monitor(s)>> /\ Monitor(s) \in Message
      BY <2>2 DEF Entered, Monitor, Message, Plain
    <3> QED  BY <2>2, <3>1 DEF Monitor
  <2>3. CASE s \notin {"NEXT_BACKUP", "REQUEST", "REBUILDING", "DONE", "STOPPED"}
    <3>1. es = <<>>
      BY <2>3 DEF Entered
    <3> QED  BY <3>1
  <2> QED  BY <2>1, <2>2, <2>3
<1> HIDE DEF es
<1>2. /\ all \in Seq(Message) /\ Len(all) = Len(ms) + Len(es) /\ Len(ms) \in Nat /\ Len(es) \in Nat
      /\ \A j \in 1..Len(ms) + Len(es) : all[j] = IF j <= Len(ms) THEN ms[j] ELSE es[j - Len(ms)]
  BY <1>1, ConcatProperties, LenProperties
<1> HIDE DEF all
<1>3. ASSUME NEW j \in 1..Len(all)
      PROVE  \/ j \in 1..Len(ms) /\ all[j] = ms[j]
             \/ j > Len(ms) /\ \A k : ~ Token(all[j], k) /\ ~ Tells(all[j])
  <2>1. CASE j <= Len(ms)
    BY <1>2, <2>1
  <2>2. CASE ~ (j <= Len(ms))
    <3>1. j - Len(ms) \in 1..Len(es) /\ all[j] = es[j - Len(ms)] /\ j > Len(ms)
      BY <1>2, <2>2
    <3>2. all[j].to \in {"rebuilder", "monitor"} /\ all[j].event # "rebuilding-finished"
      BY <1>1, <3>1
    <3> QED  BY <3>1, <3>2 DEF Token, Tells
  <2> QED  BY <2>1, <2>2
<1>4. \A j \in 1..Len(ms) : j \in 1..Len(all) /\ all[j] = ms[j]
  BY <1>2
<1> QED  BY <1>2, <1>3, <1>4 DEF all, es

LEMMA OneMessage ==
  ASSUME NEW m \in Message
  PROVE  /\ <<m>> \in Seq(Message) /\ Len(<<m>>) = 1 /\ <<m>>[1] = m
         /\ m.to \in {"rebuilder", "monitor"} /\ m.event # "rebuilding-finished" => NoTokens(<<m>>)
         /\ m.to = "worker" /\ m.event \notin {"new-task", "task-done"} => NoTokens(<<m>>)
<1> DEFINE ms == <<m>>
<1>1. ms \in Seq(Message) /\ Len(ms) = 1 /\ ms[1] = m
  OBVIOUS
<1> HIDE DEF ms
<1>2. 1..Len(ms) = {1}
  BY <1>1
<1> QED  BY <1>1, <1>2 DEF NoTokens, Token, ms

LEMMA NoMessage == <<>> \in Seq(Message) /\ 1..Len(<<>>) = {} /\ NoTokens(<<>>)
BY DEF NoTokens

(* The rebuilder, the monitor, the user or the chain takes a message.      *)
LEMMA Posted ==
  ASSUME queue \in Seq(Message), queue # <<>>, Head(queue).to # "worker",
         NEW ms \in Seq(Message), Post(ms)
  PROVE  /\ queue' \in Seq(Message) /\ Alone(queue, queue', 1, ms)
         /\ Head(queue) = queue[1] /\ queue[1] \in Message
<1>1. /\ Tail(queue) \o ms \in Seq(Message) /\ Follows(queue, Tail(queue) \o ms, 1, ms)
      /\ Head(queue) = queue[1] /\ Head(queue) \in Message
  BY FollowsPost
<1>2. queue' = Tail(queue) \o ms
  BY DEF Post
<1> QED  BY <1>1, <1>2 DEF Alone

LEMMA BecomeStep ==
  ASSUME queue \in Seq(Message), queue # <<>>, Head(queue).to # "worker",
         NEW s, NEW ms \in Seq(Message), Become(s, ms)
  PROVE  /\ state' = s /\ queue' \in Seq(Message) /\ Alone(queue, queue', 1, ms \o Entered(s))
         /\ Head(queue) = queue[1] /\ queue[1] \in Message
         /\ ms \o Entered(s) \in Seq(Message)
         /\ NoTokens(ms) => NoTokens(ms \o Entered(s))
<1>1. state' = s /\ Post(ms \o Entered(s))
  BY DEF Become
<1>2. ms \o Entered(s) \in Seq(Message)
  BY Entering
<1>3. /\ queue' \in Seq(Message) /\ Alone(queue, queue', 1, ms \o Entered(s))
      /\ Head(queue) = queue[1] /\ queue[1] \in Message
  BY <1>1, <1>2, Posted
<1>4. NoTokens(ms) => NoTokens(ms \o Entered(s))
  BY Entering DEF NoTokens
<1> QED  BY <1>1, <1>2, <1>3, <1>4

(* A transition that says nothing of tasks, from a state in which no task  *)
(* is waited for.                                                          *)
LEMMA PlainTransition ==
  ASSUME Orders, queue # <<>>, Head(queue).to # "worker", state # "REBUILDING",
         NEW s, NEW ms \in Seq(Message), NoTokens(ms), Become(s, ms), UNCHANGED <<worker, index, job>>
  PROVE  Orders' /\ state' = s
<1>1. queue \in Seq(Message) /\ Order(queue, worker, index, state, job)
  BY DEF Orders
<1>2. /\ state' = s /\ queue' \in Seq(Message) /\ Alone(queue, queue', 1, ms \o Entered(s))
      /\ ms \o Entered(s) \in Seq(Message) /\ NoTokens(ms \o Entered(s))
  BY <1>1, BecomeStep
<1>3. index = index \/ index # 0
  OBVIOUS
<1>4. Order(queue', worker, index, s, job)
  BY <1>1, <1>2, <1>3, Elsewhere
<1> QED  BY <1>2, <1>4 DEF Orders

-----------------------------------------------------------------------------
(* The transitions of the rebuilder.                                       *)

Elsewhen == UNCHANGED <<remote, local, files, worker, outside>>
Taking == IInv /\ queue # <<>> /\ Head(queue).to = "rebuilder" /\ Elsewhen

LEMMA TakingGives ==
  ASSUME Taking
  PROVE  /\ TypeOK /\ Stages /\ Owned /\ Orders /\ queue \in Seq(Message) /\ queue # <<>>
         /\ Head(queue).to # "worker" /\ Head(queue) = queue[1] /\ queue[1] \in Message
         /\ UNCHANGED <<remote, local, files>> /\ UNCHANGED worker
         /\ UNCHANGED <<vacant, online, monitor, job, budget, troubled>>
<1>1. IInv /\ queue # <<>> /\ Head(queue).to = "rebuilder" /\ Elsewhen
  BY DEF Taking
<1>2. TypeOK /\ Stages /\ Owned /\ Orders /\ queue \in Seq(Message)
  BY <1>1 DEF IInv, Orders
<1>3. Head(queue) = queue[1] /\ queue[1] \in Message
  BY <1>1, <1>2, FollowsPost, NoMessage
<1> QED  BY <1>1, <1>2, <1>3 DEF Elsewhen, outside

LEMMA PlainMessages ==
  /\ \A s \in {"instant", "timer-1sec", "inbox-data-packet", "requests-sent", "found-missing",
               "no-requests", "start", "backup-ready"} :
       Rebuilder(s) \in Message /\ <<Rebuilder(s)>> \in Seq(Message) /\ NoTokens(<<Rebuilder(s)>>)
<1>1. ASSUME NEW s \in ForRebuilder, s # "rebuilding-finished"
      PROVE  Rebuilder(s) \in Message /\ <<Rebuilder(s)>> \in Seq(Message) /\ NoTokens(<<Rebuilder(s)>>)
  <2>1. Rebuilder(s) \in Message /\ Rebuilder(s).to = "rebuilder" /\ Rebuilder(s).event = s
    BY DEF Rebuilder, Message, Plain
  <2> QED  BY <1>1, <2>1, OneMessage
<1> QED  BY <1>1 DEF ForRebuilder

LEMMA BackupClosed ==
  ASSUME Owned, DoCloseThisBackup
  PROVE  working' = <<>> /\ current' = NoBackup /\ requests' = {}
<1>1. /\ working' = <<>> /\ current' = NoBackup
      /\ requests' = {p \in requests : p[1] # current}
  BY DEF DoCloseThisBackup
<1>2. \A p \in requests : p[1] = current
  BY DEF Owned
<1>3. \A p \in requests' : p \in requests /\ p[1] # current
  BY <1>1
<1>4. requests' = {}
  BY <1>2, <1>3
<1> QED  BY <1>1, <1>4

LEMMA Scanned ==
  ASSUME TypeOK, NEW b \in Backup, DoScanBrokenBlocks(b)
  PROVE  /\ working' \in Seq(Block) /\ Len(working') <= MaxBlock + 1
         /\ known' \subseteq Backup \X Block /\ requests' = {p \in requests : p[1] # b}
<1>1. MaxBlock \in Nat
  BY RebuilderAssumption
<1>2. Ascending \in Seq(Block) /\ Len(Ascending) = MaxBlock + 1
  <2>1. Ascending \in [1..MaxBlock + 1 -> Block] /\ MaxBlock + 1 \in Nat
    BY <1>1 DEF Ascending, Block
  <2>2. Ascending \in Seq(Block) /\ DOMAIN Ascending = 1..MaxBlock + 1
    BY <2>1, IsASeq
  <2>3. Len(Ascending) \in Nat /\ DOMAIN Ascending = 1..Len(Ascending)
    BY <2>2, LenProperties
  <2>4. Len(Ascending) = MaxBlock + 1
    <3> DEFINE m == Len(Ascending)
               n == MaxBlock + 1
    <3>1. m \in Nat /\ n \in Nat /\ 1..m = 1..n
      BY <2>1, <2>2, <2>3
    <3> HIDE DEF m, n
    <3>2. m <= n /\ n <= m
      BY <3>1
    <3>3. m = n
      BY <3>1, <3>2
    <3> QED  BY <3>3 DEF m, n
  <2> QED  BY <2>2, <2>4
<1>3. \A G : Among(Ascending, G) \in Seq(Block) /\ Len(Among(Ascending, G)) <= MaxBlock + 1
  BY <1>2, AmongType
<1>4. working' \in Seq(Block) /\ Len(working') <= MaxBlock + 1
  BY <1>3 DEF DoScanBrokenBlocks
<1>5. BlocksOf(b) \subseteq Block
  BY DEF BlocksOf
<1>6. known' = known \cup ({b} \X BlocksOf(b)) /\ requests' = {p \in requests : p[1] # b}
  BY DEF DoScanBrokenBlocks
<1>7. known' \subseteq Backup \X Block
  BY <1>5, <1>6 DEF TypeOK
<1> QED  BY <1>4, <1>6, <1>7

LEMMA Asked ==
  ASSUME TypeOK, RequestFiles
  PROVE  /\ missing' \in BOOLEAN /\ requests' \subseteq Piece
         /\ \A p \in requests' : p \in requests \/ p[1] = current
         /\ \E ms \in Seq(Message) : NoTokens(ms) /\ Become("REQUEST", ms)
<1>1. Wanted \subseteq Piece /\ \A p \in Wanted : p[1] = current
  BY DEF Wanted, Lacking
<1>2. missing' \in BOOLEAN /\ (requests' = requests \/ requests' = requests \cup Wanted)
  BY DEF RequestFiles
<1>3. \E e \in {"requests-sent", "found-missing", "no-requests"} : Become("REQUEST", <<Rebuilder(e)>>)
  BY DEF RequestFiles
<1>4. \E ms \in Seq(Message) : NoTokens(ms) /\ Become("REQUEST", ms)
  BY <1>3, PlainMessages
<1> QED  BY <1>1, <1>2, <1>4 DEF TypeOK

LEMMA RequestToRebuildingKeeps ==
  ASSUME Taking, NEW e, RequestToRebuilding(e)
  PROVE  IInv'
<1>1. /\ TypeOK /\ Stages /\ Owned /\ Orders /\ queue \in Seq(Message) /\ queue # <<>>
      /\ Head(queue).to # "worker"
      /\ UNCHANGED <<remote, local, files>> /\ UNCHANGED worker
      /\ UNCHANGED <<vacant, online, monitor, job, budget, troubled>>
  BY TakingGives
<1>2. /\ state = "REQUEST" /\ IsChanceToRebuild /\ succeed' = {} /\ index' = LastBlock
      /\ Become("REBUILDING", <<Chain("_start_one_block")>>)
      /\ UNCHANGED <<stopped, waiting, current, working, rebuilt, missing, requests, known>>
  BY DEF RequestToRebuilding
<1>3. index' \in 1..MaxBlock + 1
  <2>1. \E i : i \in DOMAIN working
    BY <1>2 DEF IsChanceToRebuild, ChanceWith
  <2>2. working \in Seq(Block) /\ Len(working) <= MaxBlock + 1
    BY <1>1 DEF TypeOK, Stages
  <2>3. Len(working) \in Nat /\ DOMAIN working = 1..Len(working)
    BY <2>2, LenProperties
  <2> QED  BY <1>2, <2>1, <2>2, <2>3, RebuilderAssumption DEF LastBlock
<1> DEFINE m == Chain("_start_one_block")
           ms == <<m>>
           all == ms \o Entered("REBUILDING")
<1>4. m \in Message /\ m.to = "chain" /\ ms \in Seq(Message) /\ Len(ms) = 1 /\ ms[1] = m
  <2>1. m \in Message /\ m.to = "chain"
    BY DEF Chain, Message, Plain
  <2> QED  BY <2>1, OneMessage
<1> HIDE DEF m, ms
<1>5. /\ state' = "REBUILDING" /\ queue' \in Seq(Message) /\ Alone(queue, queue', 1, all) /\ all \in Seq(Message)
  BY <1>1, <1>2, <1>4, BecomeStep DEF ms, m
<1>6. \A j \in 1..Len(all) : (j = 1 /\ all[j] = m) \/ \A k : ~ Token(all[j], k) /\ ~ Tells(all[j])
  <2>1. \A j \in 1..Len(all) :
              \/ j \in 1..Len(ms) /\ all[j] = ms[j]
              \/ j > Len(ms) /\ \A k : ~ Token(all[j], k) /\ ~ Tells(all[j])
    BY <1>4, Entering, Zenon
  <2>2. 1..Len(ms) = {1}
    BY <1>4
  <2> HIDE DEF all
  <2> QED  BY <1>4, <2>1, <2>2
<1> HIDE DEF all
<1>7. \A j \in 1..Len(all) : ~ Token(all[j], "make") /\ ~ Tells(all[j])
  BY <1>4, <1>6 DEF Token, Tells
<1>8. \A i, j \in 1..Len(all) : Token(all[i], "rebuild") /\ Token(all[j], "rebuild") => i = j
  BY <1>6
<1>9. Order(queue, worker, index, state, job)
  BY <1>1 DEF Orders
<1>10. index' # 0 /\ state # "REBUILDING"
  BY <1>2, <1>3
<1>11. Order(queue', worker, index', "REBUILDING", job)
  BY <1>1, <1>5, <1>7, <1>8, <1>9, <1>10, ChainBegins
<1>12. Orders'
  BY <1>1, <1>5, <1>11 DEF Orders
<1>13. TypeOK' /\ Stages' /\ Owned'
  <2>1. TypeOK'
    BY <1>1, <1>2, <1>3, <1>5, RebuilderAssumption DEF TypeOK, States
  <2>2. Stages' /\ Owned'
    BY <1>1, <1>2, <1>5 DEF Stages, Owned, OnBackup
  <2> QED  BY <2>1, <2>2
<1> QED  BY <1>12, <1>13 DEF IInv

LEMMA ClosingKeeps ==
  ASSUME Taking, NEW s \in {"DONE", "STOPPED", "NEXT_BACKUP"}, state \in {"REQUEST", "PREPARE"},
         DoCloseThisBackup, Become(s, <<>>),
         UNCHANGED <<stopped, waiting, index, succeed, rebuilt, missing, known>>
  PROVE  IInv'
<1>1. /\ TypeOK /\ Stages /\ Owned /\ Orders /\ queue # <<>> /\ Head(queue).to # "worker"
      /\ UNCHANGED <<remote, local, files>> /\ UNCHANGED worker
      /\ UNCHANGED <<vacant, online, monitor, job, budget, troubled>>
  BY TakingGives
<1>2. Orders' /\ state' = s
  BY <1>1, NoMessage, PlainTransition
<1>3. working' = <<>> /\ current' = NoBackup /\ requests' = {}
  BY <1>1, BackupClosed
<1>4. TypeOK'
  BY <1>1, <1>2, <1>3 DEF TypeOK, States
<1>5. Stages' /\ Owned'
  <2>1. Len(<<>>) = 0 /\ 0 <= MaxBlock + 1
    BY RebuilderAssumption
  <2> QED  BY <1>1, <1>2, <1>3, <2>1 DEF Stages, Owned, OnBackup
<1> QED  BY <1>2, <1>4, <1>5 DEF IInv

LEMMA StartKeeps ==
  ASSUME Taking, NEW e, Start(e) \/ NextToDone(e)
  PROVE  IInv'
<1>1. /\ TypeOK /\ Stages /\ Owned /\ Orders /\ queue # <<>> /\ Head(queue).to # "worker"
      /\ UNCHANGED <<remote, local, files>> /\ UNCHANGED worker
      /\ UNCHANGED <<vacant, online, monitor, job, budget, troubled>>
  BY TakingGives
<1>2. PICK s \in {"DONE", "STOPPED", "NEXT_BACKUP"} : Become(s, <<>>)
  BY DEF Start, NextToDone
<1>3. /\ state \in {"STOPPED", "DONE", "NEXT_BACKUP"} /\ stopped' \in BOOLEAN /\ rebuilt' \in BOOLEAN
      /\ UNCHANGED <<waiting, current, working, index, succeed, missing, requests, known>>
  BY <1>1 DEF Start, NextToDone, DoClearStoppedFlag, TypeOK
<1>4. Orders' /\ state' = s
  BY <1>1, <1>2, <1>3, NoMessage, PlainTransition
<1>5. TypeOK'
  BY <1>1, <1>3, <1>4 DEF TypeOK, States
<1>6. Stages' /\ Owned'
  BY <1>1, <1>3, <1>4 DEF Stages, Owned, OnBackup
<1> QED  BY <1>4, <1>5, <1>6 DEF IInv

LEMMA NextToPrepareKeeps ==
  ASSUME Taking, NEW e, NextToPrepare(e)
  PROVE  IInv'
<1>1. /\ TypeOK /\ Stages /\ Owned /\ Orders /\ queue # <<>> /\ Head(queue).to # "worker"
      /\ UNCHANGED <<remote, local, files>> /\ UNCHANGED worker
      /\ UNCHANGED <<vacant, online, monitor, job, budget, troubled>>
  BY TakingGives
<1> DEFINE b == Head(waiting)
<1>2. /\ state = "NEXT_BACKUP" /\ waiting # <<>> /\ current' = b /\ waiting' = Tail(waiting)
      /\ DoScanBrokenBlocks(b) /\ Become("PREPARE", <<Rebuilder("backup-ready")>>)
      /\ UNCHANGED <<stopped, index, succeed, rebuilt, missing>>
  BY DEF NextToPrepare, IsMoreBackups
<1>3. b \in Backup /\ Tail(waiting) \in Seq(Backup)
  <2>1. waiting \in Seq(Backup)
    BY <1>1 DEF TypeOK
  <2> QED  BY <1>2, <2>1, HeadTail
<1> HIDE DEF b
<1>4. Orders' /\ state' = "PREPARE"
  BY <1>1, <1>2, PlainMessages, PlainTransition
<1>5. /\ working' \in Seq(Block) /\ Len(working') <= MaxBlock + 1
      /\ known' \subseteq Backup \X Block /\ requests' = {p \in requests : p[1] # b}
  BY <1>1, <1>2, <1>3, Scanned
<1>6. requests' = {}
  <2>1. requests = {}
    BY <1>1, <1>2 DEF Owned
  <2> QED  BY <1>5, <2>1
<1>7. TypeOK'
  BY <1>1, <1>2, <1>3, <1>4, <1>5, <1>6 DEF TypeOK, States
<1>8. Stages' /\ Owned'
  BY <1>1, <1>2, <1>3, <1>4, <1>5, <1>6 DEF Stages, Owned, OnBackup
<1> QED  BY <1>4, <1>7, <1>8 DEF IInv

LEMMA PrepareToRequestKeeps ==
  ASSUME Taking, NEW e, PrepareToRequest(e)
  PROVE  IInv'
<1>1. /\ TypeOK /\ Stages /\ Owned /\ Orders /\ queue # <<>> /\ Head(queue).to # "worker"
      /\ UNCHANGED <<remote, local, files>> /\ UNCHANGED worker
      /\ UNCHANGED <<vacant, online, monitor, job, budget, troubled>>
  BY TakingGives
<1>2. /\ state = "PREPARE" /\ RequestFiles
      /\ UNCHANGED <<stopped, waiting, current, working, index, succeed, rebuilt, known>>
  BY DEF PrepareToRequest
<1>3. /\ missing' \in BOOLEAN /\ requests' \subseteq Piece /\ \A p \in requests' : p \in requests \/ p[1] = current
      /\ \E ms \in Seq(Message) : NoTokens(ms) /\ Become("REQUEST", ms)
  BY <1>1, <1>2, Asked
<1>4. Orders' /\ state' = "REQUEST"
  BY <1>1, <1>2, <1>3, PlainTransition
<1>5. TypeOK'
  BY <1>1, <1>2, <1>3, <1>4 DEF TypeOK, States
<1>6. Stages' /\ Owned'
  BY <1>1, <1>2, <1>3, <1>4 DEF Stages, Owned, OnBackup
<1> QED  BY <1>4, <1>5, <1>6 DEF IInv

(* The chain has ended, and its end is told.                               *)
LEMMA ChainTold ==
  ASSUME Orders, queue # <<>>, Head(queue).to = "rebuilder", Head(queue).event = "rebuilding-finished",
         NEW s, NEW ms \in Seq(Message), NoTokens(ms), Become(s, ms), UNCHANGED <<worker, index, job>>
  PROVE  Orders' /\ state' = s
<1>1. queue \in Seq(Message) /\ Order(queue, worker, index, state, job)
  BY DEF Orders
<1>2. /\ state' = s /\ queue' \in Seq(Message) /\ Alone(queue, queue', 1, ms \o Entered(s))
      /\ ms \o Entered(s) \in Seq(Message) /\ NoTokens(ms \o Entered(s)) /\ Head(queue) = queue[1]
  BY <1>1, BecomeStep
<1>3. Token(queue[1], "rebuild")
  BY <1>2 DEF Token
<1>4. Order(queue', worker, index, s, job)
  BY <1>1, <1>2, <1>3, ChainEnded
<1> QED  BY <1>2, <1>4 DEF Orders

LEMMA RebuildingToPrepareKeeps ==
  ASSUME Taking, RebuildingToPrepare(Head(queue).event)
  PROVE  IInv'
<1>1. /\ TypeOK /\ Stages /\ Owned /\ Orders /\ queue # <<>> /\ Head(queue).to = "rebuilder"
      /\ UNCHANGED <<remote, local, files>> /\ UNCHANGED worker
      /\ UNCHANGED <<vacant, online, monitor, job, budget, troubled>>
  BY TakingGives DEF Taking
<1>2. /\ state = "REBUILDING" /\ Head(queue).event = "rebuilding-finished"
      /\ DoScanBrokenBlocks(current) /\ Become("PREPARE", <<Rebuilder("backup-ready")>>)
      /\ UNCHANGED <<stopped, waiting, current, index, succeed, rebuilt, missing>>
  BY DEF RebuildingToPrepare
<1>3. current \in Backup
  BY <1>1, <1>2 DEF Stages, OnBackup
<1>4. Orders' /\ state' = "PREPARE"
  BY <1>1, <1>2, PlainMessages, ChainTold
<1>5. /\ working' \in Seq(Block) /\ Len(working') <= MaxBlock + 1
      /\ known' \subseteq Backup \X Block /\ requests' = {p \in requests : p[1] # current}
  BY <1>1, <1>2, <1>3, Scanned
<1>6. requests' = {}
  <2>1. \A p \in requests : p[1] = current
    BY <1>1 DEF Owned
  <2>2. \A p \in requests' : p \in requests /\ p[1] # current
    BY <1>5
  <2> QED  BY <2>1, <2>2
<1>7. TypeOK'
  BY <1>1, <1>2, <1>4, <1>5, <1>6 DEF TypeOK, States
<1>8. Stages' /\ Owned'
  BY <1>1, <1>2, <1>3, <1>4, <1>5, <1>6 DEF Stages, Owned, OnBackup
<1> QED  BY <1>4, <1>7, <1>8 DEF IInv

LEMMA RebuildingToRequestKeeps ==
  ASSUME Taking, RebuildingToRequest(Head(queue).event)
  PROVE  IInv'
<1>1. /\ TypeOK /\ Stages /\ Owned /\ Orders /\ queue # <<>> /\ Head(queue).to = "rebuilder"
      /\ UNCHANGED <<remote, local, files>> /\ UNCHANGED worker
      /\ UNCHANGED <<vacant, online, monitor, job, budget, troubled>>
  BY TakingGives DEF Taking
<1>2. /\ state = "REBUILDING" /\ Head(queue).event = "rebuilding-finished" /\ RequestFiles
      /\ UNCHANGED <<stopped, waiting, current, working, index, succeed, rebuilt, known>>
  BY DEF RebuildingToRequest
<1>3. /\ missing' \in BOOLEAN /\ requests' \subseteq Piece /\ \A p \in requests' : p \in requests \/ p[1] = current
      /\ \E ms \in Seq(Message) : NoTokens(ms) /\ Become("REQUEST", ms)
  BY <1>1, <1>2, Asked
<1>4. Orders' /\ state' = "REQUEST"
  BY <1>1, <1>2, <1>3, ChainTold
<1>5. TypeOK'
  BY <1>1, <1>2, <1>3, <1>4 DEF TypeOK, States
<1>6. Stages' /\ Owned'
  BY <1>1, <1>2, <1>3, <1>4 DEF Stages, Owned, OnBackup
<1> QED  BY <1>4, <1>5, <1>6 DEF IInv

LEMMA RebuildingToStoppedKeeps ==
  ASSUME Taking, RebuildingToStopped(Head(queue).event)
  PROVE  IInv'
<1>1. /\ TypeOK /\ Stages /\ Owned /\ Orders /\ queue \in Seq(Message) /\ queue # <<>> /\ Head(queue).to # "worker"
      /\ UNCHANGED <<remote, local, files>> /\ UNCHANGED worker
      /\ UNCHANGED <<vacant, online, monitor, job, budget, troubled>>
  BY TakingGives
<1> DEFINE m == ToWorker("shutdown", NoTask, NoResult)
           ms == <<m>>
           all == ms \o Entered("STOPPED")
<1>2. /\ state = "REBUILDING" /\ DoCloseThisBackup /\ Become("STOPPED", ms)
      /\ UNCHANGED <<stopped, waiting, index, succeed, rebuilt, missing, known>>
  BY DEF RebuildingToStopped
<1>3. /\ m \in Message /\ ms \in Seq(Message) /\ Len(ms) = 1 /\ ms[1] = m /\ NoTokens(ms) /\ m.event = "shutdown"
  <2>1. m \in Message /\ m.to = "worker" /\ m.event = "shutdown"
    BY DEF ToWorker, Message, ForProcesses
  <2> HIDE DEF m
  <2> QED  BY <2>1, OneMessage
<1> HIDE DEF m, ms
<1>4. /\ state' = "STOPPED" /\ queue' \in Seq(Message) /\ Alone(queue, queue', 1, all)
      /\ all \in Seq(Message) /\ NoTokens(all)
  BY <1>1, <1>2, <1>3, BecomeStep
<1>5. 1 \in 1..Len(all) /\ all[1] = m
  <2>1. 1 \in 1..Len(ms)
    BY <1>3
  <2> QED  BY <1>3, <2>1, Entering
<1> HIDE DEF all
<1>6. Stopping(queue', worker.state)
  <2>1. /\ Len(queue) \in Nat /\ Len(all) \in Nat /\ Len(queue) >= 1
        /\ Len(queue') = (Len(queue) - 1) + Len(all) /\ queue'[(Len(queue) - 1) + 1] = all[1]
    <3>1. Len(queue) \in Nat /\ Len(all) \in Nat /\ Len(queue) # 0
      BY <1>1, <1>4, LenProperties, EmptySeq
    <3>2. Len(queue') = (Len(queue) - 1) + Len(all) /\ queue'[(Len(queue) - 1) + 1] = all[1]
      BY <1>4, <1>5 DEF Alone, Follows
    <3> QED  BY <3>1, <3>2
  <2>2. (Len(queue) - 1) + 1 \in 1..Len(queue')
    BY <1>5, <2>1
  <2> QED  BY <1>3, <1>5, <2>1, <2>2 DEF Stopping
<1>7. Order(queue', worker, index, "STOPPED", job)
  <2>1. Order(queue, worker, index, state, job)
    BY <1>1 DEF Orders
  <2>2. index = index \/ index # 0
    OBVIOUS
  <2> QED  BY <1>1, <1>4, <1>6, <2>1, <2>2, Elsewhere
<1>8. Orders'
  BY <1>1, <1>2, <1>4, <1>7 DEF Orders
<1>9. working' = <<>> /\ current' = NoBackup /\ requests' = {}
  BY <1>1, <1>2, BackupClosed
<1>10. TypeOK'
  BY <1>1, <1>2, <1>4, <1>9 DEF TypeOK, States
<1>11. Stages' /\ Owned'
  <2>1. Len(<<>>) = 0 /\ 0 <= MaxBlock + 1
    BY RebuilderAssumption
  <2> QED  BY <1>1, <1>2, <1>4, <1>9, <2>1 DEF Stages, Owned, OnBackup
<1> QED  BY <1>8, <1>10, <1>11 DEF IInv

(* Whatever the rebuilder does with a message.                             *)
LEMMA RebuilderKeeps ==
  ASSUME IInv, RebuilderHandles
  PROVE  IInv'
<1>1. Taking
  BY DEF RebuilderHandles, Taking, Elsewhen, matrix
<1> DEFINE e == Head(queue).event
<1>2. CASE Transition(e)
  <2>1. CASE RequestToRebuilding(e)
    BY <1>1, <2>1, RequestToRebuildingKeeps
  <2>2. CASE RequestToDone(e) \/ RequestToStopped(e) \/ PrepareToEnd(e)
    <3>1. /\ state \in {"REQUEST", "PREPARE"} /\ DoCloseThisBackup
          /\ \E s \in {"DONE", "STOPPED", "NEXT_BACKUP"} : Become(s, <<>>)
          /\ UNCHANGED <<stopped, waiting, index, succeed, rebuilt, missing, known>>
      BY <2>2 DEF RequestToDone, RequestToStopped, PrepareToEnd
    <3> QED  BY <1>1, <3>1, ClosingKeeps
  <2>3. CASE Start(e) \/ NextToDone(e)
    BY <1>1, <2>3, StartKeeps
  <2>4. CASE NextToPrepare(e)
    BY <1>1, <2>4, NextToPrepareKeeps
  <2>5. CASE PrepareToRequest(e)
    BY <1>1, <2>5, PrepareToRequestKeeps
  <2>6. CASE RebuildingToPrepare(e)
    BY <1>1, <2>6, RebuildingToPrepareKeeps
  <2>7. CASE RebuildingToStopped(e)
    BY <1>1, <2>7, RebuildingToStoppedKeeps
  <2>8. CASE RebuildingToRequest(e)
    BY <1>1, <2>8, RebuildingToRequestKeeps
  <2> QED  BY <1>2, <2>1, <2>2, <2>3, <2>4, <2>5, <2>6, <2>7, <2>8 DEF Transition
<1>3. CASE Post(<<>>) /\ UNCHANGED <<rebuilder, requests, matrix, worker, outside>>
  <2>1. /\ TypeOK /\ Stages /\ Owned /\ Orders /\ queue \in Seq(Message) /\ queue # <<>> /\ Head(queue).to # "worker"
    BY <1>1, TakingGives
  <2>2. /\ UNCHANGED <<state, stopped, waiting, current, working, index, succeed, rebuilt, missing>>
        /\ UNCHANGED <<requests, remote, known, local, files, worker>>
        /\ UNCHANGED <<vacant, online, monitor, job, budget, troubled>>
    BY <1>3 DEF rebuilder, matrix, outside
  <2>3. queue' \in Seq(Message) /\ Alone(queue, queue', 1, <<>>)
    BY <1>3, <2>1, NoMessage, Posted
  <2>4. Order(queue, worker, index, state, job)
    BY <2>1 DEF Orders
  <2>5. (index = index \/ index # 0) /\ (state # "REBUILDING" \/ state = "REBUILDING" \/ Stopping(queue', worker.state))
    OBVIOUS
  <2>6. Order(queue', worker, index, state, job)
    BY <2>1, <2>3, <2>4, <2>5, NoMessage, Elsewhere
  <2>7. Orders'
    BY <2>2, <2>3, <2>6 DEF Orders
  <2>8. TypeOK' /\ Stages' /\ Owned'
    BY <2>1, <2>2 DEF TypeOK, Stages, Owned, OnBackup
  <2> QED  BY <2>7, <2>8 DEF IInv
<1> QED  BY <1>2, <1>3 DEF RebuilderHandles

-----------------------------------------------------------------------------
(* The chain, the worker, and what comes from outside.                     *)

LEMMA PiecesTyped ==
  /\ \A b \in Backup, n \in Block : \A D, P \in SUBSET Number : Pieces(b, n, D, P) \subseteq Piece
  /\ \A S : \A b, n : Row(S, b, n) \in Rows
  /\ \A p \in Piece : p[1] \in Backup /\ p[2] \in Block /\ p[4] \in Number
BY DEF Pieces, Piece, Row, Rows

LEMMA IInvGives ==
  ASSUME IInv
  PROVE  /\ TypeOK /\ Stages /\ Owned /\ Orders /\ queue \in Seq(Message)
         /\ Order(queue, worker, index, state, job) /\ Sound(worker)
BY DEF IInv, Orders, Order

LEMMA StartOneBlockKeeps ==
  ASSUME IInv, StartOneBlock
  PROVE  IInv'
<1>1. /\ TypeOK /\ Stages /\ Owned /\ queue \in Seq(Message) /\ Order(queue, worker, index, state, job)
  BY IInvGives
<1>2. /\ queue # <<>> /\ Head(queue) = Chain("_start_one_block")
      /\ UNCHANGED <<state, stopped, waiting, current, working, index, succeed, rebuilt, missing>>
      /\ UNCHANGED <<requests, remote, known, local, files, worker>>
      /\ UNCHANGED <<vacant, online, monitor, job, budget, troubled>>
  BY DEF StartOneBlock, Got, rebuilder, matrix, outside
<1> DEFINE t == [kind |-> "rebuild", backup |-> current, block |-> working[index],
                 active |-> Active, remote |-> Row(remote, current, working[index]),
                 local |-> Row(local, current, working[index])]
<1>3. index \in 0..MaxBlock + 1 /\ working \in Seq(Block) /\ DOMAIN working = 1..Len(working) /\ Len(working) \in Nat
  BY <1>1, LenProperties DEF TypeOK
<1>4. ASSUME index \in DOMAIN working PROVE t \in Task
  <2>1. working[index] \in Block
    BY <1>3, <1>4, ElementOfSeq
  <2>2. current \in Backup
    <3>1. working # <<>>
      BY <1>4
    <3> QED  BY <1>1, <3>1 DEF Stages
  <2>3. Active \in SUBSET Number
    BY <1>1 DEF Active, Stages
  <2>4. Row(remote, current, working[index]) \in Rows /\ Row(local, current, working[index]) \in Rows
    BY PiecesTyped
  <2> QED  BY <2>1, <2>2, <2>3, <2>4 DEF Task, RebuildTask
<1> HIDE DEF t
<1> DEFINE Next1(ms) == \A j \in 1..Len(ms) : /\ j = 1 /\ ms[j].to # "user" /\ ~ Token(ms[j], "make")
                                              /\ index = 0 => ms[j].to # "worker"
<1>5. \E ms \in Seq(Message) : Post(ms) /\ Next1(ms)
  <2>1. CASE ChainIsOver
    <3>1. Post(<<Chain("_finish_rebuilding")>>)
      BY <1>3, <2>1 DEF StartOneBlock, ChainIsOver
    <3> DEFINE m == Chain("_finish_rebuilding")
    <3>2. m \in Message /\ m.to = "chain"
      BY DEF Chain, Message, Plain
    <3> HIDE DEF m
    <3>3. <<m>> \in Seq(Message) /\ Next1(<<m>>)
      BY <3>2 DEF Token
    <3> QED  BY <3>1, <3>3 DEF m
  <2>2. CASE ~ ChainIsOver /\ index \in DOMAIN working
    <3> DEFINE m == ToWorker("new-task", t, NoResult)
    <3>1. Post(<<m>>)
      BY <2>2 DEF StartOneBlock, t
    <3>2. m \in Message /\ m.to = "worker" /\ m.task = t
      BY <1>4, <2>2 DEF ToWorker, Message, ToTheWorker, Result
    <3>3. m.task.kind = "rebuild"
      BY <3>2 DEF t
    <3>4. index # 0
      BY <2>2 DEF ChainIsOver
    <3> HIDE DEF m
    <3>5. <<m>> \in Seq(Message) /\ Next1(<<m>>)
      BY <3>2, <3>3, <3>4 DEF Token
    <3> QED  BY <3>1, <3>5
  <2>3. CASE ~ ChainIsOver /\ index \notin DOMAIN working
    <3>1. Post(<<>>)
      BY <2>3 DEF StartOneBlock
    <3>2. <<>> \in Seq(Message) /\ Next1(<<>>)
      BY NoMessage
    <3> QED  BY <3>1, <3>2
  <2> QED  BY <2>1, <2>2, <2>3
<1>6. PICK ms \in Seq(Message) : Post(ms) /\ Next1(ms)
  BY <1>5
<1>7. queue' \in Seq(Message) /\ Alone(queue, queue', 1, ms) /\ Head(queue) = queue[1]
  <2>1. Head(queue).to # "worker"
    BY <1>2 DEF Chain
  <2> QED  BY <1>1, <1>2, <1>6, <2>1, Posted
<1>8. Token(queue[1], "rebuild")
  BY <1>2, <1>7 DEF Token, Chain
<1>9. Order(queue', worker, index, state, job)
  <2>1. index = index \/ Tells(queue[1])
    OBVIOUS
  <2>2. index = 0 => \A j \in 1..Len(ms) : ms[j].to # "worker"
    BY <1>6
  <2>3. \A j \in 1..Len(ms) : j = 1 /\ ms[j].to # "user" /\ ~ Token(ms[j], "make")
    BY <1>6
  <2> QED  BY <1>1, <1>2, <1>7, <1>8, <2>1, <2>2, <2>3, ChainGoesOn
<1>10. Orders'
  BY <1>2, <1>7, <1>9 DEF Orders
<1>11. TypeOK' /\ Stages' /\ Owned'
  BY <1>1, <1>2 DEF TypeOK, Stages, Owned, OnBackup
<1> QED  BY <1>10, <1>11 DEF IInv

LEMMA BlockFinishedKeeps ==
  ASSUME IInv, BlockFinished
  PROVE  IInv'
<1>1. /\ TypeOK /\ Stages /\ Owned /\ queue \in Seq(Message) /\ Order(queue, worker, index, state, job)
  BY IInvGives
<1> DEFINE m == Head(queue)
           t == m.task
<1>2. /\ queue # <<>> /\ m.to = "user" /\ t.kind = "rebuild"
      /\ UNCHANGED <<state, stopped, waiting, current, working, rebuilt, missing>>
      /\ UNCHANGED <<requests, remote, known, files, worker>>
      /\ UNCHANGED <<vacant, online, monitor, job, budget, troubled>>
  BY DEF BlockFinished, outside
<1>3. m = queue[1] /\ m \in Message
  BY <1>1, <1>2, FollowsPost, NoMessage
<1>4. Token(queue[1], "rebuild") /\ (Tells(queue[1]) <=> m.result.done)
  BY <1>2, <1>3 DEF Token, Tells
<1>5. t \in RebuildTask
  <2>1. t \in Task
    BY <1>2, <1>3, Senders
  <2> QED  BY <1>2, <2>1 DEF Task, MakeTask
<1>6. t.block \in Block
  BY <1>5 DEF RebuildTask
<1> DEFINE e == IF m.result.done THEN "_start_one_block" ELSE "_finish_rebuilding"
           c == Chain(e)
           ms == <<c>>
<1>7. /\ Post(ms) /\ IF m.result.done THEN index' = index - 1 ELSE index' = index
      /\ succeed' = succeed \/ succeed' = succeed \cup {t.block}
      /\ local' \subseteq local \cup files
  BY DEF BlockFinished
<1>8. c \in Message /\ c.to = "chain"
  BY DEF Chain, Message, Plain
<1> HIDE DEF c
<1>9. ms \in Seq(Message) /\ Len(ms) = 1 /\ ms[1] = c
  BY <1>8
<1> HIDE DEF ms
<1>10. queue' \in Seq(Message) /\ Alone(queue, queue', 1, ms)
  BY <1>1, <1>2, <1>7, <1>9, Posted
<1>11. index' \in 0..MaxBlock + 1
  <2>1. index \in 0..MaxBlock + 1
    BY <1>1 DEF TypeOK
  <2>2. CASE m.result.done
    <3>1. Counts(queue, worker.state, 1, "rebuild")
      BY <1>1, <1>2, <1>4, <2>2, HeadCounts DEF Order, RebuildOrder
    <3>2. 1 \in 1..Len(queue)
      BY <1>1, <1>2, FollowsPost, NoMessage
    <3>3. index # 0
      BY <1>1, <1>2, <1>3, <3>1, <3>2 DEF Order, RebuildOrder
    <3> QED  BY <1>7, <2>1, <2>2, <3>3, RebuilderAssumption
  <2>3. CASE ~ m.result.done
    BY <1>7, <2>1, <2>3
  <2> QED  BY <2>2, <2>3
<1>12. Order(queue', worker, index', state, job)
  <2>1. index' = index \/ Tells(queue[1])
    BY <1>4, <1>7
  <2>2. \A j \in 1..Len(ms) : j = 1 /\ ms[j].to # "user" /\ ms[j].to # "worker" /\ ~ Token(ms[j], "make")
    BY <1>8, <1>9 DEF Token
  <2>3. index' = 0 => \A j \in 1..Len(ms) : ms[j].to # "worker"
    BY <2>2
  <2>4. \A j \in 1..Len(ms) : j = 1 /\ ms[j].to # "user" /\ ~ Token(ms[j], "make")
    BY <2>2
  <2> QED  BY <1>1, <1>2, <1>4, <1>9, <1>10, <2>1, <2>3, <2>4, ChainGoesOn
<1>13. Orders'
  BY <1>2, <1>10, <1>12 DEF Orders
<1>14. TypeOK'
  BY <1>1, <1>2, <1>6, <1>7, <1>11 DEF TypeOK
<1>15. Stages' /\ Owned'
  BY <1>1, <1>2 DEF Stages, Owned, OnBackup
<1> QED  BY <1>13, <1>14, <1>15 DEF IInv

LEMMA FinishRebuildingKeeps ==
  ASSUME IInv, FinishRebuilding
  PROVE  IInv'
<1>1. /\ TypeOK /\ Stages /\ Owned /\ queue \in Seq(Message) /\ Order(queue, worker, index, state, job)
  BY IInvGives
<1> DEFINE m == Rebuilder("rebuilding-finished")
           ms == <<m>>
<1>2. /\ queue # <<>> /\ Head(queue) = Chain("_finish_rebuilding")
      /\ working' = Among(working, Block \ succeed) /\ rebuilt' = (rebuilt \/ succeed # {}) /\ succeed' = {}
      /\ Post(ms)
      /\ UNCHANGED <<state, stopped, waiting, current, index, missing>>
      /\ UNCHANGED <<requests, remote, known, local, files, worker>>
      /\ UNCHANGED <<vacant, online, monitor, job, budget, troubled>>
  BY DEF FinishRebuilding, Got, matrix, outside
<1>3. m \in Message /\ m.to = "rebuilder"
  BY DEF Rebuilder, Message, Plain, ForRebuilder
<1> HIDE DEF m
<1>4. ms \in Seq(Message) /\ Len(ms) = 1 /\ ms[1] = m
  BY <1>3
<1> HIDE DEF ms
<1>5. queue' \in Seq(Message) /\ Alone(queue, queue', 1, ms) /\ Head(queue) = queue[1]
  <2>1. Head(queue).to # "worker"
    BY <1>2 DEF Chain
  <2> QED  BY <1>1, <1>2, <1>4, <2>1, Posted
<1>6. Token(queue[1], "rebuild")
  BY <1>2, <1>5 DEF Token, Chain
<1>7. Order(queue', worker, index, state, job)
  <2>1. index = index \/ Tells(queue[1])
    OBVIOUS
  <2>2. \A j \in 1..Len(ms) : j = 1 /\ ms[j].to # "user" /\ ~ Token(ms[j], "make")
    BY <1>3, <1>4 DEF Token
  <2>3. index = 0 => \A j \in 1..Len(ms) : ms[j].to # "worker"
    BY <1>3, <1>4
  <2> QED  BY <1>1, <1>2, <1>4, <1>5, <1>6, <2>1, <2>2, <2>3, ChainGoesOn
<1>8. Orders'
  BY <1>2, <1>5, <1>7 DEF Orders
<1>9. working' \in Seq(Block) /\ Len(working') <= Len(working) /\ Len(working) <= MaxBlock + 1
  BY <1>1, <1>2, AmongType DEF TypeOK, Stages
<1>10. Len(working') <= MaxBlock + 1 /\ (working = <<>> => working' = <<>>)
  <2>1. Len(working) \in Nat /\ Len(working') \in Nat /\ working \in Seq(Block)
    BY <1>1, <1>9, LenProperties DEF TypeOK
  <2>2. working = <<>> => Len(working') = 0
    BY <1>9, <2>1
  <2>3. working = <<>> => working' = <<>>
    BY <1>9, <2>2, EmptySeq
  <2> QED  BY <1>9, <2>1, <2>3, RebuilderAssumption
<1>11. TypeOK'
  <2>1. rebuilt' \in BOOLEAN
    BY <1>2
  <2> QED  BY <1>1, <1>2, <1>9, <2>1 DEF TypeOK
<1>12. Stages' /\ Owned'
  BY <1>1, <1>2, <1>10 DEF Stages, Owned, OnBackup
<1> QED  BY <1>8, <1>11, <1>12 DEF IInv

(* What a process writes of a block is pieces of it.                       *)
LEMMA WrittenTyped ==
  ASSUME NEW t \in RebuildTask
  PROVE  Outcome(t) \in Found /\ Written(t, Outcome(t)) \subseteq Piece
<1>1. Row(files, t.backup, t.block).D \in SUBSET Number
  BY DEF Row
<1>2. Outcome(t) \in Found
  BY <1>1, Rebuilt DEF Outcome
<1> DEFINE r == Outcome(t)
<1> HIDE DEF r
<1>3. r.madeD \in SUBSET Number /\ r.madeP \in SUBSET Number
  BY <1>2 DEF Found, r
<1>4. t.backup \in Backup /\ t.block \in Block
  BY DEF RebuildTask
<1>5. Pieces(t.backup, t.block, r.madeD, r.madeP) \subseteq Piece
  BY <1>3, <1>4, PiecesTyped
<1> QED  BY <1>2, <1>5 DEF Written, r

LEMMA WorkerHandlesKeeps ==
  ASSUME IInv, WorkerHandles
  PROVE  IInv'
<1>1. /\ TypeOK /\ Stages /\ Owned /\ queue \in Seq(Message) /\ Order(queue, worker, index, state, job)
      /\ Sound(worker)
  BY IInvGives
<1>2. /\ queue # <<>> /\ Head(queue).to = "worker"
      /\ worker' = Handled(worker, Head(queue)).worker
      /\ queue' = Tail(queue) \o Handled(worker, Head(queue)).posts
      /\ UNCHANGED <<state, stopped, waiting, current, working, index, succeed, rebuilt, missing>>
      /\ UNCHANGED <<requests, remote, known, local>>
      /\ UNCHANGED <<vacant, online, monitor, job, budget, troubled>>
  BY DEF WorkerHandles, Post, rebuilder, outside
<1>3. Head(queue) = queue[1]
  BY <1>1, <1>2, FollowsPost, NoMessage
<1>4. queue' \in Seq(Message) /\ Order(queue', worker', index, state, job)
  BY <1>1, <1>2, <1>3, WorkerStep
<1>5. Orders'
  BY <1>2, <1>4 DEF Orders
<1>6. worker'.state \in {"OFF", "READY", "WORK", "NONE"}
  BY <1>4, WorkerFields DEF Order, Sound
<1>7. files \subseteq files' /\ files' \subseteq Piece
  <2>1. files \subseteq Piece
    BY <1>1 DEF TypeOK
  <2>2. CASE UNCHANGED files
    BY <2>1, <2>2
  <2>3. CASE Killed
    <3> DEFINE Doing == {u \in worker.running : u.kind = "rebuild"}
               All == UNION {Written(t, Outcome(t)) : t \in Doing}
    <3>1. \A t \in Doing : Written(t, Outcome(t)) \subseteq Piece
      <4>1. SUFFICES ASSUME NEW t \in Doing PROVE Written(t, Outcome(t)) \subseteq Piece
        OBVIOUS
      <4>2. t \in Task /\ t.kind = "rebuild"
        BY <1>1, WorkerFields DEF Sound
      <4>3. t \in RebuildTask
        BY <4>2 DEF Task, MakeTask
      <4> QED  BY <4>3, WrittenTyped
    <3>2. All \subseteq Piece
      <4> HIDE DEF Doing
      <4> QED  BY <3>1
    <3>3. PICK done \in SUBSET All : files' = files \cup done
      BY <2>3 DEF Killed
    <3> HIDE DEF All
    <3> QED  BY <2>1, <3>2, <3>3
  <2> QED  BY <2>2, <2>3 DEF WorkerHandles
<1>8. TypeOK'
  BY <1>1, <1>2, <1>6, <1>7 DEF TypeOK
<1>9. Stages' /\ Owned'
  BY <1>1, <1>2 DEF Stages, Owned, OnBackup
<1> QED  BY <1>5, <1>8, <1>9 DEF IInv

LEMMA TaskEndsKeeps ==
  ASSUME IInv, NEW t \in worker.running, TaskEnds(t)
  PROVE  IInv'
<1>1. /\ TypeOK /\ Stages /\ Owned /\ queue \in Seq(Message) /\ Order(queue, worker, index, state, job)
      /\ Sound(worker)
  BY IInvGives
<1>2. /\ worker' = [worker EXCEPT !.running = @ \ {t}]
      /\ UNCHANGED <<state, stopped, waiting, current, working, index, succeed, rebuilt, missing>>
      /\ UNCHANGED <<requests, remote, known, local>>
      /\ UNCHANGED <<vacant, online, monitor, job, budget, troubled>>
  BY DEF TaskEnds, rebuilder, outside
<1>3. t \in Task
  BY <1>1, WorkerFields DEF Sound
<1>4. files \subseteq Piece
  BY <1>1 DEF TypeOK
<1>5. /\ files \subseteq files' /\ files' \subseteq Piece
      /\ \E result \in Result : queue' = Append(queue, ToWorker("task-done", t, result))
  <2>1. CASE t.kind = "rebuild"
    <3>1. t \in RebuildTask
      BY <1>3, <2>1 DEF Task, MakeTask
    <3>2. Outcome(t) \in Found /\ Written(t, Outcome(t)) \subseteq Piece
      BY <3>1, WrittenTyped
    <3> DEFINE r == Outcome(t)
    <3>3. files' = files \cup Written(t, r) /\ queue' = Append(queue, ToWorker("task-done", t, r))
      BY <2>1 DEF TaskEnds
    <3>4. r \in Result
      BY <3>2 DEF Result
    <3> HIDE DEF r
    <3>5. Written(t, r) \subseteq Piece
      BY <3>2 DEF r
    <3> QED  BY <1>4, <3>3, <3>4, <3>5
  <2>2. CASE t.kind # "rebuild"
    <3>1. files' = files /\ queue' = Append(queue, ToWorker("task-done", t, [done |-> TRUE]))
      BY <2>2 DEF TaskEnds
    <3>2. [done |-> TRUE] \in Result
      BY DEF Result
    <3> QED  BY <1>4, <3>1, <3>2
  <2> QED  BY <2>1, <2>2
<1>6. PICK result \in Result : queue' = Append(queue, ToWorker("task-done", t, result))
  BY <1>5
<1>7. queue' \in Seq(Message) /\ Order(queue', worker', index, state, job)
  BY <1>1, <1>2, <1>6, TaskEndStep
<1>8. Orders'
  BY <1>2, <1>7 DEF Orders
<1>9. worker'.state \in {"OFF", "READY", "WORK", "NONE"}
  BY <1>7, WorkerFields DEF Order, Sound
<1>10. TypeOK'
  BY <1>1, <1>2, <1>5, <1>9 DEF TypeOK
<1>11. Stages' /\ Owned'
  BY <1>1, <1>2 DEF Stages, Owned, OnBackup
<1> QED  BY <1>8, <1>10, <1>11 DEF IInv

LEMMA WorkerTimerKeeps ==
  ASSUME IInv, WorkerTimer
  PROVE  IInv'
<1>1. /\ TypeOK /\ Stages /\ Owned /\ queue \in Seq(Message) /\ Order(queue, worker, index, state, job)
  BY IInvGives
<1>2. /\ worker' = IF worker.state = "WORK" THEN TaskStarted(worker) ELSE Idle(worker)
      /\ UNCHANGED <<state, stopped, waiting, current, working, index, succeed, rebuilt, missing>>
      /\ UNCHANGED <<requests, remote, known, local, files, queue>>
      /\ UNCHANGED <<vacant, online, monitor, job, budget, troubled>>
  BY DEF WorkerTimer, rebuilder, matrix, outside
<1>3. Order(queue, worker', index, state, job)
  BY <1>1, <1>2, TimerStep
<1>4. Orders'
  BY <1>1, <1>2, <1>3 DEF Orders
<1>5. worker'.state \in {"OFF", "READY", "WORK", "NONE"}
  BY <1>3, WorkerFields DEF Order, Sound
<1>6. TypeOK'
  BY <1>1, <1>2, <1>5 DEF TypeOK
<1>7. Stages' /\ Owned'
  BY <1>1, <1>2 DEF Stages, Owned, OnBackup
<1> QED  BY <1>4, <1>6, <1>7 DEF IInv

(* An event for the rebuilder comes from outside.                          *)
LEMMA Told ==
  ASSUME Orders, NEW e \in {"instant", "timer-1sec", "inbox-data-packet", "start"},
         queue' = Append(queue, Rebuilder(e)), UNCHANGED <<worker, index, state, job>>
  PROVE  Orders'
<1>1. queue \in Seq(Message) /\ Order(queue, worker, index, state, job)
  BY DEF Orders
<1> DEFINE m == Rebuilder(e)
           ms == <<m>>
<1>2. m \in Message /\ ms \in Seq(Message) /\ NoTokens(ms)
  BY PlainMessages
<1> HIDE DEF m
<1>3. queue' \in Seq(Message) /\ Follows(queue, queue', 0, ms)
  BY <1>1, <1>2, FollowsAppend DEF m
<1> HIDE DEF ms
<1>4. Alone(queue, queue', 0, ms)
  BY <1>3 DEF Alone
<1>5. (index = index \/ index # 0) /\ (state # "REBUILDING" \/ state = "REBUILDING" \/ Stopping(queue', worker.state))
  OBVIOUS
<1>6. Order(queue', worker, index, state, job)
  BY <1>1, <1>2, <1>3, <1>4, <1>5, Elsewhere
<1> QED  BY <1>3, <1>6 DEF Orders

LEMMA BackupsFinite == IsFiniteSet(Backup)
<1>1. Newest \in Seq(Backup)
  BY RebuilderAssumption
<1>2. Len(Newest) \in Nat /\ DOMAIN Newest = 1..Len(Newest)
  BY <1>1, LenProperties
<1>3. Newest \in Surjection(1..Len(Newest), Backup)
  <2>1. Newest \in [1..Len(Newest) -> Backup]
    BY <1>1, LenProperties
  <2>2. \A b \in Backup : \E i \in 1..Len(Newest) : Newest[i] = b
    BY <1>2 DEF Backup, ToSet
  <2> QED  BY <2>1, <2>2 DEF Surjection
<1>4. IsFiniteSet(1..Len(Newest))
  BY <1>2, FS_Interval
<1> QED  BY <1>3, <1>4, FS_Surjection

(* Pieces arrive, or their requests fail; nothing but the queue changes    *)
(* that the orders speak of.                                               *)
LEMMA RepliesKeep ==
  ASSUME IInv, NEW p \in requests, Received(p) \/ RequestFailed(p)
  PROVE  IInv'
<1>1. TypeOK /\ Stages /\ Owned /\ Orders
  BY IInvGives
<1>2. p \in Piece
  BY <1>1 DEF TypeOK
<1>3. CASE Received(p)
  <2>1. /\ requests' = requests \ {p} /\ files' = files \cup {p}
        /\ local' = IF p \in files THEN local ELSE local \cup {p}
        /\ queue' = Append(queue, Rebuilder("inbox-data-packet"))
        /\ UNCHANGED <<state, stopped, waiting, current, working, index, succeed, rebuilt, missing>>
        /\ UNCHANGED <<remote, known, worker>>
        /\ UNCHANGED <<vacant, online, monitor, job, budget, troubled>>
    BY <1>3 DEF Received, rebuilder, outside
  <2>2. Orders'
    BY <1>1, <2>1, Told
  <2>3. TypeOK'
    <3>1. files' \subseteq Piece /\ local' \subseteq files' /\ requests' \subseteq Piece
      BY <1>1, <1>2, <2>1 DEF TypeOK
    <3> QED  BY <1>1, <2>1, <3>1 DEF TypeOK
  <2>4. Stages' /\ Owned'
    <3>1. requests' \subseteq requests
      BY <2>1
    <3> QED  BY <1>1, <2>1, <3>1 DEF Stages, Owned, OnBackup
  <2> QED  BY <2>2, <2>3, <2>4 DEF IInv
<1>4. CASE RequestFailed(p)
  <2>1. /\ requests' = requests \ {p}
        /\ UNCHANGED <<state, stopped, waiting, current, working, index, succeed, rebuilt, missing>>
        /\ UNCHANGED <<remote, known, local, files, worker, queue>>
        /\ UNCHANGED <<vacant, online, monitor, job>>
    BY <1>4 DEF RequestFailed, rebuilder, matrix
  <2>2. Orders'
    BY <1>1, <2>1 DEF Orders
  <2>3. requests' \subseteq requests
    BY <2>1
  <2>4. TypeOK'
    BY <1>1, <2>1, <2>3 DEF TypeOK
  <2>5. Stages' /\ Owned'
    BY <1>1, <2>1, <2>3 DEF Stages, Owned, OnBackup
  <2> QED  BY <2>2, <2>4, <2>5 DEF IInv
<1> QED  BY <1>3, <1>4

LEMMA PresenceKeeps ==
  ASSUME IInv, NEW s \in Number, PresenceChanges(s)
  PROVE  IInv'
<1>1. TypeOK /\ Stages /\ Owned /\ Orders
  BY IInvGives
<1>2. /\ online' = IF s \in online THEN online \ {s} ELSE online \cup {s}
      /\ UNCHANGED <<state, stopped, waiting, current, working, index, succeed, rebuilt, missing>>
      /\ UNCHANGED <<requests, remote, known, local, files, worker, queue>>
      /\ UNCHANGED <<vacant, monitor, job>>
  BY DEF PresenceChanges, rebuilder, matrix
<1>3. online' \subseteq Number
  BY <1>1, <1>2 DEF Stages
<1>4. Orders'
  BY <1>1, <1>2 DEF Orders
<1>5. TypeOK'
  BY <1>1, <1>2 DEF TypeOK
<1>6. Stages' /\ Owned'
  BY <1>1, <1>2, <1>3 DEF Stages, Owned, OnBackup
<1> QED  BY <1>4, <1>5, <1>6 DEF IInv

LEMMA UploadKeeps ==
  ASSUME IInv, NEW p \in local, Uploaded(p)
  PROVE  IInv'
<1>1. TypeOK /\ Stages /\ Owned /\ Orders
  BY IInvGives
<1>2. /\ remote' = remote \cup {p} /\ known' = known \cup {<<p[1], p[2]>>}
      /\ UNCHANGED <<state, stopped, waiting, current, working, index, succeed, rebuilt, missing>>
      /\ UNCHANGED <<requests, local, files, worker, queue>>
      /\ UNCHANGED <<vacant, online, monitor, job, budget, troubled>>
  BY DEF Uploaded, rebuilder, outside
<1>3. p \in Piece /\ p[1] \in Backup /\ p[2] \in Block
  BY <1>1, PiecesTyped DEF TypeOK
<1>4. remote' \subseteq Piece /\ known' \subseteq Backup \X Block
  BY <1>1, <1>2, <1>3 DEF TypeOK
<1>5. Orders'
  BY <1>1, <1>2 DEF Orders
<1>6. TypeOK'
  BY <1>1, <1>2, <1>4 DEF TypeOK
<1>7. Stages' /\ Owned'
  BY <1>1, <1>2 DEF Stages, Owned, OnBackup
<1> QED  BY <1>5, <1>6, <1>7 DEF IInv

(* The rebuilder is told of something, and his list may grow.              *)
LEMMA EventsKeep ==
  ASSUME IInv, Timer \/ MonitorStops \/ MonitorStarts \/ (\E s \in Number : ListFiles(s))
  PROVE  IInv'
<1>1. TypeOK /\ Stages /\ Owned /\ Orders
  BY IInvGives
<1>2. /\ UNCHANGED <<state, current, working, index, succeed, rebuilt, missing>>
      /\ UNCHANGED <<requests, remote, known, local, files, worker>>
      /\ UNCHANGED <<vacant, online, job>>
  BY DEF Timer, MonitorStops, MonitorStarts, ListFiles, rebuilder, matrix, outside
<1>3. PICK e \in {"instant", "timer-1sec", "inbox-data-packet", "start"} : queue' = Append(queue, Rebuilder(e))
  BY DEF Timer, MonitorStops, MonitorStarts, ListFiles, SetStoppedFlag
<1>4. Orders'
  BY <1>1, <1>2, <1>3, Told
<1>5. stopped' \in BOOLEAN /\ monitor' \in {"idle", "listing", "rebuilding"}
  BY <1>1 DEF Timer, MonitorStops, MonitorStarts, ListFiles, rebuilder, outside, TypeOK
<1>6. waiting' \in Seq(Backup)
  <2>1. waiting \in Seq(Backup) /\ \A order \in Seq(Backup) : waiting \o order \in Seq(Backup)
    BY <1>1, ConcatProperties DEF TypeOK
  <2>2. CASE Timer \/ MonitorStops
    BY <2>1, <2>2 DEF Timer, MonitorStops, rebuilder
  <2>3. CASE MonitorStarts
    <3>1. Newest \in Seq(Backup)
      BY RebuilderAssumption
    <3>2. Among(Newest, {b \in Backup : BlocksOf(b) # {}}) \in Seq(Backup)
      BY <3>1, AmongType
    <3>3. <<>> \in Seq(Backup)
      OBVIOUS
    <3> QED  BY <2>1, <2>3, <3>2, <3>3 DEF MonitorStarts
  <2>4. CASE \E s \in Number : ListFiles(s)
    <3>1. PICK missed \in SUBSET Backup : \E order \in SetToSeqs(missed) : waiting' = waiting \o order
      BY <2>4 DEF ListFiles
    <3>2. PICK order \in SetToSeqs(missed) : waiting' = waiting \o order
      BY <3>1
    <3>3. Cardinality(missed) \in Nat
      BY BackupsFinite, FS_Subset, FS_CardinalityType
    <3>4. order \in [1..Cardinality(missed) -> Backup]
      BY DEF SetToSeqs
    <3>5. order \in Seq(Backup)
      BY <3>3, <3>4, IsASeq
    <3> QED  BY <2>1, <3>2, <3>5
  <2> QED  BY <2>2, <2>3, <2>4
<1>7. TypeOK'
  BY <1>1, <1>2, <1>5, <1>6 DEF TypeOK
<1>8. Stages' /\ Owned'
  BY <1>1, <1>2 DEF Stages, Owned, OnBackup
<1> QED  BY <1>4, <1>7, <1>8 DEF IInv

LEMMA ReadKeeps ==
  ASSUME IInv, ReadLocalFiles
  PROVE  IInv'
<1>1. TypeOK /\ Stages /\ Owned /\ Orders
  BY IInvGives
<1>2. /\ monitor' = "listing" /\ local' = files
      /\ UNCHANGED <<state, stopped, waiting, current, working, index, succeed, rebuilt, missing>>
      /\ UNCHANGED <<requests, remote, known, files, worker, queue>>
      /\ UNCHANGED <<vacant, online, job>>
  BY DEF ReadLocalFiles, rebuilder
<1>3. Orders'
  BY <1>1, <1>2 DEF Orders
<1>4. TypeOK'
  BY <1>1, <1>2 DEF TypeOK
<1>5. Stages' /\ Owned'
  BY <1>1, <1>2 DEF Stages, Owned, OnBackup
<1> QED  BY <1>3, <1>4, <1>5 DEF IInv

(* What the monitor and the user are told, and a job of the user.          *)
LEMMA OthersKeep ==
  ASSUME IInv, MonitorHandles \/ JobTold \/ JobStarts
  PROVE  IInv'
<1>1. /\ TypeOK /\ Stages /\ Owned /\ queue \in Seq(Message) /\ Order(queue, worker, index, state, job)
  BY IInvGives
<1>2. /\ UNCHANGED <<state, stopped, waiting, current, working, index, succeed, rebuilt, missing>>
      /\ UNCHANGED <<requests, remote, known, local, files, worker>>
      /\ UNCHANGED <<vacant, online>>
  BY DEF MonitorHandles, JobTold, JobStarts, rebuilder, matrix
<1>3. queue' \in Seq(Message) /\ Order(queue', worker, index, state, job')
  <2>1. CASE MonitorHandles
    <3>1. queue # <<>> /\ Head(queue).to = "monitor" /\ Post(<<>>) /\ job' = job
      BY <2>1 DEF MonitorHandles
    <3>2. queue' \in Seq(Message) /\ Alone(queue, queue', 1, <<>>)
      BY <1>1, <3>1, NoMessage, Posted
    <3>3. (index = index \/ index # 0) /\ (state # "REBUILDING" \/ state = "REBUILDING" \/ Stopping(queue', worker.state))
      OBVIOUS
    <3>4. Order(queue', worker, index, state, job)
      BY <1>1, <3>2, <3>3, NoMessage, Elsewhere
    <3> QED  BY <3>1, <3>2, <3>4
  <2>2. CASE JobTold
    <3>1. queue # <<>> /\ Head(queue).to = "user" /\ Head(queue).task.kind = "make" /\ Post(<<>>)
      BY <2>2 DEF JobTold
    <3>2. queue' \in Seq(Message) /\ Alone(queue, queue', 1, <<>>) /\ Head(queue) = queue[1]
      BY <1>1, <3>1, NoMessage, Posted
    <3>3. Token(queue[1], "make")
      BY <3>1, <3>2 DEF Token
    <3> DEFINE ms == <<>>
    <3>4. ms \in Seq(Message) /\ ms = <<>>
      OBVIOUS
    <3>5. Order(queue', worker, index, state, job')
      BY <1>1, <3>1, <3>2, <3>3, <3>4, JobHeard
    <3> QED  BY <3>2, <3>5
  <2>3. CASE JobStarts
    <3> DEFINE m == ToWorker("new-task", [kind |-> "make"], NoResult)
               ms == <<m>>
    <3>1. job # "running" /\ job' = "running" /\ queue' = Append(queue, m)
      BY <2>3 DEF JobStarts
    <3>2. m \in Message /\ m.to = "worker" /\ m.task.kind = "make"
      BY DEF ToWorker, Message, ToTheWorker, Task, MakeTask, Result
    <3> HIDE DEF m
    <3>3. ms \in Seq(Message) /\ \A j \in 1..Len(ms) : j = 1 /\ ms[j].to = "worker" /\ ~ Token(ms[j], "rebuild")
      BY <3>2 DEF Token
    <3>4. queue' \in Seq(Message) /\ Follows(queue, queue', 0, ms)
      BY <1>1, <3>1, <3>2, FollowsAppend
    <3> HIDE DEF ms
    <3>5. Order(queue', worker, index, state, "running")
      BY <1>1, <3>1, <3>3, <3>4, JobGiven
    <3> QED  BY <3>1, <3>4, <3>5
  <2> QED  BY <2>1, <2>2, <2>3
<1>4. Orders'
  BY <1>2, <1>3 DEF Orders
<1>5. job' \in {"none", "running", "done", "failed"} /\ monitor' \in {"idle", "listing", "rebuilding"}
  BY <1>1 DEF MonitorHandles, JobTold, JobStarts, TypeOK
<1>6. TypeOK'
  BY <1>1, <1>2, <1>5 DEF TypeOK
<1>7. Stages' /\ Owned'
  BY <1>1, <1>2 DEF Stages, Owned, OnBackup
<1> QED  BY <1>4, <1>6, <1>7 DEF IInv

(* At first the worker has nothing to do and nothing is to come.           *)
LEMMA NewWorkerSound ==
  /\ Sound(NewWorker) /\ Held(NewWorker) = {} /\ NewWorker.state = "OFF" /\ NewWorker.tasks = <<>>
  /\ NewWorker.active = {} /\ NewWorker.running = {}
<1> DEFINE w == NewWorker
<1>1. /\ w.state = "OFF" /\ w.tasks = <<>> /\ w.active = {} /\ w.running = {} /\ w.callbacks = {}
      /\ w = [state |-> "OFF", tasks |-> <<>>, active |-> {}, running |-> {}, callbacks |-> {}]
  BY DEF NewWorker
<1>2. <<>> \in Seq(Task) /\ {} \in SUBSET Task /\ "OFF" \in {"OFF", "READY", "WORK", "NONE"}
  OBVIOUS
<1>3. w \in WorkerType
  BY <1>1, <1>2 DEF WorkerType
<1>4. ToSet(<<>>) = {}
  BY DEF ToSet
<1>5. IsFiniteSet({}) /\ Cardinality({}) = 0 /\ 0 <= Cpus
  BY FS_EmptySet, CpusAssumption
<1> HIDE DEF w
<1>6. DOMAIN w.tasks = {}
  BY <1>1
<1>7. HeldOnce(w) /\ Held(w) = {}
  BY <1>1, <1>4, <1>6 DEF HeldOnce, Held
<1>8. Fair(w)
  BY <1>1, <1>3, <1>4, <1>5, <1>7 DEF Fair
<1>9. BooksAgree(w)
  BY <1>1, <1>4, <1>5 DEF BooksAgree
<1> QED  BY <1>1, <1>7, <1>8, <1>9 DEF Sound, w

LEMMA InitIInv == Init => IInv
<1> SUFFICES ASSUME Init PROVE IInv
  OBVIOUS
<1>1. /\ state = "STOPPED" /\ stopped = FALSE /\ waiting = <<>> /\ current = NoBackup /\ working = <<>>
      /\ index = 0 /\ succeed = {} /\ rebuilt = FALSE /\ missing = FALSE /\ requests = {}
      /\ remote \in Stored /\ files \in OnDisk /\ local = files
      /\ known = {e \in Backup \X Block : \E p \in remote : p[1] = e[1] /\ p[2] >= e[2]}
      /\ worker = NewWorker /\ queue = <<>> /\ vacant \in Vacancies /\ online = Number \ vacant
      /\ monitor = "idle" /\ job = "none"
  BY DEF Init
<1>2. MaxBlock \in Nat
  BY RebuilderAssumption
<1>3. TypeOK
  <2>1. remote \subseteq Piece /\ files \subseteq Piece /\ local \subseteq files
    BY <1>1, RebuilderAssumption
  <2>2. known \subseteq Backup \X Block
    BY <1>1
  <2>3. <<>> \in Seq(Backup) /\ <<>> \in Seq(Block) /\ 0 \in 0..MaxBlock + 1
    BY <1>2
  <2>4. worker.state = "OFF"
    BY <1>1, NewWorkerSound
  <2> QED  BY <1>1, <2>1, <2>2, <2>3, <2>4 DEF TypeOK, States
<1>4. Stages
  <2>1. Len(working) = 0 /\ Len(working) <= MaxBlock + 1
    BY <1>1, <1>2
  <2>2. vacant \subseteq Number /\ online \subseteq Number
    BY <1>1, RebuilderAssumption
  <2> QED  BY <1>1, <2>1, <2>2 DEF Stages, OnBackup
<1>5. Owned
  BY <1>1 DEF Owned
<1>6. Orders
  <2>1. queue \in Seq(Message) /\ 1..Len(queue) = {}
    BY <1>1
  <2>2. /\ Sound(worker) /\ Held(worker) = {} /\ worker.tasks = <<>> /\ worker.active = {}
    BY <1>1, NewWorkerSound
  <2>3. Booked(queue, worker)
    BY <2>2 DEF Booked
  <2>4. \A k : ~ Has(worker, k) /\ Free(queue, worker.state, k) /\ Single(queue, worker.state, k)
    BY <2>1, <2>2 DEF Has, Free, Single
  <2>5. RebuildOrder(queue, worker, index, state)
    BY <2>1, <2>4 DEF RebuildOrder, OneTask, NoTaskOf
  <2>6. MakeOrder(queue, worker, job)
    BY <2>4 DEF MakeOrder, OneTask, NoTaskOf
  <2> QED  BY <2>1, <2>2, <2>3, <2>5, <2>6 DEF Orders, Order
<1> QED  BY <1>3, <1>4, <1>5, <1>6 DEF IInv

LEMMA Stutters ==
  ASSUME IInv, UNCHANGED vars
  PROVE  IInv'
<1>1. /\ UNCHANGED <<state, stopped, waiting, current, working, index, succeed, rebuilt, missing>>
      /\ UNCHANGED <<requests, remote, known, local, files, worker, queue>>
      /\ UNCHANGED <<vacant, online, monitor, job>>
  BY DEF vars, rebuilder, matrix, outside
<1>2. TypeOK /\ Stages /\ Owned /\ Orders
  BY IInvGives
<1>3. TypeOK'
  BY <1>1, <1>2 DEF TypeOK
<1>4. Stages' /\ Owned'
  BY <1>1, <1>2 DEF Stages, Owned, OnBackup
<1>5. Orders'
  BY <1>1, <1>2 DEF Orders
<1> QED  BY <1>3, <1>4, <1>5 DEF IInv

(* Every step keeps the invariant.                                         *)
LEMMA NextIInv == IInv /\ [Next]_vars => IInv'
<1> SUFFICES ASSUME IInv, [Next]_vars PROVE IInv'
  OBVIOUS
<1>1. CASE RebuilderHandles
  BY <1>1, RebuilderKeeps
<1>2. CASE WorkerHandles
  BY <1>2, WorkerHandlesKeeps
<1>3. CASE MonitorHandles \/ JobTold \/ JobStarts
  BY <1>3, OthersKeep
<1>4. CASE StartOneBlock
  BY <1>4, StartOneBlockKeeps
<1>5. CASE BlockFinished
  BY <1>5, BlockFinishedKeeps
<1>6. CASE FinishRebuilding
  BY <1>6, FinishRebuildingKeeps
<1>7. CASE TaskEnd
  <2>1. PICK t \in worker.running : TaskEnds(t)
    BY <1>7 DEF TaskEnd
  <2> QED  BY <2>1, TaskEndsKeeps
<1>8. CASE WorkerTimer
  BY <1>8, WorkerTimerKeeps
<1>9. CASE Reply
  <2>1. PICK p \in requests : Received(p) \/ RequestFailed(p)
    BY <1>9 DEF Reply
  <2> QED  BY <2>1, RepliesKeep
<1>10. CASE Upload
  <2>1. PICK p \in local : Uploaded(p)
    BY <1>10 DEF Upload
  <2> QED  BY <2>1, UploadKeeps
<1>11. CASE Timer \/ MonitorStops \/ MonitorStarts \/ (\E s \in Number : ListFiles(s))
  BY <1>11, EventsKeep
<1>12. CASE \E s \in Number : PresenceChanges(s)
  <2>1. PICK s \in Number : PresenceChanges(s)
    BY <1>12
  <2> QED  BY <2>1, PresenceKeeps
<1>13. CASE ReadLocalFiles
  BY <1>13, ReadKeeps
<1>14. CASE UNCHANGED vars
  BY <1>14, Stutters
<1> QED
  BY <1>1, <1>2, <1>3, <1>4, <1>5, <1>6, <1>7, <1>8, <1>9, <1>10, <1>11, <1>12, <1>13, <1>14 DEF Next, Reactor

LEMMA IInvBooks == IInv => Books
<1> SUFFICES ASSUME IInv PROVE Books
  OBVIOUS
<1>1. Owned /\ Orders
  BY IInvGives
<1>2. Sound(worker) /\ Booked(queue, worker)
  BY <1>1 DEF Orders, Order
<1>3. BooksAgree(worker)
  BY <1>2 DEF Sound
<1> QED  BY <1>1, <1>2, <1>3 DEF Books, Booked, Owned

-----------------------------------------------------------------------------
(* The theorems.                                                           *)

(* rebuild(), which goes through the data pieces and prefers short parity  *)
(* pieces (raid/rebuild.py), and the loops of raidread() and Fixable(),    *)
(* which go through the parity pieces (raid/read.py, raid/eccmap.py), find *)
(* the same pieces, and no more could be found: what a restore takes to be *)
(* fixable is what the rebuilder and the reader can make, for every code.  *)
THEOREM CodesAgree == SameAnswers
BY AllRounds, AllPasses DEF SameAnswers

(* The variables keep their types: the blocks that are worked on are       *)
(* blocks of a backup, the count of blocks stays in its range whatever the *)
(* worker answers and whenever the list is emptied, and every file and     *)
(* request is for a piece that there is.                                   *)
THEOREM RebuilderTypes == Spec => []TypeOK
<1>1. IInv => TypeOK
  BY DEF IInv
<1> QED  BY <1>1, InitIInv, NextIInv, PTL DEF Spec

(* The books of the worker agree, no task is forgotten by it, and the      *)
(* requests in the queues of the suppliers are those of the backup which   *)
(* the rebuilder works on.                                                 *)
THEOREM RebuilderBooks == Spec => []Books
BY InitIInv, NextIInv, IInvBooks, PTL DEF Spec
=============================================================================
