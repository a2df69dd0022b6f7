-------------------------- MODULE DataSender_proofs --------------------------
(***************************************************************************)
(* The data sender, for any packets, suppliers, backups and faults: the    *)
(* type invariant, that the loop of a queue is never lost, that no piece   *)
(* of a backup is, and that nothing leaves a queue without a word.         *)
(***************************************************************************)
EXTENDS DataSender, FiniteSetTheorems, SequenceTheorems, WellFoundedInduction, TLAPS

-----------------------------------------------------------------------------
(* Numbers, and functions that are defined from one number to the next.    *)

LEMMA Least ==
  ASSUME NEW T \in SUBSET Nat, T # {}
  PROVE  \E i \in T : \A j \in T : i <= j
<1> DEFINE Less == OpToRel(<, Nat)
<1>1. \E i \in T : \A j \in T : ~ (<<j, i>> \in Less)
  BY NatLessThanWellFounded, WFMin
<1>2. \A i, j \in Nat : j < i => <<j, i>> \in Less
  BY Zenon DEF OpToRel
<1>3. PICK R : /\ \E i \in T : \A j \in T : ~ (<<j, i>> \in R)
              /\ \A i, j \in Nat : j < i => <<j, i>> \in R
  BY <1>1, <1>2, Zenon
<1>4. PICK i \in T : \A j \in T : ~ (<<j, i>> \in R)
  BY <1>3, Zenon
<1>5. \A j \in T : ~ (j < i)
  BY <1>3, <1>4, Zenon
<1> QED  BY <1>5

LEMMA AllNumbers ==
  ASSUME NEW T \in SUBSET Nat, 0 \in T, \A n \in T : n + 1 \in T
  PROVE  T = Nat
<1>1. SUFFICES ASSUME Nat \ T # {} PROVE FALSE
  OBVIOUS
<1>2. Nat \ T \in SUBSET Nat
  OBVIOUS
<1>3. PICK m \in Nat \ T : \A j \in Nat \ T : m <= j
  BY <1>1, <1>2, Least
<1>4. m - 1 \in Nat
  BY <1>3
<1>5. m - 1 \in T
  BY <1>3, <1>4
<1>6. (m - 1) + 1 = m
  BY <1>3
<1> QED  BY <1>3, <1>5, <1>6

(* What each step keeps is kept to the end.                                *)
LEMMA Kept ==
  ASSUME NEW X, NEW N \in Nat, NEW f, f[0] \in X,
         \A n \in 1..N : f[n - 1] \in X => f[n] \in X
  PROVE  \A n \in 0..N : f[n] \in X
<1> DEFINE T == {n \in Nat : n <= N => f[n] \in X}
<1>1. 0 \in T
  OBVIOUS
<1>2. \A n \in T : n + 1 \in T
  <2>1. SUFFICES ASSUME NEW n \in T, n + 1 <= N PROVE f[n + 1] \in X
    OBVIOUS
  <2>2. n + 1 \in 1..N /\ (n + 1) - 1 = n /\ f[n] \in X
    BY <2>1
  <2> QED  BY <2>2
<1>3. T \in SUBSET Nat
  OBVIOUS
<1> HIDE DEF T
<1>4. T = Nat
  BY <1>1, <1>2, <1>3, AllNumbers
<1> QED  BY <1>4 DEF T

Iterates(f, a, N, step) == f[0] = a /\ (\A n \in 1..N : f[n] = step[n][f[n - 1]])

(* Steps can be made one after the other.                                  *)
LEMMA Iteration ==
  ASSUME NEW X, NEW a \in X, NEW N \in Nat, NEW step \in [1..N -> [X -> X]]
  PROVE  \E f \in [0..N -> X] : Iterates(f, a, N, step)
<1> DEFINE T == {n \in Nat : n <= N => \E f \in [0..n -> X] : Iterates(f, a, n, step)}
<1>1. 0 \in T
  <2>1. [i \in 0..0 |-> a] \in [0..0 -> X] /\ Iterates([i \in 0..0 |-> a], a, 0, step)
    BY DEF Iterates
  <2> QED  BY <2>1
<1>2. \A n \in T : n + 1 \in T
  <2>1. SUFFICES ASSUME NEW n \in T, n + 1 <= N
                 PROVE  \E f \in [0..(n + 1) -> X] : Iterates(f, a, n + 1, step)
    OBVIOUS
  <2>2. n \in Nat /\ n <= N
    BY <2>1
  <2>3. PICK f \in [0..n -> X] : Iterates(f, a, n, step)
    BY <2>2
  <2> DEFINE g == [i \in 0..(n + 1) |-> IF i <= n THEN f[i] ELSE step[n + 1][f[n]]]
  <2>4. step[n + 1] \in [X -> X] /\ f[n] \in X
    BY <2>1, <2>2
  <2>5. step[n + 1][f[n]] \in X
    BY <2>4
  <2>6. g \in [0..(n + 1) -> X]
    BY <2>2, <2>5
  <2>7. g[0] = a
    BY <2>2, <2>3 DEF Iterates
  <2>8. ASSUME NEW i \in 1..(n + 1) PROVE g[i] = step[i][g[i - 1]]
    <3>1. CASE i <= n
      <4>1. i \in 1..n /\ i - 1 \in 0..n /\ i \in 0..n /\ i - 1 <= n
        BY <2>2, <3>1
      <4>2. f[i] = step[i][f[i - 1]]
        BY <2>3, <4>1 DEF Iterates
      <4>3. g[i] = f[i] /\ g[i - 1] = f[i - 1]
        BY <4>1, <2>2
      <4> QED  BY <4>2, <4>3
    <3>2. CASE i = n + 1
      <4>1. g[i] = step[n + 1][f[n]] /\ g[n] = f[n] /\ i - 1 = n
        BY <2>2, <3>2
      <4> HIDE DEF g
      <4> QED  BY <4>1, <3>2
    <3> QED  BY <3>1, <3>2, <2>2
  <2> HIDE DEF g
  <2>9. Iterates(g, a, n + 1, step)
    BY <2>7, <2>8 DEF Iterates
  <2> QED  BY <2>6, <2>9
<1>3. T \in SUBSET Nat
  OBVIOUS
<1> HIDE DEF T
<1>4. T = Nat
  BY <1>1, <1>2, <1>3, AllNumbers
<1> QED  BY <1>4 DEF T

-----------------------------------------------------------------------------
(* Sequences.                                                              *)

Keep(s, G, f, n) == IF n = 0 THEN <<>> ELSE IF s[n] \in G THEN Append(f[n - 1], s[n]) ELSE f[n - 1]
IsKept(s, G, f) == f = [n \in 0..Len(s) |-> Keep(s, G, f, n)]

(* Among has a value, and is what it keeps of the sequence step by step.   *)
LEMMA AmongSteps ==
  ASSUME NEW S, NEW s \in Seq(S), NEW G
  PROVE  \E f : /\ Among(s, G) = f[Len(s)]
                /\ \A n \in 0..Len(s) : f[n] = Keep(s, G, f, n)
<1> DEFINE X == Seq(S)
           grow(n) == [q \in X |-> IF s[n] \in G THEN Append(q, s[n]) ELSE q]
           step == [n \in 1..Len(s) |-> grow(n)]
<1>1. Len(s) \in Nat /\ \A i \in 1..Len(s) : s[i] \in S
  BY LenProperties, ElementOfSeq
<1>2. <<>> \in X /\ \A q \in X : \A x \in S : Append(q, x) \in X
  BY AppendProperties
<1>3. step \in [1..Len(s) -> [X -> X]]
  <2> HIDE DEF X
  <2>1. \A n \in 1..Len(s) : grow(n) \in [X -> X]
    BY <1>1, <1>2
  <2> QED  BY <2>1
<1>4. PICK g \in [0..Len(s) -> X] : Iterates(g, <<>>, Len(s), step)
  <2> HIDE DEF X, step
  <2> QED  BY <1>1, <1>2, <1>3, Iteration
<1>5. ASSUME NEW n \in 0..Len(s) PROVE g[n] = Keep(s, G, g, n)
  <2> HIDE DEF X
  <2>1. CASE n = 0
    BY <1>4, <2>1 DEF Iterates, Keep
  <2>2. CASE n # 0
    <3>1. n \in 1..Len(s) /\ n - 1 \in 0..Len(s)
      BY <1>1, <2>2
    <3>2. g[n - 1] \in X /\ g[n] = step[n][g[n - 1]]
      BY <1>4, <3>1 DEF Iterates
    <3>3. step[n] = grow(n)
      BY <3>1
    <3>4. g[n] = grow(n)[g[n - 1]]
      BY <3>2, <3>3
    <3> QED  BY <2>2, <3>2, <3>4 DEF Keep
  <2> QED  BY <2>1, <2>2
<1>6. IsKept(s, G, g)
  <2>1. g = [n \in 0..Len(s) |-> g[n]]
    BY <1>4
  <2>2. [n \in 0..Len(s) |-> g[n]] = [n \in 0..Len(s) |-> Keep(s, G, g, n)]
    BY <1>5
  <2> QED  BY <2>1, <2>2 DEF IsKept
<1> DEFINE f == CHOOSE f : IsKept(s, G, f)
<1>7. IsKept(s, G, f)
  BY <1>6
<1>8. Among(s, G) = f[Len(s)]
  BY DEF Among, IsKept, Keep
<1> HIDE DEF f
<1>9. \A n \in 0..Len(s) : f[n] = Keep(s, G, f, n)
  BY <1>7 DEF IsKept
<1> QED  BY <1>8, <1>9

LEMMA Appended ==
  ASSUME NEW S, NEW q \in Seq(S), NEW x \in S
  PROVE  /\ Append(q, x) \in Seq(S)
         /\ Len(Append(q, x)) = Len(q) + 1
         /\ ToSet(Append(q, x)) = ToSet(q) \cup {x}
         /\ IsInjective(q) /\ x \notin ToSet(q) => IsInjective(Append(q, x))
<1> DEFINE r == Append(q, x)
<1>1. /\ r \in Seq(S) /\ Len(r) = Len(q) + 1
      /\ \A i \in 1..Len(q) : r[i] = q[i]
      /\ r[Len(q) + 1] = x
  BY AppendProperties
<1>2. Len(q) \in Nat /\ DOMAIN q = 1..Len(q) /\ DOMAIN r = 1..(Len(q) + 1)
  BY <1>1, LenProperties
<1> HIDE DEF r
<1>3. ToSet(r) = ToSet(q) \cup {x}
  <2>1. ASSUME NEW y \in ToSet(r) PROVE y \in ToSet(q) \cup {x}
    <3>1. PICK i \in 1..(Len(q) + 1) : r[i] = y
      BY <1>2, <2>1 DEF ToSet
    <3>2. i \in 1..Len(q) \/ i = Len(q) + 1
      BY <1>2
    <3> QED  BY <1>1, <1>2, <3>1, <3>2 DEF ToSet
  <2>2. x \in ToSet(r)
    <3>1. Len(q) + 1 \in DOMAIN r
      BY <1>2
    <3> QED  BY <1>1, <3>1 DEF ToSet
  <2>3. ASSUME NEW y \in ToSet(q) PROVE y \in ToSet(r)
    <3>1. PICK i \in 1..Len(q) : q[i] = y
      BY <1>2 DEF ToSet
    <3>2. i \in DOMAIN r /\ r[i] = y
      BY <1>1, <1>2, <3>1
    <3> QED  BY <3>2 DEF ToSet
  <2> QED  BY <2>1, <2>2, <2>3
<1>4. ASSUME IsInjective(q), x \notin ToSet(q) PROVE IsInjective(r)
  <2>1. \A i \in 1..Len(q) : q[i] # x
    BY <1>2, <1>4 DEF ToSet
  <2>2. \A a, b \in 1..Len(q) : q[a] = q[b] => a = b
    BY <1>2, <1>4 DEF IsInjective
  <2>3. \A a \in 1..(Len(q) + 1) : a \in 1..Len(q) \/ a = Len(q) + 1
    BY <1>2
  <2>4. \A a, b \in 1..(Len(q) + 1) : r[a] = r[b] => a = b
    BY <1>1, <2>1, <2>2, <2>3
  <2> QED  BY <1>2, <2>4 DEF IsInjective
<1> QED  BY <1>1, <1>3, <1>4 DEF r

(* The elements of a sequence that are in a set: those and no others, each *)
(* once if it was there once.                                              *)
LEMMA AmongType ==
  ASSUME NEW S, NEW s \in Seq(S), NEW G
  PROVE  /\ Among(s, G) \in Seq(S) /\ ToSet(Among(s, G)) = ToSet(s) \cap G
         /\ Len(Among(s, G)) <= Len(s)
         /\ IsInjective(s) => IsInjective(Among(s, G))
<1>1. Len(s) \in Nat /\ DOMAIN s = 1..Len(s) /\ \A i \in 1..Len(s) : s[i] \in S
  BY LenProperties, ElementOfSeq
<1>2. PICK f : /\ Among(s, G) = f[Len(s)]
               /\ \A n \in 0..Len(s) : f[n] = Keep(s, G, f, n)
  BY AmongSteps
<1> DEFINE Upto(n) == {s[i] : i \in 1..n}
           Good(n) == /\ f[n] \in Seq(S)
                      /\ ToSet(f[n]) = Upto(n) \cap G
                      /\ Len(f[n]) <= n
                      /\ IsInjective(s) => IsInjective(f[n])
           T == {n \in Nat : n <= Len(s) => Good(n)}
<1>3. 0 \in T
  <2>1. f[0] = <<>>
    BY <1>1, <1>2 DEF Keep
  <2>2. <<>> \in Seq(S) /\ Len(<<>>) = 0 /\ DOMAIN <<>> = {}
    BY EmptySeq
  <2>3. ToSet(<<>>) = {} /\ IsInjective(<<>>)
    BY <2>2 DEF ToSet, IsInjective
  <2>4. Upto(0) = {}
    OBVIOUS
  <2>5. ToSet(f[0]) = Upto(0) \cap G
    BY <2>1, <2>3, <2>4
  <2>6. f[0] \in Seq(S) /\ Len(f[0]) <= 0 /\ IsInjective(f[0])
    BY <2>1, <2>2, <2>3
  <2>7. Good(0)
    BY <2>5, <2>6
  <2> HIDE DEF Good
  <2> QED  BY <2>7
<1>4. \A n \in T : n + 1 \in T
  <2>1. SUFFICES ASSUME NEW n \in Nat, Good(n), n + 1 <= Len(s) PROVE Good(n + 1)
    <3>1. ASSUME NEW n \in T PROVE n \in Nat /\ (n <= Len(s) => Good(n))
      OBVIOUS
    <3>2. ASSUME NEW n \in Nat, n + 1 <= Len(s) => Good(n + 1) PROVE n + 1 \in T
      BY <3>2
    <3>3. \A n \in Nat : n + 1 <= Len(s) => n <= Len(s)
      BY <1>1
    <3> HIDE DEF T, Good
    <3> QED  BY <3>1, <3>2, <3>3
  <2> DEFINE x == s[n + 1]
  <2>2. n + 1 \in 1..Len(s) /\ n + 1 \in 0..Len(s) /\ (n + 1) - 1 = n /\ n + 1 # 0
    BY <2>1, <1>1
  <2>3. f[n + 1] = IF x \in G THEN Append(f[n], x) ELSE f[n]
    BY <1>2, <2>2 DEF Keep
  <2>4. x \in S
    BY <1>1, <2>2
  <2>5. Upto(n + 1) = Upto(n) \cup {x}
    <3>1. \A i \in 1..(n + 1) : i \in 1..n \/ i = n + 1
      BY <2>1
    <3>2. \A i \in 1..n : i \in 1..(n + 1)
      BY <2>1
    <3>3. n + 1 \in 1..(n + 1)
      BY <2>1
    <3> QED  BY <3>1, <3>2, <3>3
  <2>6. IsInjective(s) => x \notin Upto(n)
    <3>1. \A i \in 1..n : i \in 1..Len(s) /\ i # n + 1
      BY <2>1, <1>1
    <3> QED  BY <1>1, <2>2, <3>1 DEF IsInjective
  <2> HIDE DEF x, Upto
  <2>7. CASE x \in G
    <3>1. f[n + 1] = Append(f[n], x)
      BY <2>3, <2>7
    <3>2. /\ Append(f[n], x) \in Seq(S)
          /\ Len(Append(f[n], x)) = Len(f[n]) + 1
          /\ ToSet(Append(f[n], x)) = ToSet(f[n]) \cup {x}
          /\ IsInjective(f[n]) /\ x \notin ToSet(f[n]) => IsInjective(Append(f[n], x))
      BY <2>1, <2>4, Appended
    <3>3. Len(f[n]) \in Nat
      BY <2>1, LenProperties
    <3>4. Len(f[n + 1]) <= n + 1
      BY <2>1, <3>1, <3>2, <3>3
    <3>5. ToSet(f[n + 1]) = Upto(n + 1) \cap G
      BY <2>1, <2>5, <2>7, <3>1, <3>2
    <3>6. IsInjective(s) => IsInjective(f[n + 1])
      BY <2>1, <2>6, <3>1, <3>2
    <3> QED  BY <3>1, <3>2, <3>4, <3>5, <3>6
  <2>8. CASE x \notin G
    <3>1. f[n + 1] = f[n]
      BY <2>3, <2>8
    <3>2. Upto(n + 1) \cap G = Upto(n) \cap G
      BY <2>5, <2>8
    <3>3. Len(f[n]) \in Nat
      BY <2>1, LenProperties
    <3>4. Len(f[n]) <= n + 1
      BY <2>1, <3>3
    <3> QED  BY <2>1, <3>1, <3>2, <3>4
  <2> QED  BY <2>7, <2>8
<1>5. T \in SUBSET Nat
  OBVIOUS
<1>6. T = Nat
  <2> HIDE DEF T
  <2> QED  BY <1>3, <1>4, <1>5, AllNumbers
<1>7. Good(Len(s))
  <2>1. Len(s) \in T
    BY <1>1, <1>6, Zenon
  <2>2. Len(s) <= Len(s)
    BY <1>1
  <2> HIDE DEF Good
  <2> QED  BY <2>1, <2>2
<1>8. Upto(Len(s)) = ToSet(s)
  BY <1>1 DEF ToSet
<1> QED  BY <1>2, <1>7, <1>8

-----------------------------------------------------------------------------
(* The queues, in parts.  The calls of callOnAck are those of packets that *)
(* the supplier has confirmed, which are C.                                *)

Call == [packet : Packet, ok : BOOLEAN]
Honest(C) == {c \in Call : c.ok => c.packet \in C}
Failed(p) == [packet |-> p, ok |-> FALSE]

QueueRecord(C) ==
  [queue : Seq(Packet), sent : SUBSET Packet, acked : SUBSET Packet, late : SUBSET Packet,
   failed : [Packet -> Nat], waiting : [Packet -> Nat], calls : Seq(Honest(C)),
   task : BOOLEAN, slow : BOOLEAN, scheduled : Nat, instant : Nat, later : Nat]

Fits(q) ==
  /\ IsInjective(q.queue) /\ Len(q.queue) <= MaxActive
  /\ q.sent \subseteq Queued(q) /\ q.acked \subseteq Queued(q) /\ q.late \subseteq Queued(q)

Shaped(C) == {q \in QueueRecord(C) : Fits(q)}

(* Nothing is out while the loop is slow or stands still.                  *)
Idle(q) == q.slow \/ ~ q.task => q.sent = {}
Looping(q) == q.task => q.scheduled > 0
Alive(q) == q.queue # <<>> => q.scheduled + q.instant > 0

Able(C) == {q \in Shaped(C) : Idle(q) /\ Looping(q)}
Sound(C) == {q \in Able(C) : Alive(q)}

(* What leaves the queue from q to r is reported.                          *)
Tells(q, r) ==
  /\ ToSet(q.calls) \subseteq ToSet(r.calls)
  /\ \A p \in Queued(q) \ Queued(r) : Failed(p) \in ToSet(r.calls)

LEMMA TellsOn ==
  ASSUME NEW q, NEW r, NEW t, Tells(q, r), Tells(r, t)
  PROVE  Tells(q, t)
BY DEF Tells

LEMMA MoreType == \A n \in Nat : More(n) \in Nat /\ More(n) > 0
BY SendQueueAssumption DEF More

LEMMA QueuedPackets ==
  ASSUME NEW C, NEW q \in Shaped(C)
  PROVE  /\ Queued(q) \subseteq Packet
         /\ DOMAIN q.queue = 1..Len(q.queue) /\ Len(q.queue) \in Nat
         /\ \A i \in 1..Len(q.queue) : q.queue[i] \in Queued(q)
<1>1. q.queue \in Seq(Packet)
  BY DEF Shaped, QueueRecord
<1>2. DOMAIN q.queue = 1..Len(q.queue) /\ Len(q.queue) \in Nat
  BY <1>1, LenProperties
<1>3. \A i \in 1..Len(q.queue) : q.queue[i] \in Packet
  BY <1>1, ElementOfSeq
<1> QED  BY <1>2, <1>3 DEF Queued, ToSet

LEMMA NewQueueSound == \A C : NewQueue \in Sound(C)
<1> SUFFICES ASSUME NEW C PROVE NewQueue \in Sound(C)
  OBVIOUS
<1>1. /\ <<>> \in Seq(Packet) /\ <<>> \in Seq(Honest(C)) /\ Len(<<>>) = 0 /\ DOMAIN <<>> = {}
  BY EmptySeq
<1>2. IsInjective(<<>>)
  BY <1>1 DEF IsInjective
<1>3. None \in [Packet -> Nat]
  BY DEF None
<1>4. NewQueue \in QueueRecord(C)
  BY <1>1, <1>3 DEF NewQueue, QueueRecord
<1>5. Fits(NewQueue)
  BY <1>1, <1>2, SendQueueAssumption DEF NewQueue, Fits
<1>6. Idle(NewQueue) /\ Looping(NewQueue) /\ Alive(NewQueue)
  BY DEF NewQueue, Idle, Looping, Alive
<1> QED  BY <1>4, <1>5, <1>6 DEF Sound, Able, Shaped

(* Drop.                                                                   *)
DropFields(q, P, r) ==
  [q EXCEPT !.queue = r.queue, !.sent = q.sent \ P, !.acked = q.acked \ P, !.late = q.late \ P]

LEMMA DropShaped ==
  ASSUME NEW C, NEW q \in Shaped(C), NEW P
  PROVE  /\ Drop(q, P) \in Shaped(C)
         /\ Queued(Drop(q, P)) = Queued(q) \ P
         /\ Drop(q, P) = DropFields(q, P, Drop(q, P))
<1> DEFINE list == Among(q.queue, Packet \ P)
           r == Drop(q, P)
<1>1. q \in QueueRecord(C) /\ Fits(q)
  BY DEF Shaped
<1>2. q.queue \in Seq(Packet)
  BY <1>1 DEF QueueRecord
<1>3. /\ list \in Seq(Packet) /\ ToSet(list) = ToSet(q.queue) \cap (Packet \ P)
      /\ Len(list) <= Len(q.queue)
      /\ IsInjective(q.queue) => IsInjective(list)
  BY <1>2, AmongType
<1>4. Len(list) \in Nat /\ Len(q.queue) \in Nat
  BY <1>2, <1>3, LenProperties
<1> HIDE DEF list
<1>5. r = [q EXCEPT !.queue = list, !.sent = q.sent \ P, !.acked = q.acked \ P, !.late = q.late \ P]
  BY DEF Drop, list
<1>6. r \in QueueRecord(C)
  <2>1. q.sent \ P \in SUBSET Packet /\ q.acked \ P \in SUBSET Packet /\ q.late \ P \in SUBSET Packet
    BY <1>1 DEF QueueRecord
  <2> DEFINE sent == q.sent \ P
             acked == q.acked \ P
             late == q.late \ P
  <2> HIDE DEF sent, acked, late, r
  <2>2. r = [q EXCEPT !.queue = list, !.sent = sent, !.acked = acked, !.late = late]
    BY <1>5 DEF sent, acked, late
  <2>3. sent \in SUBSET Packet /\ acked \in SUBSET Packet /\ late \in SUBSET Packet
    BY <2>1 DEF sent, acked, late
  <2> QED  BY <1>1, <1>3, <2>2, <2>3 DEF QueueRecord
<1>7. r.queue = list /\ r.sent = q.sent \ P /\ r.acked = q.acked \ P /\ r.late = q.late \ P
  BY <1>1, <1>5 DEF QueueRecord
<1> HIDE DEF r
<1>8. Queued(r) = Queued(q) \ P
  BY <1>3, <1>7, QueuedPackets DEF Queued
<1>9. Len(list) <= MaxActive
  BY <1>1, <1>3, <1>4, SendQueueAssumption DEF Fits
<1>10. Fits(r)
  BY <1>1, <1>3, <1>7, <1>8, <1>9 DEF Fits
<1>11. r \in Shaped(C)
  BY <1>6, <1>10 DEF Shaped
<1>12. r = [q EXCEPT !.queue = r.queue, !.sent = q.sent \ P, !.acked = q.acked \ P, !.late = q.late \ P]
  BY <1>5, <1>7
<1>13. r = DropFields(q, P, r)
  BY <1>12 DEF DropFields
<1> QED  BY <1>8, <1>11, <1>13 DEF r

(* Report.                                                                 *)
LEMMA Concatenated ==
  ASSUME NEW S, NEW s \in Seq(S), NEW t \in Seq(S)
  PROVE  s \o t \in Seq(S) /\ ToSet(s) \subseteq ToSet(s \o t) /\ ToSet(t) \subseteq ToSet(s \o t)
<1> DEFINE r == s \o t
<1>1. /\ r \in Seq(S) /\ Len(r) = Len(s) + Len(t)
      /\ \A i \in 1..(Len(s) + Len(t)) : r[i] = IF i <= Len(s) THEN s[i] ELSE t[i - Len(s)]
  BY ConcatProperties
<1>2. /\ Len(s) \in Nat /\ DOMAIN s = 1..Len(s) /\ Len(t) \in Nat /\ DOMAIN t = 1..Len(t)
      /\ DOMAIN r = 1..(Len(s) + Len(t))
  BY <1>1, LenProperties
<1> HIDE DEF r
<1>3. ASSUME NEW i \in 1..Len(s) PROVE s[i] \in ToSet(r)
  <2>1. i \in 1..(Len(s) + Len(t)) /\ i <= Len(s)
    BY <1>2, <1>3
  <2>2. i \in DOMAIN r /\ r[i] = s[i]
    BY <1>1, <1>2, <2>1
  <2> QED  BY <2>2 DEF ToSet
<1>4. ASSUME NEW i \in 1..Len(t) PROVE t[i] \in ToSet(r)
  <2>1. i + Len(s) \in 1..(Len(s) + Len(t)) /\ ~ (i + Len(s) <= Len(s)) /\ (i + Len(s)) - Len(s) = i
    BY <1>2, <1>4
  <2>2. i + Len(s) \in DOMAIN r /\ r[i + Len(s)] = t[i]
    BY <1>1, <1>2, <2>1
  <2> QED  BY <2>2 DEF ToSet
<1> QED  BY <1>1, <1>2, <1>3, <1>4 DEF ToSet, r

NewCalls(q, r) == r = [q EXCEPT !.calls = r.calls]

LEMMA ReportShaped ==
  ASSUME NEW C, NEW q \in Shaped(C), NEW P \in Seq(Packet), NEW ok \in BOOLEAN,
         ok => \A i \in 1..Len(P) : P[i] \in C
  PROVE  /\ Report(q, P, ok) \in Shaped(C)
         /\ NewCalls(q, Report(q, P, ok))
         /\ ToSet(q.calls) \subseteq ToSet(Report(q, P, ok).calls)
         /\ \A p \in ToSet(P) : [packet |-> p, ok |-> ok] \in ToSet(Report(q, P, ok).calls)
<1> DEFINE new == [i \in DOMAIN P |-> [packet |-> P[i], ok |-> ok]]
           calls == q.calls \o new
           r == Report(q, P, ok)
<1>1. q \in QueueRecord(C) /\ Fits(q)
  BY DEF Shaped
<1>2. q.calls \in Seq(Honest(C))
  BY <1>1 DEF QueueRecord
<1>3. Len(P) \in Nat /\ DOMAIN P = 1..Len(P) /\ \A i \in 1..Len(P) : P[i] \in Packet
  BY LenProperties, ElementOfSeq
<1>4. new \in Seq(Honest(C)) /\ DOMAIN new = DOMAIN P
  <2>1. \A i \in 1..Len(P) : [packet |-> P[i], ok |-> ok] \in Honest(C)
    BY <1>3 DEF Honest, Call
  <2>2. new = [i \in 1..Len(P) |-> [packet |-> P[i], ok |-> ok]]
    BY <1>3
  <2>3. new \in [1..Len(P) -> Honest(C)]
    BY <2>1, <2>2
  <2> HIDE DEF new
  <2> QED  BY <1>3, <2>3, SeqDef
<1>5. calls \in Seq(Honest(C)) /\ ToSet(q.calls) \subseteq ToSet(calls) /\ ToSet(new) \subseteq ToSet(calls)
  <2> HIDE DEF new
  <2> QED  BY <1>2, <1>4, Concatenated
<1>6. \A p \in ToSet(P) : [packet |-> p, ok |-> ok] \in ToSet(new)
  <2>1. SUFFICES ASSUME NEW i \in DOMAIN P PROVE [packet |-> P[i], ok |-> ok] \in ToSet(new)
    BY DEF ToSet
  <2>2. new[i] = [packet |-> P[i], ok |-> ok]
    OBVIOUS
  <2> HIDE DEF new
  <2> QED  BY <1>4, <2>2 DEF ToSet
<1> HIDE DEF calls
<1>7. r = [q EXCEPT !.calls = calls]
  BY DEF Report, calls
<1>8. r.calls = calls
  BY <1>1, <1>7 DEF QueueRecord
<1> HIDE DEF r, new
<1>9. r \in QueueRecord(C)
  BY <1>1, <1>5, <1>7 DEF QueueRecord
<1>10. Fits(r)
  BY <1>1, <1>7 DEF Fits, QueueRecord, Queued
<1>11. r \in Shaped(C)
  BY <1>9, <1>10 DEF Shaped
<1>12. NewCalls(q, r)
  BY <1>7, <1>8 DEF NewCalls
<1> QED  BY <1>5, <1>6, <1>8, <1>11, <1>12 DEF r

(* RunSend.                                                                *)
LEMMA WhoGoes ==
  ASSUME NEW C, NEW q \in Shaped(C)
  PROVE  /\ Marked(q) \subseteq Queued(q) /\ Failing(q) \subseteq Queued(q)
         /\ SentNow(q) \subseteq Queued(q) \ Marked(q)
         /\ Done(q) \subseteq q.sent \cap q.acked
<1>1. q.sent \subseteq Queued(q) /\ q.acked \subseteq Queued(q) /\ q.late \subseteq Queued(q)
  BY DEF Shaped, Fits
<1>2. Marked(q) \subseteq Queued(q)
  BY DEF Marked
<1>3. SentNow(q) \subseteq Queued(q) \ Marked(q)
  BY QueuedPackets DEF SentNow, Sends
<1> QED  BY <1>1, <1>2, <1>3 DEF Failing, Done

(* The loop is as it was.                                                  *)
SameLoop(q, r) ==
  /\ r.task = q.task /\ r.slow = q.slow /\ r.scheduled = q.scheduled
  /\ r.instant = q.instant /\ r.later = q.later

LEMMA RunSendShaped ==
  ASSUME NEW C, NEW q \in Shaped(C)
  PROVE  /\ RunSend(q) \in Shaped(C)
         /\ Queued(RunSend(q)) = Queued(q) \ (Failing(q) \cup Done(q))
         /\ RunSend(q).sent = (q.sent \cup SentNow(q)) \ (Failing(q) \cup Done(q))
         /\ SameLoop(q, RunSend(q))
         /\ ToSet(q.calls) \subseteq ToSet(RunSend(q).calls)
         /\ \A p \in Failing(q) : Failed(p) \in ToSet(RunSend(q).calls)
<1> DEFINE P == Failing(q) \cup Done(q)
           list == Among(q.queue, Failing(q))
           q1 == Failures(q)
           q2 == [q1 EXCEPT !.sent = @ \cup SentNow(q)]
           rest == Drop(q2, P)
           failed == IF rest.queue = <<>> THEN None
                     ELSE [p \in Packet |-> IF p \in Marked(q) THEN rest.failed[p] - 1 ELSE rest.failed[p]]
           waiting == [p \in Packet |-> IF p \in SentNow(q) THEN rest.waiting[p] + 1 ELSE rest.waiting[p]]
           r == RunSend(q)
<1>1. q \in QueueRecord(C) /\ Fits(q)
  BY DEF Shaped
<1>2. list \in Seq(Packet) /\ ToSet(list) = Failing(q)
  <2>1. q.queue \in Seq(Packet)
    BY <1>1 DEF QueueRecord
  <2>2. list \in Seq(Packet) /\ ToSet(list) = ToSet(q.queue) \cap Failing(q)
    BY <2>1, AmongType
  <2> HIDE DEF list
  <2> QED  BY <2>2, WhoGoes DEF Queued
<1>3. /\ q1 \in Shaped(C) /\ q1 = [q EXCEPT !.calls = q1.calls]
      /\ ToSet(q.calls) \subseteq ToSet(q1.calls)
      /\ \A p \in Failing(q) : Failed(p) \in ToSet(q1.calls)
  <2> HIDE DEF list
  <2>1. /\ Report(q, list, FALSE) \in Shaped(C)
        /\ NewCalls(q, Report(q, list, FALSE))
        /\ ToSet(q.calls) \subseteq ToSet(Report(q, list, FALSE).calls)
        /\ \A p \in ToSet(list) : [packet |-> p, ok |-> FALSE] \in ToSet(Report(q, list, FALSE).calls)
    BY <1>2, ReportShaped
  <2>2. q1 = Report(q, list, FALSE)
    BY DEF Failures, list
  <2> HIDE DEF q1
  <2> QED  BY <1>2, <2>1, <2>2 DEF Failed, NewCalls
<1> HIDE DEF q1
<1>4. q1 \in QueueRecord(C) /\ Fits(q1) /\ q1.sent = q.sent /\ q1.queue = q.queue
  BY <1>1, <1>3 DEF Shaped, QueueRecord
<1> DEFINE sent == q.sent \cup SentNow(q)
<1>5. sent \subseteq Queued(q) /\ sent \in SUBSET Packet
  BY <1>1, WhoGoes, QueuedPackets DEF Fits
<1>6. q2 = [q1 EXCEPT !.sent = sent]
  BY <1>4
<1> HIDE DEF sent, q2
<1>7. q2 \in QueueRecord(C)
  BY <1>4, <1>5, <1>6 DEF QueueRecord
<1>8. Fits(q2) /\ Queued(q2) = Queued(q) /\ q2.calls = q1.calls /\ q2.sent = sent
  <2>1. /\ q2.queue = q.queue /\ q2.sent = sent /\ q2.acked = q1.acked /\ q2.late = q1.late
        /\ q2.calls = q1.calls
    BY <1>4, <1>6 DEF QueueRecord
  <2>2. Queued(q1) = Queued(q) /\ Queued(q2) = Queued(q)
    BY <1>4, <2>1 DEF Queued
  <2> QED  BY <1>4, <1>5, <2>1, <2>2 DEF Fits
<1>9. /\ rest \in Shaped(C) /\ Queued(rest) = Queued(q) \ P
      /\ rest = [q2 EXCEPT !.queue = rest.queue, !.sent = q2.sent \ P,
                           !.acked = q2.acked \ P, !.late = q2.late \ P]
  <2>1. q2 \in Shaped(C)
    BY <1>7, <1>8 DEF Shaped
  <2> HIDE DEF P
  <2>2. /\ Drop(q2, P) \in Shaped(C)
        /\ Queued(Drop(q2, P)) = Queued(q2) \ P
        /\ Drop(q2, P) = DropFields(q2, P, Drop(q2, P))
    BY <2>1, DropShaped, Zenon
  <2>3. rest = Drop(q2, P)
    OBVIOUS
  <2> HIDE DEF rest
  <2> QED  BY <1>8, <2>2, <2>3 DEF DropFields
<1> HIDE DEF rest
<1>10. rest \in QueueRecord(C) /\ Fits(rest) /\ rest.calls = q1.calls /\ rest.sent = sent \ P
  BY <1>7, <1>8, <1>9 DEF Shaped, QueueRecord
<1>11. /\ rest.failed = q.failed /\ rest.waiting = q.waiting /\ rest.task = q.task /\ rest.slow = q.slow
       /\ rest.scheduled = q.scheduled /\ rest.instant = q.instant /\ rest.later = q.later
  <2>1. /\ q1.failed = q.failed /\ q1.waiting = q.waiting /\ q1.task = q.task /\ q1.slow = q.slow
        /\ q1.scheduled = q.scheduled /\ q1.instant = q.instant /\ q1.later = q.later
    BY <1>1, <1>3 DEF QueueRecord
  <2>2. /\ q2.failed = q.failed /\ q2.waiting = q.waiting /\ q2.task = q.task /\ q2.slow = q.slow
        /\ q2.scheduled = q.scheduled /\ q2.instant = q.instant /\ q2.later = q.later
    BY <1>4, <1>6, <2>1 DEF QueueRecord
  <2> QED  BY <1>7, <1>9, <2>2 DEF QueueRecord
<1>12. failed \in [Packet -> Nat]
  <2>1. q.failed \in [Packet -> Nat]
    BY <1>1 DEF QueueRecord
  <2>2. \A p \in Marked(q) : q.failed[p] > 0
    BY DEF Marked
  <2>3. [p \in Packet |-> IF p \in Marked(q) THEN q.failed[p] - 1 ELSE q.failed[p]] \in [Packet -> Nat]
    BY <2>1, <2>2
  <2>4. None \in [Packet -> Nat]
    BY DEF None
  <2> QED  BY <1>11, <2>3, <2>4
<1>13. waiting \in [Packet -> Nat]
  <2>1. q.waiting \in [Packet -> Nat]
    BY <1>1 DEF QueueRecord
  <2> QED  BY <1>11, <2>1
<1>14. r = [rest EXCEPT !.failed = failed, !.waiting = waiting]
  BY DEF RunSend, rest, q2, q1
<1> HIDE DEF failed, waiting, r
<1>15. r \in QueueRecord(C)
  BY <1>10, <1>12, <1>13, <1>14 DEF QueueRecord
<1>16. /\ r.queue = rest.queue /\ r.sent = rest.sent /\ r.acked = rest.acked /\ r.late = rest.late
       /\ r.calls = rest.calls
       /\ r.task = rest.task /\ r.slow = rest.slow /\ r.scheduled = rest.scheduled
       /\ r.instant = rest.instant /\ r.later = rest.later
  BY <1>10, <1>14 DEF QueueRecord
<1>17. Queued(r) = Queued(rest)
  BY <1>16 DEF Queued
<1>18. r \in Shaped(C)
  BY <1>10, <1>15, <1>16, <1>17 DEF Shaped, Fits
<1>19. SameLoop(q, r)
  BY <1>11, <1>16, Zenon DEF SameLoop
<1>20. /\ ToSet(q.calls) \subseteq ToSet(r.calls)
       /\ \A p \in Failing(q) : Failed(p) \in ToSet(r.calls)
  BY <1>3, <1>10, <1>16
<1>21. r.sent = (q.sent \cup SentNow(q)) \ (Failing(q) \cup Done(q))
  BY <1>10, <1>16 DEF sent
<1> QED  BY <1>9, <1>17, <1>18, <1>19, <1>20, <1>21 DEF r

(* The run that neither sends nor finds anything leaves nothing out.       *)
Counts(q, p, n) == IF p \in q.sent \ Marked(q) \/ Sends(q, p, n) THEN n + 1 ELSE n
Counting(q, f, i) == IF i = 0 THEN 0 ELSE Counts(q, q.queue[i], f[i - 1])
IsCount(q, f) == f = [i \in 0..Len(q.queue) |-> Counting(q, f, i)]

LEMMA CountSteps ==
  ASSUME NEW q, Len(q.queue) \in Nat
  PROVE  /\ PacketsSent(q) \in [0..Len(q.queue) -> Nat]
         /\ \A i \in 0..Len(q.queue) : PacketsSent(q)[i] = Counting(q, PacketsSent(q), i)
<1> DEFINE N == Len(q.queue)
           count(i) == [n \in Nat |-> Counts(q, q.queue[i], n)]
           step == [i \in 1..N |-> count(i)]
<1>1. \A p : \A n \in Nat : Counts(q, p, n) \in Nat
  BY DEF Counts
<1>2. step \in [1..N -> [Nat -> Nat]]
  <2>1. \A i \in 1..N : count(i) \in [Nat -> Nat]
    BY <1>1
  <2> HIDE DEF count
  <2> QED  BY <2>1
<1>3. PICK g \in [0..N -> Nat] : Iterates(g, 0, N, step)
  <2> HIDE DEF step
  <2> QED  BY <1>2, Iteration
<1>4. ASSUME NEW i \in 0..N PROVE g[i] = Counting(q, g, i)
  <2>1. CASE i = 0
    BY <1>3, <2>1 DEF Iterates, Counting
  <2>2. CASE i # 0
    <3>1. i \in 1..N /\ i - 1 \in 0..N
      BY <2>2
    <3>2. g[i - 1] \in Nat /\ g[i] = step[i][g[i - 1]]
      BY <1>3, <3>1 DEF Iterates
    <3>3. step[i] = count(i)
      BY <3>1
    <3>4. g[i] = count(i)[g[i - 1]]
      BY <3>2, <3>3
    <3> QED  BY <2>2, <3>2, <3>4 DEF Counting
  <2> QED  BY <2>1, <2>2
<1>5. IsCount(q, g)
  <2>1. g = [i \in 0..N |-> g[i]]
    BY <1>3
  <2>2. [i \in 0..N |-> g[i]] = [i \in 0..N |-> Counting(q, g, i)]
    BY <1>4
  <2> QED  BY <2>1, <2>2 DEF IsCount
<1> DEFINE f == CHOOSE f : IsCount(q, f)
<1>6. IsCount(q, f)
  BY <1>5
<1>7. PacketsSent(q) = f
  BY DEF PacketsSent, IsCount, Counting, Counts
<1> HIDE DEF f
<1>8. \A i \in 0..N : f[i] = Counting(q, f, i)
  BY <1>6 DEF IsCount
<1>9. \A i \in 0..N : f[i] \in Nat
  <2>1. f[0] \in Nat
    BY <1>8 DEF Counting
  <2>2. ASSUME NEW i \in 1..N, f[i - 1] \in Nat PROVE f[i] \in Nat
    <3>1. f[i] = Counts(q, q.queue[i], f[i - 1])
      BY <1>8 DEF Counting
    <3> QED  BY <1>1, <2>2, <3>1
  <2> HIDE DEF N
  <2>3. N \in Nat
    BY DEF N
  <2> QED  BY <2>1, <2>2, <2>3, Kept
<1>10. f \in [0..N -> Nat]
  <2>1. f = [i \in 0..N |-> Counting(q, f, i)]
    BY <1>6 DEF IsCount
  <2>2. f = [i \in 0..N |-> f[i]]
    BY <1>8, <2>1
  <2> QED  BY <1>9, <2>2
<1> QED  BY <1>7, <1>8, <1>10

LEMMA RunSendIdle ==
  ASSUME NEW C, NEW q \in Shaped(C), ~ Busy(q)
  PROVE  RunSend(q).sent = {}
<1> DEFINE N == Len(q.queue)
           f == PacketsSent(q)
<1>1. q \in QueueRecord(C) /\ Fits(q) /\ N \in Nat /\ DOMAIN q.queue = 1..N
  BY QueuedPackets DEF Shaped
<1>2. f \in [0..N -> Nat] /\ \A i \in 0..N : f[i] = Counting(q, f, i)
  BY <1>1, CountSteps
<1>3. f[N] = 0 /\ Failing(q) = {}
  <2>1. ~ (f[N] > 0) /\ Failing(q) = {}
    BY DEF Busy
  <2>2. f[N] \in Nat
    BY <1>1, <1>2
  <2> QED  BY <2>1, <2>2
<1> HIDE DEF f
<1>4. ASSUME NEW i \in 1..N, q.queue[i] \in q.sent \ Marked(q) \/ Sends(q, q.queue[i], f[i - 1])
      PROVE  FALSE
  <2> DEFINE T == {n \in Nat : i <= n /\ n <= N => f[n] > 0}
  <2>1. 0 \in T
    OBVIOUS
  <2>2. \A n \in T : n + 1 \in T
    <3>1. SUFFICES ASSUME NEW n \in T, i <= n + 1, n + 1 <= N PROVE f[n + 1] > 0
      OBVIOUS
    <3>2. n \in Nat /\ n + 1 \in 0..N /\ n \in 0..N /\ (n + 1) - 1 = n /\ n + 1 # 0
      BY <1>1, <3>1
    <3>3. f[n + 1] = Counts(q, q.queue[n + 1], f[n]) /\ f[n] \in Nat
      BY <1>2, <3>2 DEF Counting
    <3>4. CASE i = n + 1
      <4>1. f[i - 1] = f[n]
        BY <3>2, <3>4
      <4> QED  BY <1>4, <3>3, <3>4, <4>1 DEF Counts
    <3>5. CASE i # n + 1
      <4>1. i <= n /\ n <= N
        BY <3>1, <3>2, <3>5, <1>1
      <4>2. f[n] > 0
        BY <4>1
      <4> QED  BY <3>3, <4>2 DEF Counts
    <3> QED  BY <3>4, <3>5
  <2>3. T \in SUBSET Nat
    OBVIOUS
  <2>4. T = Nat
    <3> HIDE DEF T
    <3> QED  BY <2>1, <2>2, <2>3, AllNumbers
  <2>5. N \in T
    BY <1>1, <2>4, Zenon
  <2>6. i <= N
    BY <1>1
  <2> QED  BY <1>3, <1>1, <2>5, <2>6
<1>5. SentNow(q) = {}
  BY <1>1, <1>4 DEF SentNow, f
<1>6. Marked(q) = {}
  BY <1>3 DEF Failing
<1>7. q.sent = {}
  <2>1. SUFFICES ASSUME NEW p \in q.sent PROVE FALSE
    OBVIOUS
  <2>2. PICK i \in 1..N : q.queue[i] = p
    BY <1>1 DEF Fits, Queued, ToSet
  <2> QED  BY <1>4, <1>6, <2>1, <2>2
<1> QED  BY <1>5, <1>7, RunSendShaped

(* SendingTask.                                                            *)
LEMMA SendingTaskSound ==
  ASSUME NEW C, NEW q \in Shaped(C), NEW tired \in BOOLEAN
  PROVE  /\ SendingTask(q, tired) \in Sound(C)
         /\ Queued(SendingTask(q, tired)) = Queued(q) \ (Failing(q) \cup Done(q))
         /\ ToSet(q.calls) \subseteq ToSet(SendingTask(q, tired).calls)
         /\ \A p \in Failing(q) : Failed(p) \in ToSet(SendingTask(q, tired).calls)
<1> DEFINE run == RunSend(q)
           slow == ~ Busy(q) /\ (run.slow \/ tired)
           scheduled == IF ~ q.task /\ Failing(q) # {} THEN More(More(run.scheduled)) ELSE More(run.scheduled)
           r == SendingTask(q, tired)
<1>1. /\ run \in Shaped(C) /\ Queued(run) = Queued(q) \ (Failing(q) \cup Done(q))
      /\ ToSet(q.calls) \subseteq ToSet(run.calls)
      /\ \A p \in Failing(q) : Failed(p) \in ToSet(run.calls)
  BY RunSendShaped
<1>2. slow \in BOOLEAN /\ (slow => run.sent = {})
  BY RunSendIdle
<1> HIDE DEF run
<1>3. run \in QueueRecord(C) /\ Fits(run)
  BY <1>1 DEF Shaped
<1>4. run.scheduled \in Nat /\ run.instant \in Nat
  BY <1>3 DEF QueueRecord
<1>5. scheduled \in Nat /\ scheduled > 0
  BY <1>4, MoreType
<1>6. r = [run EXCEPT !.task = TRUE, !.slow = slow, !.scheduled = scheduled]
  BY DEF SendingTask, run
<1> HIDE DEF slow, scheduled, r
<1>7. r \in QueueRecord(C)
  BY <1>2, <1>3, <1>5, <1>6 DEF QueueRecord
<1>8. /\ r.queue = run.queue /\ r.sent = run.sent /\ r.acked = run.acked /\ r.late = run.late
      /\ r.calls = run.calls /\ r.scheduled = scheduled /\ r.instant = run.instant
  BY <1>3, <1>6 DEF QueueRecord
<1>9. r.task = TRUE /\ r.slow = slow
  BY <1>3, <1>6 DEF QueueRecord
<1>10. Queued(r) = Queued(run)
  BY <1>8 DEF Queued
<1>11. r \in Shaped(C)
  BY <1>3, <1>7, <1>8, <1>10 DEF Shaped, Fits
<1>12. Idle(r)
  BY <1>2, <1>8, <1>9, Zenon DEF Idle
<1>13. Looping(r)
  BY <1>5, <1>8, Zenon DEF Looping
<1>14. Alive(r)
  BY <1>4, <1>5, <1>8 DEF Alive
<1>15. r \in Sound(C)
  BY <1>11, <1>12, <1>13, <1>14 DEF Sound, Able
<1> QED  BY <1>1, <1>8, <1>10, <1>15 DEF r

(* DoSend runs the queue only when nothing is out, so that whatever leaves *)
(* it has failed.                                                          *)
LEMMA DoSendSound ==
  ASSUME NEW C, NEW q \in Able(C), NEW tired \in BOOLEAN
  PROVE  DoSend(q, tired) \in Sound(C) /\ Tells(q, DoSend(q, tired))
<1>1. q \in Shaped(C) /\ q \in QueueRecord(C) /\ Fits(q) /\ Idle(q) /\ Looping(q)
  BY DEF Able, Shaped
<1>2. q.scheduled \in Nat /\ q.instant \in Nat /\ q.task \in BOOLEAN /\ q.slow \in BOOLEAN
  BY <1>1 DEF QueueRecord
<1>3. CASE ~ q.task
  <2>1. DoSend(q, tired) = SendingTask(q, tired)
    BY <1>3 DEF DoSend
  <2>2. q.sent = {}
    BY <1>1, <1>3, Zenon DEF Idle
  <2>3. Done(q) = {}
    BY <1>1, <2>2, WhoGoes
  <2>4. /\ SendingTask(q, tired) \in Sound(C)
        /\ Queued(SendingTask(q, tired)) = Queued(q) \ (Failing(q) \cup Done(q))
        /\ ToSet(q.calls) \subseteq ToSet(SendingTask(q, tired).calls)
        /\ \A p \in Failing(q) : Failed(p) \in ToSet(SendingTask(q, tired).calls)
    BY <1>1, SendingTaskSound
  <2> QED  BY <2>1, <2>3, <2>4 DEF Tells
<1>4. CASE q.task /\ q.slow
  <2> DEFINE instant == More(q.instant)
             r == [q EXCEPT !.task = FALSE, !.scheduled = q.scheduled - 1, !.instant = instant]
  <2>1. DoSend(q, tired) = r
    BY <1>4 DEF DoSend
  <2>2. instant \in Nat /\ instant > 0
    BY <1>2, MoreType
  <2>3. q.scheduled > 0
    BY <1>1, <1>4, Zenon DEF Looping
  <2>4. q.sent = {}
    BY <1>1, <1>4, Zenon DEF Idle
  <2>5. q.scheduled - 1 \in Nat
    BY <1>2, <2>3
  <2> HIDE DEF instant
  <2>6. r \in QueueRecord(C)
    BY <1>1, <2>2, <2>5 DEF QueueRecord
  <2>7. /\ r.queue = q.queue /\ r.sent = q.sent /\ r.acked = q.acked /\ r.late = q.late
        /\ r.calls = q.calls /\ r.scheduled = q.scheduled - 1 /\ r.instant = instant
    BY <1>1 DEF QueueRecord
  <2>8. ~ r.task
    BY <1>1 DEF QueueRecord
  <2> HIDE DEF r
  <2>9. Queued(r) = Queued(q)
    BY <2>7 DEF Queued
  <2>10. r \in Shaped(C)
    BY <1>1, <2>6, <2>7, <2>9 DEF Shaped, Fits
  <2>11. Idle(r) /\ Looping(r)
    BY <2>4, <2>7, <2>8, Zenon DEF Idle, Looping
  <2>12. Alive(r)
    BY <2>2, <2>5, <2>7 DEF Alive
  <2>13. r \in Sound(C)
    BY <2>10, <2>11, <2>12 DEF Sound, Able
  <2>14. Tells(q, r)
    BY <2>7, <2>9 DEF Tells
  <2> QED  BY <2>1, <2>13, <2>14
<1>5. CASE q.task /\ ~ q.slow
  <2>1. DoSend(q, tired) = q
    BY <1>5 DEF DoSend
  <2>2. q.scheduled > 0
    BY <1>1, <1>5, Zenon DEF Looping
  <2>3. Alive(q)
    BY <1>2, <2>2 DEF Alive
  <2> QED  BY <2>1, <2>3 DEF Sound, Tells
<1> QED  BY <1>3, <1>4, <1>5

-----------------------------------------------------------------------------
(* What is done to a queue from outside.                                   *)

LEMMA SoundIsAble ==
  ASSUME NEW C, NEW q \in Sound(C)
  PROVE  q \in Able(C) /\ q \in Shaped(C) /\ q \in QueueRecord(C) /\ Fits(q) /\ Tells(q, q)
BY DEF Sound, Able, Shaped, Tells

(* Another queue, with the same loop and nothing sent in addition.         *)
LEMMA StillAble ==
  ASSUME NEW C, NEW q \in Able(C), NEW r \in Shaped(C), r.sent = q.sent, SameLoop(q, r)
  PROVE  r \in Able(C)
<1>1. Idle(q) /\ Looping(q)
  BY DEF Able
<1>2. Idle(r) /\ Looping(r)
  BY <1>1, Zenon DEF Idle, Looping, SameLoop
<1> QED  BY <1>2 DEF Able

LEMMA MoreConfirmed ==
  ASSUME NEW C, NEW D, C \subseteq D, NEW q \in Sound(C)
  PROVE  q \in Sound(D)
<1>1. q \in QueueRecord(C) /\ Fits(q) /\ Idle(q) /\ Looping(q) /\ Alive(q)
  BY DEF Sound, Able, Shaped
<1>2. Honest(C) \subseteq Honest(D)
  BY DEF Honest
<1>3. q.calls \in Seq(Honest(D))
  <2>1. q.calls \in Seq(Honest(C))
    BY <1>1 DEF QueueRecord
  <2> QED  BY <1>2, <2>1, SeqMonotonic
<1>4. q \in QueueRecord(D)
  BY <1>1, <1>3 DEF QueueRecord
<1> QED  BY <1>1, <1>4 DEF Sound, Able, Shaped

(* QueueSendFile.                                                          *)
LEMMA QueueSendFileSound ==
  ASSUME NEW C, NEW q \in Sound(C), NEW p \in Packet, NEW tired \in BOOLEAN
  PROVE  QueueSendFile(q, p, tired) \in Sound(C) /\ Tells(q, QueueSendFile(q, p, tired))
<1>1. q \in Able(C) /\ q \in QueueRecord(C) /\ Fits(q) /\ Tells(q, q)
  BY SoundIsAble
<1>2. CASE p \in Queued(q) \/ ~ OkToSend(q)
  BY <1>1, <1>2 DEF QueueSendFile
<1>3. CASE p \notin Queued(q) /\ OkToSend(q)
  <2> DEFINE list == Append(q.queue, p)
             r == [q EXCEPT !.queue = list]
  <2>1. QueueSendFile(q, p, tired) = DoSend(r, tired)
    BY <1>3 DEF QueueSendFile
  <2>2. q.queue \in Seq(Packet)
    BY <1>1 DEF QueueRecord
  <2>3. /\ list \in Seq(Packet) /\ Len(list) = Len(q.queue) + 1
        /\ ToSet(list) = ToSet(q.queue) \cup {p}
        /\ IsInjective(q.queue) /\ p \notin ToSet(q.queue) => IsInjective(list)
    BY <2>2, Appended
  <2> HIDE DEF list
  <2>4. Len(list) <= MaxActive
    <3>1. Len(q.queue) \in Nat /\ Len(q.queue) < MaxActive
      BY <1>3, <2>2, LenProperties DEF OkToSend
    <3> QED  BY <2>3, <3>1, SendQueueAssumption
  <2>5. r \in QueueRecord(C)
    BY <1>1, <2>3 DEF QueueRecord
  <2>6. /\ r.queue = list /\ r.sent = q.sent /\ r.acked = q.acked /\ r.late = q.late
        /\ r.calls = q.calls /\ SameLoop(q, r)
    BY <1>1 DEF QueueRecord, SameLoop
  <2> HIDE DEF r
  <2>7. Queued(r) = Queued(q) \cup {p}
    BY <2>3, <2>6 DEF Queued
  <2>8. IsInjective(list)
    BY <1>1, <1>3, <2>3 DEF Fits, Queued
  <2>9. r \in Shaped(C)
    BY <1>1, <2>4, <2>5, <2>6, <2>7, <2>8 DEF Shaped, Fits
  <2>10. r \in Able(C)
    BY <1>1, <2>6, <2>9, StillAble
  <2>11. DoSend(r, tired) \in Sound(C) /\ Tells(r, DoSend(r, tired))
    BY <2>10, DoSendSound
  <2>12. Tells(q, r)
    BY <2>6, <2>7 DEF Tells
  <2> QED  BY <2>1, <2>11, <2>12, TellsOn
<1> QED  BY <1>2, <1>3

Filling(q, order, tired, f, n) == IF n = 0 THEN q ELSE QueueSendFile(f[n - 1], order[n], tired)
IsFilling(q, order, tired, f) == f = [n \in 0..Len(order) |-> Filling(q, order, tired, f, n)]

LEMMA QueueSendFilesSound ==
  ASSUME NEW C, NEW q \in Sound(C), NEW order \in Seq(Packet), NEW tired \in BOOLEAN
  PROVE  QueueSendFiles(q, order, tired) \in Sound(C) /\ Tells(q, QueueSendFiles(q, order, tired))
<1> DEFINE N == Len(order)
           X == {r \in Sound(C) : Tells(q, r)}
           put(n) == [r \in X |-> QueueSendFile(r, order[n], tired)]
           step == [n \in 1..N |-> put(n)]
<1>1. N \in Nat /\ \A n \in 1..N : order[n] \in Packet
  BY LenProperties, ElementOfSeq
<1>2. q \in X
  BY SoundIsAble
<1>3. \A n \in 1..N : \A r \in X : QueueSendFile(r, order[n], tired) \in X
  BY <1>1, QueueSendFileSound, TellsOn
<1> HIDE DEF X
<1>4. step \in [1..N -> [X -> X]]
  <2>1. \A n \in 1..N : put(n) \in [X -> X]
    BY <1>3
  <2> HIDE DEF put
  <2> QED  BY <2>1
<1>5. PICK g \in [0..N -> X] : Iterates(g, q, N, step)
  <2> HIDE DEF step
  <2> QED  BY <1>1, <1>2, <1>4, Iteration
<1>6. ASSUME NEW n \in 0..N PROVE g[n] = Filling(q, order, tired, g, n)
  <2>1. CASE n = 0
    BY <1>5, <2>1 DEF Iterates, Filling
  <2>2. CASE n # 0
    <3>1. n \in 1..N /\ n - 1 \in 0..N
      BY <1>1, <2>2
    <3>2. g[n - 1] \in X /\ g[n] = step[n][g[n - 1]]
      BY <1>5, <3>1 DEF Iterates
    <3>3. step[n] = put(n)
      BY <3>1
    <3>4. g[n] = put(n)[g[n - 1]]
      BY <3>2, <3>3
    <3> QED  BY <2>2, <3>2, <3>4 DEF Filling
  <2> QED  BY <2>1, <2>2
<1>7. IsFilling(q, order, tired, g)
  <2>1. g = [n \in 0..N |-> g[n]]
    BY <1>5
  <2>2. [n \in 0..N |-> g[n]] = [n \in 0..N |-> Filling(q, order, tired, g, n)]
    BY <1>6
  <2> QED  BY <2>1, <2>2 DEF IsFilling
<1> DEFINE f == CHOOSE f : IsFilling(q, order, tired, f)
<1>8. IsFilling(q, order, tired, f)
  BY <1>7
<1>9. QueueSendFiles(q, order, tired) = f[N]
  BY DEF QueueSendFiles, IsFilling, Filling
<1> HIDE DEF f
<1>10. \A n \in 0..N : f[n] = Filling(q, order, tired, f, n)
  BY <1>8 DEF IsFilling
<1>11. f[0] \in X
  BY <1>1, <1>2, <1>10 DEF Filling
<1>12. ASSUME NEW n \in 1..N, f[n - 1] \in X PROVE f[n] \in X
  <2>1. f[n] = QueueSendFile(f[n - 1], order[n], tired)
    BY <1>1, <1>10 DEF Filling
  <2> QED  BY <1>3, <1>12, <2>1
<1>13. f[N] \in X
  <2>1. \A n \in 0..N : f[n] \in X
    <3> HIDE DEF N
    <3> QED  BY <1>1, <1>11, <1>12, Kept
  <2> QED  BY <1>1, <2>1
<1> QED  BY <1>9, <1>13 DEF X

(* OnFileSendAckReceived.                                                  *)
LEMMA AckReceivedSound ==
  ASSUME NEW C, NEW q \in Sound(C), NEW p, NEW ok \in BOOLEAN, ok => p \in C, NEW tired \in BOOLEAN
  PROVE  /\ OnFileSendAckReceived(q, p, ok, tired) \in Sound(C)
         /\ Tells(q, OnFileSendAckReceived(q, p, ok, tired))
<1>1. q \in Able(C) /\ q \in Shaped(C) /\ q \in QueueRecord(C) /\ Fits(q) /\ Tells(q, q)
  BY SoundIsAble
<1>2. CASE p \notin Queued(q)
  BY <1>1, <1>2 DEF OnFileSendAckReceived
<1>3. CASE p \in Queued(q)
  <2> DEFINE acked == q.acked \cup {p}
             q1 == [q EXCEPT !.acked = acked]
             r == Report(q1, <<p>>, ok)
  <2>1. OnFileSendAckReceived(q, p, ok, tired) = DoSend(r, tired)
    BY <1>3 DEF OnFileSendAckReceived
  <2>2. p \in Packet
    BY <1>1, <1>3, QueuedPackets
  <2>3. acked \subseteq Queued(q) /\ acked \in SUBSET Packet
    BY <1>1, <1>3, QueuedPackets DEF Fits
  <2> HIDE DEF acked
  <2>4. q1 \in QueueRecord(C)
    BY <1>1, <2>3 DEF QueueRecord
  <2>5. /\ q1.queue = q.queue /\ q1.sent = q.sent /\ q1.acked = acked /\ q1.late = q.late
        /\ q1.calls = q.calls /\ SameLoop(q, q1)
    BY <1>1 DEF QueueRecord, SameLoop
  <2> HIDE DEF q1
  <2>6. Queued(q1) = Queued(q)
    BY <2>5 DEF Queued
  <2>7. q1 \in Shaped(C)
    BY <1>1, <2>3, <2>4, <2>5, <2>6 DEF Shaped, Fits
  <2>8. q1 \in Able(C)
    BY <1>1, <2>5, <2>7, StillAble
  <2>9. <<p>> \in Seq(Packet) /\ Len(<<p>>) = 1 /\ <<p>>[1] = p
    BY <2>2
  <2>10. ok => \A i \in 1..Len(<<p>>) : <<p>>[i] \in C
    BY <2>9
  <2>11. /\ r \in Shaped(C) /\ r = [q1 EXCEPT !.calls = r.calls]
         /\ ToSet(q1.calls) \subseteq ToSet(r.calls)
    <3> DEFINE P == <<p>>
    <3>1. P \in Seq(Packet) /\ (ok => \A i \in 1..Len(P) : P[i] \in C)
      BY <2>9, <2>10
    <3> HIDE DEF P
    <3>2. /\ Report(q1, P, ok) \in Shaped(C)
          /\ NewCalls(q1, Report(q1, P, ok))
          /\ ToSet(q1.calls) \subseteq ToSet(Report(q1, P, ok).calls)
      BY <2>7, <3>1, ReportShaped
    <3>3. r = Report(q1, P, ok)
      BY DEF P
    <3> HIDE DEF r
    <3> QED  BY <3>2, <3>3 DEF NewCalls
  <2> HIDE DEF r
  <2>12. r.queue = q1.queue /\ r.sent = q1.sent /\ SameLoop(q1, r)
    BY <2>4, <2>11 DEF QueueRecord, SameLoop
  <2>13. r \in Able(C)
    BY <2>8, <2>11, <2>12, StillAble
  <2>14. Tells(q, r)
    BY <2>5, <2>6, <2>11, <2>12 DEF Tells, Queued
  <2>15. DoSend(r, tired) \in Sound(C) /\ Tells(r, DoSend(r, tired))
    BY <2>13, DoSendSound
  <2> QED  BY <2>1, <2>14, <2>15, TellsOn
<1> QED  BY <1>2, <1>3

Acking(q, p, ok, tired, f, n) == IF n = 0 THEN q ELSE OnFileSendAckReceived(f[n - 1], p, ok, tired)
IsAcking(q, p, ok, k, tired, f) == f = [n \in 0..k |-> Acking(q, p, ok, tired, f, n)]

LEMMA AcknowledgedSound ==
  ASSUME NEW C, NEW q \in Sound(C), NEW p, NEW ok \in BOOLEAN, ok => p \in C,
         NEW k \in Nat, NEW tired \in BOOLEAN
  PROVE  /\ Acknowledged(q, p, ok, k, tired) \in Sound(C)
         /\ Tells(q, Acknowledged(q, p, ok, k, tired))
<1> DEFINE X == {r \in Sound(C) : Tells(q, r)}
           ack == [r \in X |-> OnFileSendAckReceived(r, p, ok, tired)]
           step == [n \in 1..k |-> ack]
<1>1. q \in X
  BY SoundIsAble
<1>2. \A r \in X : OnFileSendAckReceived(r, p, ok, tired) \in X
  BY AckReceivedSound, TellsOn
<1> HIDE DEF X
<1>3. step \in [1..k -> [X -> X]]
  <2>1. ack \in [X -> X]
    BY <1>2
  <2> HIDE DEF ack
  <2> QED  BY <2>1
<1>4. PICK g \in [0..k -> X] : Iterates(g, q, k, step)
  <2> HIDE DEF step
  <2> QED  BY <1>1, <1>3, Iteration
<1>5. ASSUME NEW n \in 0..k PROVE g[n] = Acking(q, p, ok, tired, g, n)
  <2>1. CASE n = 0
    BY <1>4, <2>1 DEF Iterates, Acking
  <2>2. CASE n # 0
    <3>1. n \in 1..k /\ n - 1 \in 0..k
      BY <2>2
    <3>2. g[n - 1] \in X /\ g[n] = step[n][g[n - 1]]
      BY <1>4, <3>1 DEF Iterates
    <3>3. step[n] = ack
      BY <3>1
    <3>4. g[n] = ack[g[n - 1]]
      BY <3>2, <3>3
    <3> QED  BY <2>2, <3>2, <3>4 DEF Acking
  <2> QED  BY <2>1, <2>2
<1>6. IsAcking(q, p, ok, k, tired, g)
  <2>1. g = [n \in 0..k |-> g[n]]
    BY <1>4
  <2>2. [n \in 0..k |-> g[n]] = [n \in 0..k |-> Acking(q, p, ok, tired, g, n)]
    BY <1>5
  <2> QED  BY <2>1, <2>2 DEF IsAcking
<1> DEFINE f == CHOOSE f : IsAcking(q, p, ok, k, tired, f)
<1>7. IsAcking(q, p, ok, k, tired, f)
  BY <1>6
<1>8. Acknowledged(q, p, ok, k, tired) = f[k]
  BY DEF Acknowledged, IsAcking, Acking
<1> HIDE DEF f
<1>9. \A n \in 0..k : f[n] = Acking(q, p, ok, tired, f, n)
  BY <1>7 DEF IsAcking
<1>10. f[0] \in X
  BY <1>1, <1>9 DEF Acking
<1>11. ASSUME NEW n \in 1..k, f[n - 1] \in X PROVE f[n] \in X
  <2>1. f[n] = OnFileSendAckReceived(f[n - 1], p, ok, tired)
    BY <1>9 DEF Acking
  <2> QED  BY <1>2, <1>11, <2>1
<1>12. f[k] \in X
  <2>1. \A n \in 0..k : f[n] \in X
    BY <1>10, <1>11, Kept
  <2> QED  BY <2>1
<1> QED  BY <1>8, <1>12 DEF X

(* OutboxStatus.                                                           *)
LEMMA OutboxStatusSound ==
  ASSUME NEW C, NEW q \in Sound(C), NEW p, NEW tired \in BOOLEAN
  PROVE  OutboxStatus(q, p, tired) \in Sound(C) /\ Tells(q, OutboxStatus(q, p, tired))
<1>1. q \in Able(C) /\ q \in Shaped(C) /\ q \in QueueRecord(C) /\ Fits(q) /\ Tells(q, q)
  BY SoundIsAble
<1>2. CASE p \notin Queued(q)
  BY <1>1, <1>2 DEF OutboxStatus
<1>3. CASE p \in Queued(q)
  <2> DEFINE failed == [q.failed EXCEPT ![p] = @ + 1]
             r == [q EXCEPT !.failed = failed]
  <2>1. OutboxStatus(q, p, tired) = DoSend(r, tired)
    BY <1>3 DEF OutboxStatus
  <2>2. failed \in [Packet -> Nat]
    <3>1. q.failed \in [Packet -> Nat]
      BY <1>1 DEF QueueRecord
    <3>2. p \in Packet
      BY <1>1, <1>3, QueuedPackets
    <3>3. q.failed[p] + 1 \in Nat
      BY <3>1, <3>2
    <3> QED  BY <3>1, <3>3
  <2> HIDE DEF failed
  <2>3. r \in QueueRecord(C)
    BY <1>1, <2>2 DEF QueueRecord
  <2>4. /\ r.queue = q.queue /\ r.sent = q.sent /\ r.acked = q.acked /\ r.late = q.late
        /\ r.calls = q.calls /\ SameLoop(q, r)
    BY <1>1 DEF QueueRecord, SameLoop
  <2> HIDE DEF r
  <2>5. Queued(r) = Queued(q)
    BY <2>4 DEF Queued
  <2>6. r \in Shaped(C)
    BY <1>1, <2>3, <2>4, <2>5 DEF Shaped, Fits
  <2>7. r \in Able(C)
    BY <1>1, <2>4, <2>6, StillAble
  <2>8. Tells(q, r)
    BY <2>4, <2>5 DEF Tells
  <2>9. DoSend(r, tired) \in Sound(C) /\ Tells(r, DoSend(r, tired))
    BY <2>7, DoSendSound
  <2> QED  BY <2>1, <2>8, <2>9, TellsOn
<1> QED  BY <1>2, <1>3

(* DeleteBackupSendings.                                                   *)
LEMMA FailedAndSent ==
  ASSUME NEW C, NEW q \in Sound(C), NEW p \in Packet, NEW tired \in BOOLEAN
  PROVE  LET r == DoSend(Report(q, <<p>>, FALSE), tired)
         IN  r \in Sound(C) /\ Tells(q, r) /\ Failed(p) \in ToSet(r.calls)
<1> DEFINE P == <<p>>
           r == Report(q, P, FALSE)
<1>1. q \in Able(C) /\ q \in Shaped(C) /\ q \in QueueRecord(C)
  BY SoundIsAble
<1>2. P \in Seq(Packet) /\ p \in ToSet(P)
  <2>1. <<p>> \in Seq(Packet) /\ DOMAIN <<p>> = 1..1 /\ <<p>>[1] = p
    OBVIOUS
  <2>2. p \in ToSet(<<p>>)
    BY <2>1 DEF ToSet
  <2> QED  BY <2>1, <2>2
<1> HIDE DEF P
<1>3. /\ r \in Shaped(C) /\ NewCalls(q, r)
      /\ ToSet(q.calls) \subseteq ToSet(r.calls)
      /\ \A x \in ToSet(P) : [packet |-> x, ok |-> FALSE] \in ToSet(r.calls)
  BY <1>1, <1>2, ReportShaped
<1>4. DoSend(Report(q, <<p>>, FALSE), tired) = DoSend(r, tired)
  BY DEF P
<1> HIDE DEF r
<1>5. r.queue = q.queue /\ r.sent = q.sent /\ SameLoop(q, r)
  BY <1>1, <1>3 DEF NewCalls, QueueRecord, SameLoop
<1>6. r \in Able(C)
  BY <1>1, <1>3, <1>5, StillAble
<1>7. Tells(q, r)
  BY <1>3, <1>5 DEF Tells, Queued
<1>8. DoSend(r, tired) \in Sound(C) /\ Tells(r, DoSend(r, tired))
  BY <1>6, DoSendSound
<1>9. Failed(p) \in ToSet(DoSend(r, tired).calls)
  BY <1>2, <1>3, <1>8 DEF Tells, Failed
<1> QED  BY <1>4, <1>7, <1>8, <1>9, TellsOn

LEMMA DropSound ==
  ASSUME NEW C, NEW q \in Sound(C), NEW P
  PROVE  /\ Drop(q, P) \in Sound(C) /\ Queued(Drop(q, P)) = Queued(q) \ P
         /\ Drop(q, P).calls = q.calls
<1> DEFINE r == Drop(q, P)
<1>1. q \in Able(C) /\ q \in Shaped(C) /\ q \in QueueRecord(C) /\ Idle(q) /\ Looping(q) /\ Alive(q)
  BY DEF Sound, Able, Shaped
<1>2. r \in Shaped(C) /\ Queued(r) = Queued(q) \ P /\ r = DropFields(q, P, r)
  BY <1>1, DropShaped, Zenon
<1> HIDE DEF r
<1>3. r.sent = q.sent \ P /\ r.calls = q.calls /\ SameLoop(q, r)
  BY <1>1, <1>2 DEF DropFields, QueueRecord, SameLoop
<1>4. q.sent = {} => r.sent = {}
  BY <1>3
<1>5. Idle(r) /\ Looping(r)
  BY <1>1, <1>3, <1>4, Zenon DEF Idle, Looping, SameLoop
<1>6. r.queue # <<>> => q.queue # <<>>
  <2>1. SUFFICES ASSUME r.queue # <<>>, q.queue = <<>> PROVE FALSE
    OBVIOUS
  <2>2. r.queue \in Seq(Packet)
    BY <1>2 DEF Shaped, QueueRecord
  <2>3. Len(r.queue) \in Nat \ {0} /\ DOMAIN r.queue = 1..Len(r.queue)
    BY <2>1, <2>2, EmptySeq, LenProperties
  <2>4. r.queue[1] \in Queued(r)
    BY <2>3 DEF Queued, ToSet
  <2>5. DOMAIN <<>> = {}
    OBVIOUS
  <2>6. Queued(q) = {}
    BY <2>1, <2>5 DEF Queued, ToSet
  <2> QED  BY <1>2, <2>4, <2>6
<1>7. Alive(r)
  BY <1>1, <1>3, <1>6 DEF Alive, SameLoop
<1> QED  BY <1>2, <1>3, <1>5, <1>7 DEF Sound, Able, r

Removal(s, i, B, tired) ==
  IF i > Len(s.q.queue) \/ s.q.queue[i] \notin B THEN s
  ELSE [q |-> DoSend(Report(s.q, <<s.q.queue[i]>>, FALSE), tired),
        packetsToRemove |-> s.packetsToRemove \cup {s.q.queue[i]}]
Removing(q, B, tired, f, n) ==
  IF n = 0 THEN [q |-> q, packetsToRemove |-> {}] ELSE Removal(f[n - 1], n, B, tired)
IsRemoving(q, B, tired, f) == f = [n \in 0..Len(q.queue) |-> Removing(q, B, tired, f, n)]

(* Those to remove so far were reported.                                   *)
Removals(C, q) ==
  {s \in [q : Sound(C), packetsToRemove : SUBSET Packet] :
     Tells(q, s.q) /\ \A p \in s.packetsToRemove : Failed(p) \in ToSet(s.q.calls)}

LEMMA RemovalSound ==
  ASSUME NEW C, NEW q, NEW B, NEW tired \in BOOLEAN, NEW s \in Removals(C, q), NEW i \in Nat \ {0}
  PROVE  Removal(s, i, B, tired) \in Removals(C, q)
<1>1. CASE i > Len(s.q.queue) \/ s.q.queue[i] \notin B
  BY <1>1 DEF Removal
<1>2. CASE ~ (i > Len(s.q.queue) \/ s.q.queue[i] \notin B)
  <2> DEFINE p == s.q.queue[i]
             r == DoSend(Report(s.q, <<p>>, FALSE), tired)
             toRemove == s.packetsToRemove \cup {p}
  <2>1. Removal(s, i, B, tired) = [q |-> r, packetsToRemove |-> toRemove]
    BY <1>2 DEF Removal
  <2>2. s.q \in Sound(C) /\ s.packetsToRemove \in SUBSET Packet
    BY DEF Removals
  <2>3. /\ Tells(q, s.q)
        /\ \A x \in s.packetsToRemove : Failed(x) \in ToSet(s.q.calls)
    BY DEF Removals
  <2>4. p \in Packet
    <3>1. s.q \in Shaped(C)
      BY <2>2, SoundIsAble
    <3>2. Len(s.q.queue) \in Nat
      BY <3>1, QueuedPackets
    <3>3. i \in 1..Len(s.q.queue)
      BY <1>2, <3>2
    <3> QED  BY <3>1, <3>3, QueuedPackets
  <2> HIDE DEF p
  <2>5. r \in Sound(C) /\ Tells(s.q, r) /\ Failed(p) \in ToSet(r.calls)
    BY <2>2, <2>4, FailedAndSent
  <2> HIDE DEF r
  <2>6. Tells(q, r)
    BY <2>3, <2>5, TellsOn
  <2>7. \A x \in toRemove : Failed(x) \in ToSet(r.calls)
    BY <2>3, <2>5 DEF Tells
  <2>8. toRemove \in SUBSET Packet
    BY <2>2, <2>4
  <2> HIDE DEF toRemove
  <2> QED  BY <2>1, <2>5, <2>6, <2>7, <2>8 DEF Removals
<1> QED  BY <1>1, <1>2

LEMMA DeleteBackupSound ==
  ASSUME NEW C, NEW q \in Sound(C), NEW B, NEW tired \in BOOLEAN
  PROVE  /\ DeleteBackupSendings(q, B, tired) \in Sound(C)
         /\ Tells(q, DeleteBackupSendings(q, B, tired))
<1> DEFINE N == Len(q.queue)
           X == Removals(C, q)
           start == [q |-> q, packetsToRemove |-> {}]
           remove(n) == [s \in X |-> Removal(s, n, B, tired)]
           step == [n \in 1..N |-> remove(n)]
<1>1. N \in Nat
  BY SoundIsAble, QueuedPackets
<1>2. start \in X
  BY SoundIsAble DEF Removals
<1>3. \A n \in 1..N : \A s \in X : Removal(s, n, B, tired) \in X
  BY RemovalSound
<1> HIDE DEF X, start
<1>4. step \in [1..N -> [X -> X]]
  <2>1. \A n \in 1..N : remove(n) \in [X -> X]
    BY <1>3
  <2> HIDE DEF remove
  <2> QED  BY <2>1
<1>5. PICK g \in [0..N -> X] : Iterates(g, start, N, step)
  <2> HIDE DEF step
  <2> QED  BY <1>1, <1>2, <1>4, Iteration
<1>6. ASSUME NEW n \in 0..N PROVE g[n] = Removing(q, B, tired, g, n)
  <2>1. CASE n = 0
    BY <1>5, <2>1 DEF Iterates, Removing, start
  <2>2. CASE n # 0
    <3>1. n \in 1..N /\ n - 1 \in 0..N
      BY <1>1, <2>2
    <3>2. g[n - 1] \in X /\ g[n] = step[n][g[n - 1]]
      BY <1>5, <3>1 DEF Iterates
    <3>3. step[n] = remove(n)
      BY <3>1
    <3>4. g[n] = remove(n)[g[n - 1]]
      BY <3>2, <3>3
    <3> QED  BY <2>2, <3>2, <3>4 DEF Removing
  <2> QED  BY <2>1, <2>2
<1>7. IsRemoving(q, B, tired, g)
  <2>1. g = [n \in 0..N |-> g[n]]
    BY <1>5
  <2>2. [n \in 0..N |-> g[n]] = [n \in 0..N |-> Removing(q, B, tired, g, n)]
    BY <1>6
  <2> QED  BY <2>1, <2>2 DEF IsRemoving
<1> DEFINE f == CHOOSE f : IsRemoving(q, B, tired, f)
           end == f[N]
           rest == Drop(end.q, end.packetsToRemove)
<1>8. IsRemoving(q, B, tired, f)
  BY <1>7
<1>9. DeleteBackupSendings(q, B, tired)
        = IF rest.queue = <<>> THEN rest ELSE [rest EXCEPT !.later = More(@)]
  BY DEF DeleteBackupSendings, IsRemoving, Removing, Removal
<1> HIDE DEF f
<1>10. \A n \in 0..N : f[n] = Removing(q, B, tired, f, n)
  BY <1>8 DEF IsRemoving
<1>11. f[0] \in X
  <2>1. f[0] = Removing(q, B, tired, f, 0)
    <3> HIDE DEF N
    <3> QED  BY <1>1, <1>10
  <2>2. Removing(q, B, tired, f, 0) = start
    BY DEF Removing, start
  <2> QED  BY <1>2, <2>1, <2>2
<1>12. ASSUME NEW n \in 1..N, f[n - 1] \in X PROVE f[n] \in X
  <2>1. f[n] = Removal(f[n - 1], n, B, tired)
    BY <1>1, <1>10 DEF Removing
  <2> QED  BY <1>3, <1>12, <2>1
<1>13. end \in X
  <2>1. \A n \in 0..N : f[n] \in X
    <3> HIDE DEF N
    <3> QED  BY <1>1, <1>11, <1>12, Kept
  <2> QED  BY <1>1, <2>1
<1> HIDE DEF end
<1>14. /\ end.q \in Sound(C) /\ Tells(q, end.q)
       /\ \A p \in end.packetsToRemove : Failed(p) \in ToSet(end.q.calls)
  BY <1>13 DEF X, Removals
<1>15. /\ rest \in Sound(C) /\ Queued(rest) = Queued(end.q) \ end.packetsToRemove
       /\ rest.calls = end.q.calls
  BY <1>14, DropSound
<1> HIDE DEF rest
<1>16. Tells(q, rest)
  BY <1>14, <1>15 DEF Tells
<1>17. CASE rest.queue = <<>>
  BY <1>9, <1>15, <1>16, <1>17
<1>18. CASE rest.queue # <<>>
  <2> DEFINE later == More(rest.later)
             r == [rest EXCEPT !.later = later]
  <2>1. /\ rest \in QueueRecord(C) /\ Fits(rest) /\ Idle(rest) /\ Looping(rest) /\ Alive(rest)
    BY <1>15 DEF Sound, Able, Shaped
  <2>2. later \in Nat
    BY <2>1, MoreType DEF QueueRecord
  <2> HIDE DEF later
  <2>3. r \in QueueRecord(C)
    BY <2>1, <2>2 DEF QueueRecord
  <2>4. /\ r.queue = rest.queue /\ r.sent = rest.sent /\ r.acked = rest.acked /\ r.late = rest.late
        /\ r.calls = rest.calls /\ r.scheduled = rest.scheduled /\ r.instant = rest.instant
    BY <2>1 DEF QueueRecord
  <2>5. r.task = rest.task /\ r.slow = rest.slow
    BY <2>1 DEF QueueRecord
  <2> HIDE DEF r
  <2>6. Fits(r) /\ Queued(r) = Queued(rest)
    BY <2>1, <2>4 DEF Fits, Queued
  <2>7. Idle(r) /\ Looping(r) /\ Alive(r)
    BY <2>1, <2>4, <2>5, Zenon DEF Idle, Looping, Alive
  <2>8. r \in Sound(C)
    BY <2>3, <2>6, <2>7 DEF Sound, Able, Shaped
  <2>9. Tells(q, r)
    BY <1>16, <2>4, <2>6 DEF Tells
  <2>10. DeleteBackupSendings(q, B, tired) = r
    BY <1>9, <1>18 DEF r, later
  <2> QED  BY <2>8, <2>9, <2>10
<1> QED  BY <1>17, <1>18

-----------------------------------------------------------------------------
(* The invariant.  Every queue is sound, its true Acks are confirmed, and  *)
(* what is taken for stored was confirmed by a supplier whose queue is in  *)
(* the throttle, or marked by a queue that is not.                         *)

QueuesOK ==
  /\ confirmed \in [Supplier -> SUBSET Packet]
  /\ queues \in [Supplier -> Sound(Packet)]
  /\ \A s \in Supplier : queues[s] \in Sound(confirmed[s])

MatrixOK ==
  /\ state \in {"READY", "SCAN_BLOCKS", "SENDING"}
  /\ blocks \subseteq Packet /\ files \subseteq blocks /\ stale \subseteq stored /\ stored \subseteq Packet
  /\ faults \in 0..MaxFaults

SuppliersOK ==
  /\ current \in Supplier /\ known \in Supplier
  /\ erased \subseteq Supplier \ {known} /\ current \notin erased

Copied(p) == \E s \in Throttled : p \in confirmed[s]

StoredOK == \A p \in stored : p \in stale \/ Copied(p)

Inv == QueuesOK /\ MatrixOK /\ SuppliersOK /\ StoredOK

(* A packet that leaves a queue was answered, or its failure is reported.  *)
Leaves(q, r) ==
  \A p \in Queued(q) \ Queued(r) : p \in q.acked \/ Failed(p) \in ToSet(r.calls)

NothingLost == \A s \in Supplier : Leaves(queues[s], queues'[s])

LEMMA TellsLeaves ==
  ASSUME NEW q, NEW r, Tells(q, r)
  PROVE  Leaves(q, r)
BY DEF Tells, Leaves

LEMMA AllConfirmed ==
  ASSUME QueuesOK, NEW s \in Supplier
  PROVE  /\ confirmed[s] \subseteq Packet /\ queues[s] \in Sound(confirmed[s])
         /\ \A r \in Sound(confirmed[s]) : r \in Sound(Packet)
<1>1. confirmed[s] \subseteq Packet /\ queues[s] \in Sound(confirmed[s])
  BY DEF QueuesOK
<1> QED  BY <1>1, MoreConfirmed

(* One queue changes.                                                      *)
LEMMA OneQueue ==
  ASSUME QueuesOK, NEW s \in Supplier, NEW r \in Sound(confirmed[s]), Leaves(queues[s], r),
         queues' = [queues EXCEPT ![s] = r], confirmed' = confirmed
  PROVE  QueuesOK' /\ NothingLost
<1>1. r \in Sound(Packet)
  BY AllConfirmed
<1>2. queues \in [Supplier -> Sound(Packet)]
  BY DEF QueuesOK
<1>3. queues' \in [Supplier -> Sound(Packet)]
  BY <1>1, <1>2
<1>4. \A t \in Supplier : queues'[t] = IF t = s THEN r ELSE queues[t]
  BY <1>2
<1>5. \A t \in Supplier : queues'[t] \in Sound(confirmed'[t])
  BY <1>4 DEF QueuesOK
<1>6. NothingLost
  BY <1>4 DEF NothingLost, Leaves
<1> QED  BY <1>3, <1>5, <1>6 DEF QueuesOK

(* The same, in any of the queues.                                         *)
LEMMA EveryQueue ==
  ASSUME QueuesOK, confirmed' = confirmed,
         queues' = [t \in Supplier |-> queues'[t]],
         \A t \in Supplier : queues'[t] \in Sound(confirmed[t]) /\ Leaves(queues[t], queues'[t])
  PROVE  QueuesOK' /\ NothingLost
<1>1. \A t \in Supplier : queues'[t] \in Sound(Packet)
  BY AllConfirmed
<1>2. queues' \in [Supplier -> Sound(Packet)]
  BY <1>1
<1>3. confirmed' \in [Supplier -> SUBSET Packet] /\ \A t \in Supplier : queues'[t] \in Sound(confirmed'[t])
  BY DEF QueuesOK
<1> QED  BY <1>2, <1>3 DEF QueuesOK, NothingLost

LEMMA SameQueues ==
  ASSUME QueuesOK, queues' = queues, confirmed' = confirmed
  PROVE  QueuesOK' /\ NothingLost
BY DEF QueuesOK, NothingLost, Leaves

(* Fields of a queue that no loop depends on.                              *)
SameButCalls(q, r) ==
  /\ r.queue = q.queue /\ r.sent = q.sent /\ r.acked = q.acked /\ r.late = q.late
  /\ r.task = q.task /\ r.slow = q.slow /\ r.scheduled = q.scheduled /\ r.instant = q.instant

LEMMA StillSound ==
  ASSUME NEW C, NEW q \in Sound(C), NEW r \in QueueRecord(C), SameButCalls(q, r)
  PROVE  r \in Sound(C) /\ Leaves(q, r)
<1>1. Fits(q) /\ Idle(q) /\ Looping(q) /\ Alive(q)
  BY DEF Sound, Able, Shaped
<1>2. Queued(r) = Queued(q)
  BY DEF SameButCalls, Queued
<1>3. Fits(r)
  BY <1>1, <1>2 DEF SameButCalls, Fits
<1>4. Idle(r) /\ Looping(r) /\ Alive(r)
  BY <1>1, Zenon DEF SameButCalls, Idle, Looping, Alive
<1>5. Leaves(q, r)
  BY <1>2 DEF Leaves
<1> QED  BY <1>3, <1>4, <1>5 DEF Sound, Able, Shaped

Fewer(q, p, k) == [q EXCEPT !.waiting[p] = @ - k]

LEMMA FewerSound ==
  ASSUME NEW C, NEW q \in Sound(C), NEW p \in Packet, NEW k \in 1..q.waiting[p]
  PROVE  Fewer(q, p, k) \in Sound(C) /\ Leaves(q, Fewer(q, p, k)) /\ Tells(q, Fewer(q, p, k))
<1> DEFINE waiting == [q.waiting EXCEPT ![p] = @ - k]
           r == [q EXCEPT !.waiting = waiting]
<1>1. q \in QueueRecord(C)
  BY SoundIsAble
<1>2. waiting \in [Packet -> Nat]
  <2>1. q.waiting \in [Packet -> Nat]
    BY <1>1 DEF QueueRecord
  <2>2. q.waiting[p] - k \in Nat
    BY <2>1
  <2> QED  BY <2>1, <2>2
<1>3. Fewer(q, p, k) = r
  BY DEF Fewer
<1> HIDE DEF waiting
<1>4. r \in QueueRecord(C)
  BY <1>1, <1>2 DEF QueueRecord
<1>5. SameButCalls(q, r) /\ r.calls = q.calls
  BY <1>1 DEF QueueRecord, SameButCalls
<1> HIDE DEF r
<1>6. r \in Sound(C) /\ Leaves(q, r)
  BY <1>4, <1>5, StillSound
<1>7. Tells(q, r)
  BY <1>5 DEF Tells, SameButCalls, Queued
<1> QED  BY <1>3, <1>6, <1>7

-----------------------------------------------------------------------------
(* The steps.                                                              *)

LEMMA ScanAndQueueStep ==
  ASSUME Inv, ScanAndQueue
  PROVE  Inv' /\ NothingLost
<1>1. PICK order \in SetToSeqs(files \ stored) :
        \E tired \in BOOLEAN :
          queues' = [queues EXCEPT ![current] = QueueSendFiles(queues[current], order, tired)]
  BY DEF ScanAndQueue
<1>2. PICK tired \in BOOLEAN :
        queues' = [queues EXCEPT ![current] = QueueSendFiles(queues[current], order, tired)]
  BY <1>1
<1>3. order \in Seq(Packet)
  <2>1. files \ stored \subseteq Packet
    BY DEF Inv, MatrixOK
  <2>2. IsFiniteSet(files \ stored)
    BY <2>1, SendQueueAssumption, FS_Subset
  <2>3. Cardinality(files \ stored) \in Nat
    BY <2>2, FS_CardinalityType
  <2>4. order \in [1..Cardinality(files \ stored) -> files \ stored]
    BY DEF SetToSeqs
  <2>5. order \in [1..Cardinality(files \ stored) -> Packet]
    BY <2>1, <2>4
  <2> QED  BY <2>3, <2>5, SeqDef
<1>4. current \in Supplier /\ QueuesOK
  BY DEF Inv, SuppliersOK
<1> DEFINE r == QueueSendFiles(queues[current], order, tired)
<1>5. r \in Sound(confirmed[current]) /\ Leaves(queues[current], r)
  BY <1>3, <1>4, AllConfirmed, QueueSendFilesSound, TellsLeaves
<1>6. queues' = [queues EXCEPT ![current] = r] /\ confirmed' = confirmed
  BY <1>2 DEF ScanAndQueue
<1> HIDE DEF r
<1>7. QueuesOK' /\ NothingLost
  BY <1>4, <1>5, <1>6, OneQueue
<1>8. MatrixOK' /\ SuppliersOK' /\ StoredOK'
  BY DEF ScanAndQueue, Inv, matrix, suppliers, MatrixOK, SuppliersOK, StoredOK, Copied, Throttled
<1> QED  BY <1>7, <1>8 DEF Inv

LEMMA ScanDoneStep ==
  ASSUME Inv, ScanDone
  PROVE  Inv' /\ NothingLost
<1>1. QueuesOK' /\ NothingLost
  BY SameQueues DEF Inv, ScanDone
<1>2. PICK R \in SUBSET (files \cap stored) : files' = files \ R
  <2>1. {} \in SUBSET (files \cap stored) /\ files \ {} = files
    OBVIOUS
  <2> QED  BY <2>1 DEF ScanDone, RemoveUnusedFiles
<1>3. MatrixOK' /\ SuppliersOK'
  BY <1>2 DEF ScanDone, Inv, suppliers, MatrixOK, SuppliersOK
<1>4. StoredOK'
  <2>1. UNCHANGED <<stored, stale, erased, confirmed>>
    BY DEF ScanDone, suppliers
  <2> QED  BY <2>1 DEF Inv, StoredOK, Copied, Throttled
<1> QED  BY <1>1, <1>3, <1>4 DEF Inv

LEMMA CalledStep ==
  ASSUME Inv, NEW s \in Supplier, Called(s)
  PROVE  Inv' /\ NothingLost
<1> DEFINE q == queues[s]
           calls == Tail(q.calls)
           r == [q EXCEPT !.calls = calls]
<1>1. QueuesOK /\ q \in Sound(confirmed[s]) /\ q \in QueueRecord(confirmed[s])
  BY AllConfirmed, SoundIsAble DEF Inv
<1>2. q.calls # <<>> /\ q.calls \in Seq(Honest(confirmed[s]))
  BY <1>1 DEF Called, QueueRecord
<1>3. Head(q.calls) \in Honest(confirmed[s]) /\ calls \in Seq(Honest(confirmed[s]))
  BY <1>2, HeadTailProperties
<1>4. queues' = [queues EXCEPT ![s] = r] /\ confirmed' = confirmed
  BY DEF Called
<1> HIDE DEF calls, q
<1>5. r \in QueueRecord(confirmed[s])
  BY <1>1, <1>3 DEF QueueRecord
<1>6. SameButCalls(q, r)
  BY <1>1 DEF QueueRecord, SameButCalls
<1> HIDE DEF r
<1>7. r \in Sound(confirmed[s]) /\ Leaves(q, r)
  BY <1>1, <1>5, <1>6, StillSound
<1>8. QueuesOK' /\ NothingLost
  BY <1>1, <1>4, <1>7, OneQueue DEF q
<1> DEFINE call == Head(q.calls)
<1>9. /\ stored' = IF call.ok THEN stored \cup {call.packet} ELSE stored \ {call.packet}
      /\ stale' = IF call.ok /\ s \in erased THEN stale \cup {call.packet} ELSE stale \ {call.packet}
      /\ UNCHANGED <<files, blocks, suppliers>>
  BY DEF Called, Marks, q
<1> HIDE DEF call
<1>10. call.packet \in Packet /\ (call.ok => call.packet \in confirmed[s])
  BY <1>3 DEF Honest, Call, call
<1>11. MatrixOK' /\ SuppliersOK'
  BY <1>9, <1>10 DEF Called, Inv, suppliers, MatrixOK, SuppliersOK
<1>12. StoredOK'
  <2>1. \A x : Copied(x)' <=> Copied(x)
    BY <1>4, <1>9 DEF Copied, Throttled, suppliers
  <2>2. CASE call.ok
    <3>1. call.packet \in stale' \/ Copied(call.packet)
      BY <1>9, <1>10, <2>2 DEF Copied, Throttled
    <3>2. \A x \in stored' : x = call.packet \/ x \in stale' \/ Copied(x)
      BY <1>9, <2>2 DEF Inv, StoredOK
    <3> QED  BY <2>1, <3>1, <3>2 DEF StoredOK
  <2>3. CASE ~ call.ok
    BY <1>9, <2>1, <2>3 DEF Inv, StoredOK
  <2> QED  BY <2>2, <2>3
<1> QED  BY <1>8, <1>11, <1>12 DEF Inv

(* A delayed call of a queue.                                              *)
LEMMA CallsStep ==
  ASSUME Inv, NEW s \in Supplier, NEW r \in Sound(confirmed[s]), Leaves(queues[s], r), Calls(s, r)
  PROVE  Inv' /\ NothingLost
<1>1. QueuesOK' /\ NothingLost
  BY OneQueue DEF Inv, Calls
<1>2. MatrixOK' /\ SuppliersOK' /\ StoredOK'
  BY DEF Calls, Inv, matrix, suppliers, MatrixOK, SuppliersOK, StoredOK, Copied, Throttled
<1> QED  BY <1>1, <1>2 DEF Inv

LEMMA TaskLeaves ==
  ASSUME NEW C, NEW q \in Sound(C), NEW q1 \in QueueRecord(C), NEW tired \in BOOLEAN,
         q1.queue = q.queue, q1.sent = q.sent, q1.acked = q.acked, q1.late = q.late
  PROVE  SendingTask(q1, tired) \in Sound(C) /\ Leaves(q, SendingTask(q1, tired))
<1>1. Queued(q1) = Queued(q) /\ Fits(q)
  BY SoundIsAble DEF Queued
<1>2. q1 \in Shaped(C)
  BY <1>1 DEF Shaped, Fits
<1>3. Done(q1) \subseteq q.acked
  BY <1>2, WhoGoes
<1>4. /\ SendingTask(q1, tired) \in Sound(C)
      /\ Queued(SendingTask(q1, tired)) = Queued(q1) \ (Failing(q1) \cup Done(q1))
      /\ ToSet(q1.calls) \subseteq ToSet(SendingTask(q1, tired).calls)
      /\ \A p \in Failing(q1) : Failed(p) \in ToSet(SendingTask(q1, tired).calls)
  BY <1>2, SendingTaskSound
<1> QED  BY <1>1, <1>3, <1>4 DEF Leaves

LEMMA ScheduledStep ==
  ASSUME Inv, NEW s \in Supplier, Scheduled(s)
  PROVE  Inv' /\ NothingLost
<1> DEFINE q == queues[s]
           scheduled == q.scheduled - 1
           q1 == [q EXCEPT !.scheduled = scheduled]
<1>1. q \in Sound(confirmed[s]) /\ q \in QueueRecord(confirmed[s])
  BY AllConfirmed, SoundIsAble DEF Inv
<1>2. PICK tired \in BOOLEAN : Calls(s, SendingTask(q1, tired))
  BY DEF Scheduled
<1>3. q.scheduled \in Nat /\ q.scheduled > 0
  BY <1>1 DEF Scheduled, QueueRecord
<1>4. scheduled \in Nat
  BY <1>3
<1> HIDE DEF q, scheduled
<1>5. q1 \in QueueRecord(confirmed[s])
  BY <1>1, <1>4 DEF QueueRecord
<1>6. q1.queue = q.queue /\ q1.sent = q.sent /\ q1.acked = q.acked /\ q1.late = q.late
  BY <1>1 DEF QueueRecord
<1> HIDE DEF q1
<1>7. SendingTask(q1, tired) \in Sound(confirmed[s]) /\ Leaves(q, SendingTask(q1, tired))
  BY <1>1, <1>5, <1>6, TaskLeaves
<1> QED  BY <1>2, <1>7, CallsStep DEF q

LEMMA InstantStep ==
  ASSUME Inv, NEW s \in Supplier, Instant(s)
  PROVE  Inv' /\ NothingLost
<1> DEFINE q == queues[s]
           instant == q.instant - 1
           q1 == [q EXCEPT !.instant = instant]
<1>1. q \in Sound(confirmed[s]) /\ q \in QueueRecord(confirmed[s])
  BY AllConfirmed, SoundIsAble DEF Inv
<1>2. PICK tired \in BOOLEAN : Calls(s, SendingTask(q1, tired))
  BY DEF Instant
<1>3. q.instant \in Nat /\ q.instant > 0
  BY <1>1 DEF Instant, QueueRecord
<1>4. instant \in Nat
  BY <1>3
<1> HIDE DEF q, instant
<1>5. q1 \in QueueRecord(confirmed[s])
  BY <1>1, <1>4 DEF QueueRecord
<1>6. q1.queue = q.queue /\ q1.sent = q.sent /\ q1.acked = q.acked /\ q1.late = q.late
  BY <1>1 DEF QueueRecord
<1> HIDE DEF q1
<1>7. SendingTask(q1, tired) \in Sound(confirmed[s]) /\ Leaves(q, SendingTask(q1, tired))
  BY <1>1, <1>5, <1>6, TaskLeaves
<1> QED  BY <1>2, <1>7, CallsStep DEF q

LEMMA LaterStep ==
  ASSUME Inv, NEW s \in Supplier, Later(s)
  PROVE  Inv' /\ NothingLost
<1> DEFINE q == queues[s]
           later == q.later - 1
           q1 == [q EXCEPT !.later = later]
<1>1. q \in Sound(confirmed[s]) /\ q \in QueueRecord(confirmed[s])
  BY AllConfirmed, SoundIsAble DEF Inv
<1>2. PICK tired \in BOOLEAN : Calls(s, DoSend(q1, tired))
  BY DEF Later
<1>3. q.later \in Nat /\ q.later > 0
  BY <1>1 DEF Later, QueueRecord
<1>4. later \in Nat
  BY <1>3
<1> HIDE DEF q, later
<1>5. q1 \in QueueRecord(confirmed[s])
  BY <1>1, <1>4 DEF QueueRecord
<1>6. SameButCalls(q, q1) /\ q1.calls = q.calls
  BY <1>1 DEF QueueRecord, SameButCalls
<1> HIDE DEF q1
<1>7. q1 \in Able(confirmed[s])
  BY <1>1, <1>5, <1>6, StillSound, SoundIsAble
<1>8. Tells(q, q1)
  BY <1>6 DEF SameButCalls, Tells, Queued
<1>9. DoSend(q1, tired) \in Sound(confirmed[s]) /\ Leaves(q, DoSend(q1, tired))
  BY <1>7, <1>8, DoSendSound, TellsOn, TellsLeaves
<1> QED  BY <1>2, <1>9, CallsStep DEF q

LEMMA AnsweredStep ==
  ASSUME Inv, NEW s \in Supplier, NEW p \in Packet, NEW ok \in BOOLEAN, Answered(s, p, ok)
  PROVE  Inv' /\ NothingLost
<1> DEFINE q == queues[s]
           C == IF ok THEN confirmed[s] \cup {p} ELSE confirmed[s]
<1>1. /\ QueuesOK /\ confirmed \in [Supplier -> SUBSET Packet]
      /\ queues \in [Supplier -> Sound(Packet)] /\ q \in Sound(confirmed[s])
  BY AllConfirmed DEF Inv, QueuesOK
<1>2. PICK k \in 1..q.waiting[p] : \E tired \in BOOLEAN :
        queues' = [Ended(s, p, k) EXCEPT ![s] = Acknowledged(Ended(s, p, k)[s], p, ok, k, tired)]
  <2>1. \E k \in 1..q.waiting[p] : \E tired \in BOOLEAN :
          queues' = [Ended(s, p, k) EXCEPT ![s] = Acknowledged(@, p, ok, k, tired)]
    BY DEF Answered
  <2> QED  BY <2>1
<1>3. PICK tired \in BOOLEAN :
        queues' = [Ended(s, p, k) EXCEPT ![s] = Acknowledged(Ended(s, p, k)[s], p, ok, k, tired)]
  BY <1>2
<1> DEFINE q1 == Fewer(q, p, k)
           r == Acknowledged(q1, p, ok, k, tired)
<1>4. Ended(s, p, k) = [queues EXCEPT ![s] = q1]
  BY DEF Ended, Fewer
<1>5. Ended(s, p, k)[s] = q1
  BY <1>1, <1>4
<1>6. queues' = [queues EXCEPT ![s] = r]
  <2> HIDE DEF q1
  <2>1. queues' = [[queues EXCEPT ![s] = q1] EXCEPT ![s] = Acknowledged(q1, p, ok, k, tired)]
    BY <1>3, <1>4, <1>5
  <2> QED  BY <1>1, <2>1
<1>7. q1 \in Sound(confirmed[s]) /\ Tells(q, q1)
  <2> HIDE DEF q
  <2> QED  BY <1>1, FewerSound
<1>8. k \in Nat /\ confirmed[s] \subseteq C /\ (ok => p \in C) /\ C \subseteq Packet
  <2>1. confirmed[s] \subseteq Packet
    BY <1>1
  <2> QED  BY <2>1
<1> HIDE DEF q, q1, C
<1>9. r \in Sound(C) /\ Tells(q1, r)
  <2>1. q1 \in Sound(C)
    BY <1>7, <1>8, MoreConfirmed
  <2> QED  BY <1>8, <2>1, AcknowledgedSound
<1>10. Leaves(q, r)
  BY <1>7, <1>9, TellsOn, TellsLeaves
<1> HIDE DEF r
<1>11. confirmed' = [confirmed EXCEPT ![s] = C]
  <2>1. CASE ok
    BY <2>1 DEF Answered, C
  <2>2. CASE ~ ok
    <3>1. confirmed' = confirmed
      BY <2>2 DEF Answered
    <3> QED  BY <1>1, <2>2, <3>1 DEF C
  <2> QED  BY <2>1, <2>2
<1>12. \A t \in Supplier : queues'[t] = IF t = s THEN r ELSE queues[t]
  BY <1>1, <1>6
<1>13. \A t \in Supplier : confirmed'[t] = IF t = s THEN C ELSE confirmed[t]
  BY <1>1, <1>11
<1>14. QueuesOK'
  <2>1. confirmed' \in [Supplier -> SUBSET Packet]
    BY <1>1, <1>8, <1>11
  <2>2. r \in Sound(Packet)
    BY <1>8, <1>9, MoreConfirmed
  <2>3. queues' \in [Supplier -> Sound(Packet)]
    BY <1>1, <1>6, <2>2
  <2>4. \A t \in Supplier : queues'[t] \in Sound(confirmed'[t])
    BY <1>1, <1>9, <1>12, <1>13 DEF QueuesOK
  <2> QED  BY <2>1, <2>3, <2>4 DEF QueuesOK
<1>15. NothingLost
  BY <1>10, <1>12 DEF NothingLost, Leaves, q
<1>16. MatrixOK' /\ SuppliersOK'
  <2>1. UNCHANGED <<state, matrix, suppliers>>
    BY DEF Answered
  <2>2. faults' \in 0..MaxFaults
    <3>1. faults \in 0..MaxFaults
      BY DEF Inv, MatrixOK
    <3>2. faults' = faults \/ (faults < MaxFaults /\ faults' = faults + 1)
      BY DEF Answered, Fault
    <3> QED  BY <3>1, <3>2, DataSenderAssumption
  <2> QED  BY <2>1, <2>2 DEF Inv, matrix, suppliers, MatrixOK, SuppliersOK
<1>17. \A x : Copied(x) => Copied(x)'
  <2>1. UNCHANGED suppliers
    BY DEF Answered
  <2> QED  BY <1>8, <1>13, <2>1 DEF Copied, Throttled, suppliers
<1>18. StoredOK'
  <2>1. UNCHANGED matrix
    BY DEF Answered
  <2> QED  BY <1>17, <2>1 DEF Inv, StoredOK, matrix
<1> QED  BY <1>14, <1>15, <1>16, <1>18 DEF Inv

(* Steps that only change queues, and may be faults.                       *)
LEMMA FaultStep ==
  ASSUME Inv, QueuesOK', UNCHANGED <<state, matrix, suppliers, confirmed>>, Fault \/ UNCHANGED faults
  PROVE  Inv'
<1>1. faults' \in 0..MaxFaults
  <2>1. faults \in 0..MaxFaults
    BY DEF Inv, MatrixOK
  <2> QED  BY <2>1, DataSenderAssumption DEF Fault
<1>2. MatrixOK' /\ SuppliersOK'
  BY <1>1 DEF Inv, matrix, suppliers, MatrixOK, SuppliersOK
<1>3. StoredOK'
  BY DEF Inv, matrix, suppliers, StoredOK, Copied, Throttled
<1> QED  BY <1>2, <1>3 DEF Inv

LEMMA UnansweredStep ==
  ASSUME Inv, NEW s \in Supplier, NEW p \in Packet, Unanswered(s, p)
  PROVE  Inv' /\ NothingLost
<1> DEFINE q == queues[s]
<1>1. QueuesOK /\ q \in Sound(confirmed[s])
  BY AllConfirmed DEF Inv
<1>2. PICK k \in 1..q.waiting[p] : queues' = Ended(s, p, k)
  BY DEF Unanswered
<1> DEFINE r == Fewer(q, p, k)
<1>3. queues' = [queues EXCEPT ![s] = r] /\ confirmed' = confirmed
  BY <1>2 DEF Ended, Fewer, Unanswered
<1>4. r \in Sound(confirmed[s]) /\ Leaves(q, r)
  <2> HIDE DEF q
  <2> QED  BY <1>1, FewerSound
<1> HIDE DEF r
<1>5. QueuesOK' /\ NothingLost
  BY <1>1, <1>3, <1>4, OneQueue
<1>6. UNCHANGED <<state, matrix, suppliers, confirmed>> /\ (Fault \/ UNCHANGED faults)
  BY DEF Unanswered
<1> QED  BY <1>5, <1>6, FaultStep

LEMMA NotSentStep ==
  ASSUME Inv, NEW s \in Supplier, NEW p \in Packet, NotSent(s, p)
  PROVE  Inv' /\ NothingLost
<1> DEFINE q == queues[s]
<1>1. QueuesOK /\ queues \in [Supplier -> Sound(Packet)] /\ q \in Sound(confirmed[s])
  BY AllConfirmed DEF Inv, QueuesOK
<1>2. PICK k \in 1..q.waiting[p] : \E tired \in BOOLEAN :
        queues' = [t \in Supplier |->
                     IF t \in Throttled THEN OutboxStatus(Ended(s, p, k)[t], p, tired)
                     ELSE Ended(s, p, k)[t]]
  BY DEF NotSent
<1>3. PICK tired \in BOOLEAN :
        queues' = [t \in Supplier |->
                     IF t \in Throttled THEN OutboxStatus(Ended(s, p, k)[t], p, tired)
                     ELSE Ended(s, p, k)[t]]
  BY <1>2
<1> DEFINE ended == Ended(s, p, k)
           r == Fewer(q, p, k)
<1>4. \A t \in Supplier : ended[t] = IF t = s THEN r ELSE queues[t]
  <2>1. ended = [queues EXCEPT ![s] = r]
    BY DEF Ended, Fewer
  <2> HIDE DEF r, ended
  <2> QED  BY <1>1, <2>1
<1>5. r \in Sound(confirmed[s]) /\ Tells(q, r)
  <2> HIDE DEF q
  <2> QED  BY <1>1, FewerSound
<1> HIDE DEF r, ended
<1>6. ASSUME NEW t \in Supplier PROVE ended[t] \in Sound(confirmed[t]) /\ Tells(queues[t], ended[t])
  <2>1. queues[t] \in Sound(confirmed[t])
    BY <1>1 DEF QueuesOK
  <2>2. Tells(queues[t], queues[t])
    BY DEF Tells
  <2> QED  BY <1>4, <1>5, <2>1, <2>2
<1>7. queues' = [t \in Supplier |-> IF t \in Throttled THEN OutboxStatus(ended[t], p, tired) ELSE ended[t]]
  BY <1>3 DEF ended
<1>8. ASSUME NEW t \in Supplier PROVE queues'[t] \in Sound(confirmed[t]) /\ Leaves(queues[t], queues'[t])
  <2>1. CASE t \in Throttled
    <3>1. queues'[t] = OutboxStatus(ended[t], p, tired)
      BY <1>7, <2>1
    <3> QED  BY <1>6, <3>1, OutboxStatusSound, TellsOn, TellsLeaves
  <2>2. CASE t \notin Throttled
    <3>1. queues'[t] = ended[t]
      BY <1>7, <2>2
    <3> QED  BY <1>6, <3>1, TellsLeaves
  <2> QED  BY <2>1, <2>2
<1>9. queues' = [t \in Supplier |-> queues'[t]] /\ confirmed' = confirmed
  BY <1>7 DEF NotSent
<1>10. QueuesOK' /\ NothingLost
  BY <1>1, <1>8, <1>9, EveryQueue
<1>11. UNCHANGED <<state, matrix, suppliers, confirmed>> /\ (Fault \/ UNCHANGED faults)
  BY DEF NotSent
<1> QED  BY <1>10, <1>11, FaultStep

LEMMA LateStep ==
  ASSUME Inv, NEW s \in Supplier, NEW p \in Packet, Late(s, p)
  PROVE  Inv' /\ NothingLost
<1> DEFINE q == queues[s]
           late == q.late \cup {p}
           r == [q EXCEPT !.late = late]
<1>1. /\ QueuesOK /\ q \in Sound(confirmed[s]) /\ q \in QueueRecord(confirmed[s]) /\ Fits(q)
      /\ Idle(q) /\ Looping(q) /\ Alive(q)
  BY AllConfirmed DEF Inv, Sound, Able, Shaped
<1>2. queues' = [queues EXCEPT ![s] = r] /\ confirmed' = confirmed /\ p \in q.sent
  BY DEF Late
<1> HIDE DEF q
<1>3. late \subseteq Queued(q) /\ late \in SUBSET Packet
  BY <1>1, <1>2 DEF Fits, QueueRecord
<1> HIDE DEF late
<1>4. r \in QueueRecord(confirmed[s])
  BY <1>1, <1>3 DEF QueueRecord
<1>5. /\ r.queue = q.queue /\ r.sent = q.sent /\ r.acked = q.acked /\ r.late = late
      /\ r.scheduled = q.scheduled /\ r.instant = q.instant
  BY <1>1 DEF QueueRecord
<1>6. r.task = q.task /\ r.slow = q.slow
  BY <1>1 DEF QueueRecord
<1> HIDE DEF r
<1>7. Fits(r) /\ Queued(r) = Queued(q)
  BY <1>1, <1>3, <1>5 DEF Fits, Queued
<1>8. Idle(r) /\ Looping(r) /\ Alive(r)
  BY <1>1, <1>5, <1>6, Zenon DEF Idle, Looping, Alive
<1>9. r \in Sound(confirmed[s]) /\ Leaves(q, r)
  BY <1>4, <1>7, <1>8 DEF Sound, Able, Shaped, Leaves
<1>10. QueuesOK' /\ NothingLost
  BY <1>1, <1>2, <1>9, OneQueue DEF q
<1>11. UNCHANGED <<state, matrix, suppliers, confirmed>> /\ (Fault \/ UNCHANGED faults)
  BY DEF Late
<1> QED  BY <1>10, <1>11, FaultStep

LEMMA DeleteBackupStep ==
  ASSUME Inv, NEW B \in Backup, DeleteBackup(B)
  PROVE  Inv' /\ NothingLost
<1>1. PICK tired \in BOOLEAN :
        queues' = [s \in Supplier |->
                     IF s \in Throttled THEN DeleteBackupSendings(queues[s], B, tired)
                     ELSE queues[s]]
  BY DEF DeleteBackup
<1>2. ASSUME NEW t \in Supplier PROVE queues'[t] \in Sound(confirmed[t]) /\ Leaves(queues[t], queues'[t])
  <2>1. queues[t] \in Sound(confirmed[t])
    BY DEF Inv, QueuesOK
  <2>2. CASE t \in Throttled
    <3>1. queues'[t] = DeleteBackupSendings(queues[t], B, tired)
      BY <1>1, <2>2
    <3> QED  BY <2>1, <3>1, DeleteBackupSound, TellsLeaves
  <2>3. CASE t \notin Throttled
    <3>1. queues'[t] = queues[t]
      BY <1>1, <2>3
    <3> QED  BY <2>1, <3>1 DEF Leaves
  <2> QED  BY <2>2, <2>3
<1>3. queues' = [t \in Supplier |-> queues'[t]] /\ confirmed' = confirmed
  BY <1>1 DEF DeleteBackup
<1>4. QueuesOK' /\ NothingLost
  BY <1>2, <1>3, EveryQueue DEF Inv
<1>5. blocks' = blocks \ B /\ files' = files \ B /\ stored' = stored \ B /\ stale' = stale \ B
  BY DEF DeleteBackup
<1>6. MatrixOK' /\ SuppliersOK' /\ StoredOK'
  BY <1>3, <1>5 DEF DeleteBackup, Inv, suppliers, MatrixOK, SuppliersOK, StoredOK, Copied, Throttled
<1> QED  BY <1>4, <1>6 DEF Inv

LEMMA SubstituteStep ==
  ASSUME Inv, NEW s \in Supplier, SubstituteSupplier(s)
  PROVE  Inv' /\ NothingLost
<1>1. QueuesOK' /\ NothingLost
  BY SameQueues DEF Inv, SubstituteSupplier
<1>2. MatrixOK' /\ SuppliersOK' /\ StoredOK'
  BY DEF SubstituteSupplier, Inv, matrix, MatrixOK, SuppliersOK, StoredOK, Copied, Throttled
<1> QED  BY <1>1, <1>2 DEF Inv

LEMMA UpdateStep ==
  ASSUME Inv, UpdateSuppliers
  PROVE  Inv' /\ NothingLost
<1>1. QueuesOK' /\ NothingLost
  BY SameQueues DEF Inv, UpdateSuppliers
<1>2. MatrixOK' /\ SuppliersOK' /\ StoredOK'
  BY DEF UpdateSuppliers, Inv, MatrixOK, SuppliersOK, StoredOK, Copied, Throttled
<1> QED  BY <1>1, <1>2 DEF Inv

LEMMA InvInit == Init => Inv
<1> SUFFICES ASSUME Init PROVE Inv
  OBVIOUS
<1>1. QueuesOK
  <2>1. queues = [s \in Supplier |-> NewQueue] /\ confirmed = [s \in Supplier |-> {}]
    BY DEF Init
  <2> QED  BY <2>1, NewQueueSound DEF QueuesOK
<1>2. MatrixOK /\ SuppliersOK /\ StoredOK
  BY DataSenderAssumption DEF Init, MatrixOK, SuppliersOK, StoredOK
<1> QED  BY <1>1, <1>2 DEF Inv

LEMMA InvNext ==
  ASSUME Inv, [Next]_vars
  PROVE  Inv' /\ NothingLost
<1>1. CASE UNCHANGED vars
  <2>1. QueuesOK' /\ NothingLost
    BY <1>1, SameQueues DEF Inv, vars
  <2>2. MatrixOK' /\ SuppliersOK' /\ StoredOK'
    BY <1>1 DEF Inv, vars, matrix, suppliers, MatrixOK, SuppliersOK, StoredOK, Copied, Throttled
  <2> QED  BY <2>1, <2>2 DEF Inv
<1>2. CASE ScanAndQueue
  BY <1>2, ScanAndQueueStep
<1>3. CASE ScanDone
  BY <1>3, ScanDoneStep
<1>4. ASSUME NEW s \in Supplier, Loops(s) PROVE Inv' /\ NothingLost
  BY <1>4, ScheduledStep, InstantStep, LaterStep, CalledStep DEF Loops
<1>5. ASSUME NEW s \in Supplier, NEW p \in Packet, Outcome(s, p) PROVE Inv' /\ NothingLost
  <2>1. CASE \E ok \in BOOLEAN : Answered(s, p, ok)
    BY <2>1, AnsweredStep
  <2>2. CASE Unanswered(s, p)
    BY <2>2, UnansweredStep
  <2>3. CASE NotSent(s, p)
    BY <2>3, NotSentStep
  <2>4. CASE Late(s, p)
    BY <2>4, LateStep
  <2> QED  BY <1>5, <2>1, <2>2, <2>3, <2>4 DEF Outcome
<1>6. ASSUME NEW B \in Backup, DeleteBackup(B) PROVE Inv' /\ NothingLost
  BY <1>6, DeleteBackupStep
<1>7. ASSUME NEW s \in Supplier, SubstituteSupplier(s) PROVE Inv' /\ NothingLost
  BY <1>7, SubstituteStep
<1>8. CASE UpdateSuppliers
  BY <1>8, UpdateStep
<1> QED  BY <1>1, <1>2, <1>3, <1>4, <1>5, <1>6, <1>7, <1>8 DEF Next

THEOREM DataInvariant == Spec => []Inv
<1>1. Inv /\ [Next]_vars => Inv'
  BY InvNext
<1> QED  BY InvInit, <1>1, PTL DEF Spec

(* No more packets are out than fit in the queue.                          *)
LEMMA SentBound ==
  ASSUME NEW C, NEW q \in Shaped(C)
  PROVE  Cardinality(q.sent) <= MaxActive
<1> DEFINE N == Len(q.queue)
<1>1. Fits(q) /\ q.queue \in Seq(Packet)
  BY DEF Shaped, QueueRecord
<1>2. N \in Nat /\ N <= MaxActive /\ DOMAIN q.queue = 1..N
  BY <1>1, LenProperties DEF Fits
<1>3. q.queue \in [1..N -> Queued(q)] /\ \A p \in Queued(q) : \E i \in 1..N : q.queue[i] = p
  <2>1. \A p \in Queued(q) : \E i \in 1..N : q.queue[i] = p
    BY <1>2 DEF Queued, ToSet
  <2>2. q.queue \in [1..N -> Packet]
    BY <1>1, LenProperties
  <2>3. \A i \in 1..N : q.queue[i] \in Queued(q)
    BY <1>2 DEF Queued, ToSet
  <2> QED  BY <2>1, <2>2, <2>3
<1>4. q.queue \in Surjection(1..N, Queued(q))
  BY <1>3 DEF Surjection
<1>5. IsFiniteSet(1..N) /\ Cardinality(1..N) = N
  BY <1>2, FS_Interval
<1>6. IsFiniteSet(Queued(q)) /\ Cardinality(Queued(q)) <= N
  BY <1>4, <1>5, FS_Surjection
<1>7. q.sent \subseteq Queued(q)
  BY <1>1 DEF Fits
<1>8. IsFiniteSet(q.sent) /\ Cardinality(q.sent) <= Cardinality(Queued(q))
  BY <1>6, <1>7, FS_Subset
<1>9. Cardinality(q.sent) \in Nat /\ Cardinality(Queued(q)) \in Nat
  BY <1>6, <1>8, FS_CardinalityType
<1> QED  BY <1>2, <1>6, <1>8, <1>9, SendQueueAssumption

LEMMA QueueTypes ==
  ASSUME NEW C, NEW q \in Sound(C)
  PROVE  QueueOK(q)
<1>1. q \in Shaped(C) /\ q \in QueueRecord(C) /\ Fits(q)
  BY SoundIsAble
<1>2. Honest(C) \subseteq [packet : Packet, ok : BOOLEAN]
  BY DEF Honest, Call
<1>3. q.calls \in Seq([packet : Packet, ok : BOOLEAN])
  <2>1. q.calls \in Seq(Honest(C))
    BY <1>1 DEF QueueRecord
  <2> QED  BY <1>2, <2>1, SeqMonotonic
<1>4. q.queue \in Seq(Packet) /\ IsInjective(q.queue) /\ Cardinality(q.sent) <= MaxActive
  BY <1>1, SentBound DEF QueueRecord, Fits
<1>5. q.sent \cup q.acked \cup q.late \subseteq Queued(q)
  BY <1>1 DEF Fits
<1>6. /\ q.failed \in [Packet -> Nat] /\ q.waiting \in [Packet -> Nat]
      /\ q.scheduled \in Nat /\ q.instant \in Nat /\ q.later \in Nat
  BY <1>1 DEF QueueRecord
<1>7. q.task \in BOOLEAN /\ q.slow \in BOOLEAN
  BY <1>1 DEF QueueRecord
<1> QED  BY <1>3, <1>4, <1>5, <1>6, <1>7, Zenon DEF QueueOK

(* The types of the data sender and of its queues, and that the window of  *)
(* a supplier holds, which RunSend alone does not ensure.                  *)
THEOREM DataTypes == Spec => []TypeOK
<1>1. Inv => TypeOK
  <2> SUFFICES ASSUME Inv PROVE TypeOK
    OBVIOUS
  <2>1. \A s \in Supplier : QueueOK(queues[s])
    BY QueueTypes DEF Inv, QueuesOK
  <2> QED  BY <2>1 DEF TypeOK, Inv, QueuesOK, MatrixOK, SuppliersOK
<1> QED  BY <1>1, DataInvariant, PTL

(* A queue with packets always has a run to come: cancelling a slow call   *)
(* to make it sooner, and the loops that failures start, never lose it.    *)
THEOREM DataLoop == Spec => []LoopAlive
<1>1. Inv => LoopAlive
  BY DEF Inv, QueuesOK, Sound, Able, Looping, Alive, LoopAlive
<1> QED  BY <1>1, DataInvariant, PTL

(* A local file is removed only after an Ack of a supplier whose queue is  *)
(* in the throttle, or where a queue that is not has marked the position.  *)
LEMMA StepKeepsCopy ==
  ASSUME Inv, [Next]_vars
  PROVE  \A p \in (files \ files') \cap blocks' :
           p \in stale \/ \E s \in Throttled : p \in confirmed[s]
<1>1. CASE ScanDone
  <2>1. \A p \in files \ files' : p \in stored
    BY <1>1 DEF ScanDone, RemoveUnusedFiles
  <2> QED  BY <2>1 DEF Inv, StoredOK, Copied
<1>2. CASE \E B \in Backup : DeleteBackup(B)
  BY <1>2 DEF DeleteBackup
<1>3. CASE UNCHANGED files
  BY <1>3
<1>4. ASSUME NEW s \in Supplier, Loops(s) PROVE UNCHANGED files
  BY <1>4 DEF Loops, Scheduled, Instant, Later, Calls, Called, matrix
<1>5. ASSUME NEW s \in Supplier, NEW p \in Packet, Outcome(s, p) PROVE UNCHANGED files
  BY <1>5 DEF Outcome, Answered, Unanswered, NotSent, Late, matrix
<1>6. ScanAndQueue \/ UpdateSuppliers \/ (\E s \in Supplier : SubstituteSupplier(s)) => UNCHANGED files
  BY DEF ScanAndQueue, UpdateSuppliers, SubstituteSupplier, matrix
<1>7. UNCHANGED vars => UNCHANGED files
  BY DEF vars, matrix
<1> QED  BY <1>1, <1>2, <1>3, <1>4, <1>5, <1>6, <1>7 DEF Next

(* No answer that is late, refused, repeated or missing makes the data     *)
(* sender remove a local file without an Ack, and an Ack of a supplier who *)
(* was removed from the throttle does so only through his own callbacks.   *)
THEOREM DataCopies == Spec => KeepsCopy
<1> DEFINE Step == \A p \in (files \ files') \cap blocks' :
                     p \in stale \/ \E s \in Throttled : p \in confirmed[s]
<1>1. Inv /\ [Next]_vars => [Step]_vars
  BY StepKeepsCopy
<1> HIDE DEF Step
<1>2. Spec => [][Step]_vars
  BY <1>1, DataInvariant, PTL DEF Spec
<1> QED  BY <1>2 DEF KeepsCopy, Step

(* What leaves a queue was answered, or its failure is told.               *)
THEOREM DataTold == Spec => Told
<1> DEFINE Step == \A s \in Supplier : \A p \in Queued(queues[s]) \ Queued(queues'[s]) :
                     \/ p \in queues[s].acked
                     \/ [packet |-> p, ok |-> FALSE] \in ToSet(queues'[s].calls)
<1>1. Inv /\ [Next]_vars => [Step]_vars
  BY InvNext DEF NothingLost, Leaves, Failed
<1> HIDE DEF Step
<1>2. Spec => [][Step]_vars
  BY <1>1, DataInvariant, PTL DEF Spec
<1> QED  BY <1>2 DEF Told, Step
=============================================================================
