--------------------------- MODULE FireHire_proofs ---------------------------
(***************************************************************************)
(* fire_hire, for any users, numbers and troubles: the type invariant;     *)
(* that it implements Hiring, which is what BackupMonitor knows of it;     *)
(* that who is dismissed has no place in the list any more; and that it    *)
(* never waits for what does not come.                                     *)
(***************************************************************************)
EXTENDS FireHire, FiniteSetTheorems, FunctionTheorems, SequenceTheorems, WellFoundedInduction, TLAPS

-----------------------------------------------------------------------------
(* Numbers, and the elements of a sequence that are in a set.              *)

LEMMA Least ==
  ASSUME NEW T \in SUBSET Nat, T # {}
  PROVE  \E i \in T : \A j \in T : i <= j
<1> DEFINE Less == OpToRel(<, Nat)
<1>1. \E i \in T : \A j \in T : ~ (<<j, i>> \in Less)
  BY NatLessThanWellFounded, WFMin
<1>2. \A i, j \in Nat : j < i => <<j, i>> \in Less
  BY Zenon DEF OpToRel
<1>3. PICK R : /\ \E i \in T : \A j \in T : ~ (<<j, i>> \in R)
              /\ \A i, j \in Nat : j < i => <<j, i>> \in R
  BY <1>1, <1>2, Zenon
<1>4. PICK i \in T : \A j \in T : ~ (<<j, i>> \in R)
  BY <1>3, Zenon
<1>5. \A j \in T : ~ (j < i)
  BY <1>3, <1>4, Zenon
<1> QED  BY <1>5

LEMMA AllNumbers ==
  ASSUME NEW T \in SUBSET Nat, 0 \in T, \A n \in T : n + 1 \in T
  PROVE  T = Nat
<1>1. SUFFICES ASSUME Nat \ T # {} PROVE FALSE
  OBVIOUS
<1>2. Nat \ T \in SUBSET Nat
  OBVIOUS
<1>3. PICK m \in Nat \ T : \A j \in Nat \ T : m <= j
  BY <1>1, <1>2, Least
<1>4. m - 1 \in Nat
  BY <1>3
<1>5. m - 1 \in T
  BY <1>3, <1>4
<1>6. (m - 1) + 1 = m
  BY <1>3
<1> QED  BY <1>3, <1>5, <1>6

Keep(s, G, f, n) == IF n = 0 THEN <<>> ELSE IF s[n] \in G THEN Append(f[n - 1], s[n]) ELSE f[n - 1]
IsKept(s, G, f) == f = [n \in 0..Len(s) |-> Keep(s, G, f, n)]

(* The elements of a sequence that are in a set are a sequence of it.      *)
LEMMA AmongType ==
  ASSUME NEW S, NEW s \in Seq(S), NEW G
  PROVE  Among(s, G) \in Seq(S \cap G)
<1> DEFINE R == Seq(S \cap G)
<1>1. Len(s) \in Nat /\ \A i \in 1..Len(s) : s[i] \in S
  BY LenProperties, ElementOfSeq
<1>2. <<>> \in R /\ \A q \in R : \A x \in S \cap G : Append(q, x) \in R
  BY AppendProperties
<1> HIDE DEF R
<1> DEFINE Upto(n, f) == \A i \in 0..Len(s) : i <= n => f[i] = Keep(s, G, f, i)
           T == {n \in Nat : \E f : Upto(n, f)}
<1>3. T = Nat
  <2>1. 0 \in T
    <3>1. Upto(0, [i \in {0} |-> <<>>])
      BY DEF Keep
    <3> QED  BY <3>1
  <2>2. \A n \in T : n + 1 \in T
    <3> SUFFICES ASSUME NEW n \in Nat, NEW f, Upto(n, f) PROVE \E g : Upto(n + 1, g)
      <4>1. ASSUME NEW n \in T PROVE n \in Nat /\ \E f : Upto(n, f)
        OBVIOUS
      <4>2. ASSUME NEW n \in Nat, \E f : Upto(n + 1, f) PROVE n + 1 \in T
        BY <4>2
      <4> HIDE DEF T, Upto
      <4> QED  BY <4>1, <4>2
    <3>1. Upto(n, f)
      OBVIOUS
    <3> DEFINE g == [i \in 0..Len(s) |-> Keep(s, G, f, i)]
    <3>2. ASSUME NEW i \in 0..Len(s), i <= n + 1
          PROVE  g[i] = Keep(s, G, g, i)
      <4>1. g[i] = Keep(s, G, f, i)
        OBVIOUS
      <4>2. CASE i = 0
        BY <4>1, <4>2 DEF Keep
      <4>3. CASE i # 0
        <5>1. i - 1 \in 0..Len(s) /\ i - 1 <= n
          BY <1>1, <3>1, <3>2, <4>3
        <5>2. g[i - 1] = Keep(s, G, f, i - 1) /\ f[i - 1] = Keep(s, G, f, i - 1)
          BY <3>1, <5>1
        <5> HIDE DEF g
        <5> QED  BY <4>1, <4>3, <5>2 DEF Keep
      <4> QED  BY <4>2, <4>3
    <3> HIDE DEF g
    <3> QED  BY <3>2
  <2>3. T \in SUBSET Nat
    OBVIOUS
  <2> HIDE DEF T
  <2> QED  BY <2>1, <2>2, <2>3, AllNumbers
<1>4. \E f : IsKept(s, G, f)
  <2>1. PICK f : Upto(Len(s), f)
    BY <1>1, <1>3
  <2> DEFINE g == [i \in 0..Len(s) |-> f[i]]
  <2>2. ASSUME NEW i \in 0..Len(s)
        PROVE  g[i] = Keep(s, G, g, i)
    <3>1. f[i] = Keep(s, G, f, i) /\ g[i] = f[i]
      BY <1>1, <2>1
    <3>2. CASE i = 0
      BY <3>1, <3>2 DEF Keep
    <3>3. CASE i # 0
      <4>1. g[i - 1] = f[i - 1]
        BY <1>1, <3>3
      <4> HIDE DEF g
      <4> QED  BY <3>1, <3>3, <4>1 DEF Keep
    <3> QED  BY <3>2, <3>3
  <2>3. g = [i \in 0..Len(s) |-> g[i]]
    OBVIOUS
  <2> HIDE DEF g
  <2>4. [i \in 0..Len(s) |-> g[i]] = [i \in 0..Len(s) |-> Keep(s, G, g, i)]
    BY <2>2
  <2> QED  BY <2>3, <2>4 DEF IsKept
<1> DEFINE f == CHOOSE f : IsKept(s, G, f)
<1>5. IsKept(s, G, f)
  BY <1>4
<1>6. Among(s, G) = f[Len(s)]
  BY DEF Among, IsKept, Keep
<1> HIDE DEF f
<1>7. \A i \in 0..Len(s) : f[i] = Keep(s, G, f, i)
  BY <1>5 DEF IsKept
<1> DEFINE U == {n \in Nat : n <= Len(s) => f[n] \in R}
<1>8. U = Nat
  <2>1. 0 \in U
    BY <1>1, <1>2, <1>7 DEF Keep
  <2>2. \A n \in U : n + 1 \in U
    <3>1. SUFFICES ASSUME NEW n \in U, n + 1 <= Len(s) PROVE f[n + 1] \in R
      OBVIOUS
    <3>2. f[n] \in R /\ n + 1 \in 0..Len(s) /\ s[n + 1] \in S /\ (n + 1) - 1 = n /\ n + 1 # 0
      BY <1>1, <3>1
    <3>3. f[n + 1] = IF s[n + 1] \in G THEN Append(f[n], s[n + 1]) ELSE f[n]
      BY <1>7, <3>2 DEF Keep
    <3> QED  BY <1>2, <3>2, <3>3
  <2>3. U \in SUBSET Nat
    OBVIOUS
  <2> HIDE DEF U
  <2> QED  BY <2>1, <2>2, <2>3, AllNumbers
<1>9. f[Len(s)] \in R
  BY <1>1, <1>8
<1> QED  BY <1>6, <1>9 DEF R

-----------------------------------------------------------------------------
(* Events.                                                                 *)

Message ==
  [to : {"fire_hire"}, event : {"restart", "instant", "search-failed"}, who : {<<>>}]
  \cup [to : {"fire_hire"}, event : {"made-decision"}, who : Seq(User)]
  \cup [to : {"fire_hire"}, event : {"supplier-connected", "supplier-state-changed"}, who : {<<u>> : u \in User}]
  \cup [to : {"supplier_finder"}, event : {"start", "supplier-connected", "supplier-not-connected"}, who : {<<>>}]
  \cup [to : {"supplier_connector"}, event : {"connect", "disconnect", "shutdown"}, who : {<<u>> : u \in User}]

(* All but those that ask for another cycle.                               *)
Calm == {m \in Message : m.event # "restart"}
Asks(q) == \E i \in DOMAIN q : q[i].event = "restart"

LEMMA Posting ==
  ASSUME NEW q \in Seq(Message), NEW p \in Seq(Calm)
  PROVE  q \o p \in Seq(Message) /\ (Asks(q \o p) <=> Asks(q))
<1>1. p \in Seq(Message)
  BY SeqMonotonic DEF Calm
<1>2. /\ q \o p \in Seq(Message) /\ Len(q \o p) = Len(q) + Len(p)
      /\ \A i \in 1..Len(q) + Len(p) : (q \o p)[i] = IF i <= Len(q) THEN q[i] ELSE p[i - Len(q)]
  BY <1>1, ConcatProperties
<1>3. /\ Len(q) \in Nat /\ Len(p) \in Nat /\ DOMAIN q = 1..Len(q)
      /\ DOMAIN (q \o p) = 1..(Len(q) + Len(p))
  BY <1>2, LenProperties
<1>4. \A i \in 1..Len(p) : p[i].event # "restart"
  BY ElementOfSeq DEF Calm
<1> HIDE DEF Message
<1>5. ASSUME NEW i \in DOMAIN (q \o p), (q \o p)[i].event = "restart"
      PROVE  Asks(q)
  <2>1. i <= Len(q) \/ i - Len(q) \in 1..Len(p)
    BY <1>3
  <2>2. CASE i <= Len(q)
    BY <1>2, <1>3, <1>5, <2>2 DEF Asks
  <2>3. CASE ~ (i <= Len(q))
    BY <1>2, <1>3, <1>4, <1>5, <2>1, <2>3
  <2> QED  BY <2>2, <2>3
<1>6. ASSUME NEW i \in DOMAIN q, q[i].event = "restart"
      PROVE  Asks(q \o p)
  <2>1. i \in DOMAIN (q \o p) /\ (q \o p)[i] = q[i]
    BY <1>2, <1>3
  <2> QED  BY <1>6, <2>1 DEF Asks
<1> QED  BY <1>2, <1>5, <1>6 DEF Asks

LEMMA PostingOne ==
  ASSUME NEW q \in Seq(Message), NEW m \in Calm
  PROVE  q \o <<m>> \in Seq(Message) /\ (Asks(q \o <<m>>) <=> Asks(q))
<1>1. <<m>> \in Seq(Calm)
  OBVIOUS
<1> HIDE DEF Calm
<1> QED  BY <1>1, Posting

(* The first event is taken.                                               *)
LEMMA Taking ==
  ASSUME NEW q \in Seq(Message), q # <<>>
  PROVE  /\ Head(q) \in Message /\ Tail(q) \in Seq(Message)
         /\ Asks(q) <=> (Head(q).event = "restart" \/ Asks(Tail(q)))
<1>1. /\ Head(q) \in Message /\ Head(q) = q[1] /\ Tail(q) \in Seq(Message) /\ Len(Tail(q)) = Len(q) - 1
      /\ \A i \in 1..Len(Tail(q)) : Tail(q)[i] = q[i + 1]
  BY HeadTailProperties
<1>2. /\ Len(q) \in Nat /\ Len(q) # 0 /\ DOMAIN q = 1..Len(q) /\ DOMAIN Tail(q) = 1..Len(Tail(q))
  BY <1>1, LenProperties, EmptySeq
<1>3. ASSUME NEW i \in DOMAIN q, q[i].event = "restart"
      PROVE  Head(q).event = "restart" \/ Asks(Tail(q))
  <2>1. CASE i = 1
    BY <1>1, <1>3, <2>1
  <2>2. CASE i # 1
    <3>1. i - 1 \in DOMAIN Tail(q) /\ (i - 1) + 1 = i
      BY <1>1, <1>2, <2>2
    <3>2. Tail(q)[i - 1] = q[i]
      BY <1>1, <1>2, <3>1
    <3> QED  BY <1>3, <3>1, <3>2 DEF Asks
  <2> QED  BY <2>1, <2>2
<1>4. ASSUME NEW i \in DOMAIN Tail(q), Tail(q)[i].event = "restart"
      PROVE  Asks(q)
  <2>1. i + 1 \in DOMAIN q /\ q[i + 1] = Tail(q)[i]
    BY <1>1, <1>2
  <2> QED  BY <1>4, <2>1 DEF Asks
<1>5. Head(q).event = "restart" => Asks(q)
  <2>1. 1 \in DOMAIN q
    BY <1>2
  <2> QED  BY <1>1, <2>1 DEF Asks
<1> QED  BY <1>1, <1>3, <1>4, <1>5 DEF Asks

LEMMA CalmEvents ==
  /\ Hire("instant", <<>>) \in Calm /\ Hire("search-failed", <<>>) \in Calm
  /\ \A d \in Seq(User) : Hire("made-decision", d) \in Calm
  /\ \A u \in User : Hire("supplier-connected", <<u>>) \in Calm /\ Hire("supplier-state-changed", <<u>>) \in Calm
  /\ Find("start") \in Calm /\ Find("supplier-connected") \in Calm /\ Find("supplier-not-connected") \in Calm
  /\ \A u \in User : Tell(u, "connect") \in Calm /\ Tell(u, "disconnect") \in Calm /\ Tell(u, "shutdown") \in Calm
  /\ Restart \in Message
  BY DEF Hire, Find, Tell, Restart, Calm, Message

LEMMA TellAllType ==
  ASSUME NEW list \in Seq(User), NEW e \in {"connect", "disconnect", "shutdown"}
  PROVE  TellAll(list, e) \in Seq(Calm)
<1>1. DOMAIN list = 1..Len(list) /\ Len(list) \in Nat /\ \A i \in 1..Len(list) : list[i] \in User
  BY LenProperties, ElementOfSeq
<1>2. \A i \in 1..Len(list) : Tell(list[i], e) \in Calm
  BY <1>1, CalmEvents
<1>3. TellAll(list, e) = [i \in 1..Len(list) |-> Tell(list[i], e)]
  BY <1>1 DEF TellAll
<1>4. [i \in 1..Len(list) |-> Tell(list[i], e)] \in [1..Len(list) -> Calm]
  BY <1>2
<1> QED  BY <1>1, <1>3, <1>4, SeqDef

(* What each event tells of itself.                                        *)
LEMMA EventIs ==
  ASSUME NEW m \in Message
  PROVE  /\ m.to \in {"fire_hire", "supplier_finder", "supplier_connector"}
         /\ m.to = "fire_hire" /\ m.event = "made-decision" => m.who \in Seq(User)
         /\ m.to = "fire_hire" /\ m.event \in {"supplier-connected", "supplier-state-changed"} => m.who[1] \in User
         /\ m.to = "supplier_connector" => m.who[1] \in User /\ m.event \in {"connect", "disconnect", "shutdown"}
         /\ m.to = "supplier_finder" => m.event # "restart"
  BY DEF Message

-----------------------------------------------------------------------------
(* Types.                                                                  *)

People == User \cup {None}
ConnectorStates == {"NO_SERVICE", "CONNECTED", "DISCONNECTED", "REQUEST", "REFUSE", "QUEUE?", "CLOSED"}
ConnectorType == [state : ConnectorStates, leaving : BOOLEAN]
Ends == {"suppliers-changed", "fire-hire-finished"}

(* Who is searched for is a user from the moment he is found, and another  *)
(* is searched for only while there are attempts left.                     *)
FinderOK ==
  /\ finder \in [state : {"AT_STARTUP", "RANDOM_USER", "ACK?", "SERVICE?"}, target : People, attempts : 0 .. MaxAttempts]
  /\ finder.state \in {"ACK?", "SERVICE?"} => finder.target \in User
  /\ finder.state = "RANDOM_USER" => finder.attempts < MaxAttempts

CycleOK ==
  /\ state \in States /\ needRestart \in BOOLEAN /\ configs \in Numbers \cup {0}
  /\ connectList \subseteq User /\ dismissList \in Seq(User) /\ dismissResults \in Nat
  /\ restartTask \in BOOLEAN /\ suppliers \in Seq(People) /\ reports \in Seq(Ends)

ConnectorsOK ==
  /\ sc \in [User -> ConnectorType]
  /\ listening \in [User -> SUBSET {"fire_hire", "supplier_finder"}]

AskedOK == desired \in Numbers /\ toFire \subseteq User /\ toHire \in Seq(User)

Typed == FinderOK /\ CycleOK /\ ConnectorsOK /\ AskedOK /\ queue \in Seq(Message)

LEMMA MineType == ASSUME Typed PROVE Mine \in SUBSET User
<1>1. DOMAIN suppliers = 1..Len(suppliers) /\ \A i \in 1..Len(suppliers) : suppliers[i] \in User \cup {None}
  BY LenProperties, ElementOfSeq DEF Typed, CycleOK, People
<1> QED  BY <1>1 DEF Mine, ToSet

LEMMA ConnectorTyped ==
  ASSUME NEW s \in ConnectorStates, NEW go \in BOOLEAN
  PROVE  Connector(s, go) \in ConnectorType
  BY DEF Connector, ConnectorType

LEMMA NewType == New \in ConnectorType
<1>1. "DISCONNECTED" \in ConnectorStates /\ FALSE \in BOOLEAN
  BY DEF ConnectorStates
<1> QED  BY <1>1, ConnectorTyped DEF New

LEMMA CreatedType ==
  ASSUME ConnectorsOK
  PROVE  \A S : Created(S) \in [User -> ConnectorType]
  BY NewType DEF Created, ConnectorsOK

LEMMA ListeningType ==
  ASSUME ConnectorsOK
  PROVE  \A S : \A who \in {"fire_hire", "supplier_finder"} :
           Listening(S, who) \in [User -> SUBSET {"fire_hire", "supplier_finder"}]
  BY DEF Listening, ConnectorsOK

LEMMA ForgetsType ==
  ASSUME ConnectorsOK
  PROVE  Forgets \in [User -> SUBSET {"fire_hire", "supplier_finder"}]
  BY DEF Forgets, ConnectorsOK

(* Some of a list, in an order or another.                                 *)
LEMMA AmongUsers ==
  ASSUME NEW list \in Seq(People), NEW S \in SUBSET User
  PROVE  Among(list, S) \in Seq(User)
<1>1. Among(list, S) \in Seq(People \cap S)
  BY AmongType
<1>2. People \cap S \subseteq User
  OBVIOUS
<1> QED  BY <1>1, <1>2, SeqMonotonic

LEMMA InSomeOrder ==
  ASSUME NEW S \in SUBSET User
  PROVE  SetToSeqs(S) \subseteq Seq(User)
<1>1. Cardinality(S) \in Nat
  BY NumbersAssumption, FS_Subset, FS_CardinalityType
<1>2. ASSUME NEW f \in SetToSeqs(S)
      PROVE  f \in Seq(User)
  <2>1. f \in [1..Cardinality(S) -> S]
    BY DEF SetToSeqs
  <2>2. f \in Seq(S)
    BY <1>1, <2>1, SeqDef
  <2> QED  BY <2>2, SeqMonotonic
<1> QED  BY <1>2

LEMMA FirstOnesType ==
  ASSUME Typed
  PROVE  FirstOnes \in Seq(People)
<1>1. /\ suppliers \in Seq(People) /\ Len(suppliers) \in Nat /\ desired \in Nat
      /\ \A i \in 1..Len(suppliers) : suppliers[i] \in People
  BY NumbersAssumption, LenProperties, ElementOfSeq DEF Typed, CycleOK, AskedOK
<1> DEFINE n == IF Len(suppliers) < desired THEN Len(suppliers) ELSE desired
<1>2. n \in Int /\ n <= Len(suppliers)
  BY <1>1
<1>3. FirstOnes = SubSeq(suppliers, 1, n)
  BY DEF FirstOnes
<1> HIDE DEF n
<1>4. \A i \in 1..n : suppliers[i] \in People
  BY <1>1, <1>2
<1>5. SubSeq(suppliers, 1, n) \in Seq(People)
  BY <1>2, <1>4, SubSeqProperties
<1> QED  BY <1>3, <1>5

LEMMA RemovedType ==
  ASSUME Typed
  PROVE  \A d : Removed(d) \in Seq(People)
<1>1. Len(FirstOnes) \in Nat /\ DOMAIN FirstOnes = 1..Len(FirstOnes) /\ \A i \in 1..Len(FirstOnes) : FirstOnes[i] \in People
  BY FirstOnesType, LenProperties, ElementOfSeq
<1>2. None \in People
  BY DEF People
<1> TAKE d
<1>3. Removed(d) = [i \in 1..Len(FirstOnes) |-> IF FirstOnes[i] \in ToSet(d) THEN None ELSE FirstOnes[i]]
  BY <1>1 DEF Removed
<1>4. [i \in 1..Len(FirstOnes) |-> IF FirstOnes[i] \in ToSet(d) THEN None ELSE FirstOnes[i]]
        \in [1..Len(FirstOnes) -> People]
  BY <1>1, <1>2
<1> QED  BY <1>1, <1>3, <1>4, SeqDef

LEMMA SubstitutedType ==
  ASSUME Typed, NEW u \in User
  PROVE  Substituted(u) \in Seq(People)
<1>1. /\ suppliers \in Seq(People) /\ u \in People /\ Len(suppliers) \in Nat /\ DOMAIN suppliers = 1..Len(suppliers)
      /\ \A i \in 1..Len(suppliers) : suppliers[i] \in People
  BY LenProperties, ElementOfSeq DEF Typed, CycleOK, People
<1>2. Append(suppliers, u) \in Seq(People)
  BY <1>1, AppendProperties
<1>3. ASSUME NEW k
      PROVE  [suppliers EXCEPT ![k] = u] \in Seq(People)
  <2>1. [suppliers EXCEPT ![k] = u] = [i \in 1..Len(suppliers) |-> IF i = k THEN u ELSE suppliers[i]]
    BY <1>1
  <2>2. [i \in 1..Len(suppliers) |-> IF i = k THEN u ELSE suppliers[i]] \in [1..Len(suppliers) -> People]
    BY <1>1
  <2>3. \A f \in [1..Len(suppliers) -> People] : f \in Seq(People)
    BY <1>1, SeqDef
  <2>4. [i \in 1..Len(suppliers) |-> IF i = k THEN u ELSE suppliers[i]] \in Seq(People)
    BY <2>2, <2>3, Zenon
  <2> QED  BY <2>1, <2>4, Zenon
<1> QED  BY <1>2, <1>3 DEF Substituted

LEMMA EveryOtherType ==
  ASSUME Typed
  PROVE  EveryOther(dismissList) \in Seq(User)
<1> DEFINE list == [i \in DOMAIN dismissList |-> IF i % 2 = 1 THEN dismissList[i] ELSE None]
<1>1. /\ Len(dismissList) \in Nat /\ DOMAIN dismissList = 1..Len(dismissList)
      /\ \A i \in 1..Len(dismissList) : dismissList[i] \in User
  BY LenProperties, ElementOfSeq DEF Typed, CycleOK
<1>2. list \in [1..Len(dismissList) -> People]
  BY <1>1 DEF People
<1>3. list \in Seq(People)
  BY <1>1, <1>2, SeqDef
<1>4. EveryOther(dismissList) = Among(list, Existing) /\ Existing \in SUBSET User
  BY DEF EveryOther, Existing
<1> HIDE DEF list
<1> QED  BY <1>3, <1>4, AmongUsers

(* doDecideToDismiss decides on suppliers.                                 *)
LEMMA DecisionType ==
  ASSUME Typed, NEW q \in Seq(Message), DecideToDismiss(q)
  PROVE  /\ \E d \in Seq(User) : queue' = q \o <<Hire("made-decision", d)>>
         /\ AskedOK'
<1>1. toFire \in SUBSET User /\ Mine \in SUBSET User
  BY MineType DEF Typed, AskedOK
<1>2. Redundant \in SUBSET User
  <2>1. DOMAIN suppliers = 1..Len(suppliers) /\ \A i \in 1..Len(suppliers) : suppliers[i] \in User \cup {None}
    BY LenProperties, ElementOfSeq DEF Typed, CycleOK, People
  <2>2. Len(suppliers) \in Nat /\ desired \in Nat
    BY NumbersAssumption, LenProperties DEF Typed, CycleOK, AskedOK
  <2>3. desired + 1 .. Len(suppliers) \subseteq 1..Len(suppliers)
    BY <2>2
  <2> QED  BY <2>1, <2>3 DEF Redundant
<1>3. <<>> \in Seq(User) /\ \A u \in Mine : <<u>> \in Seq(User)
  BY <1>1
<1>4. ASSUME NEW o, NEW c, NEW d \in Decisions(o, c)
      PROVE  d \in Seq(User)
  <2>1. SetToSeqs(Redundant) \subseteq Seq(User)
    BY <1>2, InSomeOrder
  <2>2. InState({"NO_SERVICE"}) \subseteq Mine
    BY DEF InState
  <2>3. {<<u>> : u \in InState({"NO_SERVICE"})} \subseteq Seq(User)
    BY <1>3, <2>2
  <2>4. \/ Decisions(o, c) = {<<>>} \/ Decisions(o, c) = SetToSeqs(Redundant)
        \/ Decisions(o, c) = {<<u>> : u \in InState({"NO_SERVICE"})}
    BY DEF Decisions
  <2> QED  BY <1>3, <2>1, <2>3, <2>4
<1>5. SetToSeqs(toFire) \subseteq Seq(User)
  BY <1>1, InSomeOrder
<1>6. \E d \in Seq(User) : Posts(q \o <<Hire("made-decision", d)>>)
  BY <1>4, <1>5 DEF DecideToDismiss
<1> QED  BY <1>6 DEF DecideToDismiss, Posts, AskedOK, Typed

-----------------------------------------------------------------------------
(* What each event does to a connector.                                    *)

Handled == [state : ConnectorStates, leaving : BOOLEAN, sends : {<<>>, <<"request">>, <<"cancel">>, <<"queue">>},
            reports : BOOLEAN]

LEMMA HandlesType ==
  ASSUME NEW s \in ConnectorStates, NEW go \in BOOLEAN, NEW e
  PROVE  Handles(s, go, e) \in Handled
<1> DEFINE Kinds == {<<>>, <<"request">>, <<"cancel">>, <<"queue">>}
<1>1. \A t \in ConnectorStates : \A b \in BOOLEAN : \A k \in Kinds : \A r \in BOOLEAN : To(t, b, k, r) \in Handled
  BY DEF To, Handled
<1>2. /\ TRUE \in BOOLEAN /\ FALSE \in BOOLEAN
      /\ <<>> \in Kinds /\ <<"request">> \in Kinds /\ <<"cancel">> \in Kinds /\ <<"queue">> \in Kinds
      /\ "NO_SERVICE" \in ConnectorStates /\ "CONNECTED" \in ConnectorStates /\ "DISCONNECTED" \in ConnectorStates
      /\ "REQUEST" \in ConnectorStates /\ "REFUSE" \in ConnectorStates /\ "QUEUE?" \in ConnectorStates
      /\ "CLOSED" \in ConnectorStates
  BY DEF ConnectorStates
<1> HIDE DEF Kinds
<1>3. CASE s = "NO_SERVICE"
  BY <1>1, <1>2, <1>3 DEF Handles
<1>4. CASE s = "CONNECTED"
  BY <1>1, <1>2, <1>4 DEF Handles
<1>5. CASE s = "DISCONNECTED"
  BY <1>1, <1>2, <1>5 DEF Handles
<1>6. CASE s = "REQUEST"
  BY <1>1, <1>2, <1>6 DEF Handles, AcceptedLeaving
<1>7. CASE s = "REFUSE"
  BY <1>1, <1>2, <1>7 DEF Handles
<1>8. CASE s = "QUEUE?"
  BY <1>1, <1>2, <1>8 DEF Handles
<1>9. CASE s = "CLOSED"
  BY <1>1, <1>2, <1>9 DEF Handles
<1> QED  BY <1>3, <1>4, <1>5, <1>6, <1>7, <1>8, <1>9 DEF ConnectorStates

LEMMA FoundType == \A u, s : FoundOne(u, s) \in Seq(Calm)
<1>1. Find("supplier-connected") \in Calm /\ Find("supplier-not-connected") \in Calm
  BY CalmEvents
<1> HIDE DEF Calm
<1>2. <<>> \in Seq(Calm) /\ <<Find("supplier-connected")>> \in Seq(Calm) /\ <<Find("supplier-not-connected")>> \in Seq(Calm)
  BY <1>1
<1> QED  BY <1>2 DEF FoundOne

(* A connector's event changes nothing of a cycle but what it counts.      *)
CycleKept == UNCHANGED <<state, needRestart, restartTask, suppliers, reports>>

LEMMA ConnectorEventType ==
  ASSUME Typed, NEW u \in User, NEW e, NEW q \in Seq(Message), ConnectorEvent(u, e, q)
  PROVE  Typed' /\ CycleKept /\ (Asks(queue') <=> Asks(q))
<1> DEFINE h == Handles(sc[u].state, sc[u].leaving, e)
<1>1. h \in Handled
  <2>1. sc[u] \in ConnectorType
    BY DEF Typed, ConnectorsOK
  <2> QED  BY <2>1, HandlesType DEF ConnectorType
<1>2. sc' = [sc EXCEPT ![u] = Connector(h.state, h.leaving)]
  BY DEF ConnectorEvent
<1>3. listening' = [listening EXCEPT ![u] =
        CASE h.state = "CLOSED" -> {} [] h.reports -> listening[u] \ {"fire_hire"} [] OTHER -> listening[u]]
  BY DEF ConnectorEvent, Typed, ConnectorsOK
<1>4. IF h.reports /\ Counted(u)
      THEN /\ connectList' = connectList \ (IF state = "SUPPLIERS?" THEN {u} ELSE {})
           /\ dismissResults' = dismissResults + (IF state = "FIRE_MANY" THEN 1 ELSE 0)
      ELSE UNCHANGED <<connectList, dismissResults>>
  BY DEF ConnectorEvent
<1>5. queue' = IF ~ h.reports THEN q
               ELSE q \o (IF Counted(u) THEN <<Hire("supplier-state-changed", <<u>>)>> ELSE <<>>)
                      \o FoundOne(u, h.state)
  BY DEF ConnectorEvent, Posts
<1>6. UNCHANGED <<state, needRestart, configs, dismissList, restartTask, finder, suppliers, asked, reports>>
  BY DEF ConnectorEvent
<1>7. h.state \in ConnectorStates /\ h.leaving \in BOOLEAN /\ h.reports \in BOOLEAN
  BY <1>1 DEF Handled
<1> HIDE DEF h
<1>8. ConnectorsOK'
  <2>1. Connector(h.state, h.leaving) \in ConnectorType
    BY <1>7, ConnectorTyped
  <2>2. sc' \in [User -> ConnectorType]
    BY <1>2, <2>1 DEF Typed, ConnectorsOK
  <2>3. listening' \in [User -> SUBSET {"fire_hire", "supplier_finder"}]
    BY <1>3 DEF Typed, ConnectorsOK
  <2> QED  BY <2>2, <2>3 DEF ConnectorsOK
<1>9. CycleOK'
  <2>1. connectList' \subseteq User /\ dismissResults' \in Nat
    BY <1>4 DEF Typed, CycleOK
  <2> QED  BY <1>6, <2>1 DEF Typed, CycleOK
<1>10. queue' \in Seq(Message) /\ (Asks(queue') <=> Asks(q))
  <2> DEFINE p == IF Counted(u) THEN <<Hire("supplier-state-changed", <<u>>)>> ELSE <<>>
  <2>1. p \in Seq(Calm)
    <3>1. Hire("supplier-state-changed", <<u>>) \in Calm
      BY CalmEvents
    <3> HIDE DEF Calm
    <3>2. <<Hire("supplier-state-changed", <<u>>)>> \in Seq(Calm) /\ <<>> \in Seq(Calm)
      BY <3>1
    <3> QED  BY <3>2
  <2>2. queue' = IF ~ h.reports THEN q ELSE (q \o p) \o FoundOne(u, h.state)
    BY <1>5
  <2> HIDE DEF p
  <2>3. q \o p \in Seq(Message) /\ (Asks(q \o p) <=> Asks(q))
    BY <2>1, Posting
  <2>4. /\ (q \o p) \o FoundOne(u, h.state) \in Seq(Message)
        /\ Asks((q \o p) \o FoundOne(u, h.state)) <=> Asks(q \o p)
    BY <2>3, FoundType, Posting
  <2> QED  BY <2>2, <2>3, <2>4
<1>11. FinderOK' /\ AskedOK'
  BY <1>6 DEF Typed, FinderOK, AskedOK, asked
<1> QED  BY <1>6, <1>8, <1>9, <1>10, <1>11 DEF Typed, CycleKept

-----------------------------------------------------------------------------
(* The search for a supplier.                                              *)

FinderType == [state : {"AT_STARTUP", "RANDOM_USER", "ACK?", "SERVICE?"}, target : People, attempts : 0 .. MaxAttempts]

LEMMA NoFinderOK == ASSUME finder' = NoFinder PROVE FinderOK'
<1>1. NoFinder \in FinderType
  BY NumbersAssumption DEF NoFinder, FinderType, People
<1> QED  BY <1>1 DEF FinderOK, FinderType, NoFinder

LEMMA FinderGoesOn ==
  ASSUME FinderOK, NEW s \in {"RANDOM_USER", "SERVICE?"}, Finder(s),
         s = "RANDOM_USER" => finder.attempts < MaxAttempts, s = "SERVICE?" => finder.target \in User
  PROVE  FinderOK'
<1>1. finder \in FinderType
  BY DEF FinderOK, FinderType
<1>2. finder' = [state |-> s, target |-> finder.target, attempts |-> finder.attempts]
  BY <1>1 DEF Finder, FinderType
<1> QED  BY <1>1, <1>2 DEF FinderOK, FinderType

(* What a step of the finder leaves as it was, and that it may only end,   *)
(* go on, or stop listening to its target.                                 *)
FinderStepOK(q) ==
  /\ FinderOK' /\ ConnectorsOK' /\ toHire' \in Seq(User)
  /\ queue' \in Seq(Message) /\ (Asks(queue') <=> Asks(q))

LEMMA FailedType ==
  ASSUME Typed, NEW q \in Seq(Message), Failed(q)
  PROVE  FinderStepOK(q)
<1>1. FinderOK'
  BY NoFinderOK DEF Failed
<1>2. ConnectorsOK'
  BY ForgetsType DEF Failed, Typed, ConnectorsOK
<1>3. queue' \in Seq(Message) /\ (Asks(queue') <=> Asks(q))
  BY CalmEvents, PostingOne DEF Failed, Posts
<1> QED  BY <1>1, <1>2, <1>3 DEF Failed, FinderStepOK, Typed, AskedOK

LEMMA NextAttemptType ==
  ASSUME Typed, NEW q \in Seq(Message), NextAttempt(q)
  PROVE  FinderStepOK(q)
<1>1. CASE finder.attempts < MaxAttempts
  <2>1. Finder("RANDOM_USER") /\ queue' = q /\ UNCHANGED <<sc, listening, toHire>>
    BY <1>1 DEF NextAttempt, Posts
  <2>2. FinderOK'
    BY <1>1, <2>1, FinderGoesOn DEF Typed
  <2> QED  BY <2>1, <2>2 DEF FinderStepOK, Typed, ConnectorsOK, AskedOK
<1>2. CASE ~ (finder.attempts < MaxAttempts)
  BY <1>2, FailedType DEF NextAttempt
<1> QED  BY <1>1, <1>2

LEMMA FinderStartType ==
  ASSUME Typed, NEW q \in Seq(Message), FinderStart(q)
  PROVE  FinderStepOK(q)
<1>1. FinderOK' /\ toHire' \in Seq(User)
  <2>1. CASE toHire = <<>>
    <3>1. finder' = [state |-> "RANDOM_USER", target |-> None, attempts |-> 0]
      BY <2>1 DEF FinderStart, NoFinder
    <3> QED  BY <2>1, <3>1, NumbersAssumption DEF FinderStart, FinderOK, People, Typed, AskedOK
  <2>2. CASE toHire # <<>>
    <3>1. Len(toHire) \in Nat /\ Len(toHire) # 0 /\ toHire \in Seq(User) /\ \A i \in 1..Len(toHire) : toHire[i] \in User
      BY <2>2, LenProperties, EmptySeq, ElementOfSeq DEF Typed, AskedOK
    <3>2. Last(toHire) \in User
      BY <3>1 DEF Last
    <3>3. Front(toHire) \in Seq(User)
      <4> DEFINE n == Len(toHire) - 1
      <4>1. n \in Int /\ \A i \in 1..n : toHire[i] \in User
        BY <3>1
      <4>2. Front(toHire) = SubSeq(toHire, 1, n)
        BY DEF Front
      <4> HIDE DEF n
      <4>3. SubSeq(toHire, 1, n) \in Seq(User)
        BY <4>1, SubSeqProperties
      <4> QED  BY <4>2, <4>3
    <3>4. finder' = [state |-> "ACK?", target |-> Last(toHire), attempts |-> 1] /\ toHire' = Front(toHire)
      BY <2>2 DEF FinderStart
    <3> QED  BY <3>2, <3>3, <3>4, NumbersAssumption DEF FinderOK, People
  <2> QED  BY <2>1, <2>2
<1>2. ConnectorsOK' /\ queue' = q
  BY DEF FinderStart, Posts, Typed, ConnectorsOK
<1> QED  BY <1>1, <1>2 DEF FinderStepOK

LEMMA FinderStepTyped ==
  ASSUME Typed, NEW q, FinderStepOK(q),
         UNCHANGED <<state, needRestart, configs, lists, restartTask, suppliers, toFire, desired, reports>>
  PROVE  Typed' /\ CycleKept /\ (Asks(queue') <=> Asks(q))
  BY DEF FinderStepOK, Typed, CycleOK, AskedOK, CycleKept, lists

LEMMA FinderEventType ==
  ASSUME Typed, NEW e, NEW q \in Seq(Message), FinderEvent(e, q)
  PROVE  Typed' /\ CycleKept /\ (Asks(queue') <=> Asks(q))
<1>1. CASE e = "start" /\ finder.state = "AT_STARTUP"
  BY <1>1, FinderStartType, FinderStepTyped DEF FinderEvent
<1>2. CASE e = "supplier-connected" /\ finder.state = "SERVICE?"
  <2>1. /\ finder' = NoFinder /\ listening' = Forgets /\ UNCHANGED <<sc, toHire>>
        /\ queue' = q \o <<Hire("supplier-connected", <<finder.target>>)>>
    BY <1>2 DEF FinderEvent, Posts
  <2>2. Hire("supplier-connected", <<finder.target>>) \in Calm
    BY <1>2, CalmEvents DEF Typed, FinderOK
  <2>3. queue' \in Seq(Message) /\ (Asks(queue') <=> Asks(q))
    BY <2>1, <2>2, PostingOne
  <2>4. FinderOK' /\ ConnectorsOK'
    BY <2>1, NoFinderOK, ForgetsType DEF Typed, ConnectorsOK
  <2>5. FinderStepOK(q)
    BY <2>1, <2>3, <2>4 DEF FinderStepOK, Typed, AskedOK
  <2> QED  BY <2>5, FinderStepTyped DEF FinderEvent
<1>3. CASE e = "supplier-not-connected" /\ finder.state = "SERVICE?"
  BY <1>3, NextAttemptType, FinderStepTyped DEF FinderEvent
<1>4. CASE /\ ~ (e = "start" /\ finder.state = "AT_STARTUP")
           /\ ~ (e = "supplier-connected" /\ finder.state = "SERVICE?")
           /\ ~ (e = "supplier-not-connected" /\ finder.state = "SERVICE?")
  <2>1. queue' = q /\ UNCHANGED <<finder, sc, listening, toHire>>
    BY <1>4 DEF FinderEvent, Posts
  <2>2. FinderStepOK(q)
    BY <2>1 DEF FinderStepOK, Typed, FinderOK, ConnectorsOK, AskedOK
  <2> QED  BY <2>2, FinderStepTyped DEF FinderEvent
<1> QED  BY <1>1, <1>2, <1>3, <1>4

(* What the DHT, the target and the timer of the finder do.                *)
FinderOutside == TimerFinder \/ UsersNotFound \/ TargetAcked \/ \E u \in User : UserFound(u)

LEMMA FinderOutsideType ==
  ASSUME Typed, FinderOutside
  PROVE  Typed' /\ CycleKept /\ (Asks(queue') <=> Asks(queue)) /\ UNCHANGED changed
<1>0. ASSUME FinderRest PROVE UNCHANGED <<state, needRestart, configs, lists, restartTask, suppliers, toFire, desired, reports, changed>>
  BY <1>0 DEF FinderRest
<1>1. CASE TimerFinder
  <2>1. FinderStepOK(queue)
    BY <1>1, NextAttemptType DEF TimerFinder, Typed
  <2> QED  BY <1>0, <1>1, <2>1, FinderStepTyped DEF TimerFinder
<1>2. CASE UsersNotFound
  <2>1. FinderStepOK(queue)
    BY <1>2, FailedType DEF UsersNotFound, Typed
  <2> QED  BY <1>0, <1>2, <2>1, FinderStepTyped DEF UsersNotFound
<1>3. CASE TargetAcked
  <2>1. finder.target \in User
    BY <1>3 DEF TargetAcked, Typed, FinderOK
  <2>2. FinderOK'
    <3>1. Finder("SERVICE?")
      BY <1>3 DEF TargetAcked
    <3> QED  BY <2>1, <3>1, FinderGoesOn DEF Typed
  <2>3. ConnectorsOK'
    BY <1>3, CreatedType, ListeningType DEF TargetAcked, Typed, ConnectorsOK
  <2>4. queue' \in Seq(Message) /\ (Asks(queue') <=> Asks(queue))
    <3>1. queue' = Append(queue, Tell(finder.target, "connect"))
      BY <1>3 DEF TargetAcked, Queued
    <3>2. Tell(finder.target, "connect") \in Calm /\ Tell(finder.target, "connect") \in Message
      BY <2>1, CalmEvents DEF Calm
    <3>3. queue \in Seq(Message)
      BY DEF Typed
    <3> HIDE DEF Message, Calm
    <3>4. Append(queue, Tell(finder.target, "connect")) = queue \o <<Tell(finder.target, "connect")>>
      BY <3>2, <3>3, AppendIsConcat
    <3> QED  BY <3>1, <3>2, <3>3, <3>4, PostingOne
  <2>5. FinderStepOK(queue)
    BY <1>3, <2>2, <2>3, <2>4 DEF TargetAcked, FinderStepOK, Typed, AskedOK
  <2> QED  BY <1>0, <1>3, <2>5, FinderStepTyped DEF TargetAcked
<1>4. ASSUME NEW u \in User, UserFound(u) PROVE Typed' /\ CycleKept /\ (Asks(queue') <=> Asks(queue)) /\ UNCHANGED changed
  <2>1. finder' = [state |-> "ACK?", target |-> u, attempts |-> finder.attempts + 1]
    BY <1>4 DEF UserFound
  <2>2. finder.attempts + 1 \in 0..MaxAttempts
    BY <1>4, NumbersAssumption DEF UserFound, Typed, FinderOK
  <2>3. FinderOK'
    BY <2>1, <2>2 DEF FinderOK, People
  <2>4. ConnectorsOK'
    BY <1>4, ForgetsType DEF UserFound, Typed, ConnectorsOK
  <2>5. FinderStepOK(queue)
    BY <1>4, <2>3, <2>4 DEF UserFound, FinderStepOK, Typed, AskedOK
  <2> QED  BY <1>0, <1>4, <2>5, FinderStepTyped DEF UserFound
<1> QED  BY <1>1, <1>2, <1>3, <1>4 DEF FinderOutside

-----------------------------------------------------------------------------
(* The events of fire_hire keep the types, and ask for another cycle no    *)
(* more than the events that are left.                                     *)

Leaves(q) == Typed' /\ (Asks(queue') <=> Asks(q))

LEMMA LeavesIf ==
  ASSUME NEW q \in Seq(Message), NEW p \in Seq(Calm), queue' = q \o p,
         FinderOK', CycleOK', ConnectorsOK', AskedOK'
  PROVE  Leaves(q)
  BY Posting DEF Leaves, Typed

LEMMA LeavesOne ==
  ASSUME NEW q \in Seq(Message), NEW m \in Calm, queue' = q \o <<m>>,
         FinderOK', CycleOK', ConnectorsOK', AskedOK'
  PROVE  Leaves(q)
  BY PostingOne DEF Leaves, Typed

LEMMA DecisionLeaves ==
  ASSUME Typed, NEW q \in Seq(Message), DecideToDismiss(q), FinderOK', CycleOK', ConnectorsOK'
  PROVE  Leaves(q)
<1>1. PICK d \in Seq(User) : queue' = q \o <<Hire("made-decision", d)>>
  BY DecisionType
<1>2. Hire("made-decision", d) \in Calm
  BY CalmEvents
<1>3. AskedOK'
  BY DecisionType
<1> QED  BY <1>1, <1>2, <1>3, LeavesOne

LEMMA RestartInReadyType ==
  ASSUME Typed, NEW q \in Seq(Message), RestartInReady(q)
  PROVE  Leaves(q) /\ UNCHANGED <<suppliers, reports>> /\ state' \in {"SUPPLIERS?", "DECISION?"}
<1>1. UNCHANGED <<restartTask, finder, suppliers, reports>> /\ needRestart' = FALSE
  BY DEF RestartInReady
<1>2. FinderOK'
  BY <1>1 DEF Typed, FinderOK
<1>3. Mine \in SUBSET User /\ desired \in Numbers
  BY MineType DEF Typed, AskedOK
<1>4. CASE IsConfigChanged /\ Mine # {}
  <2>1. /\ state' = "SUPPLIERS?" /\ configs' = desired
        /\ connectList' = Mine /\ sc' = Created(Mine) /\ listening' = Listening(Mine, "fire_hire")
        /\ queue' = q \o TellAll(Among(suppliers, Mine), "connect")
        /\ UNCHANGED <<asked, dismissList, dismissResults>>
    BY <1>4 DEF RestartInReady, Posts
  <2>2. CycleOK'
    BY <1>1, <1>3, <2>1 DEF Typed, CycleOK, States
  <2>3. ConnectorsOK'
    BY <2>1, CreatedType, ListeningType DEF Typed, ConnectorsOK
  <2>4. AskedOK'
    BY <2>1 DEF Typed, AskedOK, asked
  <2>5. TellAll(Among(suppliers, Mine), "connect") \in Seq(Calm)
    BY <1>3, AmongUsers, TellAllType DEF Typed, CycleOK
  <2> QED  BY <1>1, <1>2, <2>1, <2>2, <2>3, <2>4, <2>5, LeavesIf
<1>5. CASE ~ (IsConfigChanged /\ Mine # {})
  <2>1. state' = "DECISION?" /\ DecideToDismiss(q) /\ UNCHANGED <<configs, lists, sc, listening>>
    BY <1>5 DEF RestartInReady
  <2>2. CycleOK' /\ ConnectorsOK'
    BY <1>1, <2>1 DEF Typed, CycleOK, ConnectorsOK, States, lists
  <2> QED  BY <1>1, <1>2, <2>1, <2>2, DecisionLeaves
<1> QED  BY <1>4, <1>5

LEMMA RestartLaterType ==
  ASSUME Typed, NEW q \in Seq(Message), RestartLater(q)
  PROVE  Leaves(q)
  BY DEF RestartLater, Posts, Leaves, Typed, FinderOK, CycleOK, ConnectorsOK, AskedOK, lists, asked

LEMMA IgnoredType ==
  ASSUME Typed, NEW q \in Seq(Message), Ignored(q)
  PROVE  Leaves(q)
  BY DEF Ignored, Posts, Leaves, Typed, FinderOK, CycleOK, ConnectorsOK, AskedOK, lists, asked

LEMMA DisconnectLeaves ==
  ASSUME Typed, NEW d \in Seq(User), NEW q \in Seq(Message), DisconnectSuppliers(d, q),
         UNCHANGED <<finder, sc, asked, needRestart, configs, connectList, reports>>,
         state' \in States, restartTask' \in BOOLEAN, dismissList' \in Seq(User), suppliers' \in Seq(People)
  PROVE  Leaves(q)
<1>1. /\ dismissResults' = 0 /\ listening' = Listening(ToSet(d) \cap Existing, "fire_hire")
      /\ queue' = q \o TellAll(Among(d, Existing), "disconnect")
  BY DEF DisconnectSuppliers, Posts
<1>2. CycleOK'
  BY <1>1 DEF Typed, CycleOK
<1>3. ConnectorsOK'
  BY <1>1, ListeningType DEF Typed, ConnectorsOK
<1>4. FinderOK' /\ AskedOK'
  BY DEF Typed, FinderOK, AskedOK, asked
<1>5. TellAll(Among(d, Existing), "disconnect") \in Seq(Calm)
  <2>1. Existing \in SUBSET User /\ d \in Seq(People)
    <3>1. User \subseteq People
      BY DEF People
    <3> QED  BY <3>1, SeqMonotonic DEF Existing
  <2> QED  BY <2>1, AmongUsers, TellAllType
<1> QED  BY <1>1, <1>2, <1>3, <1>4, <1>5, LeavesIf

LEMMA ReadyLeaves ==
  ASSUME Typed, NEW r \in Ends, NEW q \in Seq(Message), Ready(r, q),
         UNCHANGED <<finder, sc, listening, asked, needRestart, configs, connectList, restartTask>>,
         dismissList' \in Seq(User), suppliers' \in Seq(People)
  PROVE  Leaves(q)
<1>1. /\ state' = "READY" /\ reports' = Append(reports, r) /\ dismissResults' = 0
      /\ queue' = q \o <<Hire("instant", <<>>)>>
  BY DEF Ready, Posts
<1>2. CycleOK'
  <2>1. reports' \in Seq(Ends)
    BY <1>1, AppendProperties DEF Typed, CycleOK
  <2> QED  BY <1>1, <2>1 DEF Typed, CycleOK, States
<1>3. FinderOK' /\ ConnectorsOK' /\ AskedOK'
  BY DEF Typed, FinderOK, ConnectorsOK, AskedOK, asked
<1> QED  BY <1>1, <1>2, <1>3, CalmEvents, LeavesOne

-----------------------------------------------------------------------------
(* What the decision, the search, the reports and the timer lead to.       *)

Reports(r) == state' = "READY" /\ reports' = Append(reports, r)

LEMMA MadeDecisionType ==
  ASSUME Typed, NEW d \in Seq(User), NEW q \in Seq(Message), MadeDecision(d, q)
  PROVE  /\ Leaves(q) /\ UNCHANGED <<needRestart, restartTask>>
         /\ \/ state' = "HIRE_ONE" /\ UNCHANGED <<suppliers, reports>>
            \/ state' = "FIRE_MANY" /\ UNCHANGED reports
            \/ Reports("fire-hire-finished") /\ UNCHANGED suppliers
<1>1. UNCHANGED <<needRestart, configs, connectList, restartTask, finder, sc, asked>>
  BY DEF MadeDecision
<1>2. FinderOK' /\ AskedOK'
  BY <1>1 DEF Typed, FinderOK, AskedOK, asked
<1>3. CASE IsMoreNeeded(d)
  <2>1. /\ state' = "HIRE_ONE" /\ dismissList' = d /\ queue' = q \o <<Find("start")>>
        /\ UNCHANGED <<dismissResults, listening, suppliers, reports>>
    BY <1>3 DEF MadeDecision, Posts
  <2>2. CycleOK' /\ ConnectorsOK'
    BY <1>1, <2>1 DEF Typed, CycleOK, ConnectorsOK, States
  <2> QED  BY <1>1, <1>2, <2>1, <2>2, CalmEvents, LeavesOne
<1>4. CASE ~ IsMoreNeeded(d) /\ d # <<>>
  <2>1. /\ state' = "FIRE_MANY" /\ dismissList' = d /\ suppliers' = Removed(d)
        /\ DisconnectSuppliers(d, q) /\ UNCHANGED reports
    BY <1>4 DEF MadeDecision
  <2>2. state' \in States /\ restartTask' \in BOOLEAN /\ suppliers' \in Seq(People)
    BY <1>1, <2>1, RemovedType DEF Typed, CycleOK, States
  <2> QED  BY <1>1, <2>1, <2>2, DisconnectLeaves
<1>5. CASE ~ IsMoreNeeded(d) /\ d = <<>>
  <2>1. Ready("fire-hire-finished", q) /\ UNCHANGED <<dismissList, listening, suppliers>>
    BY <1>5 DEF MadeDecision
  <2>2. dismissList' \in Seq(User) /\ suppliers' \in Seq(People) /\ "fire-hire-finished" \in Ends
    BY <2>1 DEF Typed, CycleOK, Ends
  <2> QED  BY <1>1, <2>1, <2>2, ReadyLeaves DEF Ready, Reports
<1> QED  BY <1>3, <1>4, <1>5

LEMMA SupplierConnectedType ==
  ASSUME Typed, state = "HIRE_ONE", NEW u \in User, NEW q \in Seq(Message), SupplierConnected(u, q)
  PROVE  /\ Leaves(q) /\ UNCHANGED <<needRestart, restartTask, dismissList>> /\ suppliers' = Substituted(u)
         /\ \/ UNCHANGED <<state, reports>>
            \/ state' = "FIRE_MANY" /\ UNCHANGED reports
            \/ Reports("suppliers-changed")
<1>1. /\ UNCHANGED <<needRestart, configs, connectList, dismissList, restartTask, finder, sc, asked>>
      /\ suppliers' = Substituted(u)
  BY DEF SupplierConnected
<1>2. /\ suppliers' \in Seq(People) /\ dismissList \in Seq(User) /\ dismissList' \in Seq(User)
      /\ restartTask' \in BOOLEAN
  BY <1>1, SubstitutedType DEF Typed, CycleOK
<1>3. FinderOK' /\ AskedOK'
  BY <1>1 DEF Typed, FinderOK, AskedOK, asked
<1>4. CASE IsStillNeeded(u)
  <2>1. queue' = q \o <<Find("start")>> /\ UNCHANGED <<state, dismissResults, listening, reports>>
    BY <1>4 DEF SupplierConnected, Posts
  <2>2. CycleOK' /\ ConnectorsOK'
    BY <1>1, <1>2, <2>1 DEF Typed, CycleOK, ConnectorsOK
  <2> QED  BY <1>1, <1>3, <2>1, <2>2, CalmEvents, LeavesOne
<1>5. CASE ~ IsStillNeeded(u) /\ dismissList # <<>>
  <2>1. state' = "FIRE_MANY" /\ DisconnectSuppliers(dismissList, q) /\ UNCHANGED reports
    BY <1>5 DEF SupplierConnected
  <2>2. state' \in States
    BY <2>1 DEF States
  <2> QED  BY <1>1, <1>2, <2>1, <2>2, DisconnectLeaves
<1>6. CASE ~ IsStillNeeded(u) /\ dismissList = <<>>
  <2>1. Ready("suppliers-changed", q) /\ UNCHANGED listening
    BY <1>6 DEF SupplierConnected
  <2>2. "suppliers-changed" \in Ends
    BY DEF Ends
  <2> QED  BY <1>1, <1>2, <2>1, <2>2, ReadyLeaves DEF Ready, Reports
<1> QED  BY <1>4, <1>5, <1>6

LEMMA SearchFailedType ==
  ASSUME Typed, NEW q \in Seq(Message), SearchFailed(q)
  PROVE  /\ Leaves(q) /\ restartTask' /\ UNCHANGED <<needRestart, reports>>
         /\ \/ dismissList = <<>> /\ state' = "READY" /\ UNCHANGED suppliers
            \/ state' = "FIRE_MANY"
<1>1. UNCHANGED <<needRestart, configs, connectList, dismissList, finder, sc, asked, reports>> /\ restartTask' = TRUE
  BY DEF SearchFailed, ScheduleNextRestart
<1>2. dismissList \in Seq(User) /\ dismissList' \in Seq(User) /\ restartTask' \in BOOLEAN
  BY <1>1 DEF Typed, CycleOK
<1>3. CASE dismissList = <<>>
  <2>1. /\ state' = "READY" /\ queue' = q \o <<Hire("instant", <<>>)>>
        /\ UNCHANGED <<dismissResults, listening, suppliers>>
    BY <1>3 DEF SearchFailed, Posts
  <2>2. CycleOK' /\ ConnectorsOK' /\ FinderOK' /\ AskedOK'
    BY <1>1, <2>1 DEF Typed, CycleOK, ConnectorsOK, FinderOK, AskedOK, asked, States
  <2> QED  BY <1>1, <1>3, <2>1, <2>2, CalmEvents, LeavesOne
<1>4. CASE dismissList # <<>>
  <2>1. state' = "FIRE_MANY" /\ suppliers' = Removed(dismissList) /\ DisconnectSuppliers(dismissList, q)
    BY <1>4 DEF SearchFailed
  <2>2. state' \in States /\ suppliers' \in Seq(People)
    BY <2>1, RemovedType DEF States
  <2> QED  BY <1>1, <1>2, <2>1, <2>2, DisconnectLeaves
<1> QED  BY <1>3, <1>4

LEMMA DismissedReportedType ==
  ASSUME Typed, NEW u \in User, NEW q \in Seq(Message), DismissedReported(u, q)
  PROVE  /\ Leaves(q) /\ UNCHANGED <<needRestart, restartTask, suppliers>>
         /\ UNCHANGED <<state, reports>> \/ Reports("suppliers-changed")
<1>1. UNCHANGED <<needRestart, configs, connectList, restartTask, finder, sc, listening, suppliers, asked>>
  BY DEF DismissedReported
<1>2. Tell(u, "shutdown") \in Calm
  BY CalmEvents
<1>3. q \o <<Tell(u, "shutdown")>> \in Seq(Message) /\ (Asks(q \o <<Tell(u, "shutdown")>>) <=> Asks(q))
  BY <1>2, PostingOne
<1>4. suppliers' \in Seq(People)
  BY <1>1 DEF Typed, CycleOK
<1>5. CASE Len(dismissList) = dismissResults
  <2>1. dismissList' = <<>> /\ Ready("suppliers-changed", q \o <<Tell(u, "shutdown")>>)
    BY <1>5 DEF DismissedReported, ClearDismissList
  <2>2. dismissList' \in Seq(User) /\ "suppliers-changed" \in Ends
    BY <2>1 DEF Ends
  <2>3. Leaves(q \o <<Tell(u, "shutdown")>>)
    BY <1>1, <1>3, <1>4, <2>1, <2>2, ReadyLeaves
  <2> QED  BY <1>1, <1>3, <2>1, <2>3 DEF Leaves, Ready, Reports
<1>6. CASE Len(dismissList) # dismissResults
  <2>1. /\ dismissList' = Among(dismissList, User \ {u}) /\ queue' = q \o <<Tell(u, "shutdown")>>
        /\ UNCHANGED <<state, reports, dismissResults>>
    BY <1>6 DEF DismissedReported, Posts
  <2>2. dismissList' \in Seq(User)
    <3>1. Among(dismissList, User \ {u}) \in Seq(User \cap (User \ {u}))
      BY AmongType DEF Typed, CycleOK
    <3> QED  BY <2>1, <3>1, SeqMonotonic
  <2>3. CycleOK' /\ ConnectorsOK' /\ FinderOK' /\ AskedOK'
    BY <1>1, <2>1, <2>2 DEF Typed, CycleOK, ConnectorsOK, FinderOK, AskedOK, asked
  <2> QED  BY <1>1, <1>2, <2>1, <2>3, LeavesOne
<1> QED  BY <1>5, <1>6

LEMMA ConnectReportedType ==
  ASSUME Typed, NEW q \in Seq(Message), ConnectReported(q)
  PROVE  /\ Leaves(q) /\ UNCHANGED <<needRestart, restartTask, suppliers, reports>>
         /\ state' \in {state, "DECISION?"}
<1>1. UNCHANGED <<needRestart, configs, lists, restartTask, finder, sc, listening, suppliers, reports>>
  BY DEF ConnectReported
<1>2. state' \in {state, "DECISION?"}
  BY DEF ConnectReported
<1>3. CycleOK' /\ ConnectorsOK' /\ FinderOK'
  BY <1>1, <1>2 DEF Typed, CycleOK, ConnectorsOK, FinderOK, lists, States
<1>4. Leaves(q)
  <2>1. CASE connectList = {}
    BY <1>3, <2>1, DecisionLeaves DEF ConnectReported
  <2>2. CASE connectList # {}
    <3>1. queue' = q /\ UNCHANGED asked
      BY <2>2 DEF ConnectReported, Posts
    <3> QED  BY <1>3, <3>1 DEF Leaves, Typed, AskedOK, asked
  <2> QED  BY <2>1, <2>2
<1> QED  BY <1>1, <1>2, <1>4

LEMMA TimerFireHireType ==
  ASSUME Typed, TimerFireHire
  PROVE  /\ Leaves(queue) /\ UNCHANGED <<needRestart, restartTask, suppliers>>
         /\ \/ state = "FIRE_MANY" /\ Reports("suppliers-changed") /\ changed' = "nothing"
            \/ state = "SUPPLIERS?" /\ state' = "DECISION?" /\ UNCHANGED <<reports, changed>>
<1>1. queue = <<>> /\ UNCHANGED <<needRestart, configs, restartTask, finder, sc, listening, suppliers>>
  BY DEF TimerFireHire
<1>2. <<>> \in Seq(Message) /\ queue \in Seq(Message)
  BY <1>1
<1>3. CASE state = "FIRE_MANY"
  <2> DEFINE p == TellAll(EveryOther(dismissList), "shutdown")
  <2>1. dismissList' = <<>> /\ Ready("suppliers-changed", p) /\ changed' = "nothing" /\ UNCHANGED <<asked, connectList>>
    BY <1>3 DEF TimerFireHire, ClearDismissList
  <2>2. dismissList' \in Seq(User) /\ suppliers' \in Seq(People) /\ "suppliers-changed" \in Ends
    BY <1>1, <2>1 DEF Typed, CycleOK, Ends
  <2>3. p \in Seq(Calm)
    BY EveryOtherType, TellAllType
  <2> HIDE DEF p
  <2>4. p \in Seq(Message) /\ ~ Asks(p)
    <3> HIDE DEF Message, Calm
    <3>1. p \in Seq(Message)
      BY <2>3, SeqMonotonic DEF Calm
    <3>2. <<>> \o p = p
      BY <3>1, ConcatEmptySeq
    <3>3. Asks(<<>> \o p) <=> Asks(<<>>)
      BY <1>2, <2>3, Posting
    <3>4. ~ Asks(<<>>)
      BY DEF Asks
    <3> QED  BY <3>1, <3>2, <3>3, <3>4
  <2>5. Leaves(p)
    BY <1>1, <2>1, <2>2, <2>4, ReadyLeaves
  <2>6. ~ Asks(queue)
    BY <1>1 DEF Asks
  <2> QED  BY <1>1, <1>3, <2>1, <2>4, <2>5, <2>6 DEF Leaves, Ready, Reports
<1>4. CASE state # "FIRE_MANY"
  <2>1. /\ state = "SUPPLIERS?" /\ state' = "DECISION?" /\ connectList' = {} /\ DecideToDismiss(<<>>)
        /\ UNCHANGED <<dismissList, dismissResults, reports, changed>>
    BY <1>4 DEF TimerFireHire
  <2>2. CycleOK' /\ ConnectorsOK' /\ FinderOK'
    BY <1>1, <2>1 DEF Typed, CycleOK, ConnectorsOK, FinderOK, States
  <2>3. Leaves(<<>>)
    BY <1>2, <2>1, <2>2, DecisionLeaves
  <2> QED  BY <1>1, <2>1, <2>3
<1> QED  BY <1>3, <1>4

-----------------------------------------------------------------------------
(* What a step of fire_hire is for those who know Hiring alone.            *)

LEMMA EffectSame == \A s, c : Effect(s, s, c) = c
<1> SUFFICES ASSUME NEW s, NEW c PROVE Effect(s, s, c) = c
  OBVIOUS
<1>1. ToSet(s) \ (ToSet(s) \cup {None}) = {}
  OBVIOUS
<1> QED  BY <1>1 DEF Effect

LEMMA EffectType == \A s, t : \A c \in Effects : Effect(s, t, c) \in Effects
  BY DEF Effect, Effects

(* Who is hired while nobody is dismissed takes nobody's place.            *)
LEMMA SubstitutedFills ==
  ASSUME Typed, NEW u \in User, dismissList = <<>>
  PROVE  ToSet(suppliers) \subseteq ToSet(Substituted(u)) \cup {None}
<1> DEFINE free == {i \in DOMAIN suppliers : suppliers[i] \in ToSet(dismissList) \cup {None}}
           k == CHOOSE i \in free : \A j \in free : i <= j
<1>1. /\ suppliers \in Seq(People) /\ u \in People /\ Len(suppliers) \in Nat /\ DOMAIN suppliers = 1..Len(suppliers)
  BY LenProperties DEF Typed, CycleOK, People
<1>2. Substituted(u) = IF free = {} THEN Append(suppliers, u) ELSE [suppliers EXCEPT ![k] = u]
  BY DEF Substituted
<1>3. \A i \in free : suppliers[i] = None
  BY DEF ToSet
<1>4. CASE free = {}
  <2>1. /\ Substituted(u) = Append(suppliers, u) /\ DOMAIN Append(suppliers, u) = 1..(Len(suppliers) + 1)
        /\ \A i \in 1..Len(suppliers) : Append(suppliers, u)[i] = suppliers[i]
    BY <1>1, <1>2, <1>4, AppendProperties, LenProperties
  <2> HIDE DEF free
  <2>2. ASSUME NEW i \in DOMAIN suppliers
        PROVE  i \in DOMAIN Substituted(u) /\ Substituted(u)[i] = suppliers[i]
    BY <1>1, <2>1
  <2> QED  BY <2>2 DEF ToSet
<1>5. CASE free # {}
  <2>1. k \in free
    <3>1. free \in SUBSET Nat
      BY <1>1
    <3> HIDE DEF free
    <3>2. \E i \in free : \A j \in free : i <= j
      BY <1>5, <3>1, Least
    <3> QED  BY <3>2
  <2>2. Substituted(u) = [suppliers EXCEPT ![k] = u]
    BY <1>2, <1>5
  <2> HIDE DEF k
  <2>3. suppliers[k] = None
    BY <1>3, <2>1
  <2> HIDE DEF free
  <2>4. ASSUME NEW i \in DOMAIN suppliers, suppliers[i] # None
        PROVE  i \in DOMAIN Substituted(u) /\ Substituted(u)[i] = suppliers[i]
    BY <1>1, <2>2, <2>3, <2>4
  <2> QED  BY <2>4 DEF ToSet
<1> QED  BY <1>4, <1>5

AskedFor == restartTask \/ needRestart \/ Asks(queue)
Follows == [Abstract!HiringNext]_(Abstract!hiring)

LEMMA AsHiringKept ==
  ASSUME state' = "READY" <=> state = "READY", UNCHANGED <<suppliers, changed, reports>>, AskedFor' <=> AskedFor
  PROVE  Follows
  BY DEF Follows, Abstract!hiring, AskedFor, Asks

LEMMA AsHiringAsk ==
  ASSUME state' = "READY" <=> state = "READY", UNCHANGED <<suppliers, changed, reports>>, AskedFor'
  PROVE  Follows
  BY DEF Follows, Abstract!HiringNext, Abstract!Ask, AskedFor, Asks

LEMMA AsHiringStart ==
  ASSUME state = "READY", state' # "READY", UNCHANGED <<suppliers, changed, reports>>, AskedFor
  PROVE  Follows
  BY DEF Follows, Abstract!HiringNext, Abstract!Start, AskedFor, Asks

LEMMA AsHiringChange ==
  ASSUME Typed, Typed', state # "READY", state' # "READY", UNCHANGED reports, AskedFor => AskedFor',
         changed' = Effect(suppliers, suppliers', changed)
  PROVE  Follows
<1>1. CASE suppliers' = suppliers
  <2>1. changed' = changed
    BY <1>1, EffectSame
  <2> QED  BY <1>1, <2>1, AsHiringKept, AsHiringAsk
<1>2. CASE suppliers' # suppliers
  <2>1. suppliers' \in Seq(User \cup {None})
    BY DEF Typed, CycleOK, People
  <2>2. changed' = Abstract!Effect(suppliers, suppliers', changed)
    BY DEF Abstract!Effect, Abstract!None, Abstract!ToSet, Effect, None, ToSet
  <2>3. /\ (AskedFor)' \in {AskedFor, TRUE}
        /\ (state # "READY")' = (state # "READY")
    <3>1. needRestart \in BOOLEAN /\ needRestart' \in BOOLEAN /\ restartTask \in BOOLEAN /\ restartTask' \in BOOLEAN
      BY DEF Typed, CycleOK
    <3> QED  BY <3>1 DEF AskedFor, Asks
  <2>4. Abstract!Change
    BY <1>2, <2>1, <2>2, <2>3 DEF Abstract!Change, AskedFor, Asks
  <2> QED  BY <2>4 DEF Follows, Abstract!HiringNext
<1> QED  BY <1>1, <1>2

LEMMA AsHiringEnds ==
  ASSUME Typed, Typed', state # "READY", state' = "READY", changed' = "nothing"
  PROVE  /\ reports' = Append(reports, "suppliers-changed") /\ (AskedFor' <=> AskedFor) => Follows
         /\ /\ reports' = Append(reports, "fire-hire-finished") /\ (AskedFor' <=> AskedFor)
            /\ UNCHANGED suppliers /\ changed = "nothing"
            => Follows
         /\ UNCHANGED <<reports, suppliers>> /\ AskedFor' /\ changed # "replaced" => Follows
<1>1. Abstract!Ends
  BY DEF Abstract!Ends
<1>2. suppliers' \in Seq(User \cup {None})
  BY DEF Typed, CycleOK, People
<1>3. needRestart \in BOOLEAN /\ needRestart' \in BOOLEAN /\ restartTask \in BOOLEAN /\ restartTask' \in BOOLEAN
  BY DEF Typed, CycleOK
<1>4. ASSUME reports' = Append(reports, "suppliers-changed"), AskedFor' <=> AskedFor PROVE Follows
  <2>1. AskedFor' = AskedFor
    BY <1>3, <1>4 DEF AskedFor, Asks
  <2>2. Abstract!EndChanged
    BY <1>1, <1>2, <1>4, <2>1 DEF Abstract!EndChanged, Abstract!Report, AskedFor, Asks
  <2> QED  BY <2>2 DEF Follows, Abstract!HiringNext, Abstract!End
<1>5. ASSUME reports' = Append(reports, "fire-hire-finished"), AskedFor' <=> AskedFor, UNCHANGED suppliers, changed = "nothing"
      PROVE  Follows
  <2>1. AskedFor' = AskedFor
    BY <1>3, <1>5 DEF AskedFor, Asks
  <2>2. Abstract!EndFinished
    BY <1>1, <1>5, <2>1 DEF Abstract!EndFinished, Abstract!Report, AskedFor, Asks
  <2> QED  BY <2>2 DEF Follows, Abstract!HiringNext, Abstract!End
<1>6. ASSUME UNCHANGED <<reports, suppliers>>, AskedFor', changed # "replaced" PROVE Follows
  <2>1. Abstract!EndFailed
    BY <1>1, <1>6 DEF Abstract!EndFailed, AskedFor, Asks
  <2> QED  BY <2>1 DEF Follows, Abstract!HiringNext, Abstract!End
<1> QED  BY <1>4, <1>5, <1>6

LEMMA AsHiringTake ==
  ASSUME MonitorTakes
  PROVE  Follows
<1>1. Abstract!Take
  BY DEF Abstract!Take, MonitorTakes
<1> QED  BY <1>1 DEF Follows, Abstract!HiringNext

-----------------------------------------------------------------------------
(* The invariant: a cycle has changed nothing before its decision, and     *)
(* while it hires, with nobody to dismiss, it has only filled positions.   *)

CycleChanges ==
  /\ changed \in Effects
  /\ state \in {"READY", "SUPPLIERS?", "DECISION?"} => changed = "nothing"
  /\ state = "HIRE_ONE" /\ dismissList = <<>> => changed # "replaced"

Inv == Typed /\ CycleChanges
Keeps == Inv' /\ Follows

NowChanged == changed' = IF state' = "READY" THEN "nothing" ELSE Effect(suppliers, suppliers', changed)

LEMMA SameCycle ==
  ASSUME Inv, Typed', CycleKept, UNCHANGED <<changed, dismissList>>, AskedFor => AskedFor'
  PROVE  Keeps
<1>1. CycleChanges'
  BY DEF Inv, CycleChanges, CycleKept
<1>2. Follows
  BY AsHiringKept, AsHiringAsk DEF CycleKept
<1> QED  BY <1>1, <1>2 DEF Inv, Keeps

LEMMA NowChangedType ==
  ASSUME Inv, NowChanged
  PROVE  /\ changed' \in Effects
         /\ state' = "READY" => changed' = "nothing"
         /\ state' # "READY" => changed' = Effect(suppliers, suppliers', changed)
         /\ UNCHANGED suppliers /\ state' # "READY" => changed' = changed
<1>1. "nothing" \in Effects
  BY DEF Effects
<1> QED  BY <1>1, EffectSame, EffectType DEF NowChanged, Inv, CycleChanges

(* The events of fire_hire, in the states that handle them.                *)
LEMMA FireHireEventKeeps ==
  ASSUME Inv, NEW e, NEW who, NEW q \in Seq(Message), FireHireEvent(e, who, q), NowChanged,
         e = "made-decision" => who \in Seq(User),
         e \in {"supplier-connected", "supplier-state-changed"} => who[1] \in User,
         Asks(queue) <=> e = "restart" \/ Asks(q)
  PROVE  Keeps
<1>0. Typed /\ CycleChanges /\ state \in States
  BY DEF Inv, Typed, CycleOK
<1>1. /\ changed' \in Effects
      /\ state' = "READY" => changed' = "nothing"
      /\ state' # "READY" => changed' = Effect(suppliers, suppliers', changed)
      /\ UNCHANGED suppliers /\ state' # "READY" => changed' = changed
  BY NowChangedType
<1>2. ASSUME state = "READY", RestartInReady(q), AskedFor PROVE Keeps
  <2>1. Leaves(q) /\ UNCHANGED <<suppliers, reports>> /\ state' \in {"SUPPLIERS?", "DECISION?"}
    BY <1>0, <1>2, RestartInReadyType
  <2>2. changed' = changed
    BY <1>1, <2>1
  <2>3. Follows
    BY <1>2, <2>1, <2>2, AsHiringStart
  <2>4. CycleChanges'
    BY <1>0, <1>1, <1>2, <2>1, <2>2 DEF CycleChanges
  <2> QED  BY <2>1, <2>3, <2>4 DEF Keeps, Inv, Leaves
<1>3. CASE e = "restart" /\ state = "READY"
  BY <1>2, <1>3 DEF FireHireEvent, AskedFor
<1>4. CASE e = "instant" /\ state = "READY" /\ needRestart
  BY <1>2, <1>4 DEF FireHireEvent, AskedFor
<1>5. CASE e = "restart" /\ state # "READY"
  <2>1. RestartLater(q)
    BY <1>5 DEF FireHireEvent
  <2>2. Leaves(q)
    BY <1>0, <2>1, RestartLaterType
  <2>3. needRestart' = TRUE /\ UNCHANGED <<state, suppliers, reports, dismissList>>
    BY <2>1 DEF RestartLater, lists
  <2>4. changed' = changed
    BY <1>1, <1>5, <2>3
  <2>5. Follows
    BY <2>3, <2>4, AsHiringAsk DEF AskedFor
  <2>6. CycleChanges'
    BY <1>0, <2>3, <2>4 DEF CycleChanges
  <2> QED  BY <2>2, <2>5, <2>6 DEF Keeps, Inv, Leaves
<1>6. CASE e = "made-decision" /\ state = "DECISION?"
  <2>1. /\ Leaves(q) /\ UNCHANGED <<needRestart, restartTask>>
        /\ \/ state' = "HIRE_ONE" /\ UNCHANGED <<suppliers, reports>>
           \/ state' = "FIRE_MANY" /\ UNCHANGED reports
           \/ Reports("fire-hire-finished") /\ UNCHANGED suppliers
    BY <1>0, <1>6, MadeDecisionType DEF FireHireEvent
  <2>2. (AskedFor' <=> AskedFor) /\ changed = "nothing" /\ Typed'
    BY <1>0, <1>6, <2>1 DEF AskedFor, Leaves, CycleChanges
  <2>3. CASE state' = "HIRE_ONE" /\ UNCHANGED <<suppliers, reports>>
    <3>1. changed' = changed
      BY <1>1, <2>3
    <3>2. Follows
      BY <1>6, <2>2, <2>3, <3>1, AsHiringKept
    <3> QED  BY <1>1, <2>2, <2>3, <3>1, <3>2 DEF Keeps, Inv, CycleChanges
  <2>4. CASE state' = "FIRE_MANY" /\ UNCHANGED reports
    <3>1. Follows
      BY <1>0, <1>1, <1>6, <2>2, <2>4, AsHiringChange
    <3> QED  BY <1>1, <2>2, <2>4, <3>1 DEF Keeps, Inv, CycleChanges
  <2>5. CASE Reports("fire-hire-finished") /\ UNCHANGED suppliers
    <3>1. Follows
      BY <1>0, <1>1, <1>6, <2>2, <2>5, AsHiringEnds DEF Reports
    <3> QED  BY <1>1, <2>2, <2>5, <3>1 DEF Keeps, Inv, CycleChanges, Reports
  <2> QED  BY <2>1, <2>3, <2>4, <2>5
<1>7. CASE e = "supplier-connected" /\ state = "HIRE_ONE" /\ who[1] \notin Mine
  <2> DEFINE u == who[1]
  <2>0. u \in User /\ SupplierConnected(u, q)
    BY <1>7 DEF FireHireEvent
  <2> HIDE DEF u
  <2>1. /\ Leaves(q) /\ UNCHANGED <<needRestart, restartTask, dismissList>> /\ suppliers' = Substituted(u)
        /\ \/ UNCHANGED <<state, reports>>
           \/ state' = "FIRE_MANY" /\ UNCHANGED reports
           \/ Reports("suppliers-changed")
    BY <1>0, <1>7, <2>0, SupplierConnectedType
  <2>2. (AskedFor' <=> AskedFor) /\ Typed'
    BY <1>7, <2>1 DEF AskedFor, Leaves
  <2>3. CASE UNCHANGED <<state, reports>>
    <3>1. Follows
      BY <1>0, <1>1, <1>7, <2>2, <2>3, AsHiringChange
    <3>2. ASSUME dismissList' = <<>> PROVE changed' # "replaced"
      <4>1. ToSet(suppliers) \ (ToSet(suppliers') \cup {None}) = {}
        BY <1>0, <2>0, <2>1, <3>2, SubstitutedFills
      <4>2. changed # "replaced"
        BY <1>0, <1>7, <2>1, <3>2 DEF CycleChanges
      <4> QED  BY <1>1, <1>7, <2>3, <4>1, <4>2 DEF Effect
    <3> QED  BY <1>1, <1>7, <2>2, <2>3, <3>1, <3>2 DEF Keeps, Inv, CycleChanges
  <2>4. CASE state' = "FIRE_MANY" /\ UNCHANGED reports
    <3>1. Follows
      BY <1>0, <1>1, <1>7, <2>2, <2>4, AsHiringChange
    <3> QED  BY <1>1, <2>2, <2>4, <3>1 DEF Keeps, Inv, CycleChanges
  <2>5. CASE Reports("suppliers-changed")
    <3>1. Follows
      BY <1>0, <1>1, <1>7, <2>2, <2>5, AsHiringEnds DEF Reports
    <3> QED  BY <1>1, <2>2, <2>5, <3>1 DEF Keeps, Inv, CycleChanges, Reports
  <2> QED  BY <2>1, <2>3, <2>4, <2>5
<1>8. CASE e = "search-failed" /\ state = "HIRE_ONE"
  <2>1. /\ Leaves(q) /\ restartTask' /\ UNCHANGED <<needRestart, reports>>
        /\ \/ dismissList = <<>> /\ state' = "READY" /\ UNCHANGED suppliers
           \/ state' = "FIRE_MANY"
    BY <1>0, <1>8, SearchFailedType DEF FireHireEvent
  <2>2. AskedFor' /\ Typed'
    BY <2>1 DEF AskedFor, Leaves
  <2>3. CASE dismissList = <<>> /\ state' = "READY" /\ UNCHANGED suppliers
    <3>1. changed # "replaced"
      BY <1>0, <1>8, <2>3 DEF CycleChanges
    <3>2. Follows
      BY <1>0, <1>1, <1>8, <2>1, <2>2, <2>3, <3>1, AsHiringEnds
    <3> QED  BY <1>1, <2>2, <2>3, <3>2 DEF Keeps, Inv, CycleChanges
  <2>4. CASE state' = "FIRE_MANY"
    <3>1. Follows
      BY <1>0, <1>1, <1>8, <2>1, <2>2, <2>4, AsHiringChange
    <3> QED  BY <1>1, <2>2, <2>4, <3>1 DEF Keeps, Inv, CycleChanges
  <2> QED  BY <2>1, <2>3, <2>4
<1>9. CASE e = "supplier-state-changed" /\ state = "FIRE_MANY"
  <2> DEFINE u == who[1]
  <2>0. u \in User /\ DismissedReported(u, q)
    BY <1>9 DEF FireHireEvent
  <2> HIDE DEF u
  <2>1. /\ Leaves(q) /\ UNCHANGED <<needRestart, restartTask, suppliers>>
        /\ UNCHANGED <<state, reports>> \/ Reports("suppliers-changed")
    BY <1>0, <2>0, DismissedReportedType
  <2>2. (AskedFor' <=> AskedFor) /\ Typed'
    BY <1>9, <2>1 DEF AskedFor, Leaves
  <2>3. CASE UNCHANGED <<state, reports>>
    <3>1. Follows
      BY <1>1, <1>9, <2>1, <2>2, <2>3, AsHiringKept
    <3> QED  BY <1>1, <1>9, <2>2, <2>3, <3>1 DEF Keeps, Inv, CycleChanges
  <2>4. CASE Reports("suppliers-changed")
    <3>1. Follows
      BY <1>0, <1>1, <1>9, <2>2, <2>4, AsHiringEnds DEF Reports
    <3> QED  BY <1>1, <2>2, <2>4, <3>1 DEF Keeps, Inv, CycleChanges, Reports
  <2> QED  BY <2>1, <2>3, <2>4
<1>10. CASE e = "supplier-state-changed" /\ state = "SUPPLIERS?"
  <2>1. /\ Leaves(q) /\ UNCHANGED <<needRestart, restartTask, suppliers, reports>>
        /\ state' \in {"SUPPLIERS?", "DECISION?"}
    BY <1>0, <1>10, ConnectReportedType DEF FireHireEvent
  <2>2. (AskedFor' <=> AskedFor) /\ Typed' /\ changed' = changed
    BY <1>1, <1>10, <2>1 DEF AskedFor, Leaves
  <2>3. Follows
    BY <1>10, <2>1, <2>2, AsHiringKept
  <2> QED  BY <1>0, <1>1, <1>10, <2>1, <2>2, <2>3 DEF Keeps, Inv, CycleChanges
<1>11. ASSUME Ignored(q), e # "restart" PROVE Keeps
  <2>1. Leaves(q)
    BY <1>0, <1>11, IgnoredType
  <2>2. UNCHANGED <<state, needRestart, restartTask, suppliers, reports, dismissList>>
    BY <1>11 DEF Ignored, lists
  <2>3. changed' = changed
    BY <1>0, <1>1, <2>2 DEF CycleChanges
  <2>4. Typed' /\ (AskedFor => AskedFor')
    BY <1>11, <2>1, <2>2 DEF AskedFor, Leaves
  <2> QED  BY <2>2, <2>3, <2>4, SameCycle DEF CycleKept
<1>12. CASE /\ ~ (e = "restart") /\ ~ (e = "instant" /\ state = "READY" /\ needRestart)
            /\ ~ (e = "made-decision" /\ state = "DECISION?")
            /\ ~ (e = "supplier-connected" /\ state = "HIRE_ONE" /\ who[1] \notin Mine)
            /\ ~ (e = "search-failed" /\ state = "HIRE_ONE")
            /\ ~ (e = "supplier-state-changed" /\ state \in {"FIRE_MANY", "SUPPLIERS?"})
  <2>1. Ignored(q)
    BY <1>12 DEF FireHireEvent
  <2> QED  BY <1>11, <1>12, <2>1
<1> QED  BY <1>3, <1>4, <1>5, <1>6, <1>7, <1>8, <1>9, <1>10, <1>12

LEMMA HandleEventKeeps ==
  ASSUME Inv, HandleEvent
  PROVE  Keeps
<1> DEFINE m == Head(queue)
           q == Tail(queue)
<1>0. Typed /\ CycleChanges /\ state \in States /\ queue \in Seq(Message) /\ queue # <<>>
  BY DEF Inv, Typed, CycleOK, HandleEvent
<1>1. m \in Message /\ q \in Seq(Message) /\ (Asks(queue) <=> (m.event = "restart" \/ Asks(q)))
  BY <1>0, Taking
<1>2. /\ \/ m.to = "fire_hire" /\ FireHireEvent(m.event, m.who, q)
         \/ m.to = "supplier_finder" /\ FinderEvent(m.event, q)
         \/ m.to = "supplier_connector" /\ ConnectorEvent(m.who[1], m.event, q)
      /\ NowChanged
  <2>1. m.to \in {"fire_hire", "supplier_finder", "supplier_connector"}
    BY <1>1, EventIs
  <2> QED  BY <2>1 DEF HandleEvent, NowChanged
<1> HIDE DEF m, q
<1>3. /\ m.to = "fire_hire" /\ m.event = "made-decision" => m.who \in Seq(User)
      /\ m.to = "fire_hire" /\ m.event \in {"supplier-connected", "supplier-state-changed"} => m.who[1] \in User
      /\ m.to = "supplier_connector" => m.who[1] \in User /\ m.event \in {"connect", "disconnect", "shutdown"}
      /\ m.to = "supplier_finder" => m.event # "restart"
  BY <1>1, EventIs
<1>4. CASE m.to = "fire_hire" /\ FireHireEvent(m.event, m.who, q)
  BY <1>1, <1>2, <1>3, <1>4, FireHireEventKeeps
<1>5. ASSUME Typed', CycleKept, Asks(queue') <=> Asks(q), m.event # "restart", UNCHANGED dismissList
      PROVE  Keeps
  <2>1. changed' = changed
    BY <1>0, <1>2, <1>5, NowChangedType DEF CycleKept, CycleChanges
  <2>2. AskedFor => AskedFor'
    BY <1>1, <1>5 DEF AskedFor, CycleKept
  <2> QED  BY <1>5, <2>1, <2>2, SameCycle
<1>6. CASE m.to = "supplier_finder" /\ FinderEvent(m.event, q)
  <2>1. UNCHANGED dismissList
    BY <1>6 DEF FinderEvent, lists
  <2> QED  BY <1>0, <1>1, <1>3, <1>5, <1>6, <2>1, FinderEventType
<1>7. CASE m.to = "supplier_connector" /\ ConnectorEvent(m.who[1], m.event, q)
  <2>1. UNCHANGED dismissList
    BY <1>7 DEF ConnectorEvent
  <2>2. m.event # "restart"
    BY <1>3, <1>7
  <2> QED  BY <1>0, <1>1, <1>3, <1>5, <1>7, <2>1, <2>2, ConnectorEventType
<1> QED  BY <1>2, <1>4, <1>6, <1>7

(* Answers of connectors, those who ask for a cycle, and the monitor.      *)
LEMMA OutsideKeeps ==
  ASSUME Inv,
         FinderOutside \/ ScheduledRestart \/ RestartAsked \/ MonitorTakes
         \/ (\E u \in User : ConnectorAnswered(u) \/ Unasked(u))
         \/ (\E S \in SUBSET User : SupplierReplace(S)) \/ (\E n \in Numbers : ConfigModified(n))
  PROVE  Keeps
<1>0. Typed /\ CycleChanges /\ queue \in Seq(Message) /\ <<>> \in Seq(Message)
  BY DEF Inv, Typed
<1>1. CASE FinderOutside
  <2>1. Typed' /\ CycleKept /\ (Asks(queue') <=> Asks(queue)) /\ UNCHANGED changed
    BY <1>0, <1>1, FinderOutsideType
  <2>2. UNCHANGED dismissList
    BY <1>1 DEF FinderOutside, TimerFinder, UsersNotFound, TargetAcked, UserFound, FinderRest, lists
  <2>3. AskedFor => AskedFor'
    BY <2>1 DEF AskedFor, CycleKept
  <2> QED  BY <2>1, <2>2, <2>3, SameCycle
<1>2. /\ Append(queue, Restart) \in Seq(Message) /\ Asks(Append(queue, Restart))
      /\ Restart.event = "restart"
  <2>1. Restart \in Message /\ Restart.event = "restart"
    BY CalmEvents DEF Restart, Hire
  <2> HIDE DEF Message
  <2>2. /\ Append(queue, Restart) \in Seq(Message) /\ Append(queue, Restart)[Len(queue) + 1] = Restart
        /\ DOMAIN Append(queue, Restart) = 1..(Len(queue) + 1) /\ Len(queue) \in Nat
    BY <1>0, <2>1, AppendProperties, LenProperties
  <2>3. Len(queue) + 1 \in DOMAIN Append(queue, Restart)
    BY <2>2
  <2> QED  BY <2>1, <2>2, <2>3 DEF Asks
<1>3. CASE ScheduledRestart
  <2>1. /\ queue' = Append(queue, Restart) /\ restartTask' = FALSE /\ CycleChanges'
        /\ UNCHANGED <<state, needRestart, configs, lists, finder, sc, listening, suppliers, asked, reports, changed>>
    BY <1>0, <1>3 DEF ScheduledRestart, Queued, CycleChanges, lists
  <2>2. Typed'
    BY <1>0, <1>2, <2>1 DEF Typed, FinderOK, CycleOK, ConnectorsOK, AskedOK, asked, lists
  <2>3. Follows
    BY <1>2, <2>1, AsHiringAsk DEF AskedFor
  <2> QED  BY <2>1, <2>2, <2>3 DEF Keeps, Inv
<1>4. CASE RestartAsked
  <2>1. /\ queue' = Append(queue, Restart)
        /\ UNCHANGED <<state, needRestart, lists, restartTask, finder, suppliers, reports, changed>>
        /\ UNCHANGED <<configs, sc, listening, asked>>
    BY <1>4 DEF RestartAsked, Trouble, Queued
  <2>2. Typed'
    BY <1>0, <1>2, <2>1 DEF Typed, FinderOK, CycleOK, ConnectorsOK, AskedOK, asked, lists
  <2>3. AskedFor'
    BY <1>2, <2>1 DEF AskedFor
  <2> QED  BY <2>1, <2>2, <2>3, SameCycle DEF CycleKept, lists
<1>5. CASE MonitorTakes
  <2>1. /\ reports # <<>> /\ reports' = Tail(reports) /\ CycleChanges'
        /\ UNCHANGED <<state, needRestart, configs, lists, restartTask, finder, sc, listening, suppliers, asked, queue>>
    BY <1>0, <1>5 DEF MonitorTakes, CycleChanges, lists
  <2>2. reports' \in Seq(Ends)
    BY <1>0, <2>1, HeadTailProperties DEF Typed, CycleOK
  <2>3. Typed'
    BY <1>0, <2>1, <2>2 DEF Typed, FinderOK, CycleOK, ConnectorsOK, AskedOK, asked, lists
  <2> QED  BY <1>5, <2>1, <2>3, AsHiringTake DEF Keeps, Inv
<1>6. ASSUME NEW u \in User, ConnectorAnswered(u) \/ Unasked(u) PROVE Keeps
  <2>1. UNCHANGED changed /\ \E e : \E q \in {queue, <<>>} : ConnectorEvent(u, e, q) /\ (q = <<>> => queue = <<>>)
    BY <1>6 DEF ConnectorAnswered, Unasked
  <2>2. PICK e : \E q \in {queue, <<>>} : ConnectorEvent(u, e, q) /\ (q = <<>> => queue = <<>>)
    BY <2>1
  <2>3. PICK q \in {queue, <<>>} : ConnectorEvent(u, e, q) /\ (q = <<>> => queue = <<>>)
    BY <2>2
  <2>4. ConnectorEvent(u, e, queue)
    BY <2>3
  <2>5. Typed' /\ CycleKept /\ (Asks(queue') <=> Asks(queue))
    BY <1>0, <2>4, ConnectorEventType
  <2>6. UNCHANGED dismissList
    BY <2>4 DEF ConnectorEvent
  <2>7. AskedFor => AskedFor'
    BY <2>5 DEF AskedFor, CycleKept
  <2> QED  BY <2>1, <2>5, <2>6, <2>7, SameCycle
<1>7. ASSUME NEW S \in SUBSET User, SupplierReplace(S) PROVE Keeps
  <2> DEFINE p == [i \in 1 .. Cardinality(S) |-> Restart]
  <2>1. /\ queue' = queue \o p /\ toFire' = toFire \cup S /\ (toHire' = toHire \/ \E new \in User : toHire' = Append(toHire, new))
        /\ UNCHANGED <<state, needRestart, lists, restartTask, finder, suppliers, reports, changed>>
        /\ UNCHANGED <<configs, sc, listening, desired>>
    BY <1>7 DEF SupplierReplace, Trouble, Posts
  <2>2. p \in Seq(Message)
    <3>1. Cardinality(S) \in Nat /\ Restart \in Message
      BY NumbersAssumption, FS_Subset, FS_CardinalityType, CalmEvents
    <3> HIDE DEF Message
    <3>2. p \in [1 .. Cardinality(S) -> Message]
      BY <3>1
    <3> HIDE DEF p
    <3> QED  BY <3>1, <3>2, SeqDef
  <2> HIDE DEF p
  <2>3. /\ queue \o p \in Seq(Message) /\ Len(queue) \in Nat /\ Len(p) \in Nat
        /\ DOMAIN (queue \o p) = 1..(Len(queue) + Len(p)) /\ DOMAIN queue = 1..Len(queue)
        /\ \A i \in 1..Len(queue) : (queue \o p)[i] = queue[i]
    <3> HIDE DEF Message
    <3> QED  BY <1>0, <2>2, ConcatProperties, LenProperties
  <2>4. Asks(queue) => Asks(queue \o p)
    <3>1. SUFFICES ASSUME NEW i \in DOMAIN queue, queue[i].event = "restart" PROVE Asks(queue \o p)
      BY DEF Asks
    <3>2. i \in DOMAIN (queue \o p) /\ (queue \o p)[i] = queue[i]
      BY <2>3
    <3> QED  BY <3>1, <3>2 DEF Asks
  <2>5. toHire' \in Seq(User)
    <3>1. \A new \in User : Append(toHire, new) \in Seq(User)
      BY <1>0, AppendProperties DEF Typed, AskedOK
    <3> QED  BY <1>0, <2>1, <3>1 DEF Typed, AskedOK
  <2>6. Typed'
    BY <1>0, <2>1, <2>3, <2>5 DEF Typed, FinderOK, CycleOK, ConnectorsOK, AskedOK, asked, lists
  <2>7. AskedFor => AskedFor'
    BY <2>1, <2>4 DEF AskedFor
  <2> QED  BY <2>1, <2>6, <2>7, SameCycle DEF CycleKept, lists
<1>8. ASSUME NEW n \in Numbers, ConfigModified(n) PROVE Keeps
  <2>1. /\ queue' = Append(queue, Restart) /\ desired' = n /\ configs' \in {0, configs}
        /\ UNCHANGED <<state, needRestart, lists, restartTask, finder, suppliers, reports, changed>>
        /\ UNCHANGED <<sc, listening, toFire, toHire>>
    BY <1>8 DEF ConfigModified, Trouble, Queued
  <2>2. Typed'
    BY <1>0, <1>2, <2>1 DEF Typed, FinderOK, CycleOK, ConnectorsOK, AskedOK, asked, lists
  <2>3. AskedFor'
    BY <1>2, <2>1 DEF AskedFor
  <2> QED  BY <2>1, <2>2, <2>3, SameCycle DEF CycleKept, lists
<1> QED  BY <1>1, <1>3, <1>4, <1>5, <1>6, <1>7, <1>8

LEMMA TimerKeeps ==
  ASSUME Inv, TimerFireHire
  PROVE  Keeps
<1>0. Typed /\ CycleChanges
  BY DEF Inv
<1>1. /\ Leaves(queue) /\ UNCHANGED <<needRestart, restartTask, suppliers>>
      /\ \/ state = "FIRE_MANY" /\ Reports("suppliers-changed") /\ changed' = "nothing"
         \/ state = "SUPPLIERS?" /\ state' = "DECISION?" /\ UNCHANGED <<reports, changed>>
  BY <1>0, TimerFireHireType
<1>2. (AskedFor' <=> AskedFor) /\ Typed'
  BY <1>1 DEF AskedFor, Leaves
<1>3. CASE state = "FIRE_MANY" /\ Reports("suppliers-changed") /\ changed' = "nothing"
  <2>1. Follows
    BY <1>0, <1>2, <1>3, AsHiringEnds DEF Reports
  <2> QED  BY <1>2, <1>3, <2>1 DEF Keeps, Inv, CycleChanges, Reports, Effects
<1>4. CASE state = "SUPPLIERS?" /\ state' = "DECISION?" /\ UNCHANGED <<reports, changed>>
  <2>1. Follows
    BY <1>1, <1>2, <1>4, AsHiringKept
  <2> QED  BY <1>0, <1>2, <1>4, <2>1 DEF Keeps, Inv, CycleChanges
<1> QED  BY <1>1, <1>3, <1>4

LEMMA InvInit == Init => Inv /\ Abstract!HiringInit
<1> SUFFICES ASSUME Init PROVE Inv /\ Abstract!HiringInit
  OBVIOUS
<1>1. suppliers \in Seq(People)
  BY NumbersAssumption DEF Init, People
<1>2. FinderOK
  BY NumbersAssumption DEF Init, NoFinder, FinderOK, People
<1>3. CycleOK /\ AskedOK
  <2>1. <<>> \in Seq(User) /\ <<>> \in Seq(Ends)
    OBVIOUS
  <2>2. CycleOK
    BY <1>1, <2>1 DEF Init, CycleOK, States
  <2>3. AskedOK
    BY <2>1, NumbersAssumption DEF Init, AskedOK
  <2> QED  BY <2>2, <2>3
<1>4. ConnectorsOK
  <2>1. New \in ConnectorType /\ Connector("CLOSED", FALSE) \in ConnectorType
    <3>1. "CLOSED" \in ConnectorStates /\ FALSE \in BOOLEAN
      BY DEF ConnectorStates
    <3> QED  BY <3>1, NewType, ConnectorTyped
  <2> QED  BY <2>1 DEF Init, ConnectorsOK
<1>5. queue \in Seq(Message)
  <2>1. Restart \in Message /\ queue = <<Restart>>
    BY CalmEvents DEF Init
  <2> HIDE DEF Message
  <2> QED  BY <2>1
<1>6. CycleChanges
  BY DEF Init, CycleChanges, Effects
<1>7. Abstract!HiringInit
  <2>1. AskedFor \in BOOLEAN
    BY <1>3 DEF AskedFor, CycleOK
  <2> QED  BY <2>1 DEF Init, Abstract!HiringInit, AskedFor, Asks
<1> QED  BY <1>2, <1>3, <1>4, <1>5, <1>6, <1>7 DEF Inv, Typed

LEMMA InvStep ==
  ASSUME Inv, [Next]_vars
  PROVE  Keeps
<1>1. CASE HandleEvent
  BY <1>1, HandleEventKeeps
<1>2. CASE TimerFireHire
  BY <1>2, TimerKeeps
<1>3. CASE /\ Next /\ ~ HandleEvent /\ ~ TimerFireHire
  BY <1>3, OutsideKeeps DEF Next, FinderOutside
<1>4. CASE UNCHANGED vars
  <2>1. Typed' /\ CycleKept /\ UNCHANGED <<changed, dismissList>>
    BY <1>4 DEF vars, lists, asked, Inv, Typed, FinderOK, CycleOK, ConnectorsOK, AskedOK, CycleKept
  <2>2. AskedFor => AskedFor'
    BY <1>4 DEF vars, AskedFor
  <2> QED  BY <2>1, <2>2, SameCycle
<1> QED  BY <1>1, <1>2, <1>3, <1>4

-----------------------------------------------------------------------------
(* Who is dismissed, and his place.                                        *)

(* The values of a sequence at some of its positions are not more than     *)
(* those.                                                                  *)
LEMMA ValuesAt ==
  ASSUME NEW s, NEW P, IsFiniteSet(P)
  PROVE  /\ IsFiniteSet({s[i] : i \in P})
         /\ Cardinality({s[i] : i \in P}) <= Cardinality(P)
<1> DEFINE V == {s[i] : i \in P}
           f == [i \in P |-> s[i]]
<1>1. f \in [P -> V] /\ \A v \in V : \E i \in P : f[i] = v
  OBVIOUS
<1>2. f \in Surjection(P, V)
  BY <1>1, Fun_IsSurj
<1> HIDE DEF V, f
<1>3. IsFiniteSet(V) /\ Cardinality(V) <= Cardinality(P)
  BY <1>2, FS_Surjection
<1> QED  BY <1>3 DEF V

(* doSubstituteSupplier comes to an end of the search.  If d suppliers are *)
(* left when u has come and those of D have gone, not counting the empty   *)
(* positions, and there are at most d positions, then one at most is empty *)
(* or of D, and u is not of D unless every position is taken.              *)
LEMMA OnePlace ==
  ASSUME NEW s, NEW n \in Nat, NEW D, None \notin D, NEW u, u # None, NEW d \in Nat, n <= d,
         d <= Cardinality(({s[i] : i \in 1..n} \cup {u}) \ D) - Cardinality({i \in 1..n : s[i] = None})
  PROVE  /\ \A i, j \in 1..n : s[i] \in D \cup {None} /\ s[j] \in D \cup {None} => i = j
         /\ u \in D => n = d /\ \A i \in 1..n : s[i] \notin D \cup {None}
<1> DEFINE Free == {i \in 1..n : s[i] \in D \cup {None}}
           Emp == {i \in 1..n : s[i] = None}
           Rest == (1..n) \ Free
           W == ({s[i] : i \in 1..n} \cup {u}) \ D
           U == {s[i] : i \in Rest}
<1>1. IsFiniteSet(1..n) /\ Cardinality(1..n) = n
  BY FS_Interval
<1>2. /\ IsFiniteSet(Free) /\ Cardinality(Free) \in Nat
      /\ IsFiniteSet(Rest) /\ Cardinality(Rest) = n - Cardinality(Free)
  <2>1. Free \in SUBSET (1..n) /\ (1..n) \cap Free = Free
    OBVIOUS
  <2> HIDE DEF Free
  <2>2. IsFiniteSet(Free) /\ Cardinality(Free) \in Nat
    BY <1>1, <2>1, FS_Subset, FS_CardinalityType
  <2>3. IsFiniteSet((1..n) \ Free) /\ Cardinality((1..n) \ Free) = Cardinality(1..n) - Cardinality((1..n) \cap Free)
    BY <1>1, FS_Difference
  <2> QED  BY <1>1, <2>1, <2>2, <2>3
<1>3. /\ Cardinality(Emp) \in Nat /\ Cardinality(Emp) <= Cardinality(Free)
      /\ Cardinality(Emp) = 0 <=> Emp = {}
  <2>1. Emp \in SUBSET Free
    OBVIOUS
  <2> HIDE DEF Free, Emp
  <2> QED  BY <1>2, <2>1, FS_Subset, FS_CardinalityType, FS_EmptySet
<1>4. IsFiniteSet(U) /\ Cardinality(U) \in Nat /\ Cardinality(U) <= Cardinality(Rest)
  BY <1>2, ValuesAt, FS_CardinalityType
<1>5. d <= Cardinality(W) - Cardinality(Emp) /\ n <= d
  OBVIOUS
<1>6. W \subseteq (U \cup (IF Emp = {} THEN {} ELSE {None})) \cup (IF u \in D THEN {} ELSE {u})
  OBVIOUS
<1>7. \A i \in 1..n : i \in Free <=> s[i] \in D \cup {None}
  OBVIOUS
<1>8. ASSUME NEW X, NEW x, IsFiniteSet(X), Cardinality(X) \in Nat
      PROVE  /\ IsFiniteSet(X \cup {x}) /\ Cardinality(X \cup {x}) \in Nat
             /\ Cardinality(X \cup {x}) <= Cardinality(X) + 1
  <2>1. /\ IsFiniteSet(X \cup {x})
        /\ Cardinality(X \cup {x}) = IF x \in X THEN Cardinality(X) ELSE Cardinality(X) + 1
    BY <1>8, FS_AddElement
  <2> QED  BY <1>8, <2>1
<1> HIDE DEF Free, Emp, Rest, W, U
<1>9. \A X : IsFiniteSet(X) /\ W \subseteq X /\ Cardinality(X) \in Nat =>
        Cardinality(W) \in Nat /\ Cardinality(W) <= Cardinality(X)
  BY FS_Subset, FS_CardinalityType
<1>10. /\ Cardinality(W) \in Nat
       /\ u \in D /\ Emp = {} => Cardinality(W) <= Cardinality(U)
       /\ u \in D => Cardinality(W) <= Cardinality(U) + 1
       /\ Emp = {} => Cardinality(W) <= Cardinality(U) + 1
       /\ Cardinality(W) <= (Cardinality(U) + 1) + 1
  <2>1. /\ W \subseteq (U \cup {None}) \cup {u}
        /\ u \in D => W \subseteq U \cup {None}
        /\ Emp = {} => W \subseteq U \cup {u}
        /\ u \in D /\ Emp = {} => W \subseteq U
    BY <1>6
  <2>2. /\ IsFiniteSet(U \cup {None}) /\ Cardinality(U \cup {None}) \in Nat
        /\ Cardinality(U \cup {None}) <= Cardinality(U) + 1
    BY <1>4, <1>8
  <2>3. /\ IsFiniteSet(U \cup {u}) /\ Cardinality(U \cup {u}) \in Nat
        /\ Cardinality(U \cup {u}) <= Cardinality(U) + 1
    BY <1>4, <1>8
  <2>4. /\ IsFiniteSet((U \cup {None}) \cup {u}) /\ Cardinality((U \cup {None}) \cup {u}) \in Nat
        /\ Cardinality((U \cup {None}) \cup {u}) <= Cardinality(U \cup {None}) + 1
    BY <2>2, <1>8
  <2>5. Cardinality(W) \in Nat /\ Cardinality(W) <= Cardinality((U \cup {None}) \cup {u})
    BY <1>9, <2>1, <2>4
  <2>6. u \in D => Cardinality(W) <= Cardinality(U \cup {None})
    BY <1>9, <2>1, <2>2
  <2>7. Emp = {} => Cardinality(W) <= Cardinality(U \cup {u})
    BY <1>9, <2>1, <2>3
  <2>8. u \in D /\ Emp = {} => Cardinality(W) <= Cardinality(U)
    BY <1>9, <2>1, <1>4
  <2> QED  BY <1>4, <2>2, <2>3, <2>4, <2>5, <2>6, <2>7, <2>8
<1>11. /\ Cardinality(Free) <= 1
       /\ u \in D => Cardinality(Free) = 0 /\ n = d
  BY <1>2, <1>3, <1>4, <1>5, <1>10
<1>12. Cardinality(Free) = 0 => Free = {}
  BY <1>2, FS_EmptySet
<1>13. Cardinality(Free) = 1 => \E x : Free = {x}
  BY <1>2, FS_Singleton
<1>14. \A i, j : i \in Free /\ j \in Free => i = j
  BY <1>2, <1>11, <1>12, <1>13
<1> QED  BY <1>7, <1>11, <1>12, <1>14


(* An empty position, or who is dismissed, is all that is taken from the   *)
(* list, so nobody of those who are told is left in it.                    *)
NoneLeft == ToSet(dismissList') \cap {suppliers'[i] : i \in DOMAIN suppliers'} = {}

LEMMA DismissedNamed ==
  ASSUME NEW list \in Seq(User)
  PROVE  ToSet(list) \in SUBSET User /\ None \notin ToSet(list)
<1>1. DOMAIN list = 1..Len(list) /\ \A i \in 1..Len(list) : list[i] \in User
  BY LenProperties, ElementOfSeq
<1> QED  BY <1>1, NumbersAssumption DEF ToSet

LEMMA RemovedLeavesNone ==
  ASSUME NEW list \in Seq(User), dismissList' = list, suppliers' = Removed(list)
  PROVE  NoneLeft
<1>1. None \notin ToSet(list)
  BY DismissedNamed
<1>2. \A i \in DOMAIN suppliers' : suppliers'[i] \notin ToSet(list)
  BY <1>1 DEF Removed
<1> QED  BY <1>2 DEF NoneLeft

LEMMA SubstitutedLeavesNone ==
  ASSUME Typed, NEW u \in User, u \notin Mine, ~ IsStillNeeded(u),
         suppliers' = Substituted(u), dismissList' = dismissList, Len(suppliers') <= desired
  PROVE  NoneLeft
<1> DEFINE n == Len(suppliers)
           D == ToSet(dismissList)
           free == {i \in DOMAIN suppliers : suppliers[i] \in D \cup {None}}
           Emp == {i \in 1..n : suppliers[i] = None}
           W == ({suppliers[i] : i \in 1..n} \cup {u}) \ D
<1>1. /\ suppliers \in Seq(People) /\ n \in Nat /\ DOMAIN suppliers = 1..n /\ desired \in Nat
      /\ dismissList \in Seq(User)
  BY NumbersAssumption, LenProperties DEF Typed, CycleOK, AskedOK
<1>2. None \notin D /\ u # None
  BY <1>1, DismissedNamed, NumbersAssumption
<1>3. /\ free = {} => Len(suppliers') = n + 1 /\ suppliers' = Append(suppliers, u)
      /\ free # {} => Len(suppliers') = n /\ \E k \in free : suppliers' = [suppliers EXCEPT ![k] = u]
  <2>1. CASE free = {}
    <3>1. suppliers' = Append(suppliers, u)
      BY <2>1 DEF Substituted
    <3>2. u \in People
      BY DEF People
    <3>3. Len(Append(suppliers, u)) = n + 1
      BY <1>1, <3>2, AppendProperties
    <3> HIDE DEF free, n
    <3> QED  BY <2>1, <3>1, <3>3
  <2>2. CASE free # {}
    <3>1. free \in SUBSET Nat
      BY <1>1
    <3> DEFINE k == CHOOSE i \in free : \A j \in free : i <= j
    <3>2. k \in free
      <4>1. \E i \in free : \A j \in free : i <= j
        BY <2>2, <3>1, Least
      <4> HIDE DEF free
      <4> QED  BY <4>1
    <3>3. suppliers' = [suppliers EXCEPT ![k] = u]
      BY <2>2 DEF Substituted
    <3>4. suppliers' \in Seq(People)
      BY SubstitutedType
    <3>5. DOMAIN suppliers' = 1..n
      BY <1>1, <3>3
    <3>6. Len(suppliers') = n
      BY <1>1, <3>4, <3>5, LenProperties
    <3> QED  BY <2>2, <3>2, <3>3, <3>6
  <2> HIDE DEF free
  <2> QED  BY <2>1, <2>2
<1>4. n <= desired
  BY <1>1, <1>3
<1>5. FirstOnes = suppliers
  <2>1. FirstOnes = SubSeq(suppliers, 1, n)
    <3>1. (IF Len(suppliers) < desired THEN Len(suppliers) ELSE desired) = n
      <4>1. \A a, b \in Nat : a <= b => (IF a < b THEN a ELSE b) = a
        OBVIOUS
      <4>2. n \in Nat /\ desired \in Nat
        BY <1>1
      <4> QED  BY <1>4, <4>1, <4>2, Zenon
    <3> HIDE DEF n
    <3> QED  BY <3>1, Zenon DEF FirstOnes
  <2> QED  BY <1>1, <2>1, SubSeqProperties, SeqEqual
<1>6. desired <= Cardinality(W) - Cardinality(Emp)
  <2>1. ToSet(suppliers) = {suppliers[i] : i \in 1..n}
    BY <1>1 DEF ToSet
  <2>2. ~ (Cardinality(W) - Cardinality(Emp) < desired)
    BY <1>1, <1>5, <2>1 DEF IsStillNeeded
  <2>3. Cardinality(W) \in Nat /\ Cardinality(Emp) \in Nat
    <3>1. IsFiniteSet(1..n)
      BY <1>1, FS_Interval
    <3>2. IsFiniteSet({suppliers[i] : i \in 1..n})
      BY <3>1, ValuesAt
    <3>3. IsFiniteSet({suppliers[i] : i \in 1..n} \cup {u})
      BY <3>2, FS_AddElement
    <3>4. IsFiniteSet(W)
      BY <3>3, FS_Difference
    <3>5. Emp \in SUBSET (1..n)
      OBVIOUS
    <3> HIDE DEF W, Emp
    <3> QED  BY <3>1, <3>4, <3>5, FS_Subset, FS_CardinalityType
  <2> HIDE DEF W, Emp
  <2> QED  BY <1>1, <2>2, <2>3
<1>7. /\ \A i, j \in 1..n : suppliers[i] \in D \cup {None} /\ suppliers[j] \in D \cup {None} => i = j
      /\ u \in D => n = desired /\ \A i \in 1..n : suppliers[i] \notin D \cup {None}
  <2> HIDE DEF D
  <2> QED  BY <1>1, <1>2, <1>4, <1>6, OnePlace DEF W, Emp
<1>8. u \notin D
  BY <1>1, <1>3, <1>7
<1>9. \A i \in DOMAIN suppliers' : suppliers'[i] \notin D
  <2> HIDE DEF D
  <2>1. CASE free = {}
    <3>1. \A i \in 1..n : suppliers[i] \notin D
      BY <1>1, <2>1
    <3>2. suppliers' = Append(suppliers, u) /\ u \in People
      BY <1>3, <2>1 DEF People
    <3>3. DOMAIN suppliers' = 1..(n + 1) /\ \A i \in 1..n : suppliers'[i] = suppliers[i]
      BY <1>1, <3>2, AppendProperties
    <3>4. suppliers'[n + 1] = u
      BY <1>1, <3>2, AppendProperties
    <3>5. \A i \in 1..(n + 1) : i \in 1..n \/ i = n + 1
      BY <1>1
    <3> HIDE DEF n
    <3> QED  BY <1>8, <3>1, <3>3, <3>4, <3>5
  <2>2. CASE free # {}
    <3>1. PICK k \in free : suppliers' = [suppliers EXCEPT ![k] = u]
      BY <1>3, <2>2
    <3> QED  BY <1>1, <1>7, <1>8, <3>1
  <2> QED  BY <2>1, <2>2
<1> QED  BY <1>9 DEF NoneLeft

LEMMA TellsWhoLeft ==
  ASSUME Typed, NEW e, NEW who, NEW q, FireHireEvent(e, who, q),
         e = "made-decision" => who \in Seq(User),
         e = "supplier-connected" => who[1] \in User,
         state # "FIRE_MANY", state' = "FIRE_MANY", Len(suppliers') <= desired
  PROVE  NoneLeft
<1>1. CASE RestartInReady(q)
  BY <1>1 DEF RestartInReady
<1>2. CASE RestartLater(q)
  BY <1>2 DEF RestartLater
<1>3. CASE e = "made-decision" /\ MadeDecision(who, q)
  <2>1. dismissList' = who /\ suppliers' = Removed(who) /\ who \in Seq(User)
    BY <1>3 DEF MadeDecision, Ready
  <2> QED  BY <2>1, RemovedLeavesNone
<1>4. CASE e = "supplier-connected" /\ SupplierConnected(who[1], q) /\ state = "HIRE_ONE"
  <2> DEFINE u == who[1]
  <2>1. u \in User /\ SupplierConnected(u, q)
    BY <1>4
  <2> HIDE DEF u
  <2>2. u \notin Mine /\ ~ IsStillNeeded(u) /\ suppliers' = Substituted(u) /\ dismissList' = dismissList
    BY <1>4, <2>1 DEF SupplierConnected, Ready
  <2> QED  BY <2>1, <2>2, SubstitutedLeavesNone
<1>5. CASE SearchFailed(q)
  <2>1. dismissList' = dismissList /\ suppliers' = Removed(dismissList) /\ dismissList \in Seq(User)
    BY <1>5 DEF SearchFailed, Typed, CycleOK
  <2> QED  BY <2>1, RemovedLeavesNone
<1>6. CASE state = "FIRE_MANY" /\ DismissedReported(who[1], q)
  BY <1>6
<1>7. CASE state = "SUPPLIERS?" /\ ConnectReported(q)
  BY <1>7 DEF ConnectReported
<1>8. CASE Ignored(q)
  BY <1>8 DEF Ignored
<1> QED  BY <1>1, <1>2, <1>3, <1>4, <1>5, <1>6, <1>7, <1>8 DEF FireHireEvent

LEMMA StepTellsWhoLeft ==
  ASSUME Typed, [Next]_vars, state # "FIRE_MANY", state' = "FIRE_MANY", Len(suppliers') <= desired
  PROVE  NoneLeft
<1>1. CASE HandleEvent
  <2> DEFINE m == Head(queue)
             q == Tail(queue)
  <2>1. m \in Message
    BY <1>1, Taking DEF Typed, HandleEvent
  <2>2. /\ m.to \in {"fire_hire", "supplier_finder", "supplier_connector"}
        /\ m.to = "fire_hire" /\ m.event = "made-decision" => m.who \in Seq(User)
        /\ m.to = "fire_hire" /\ m.event \in {"supplier-connected", "supplier-state-changed"} => m.who[1] \in User
    BY <2>1, EventIs
  <2>3. CASE m.to = "fire_hire"
    <3>1. FireHireEvent(m.event, m.who, q)
      BY <1>1, <2>3 DEF HandleEvent
    <3> HIDE DEF m, q
    <3> QED  BY <2>2, <2>3, <3>1, TellsWhoLeft
  <2>4. CASE m.to = "supplier_finder"
    <3>1. FinderEvent(m.event, q)
      BY <1>1, <2>4 DEF HandleEvent
    <3> QED  BY <3>1 DEF FinderEvent
  <2>5. CASE m.to = "supplier_connector"
    <3>1. ConnectorEvent(m.who[1], m.event, q)
      BY <1>1, <2>5 DEF HandleEvent
    <3> QED  BY <3>1 DEF ConnectorEvent
  <2> QED  BY <2>2, <2>3, <2>4, <2>5
<1>2. CASE TimerFireHire
  BY <1>2 DEF TimerFireHire, Ready
<1>3. CASE /\ ~ HandleEvent /\ ~ TimerFireHire /\ Next
  <2>1. UNCHANGED state
    BY <1>3 DEF Next, TimerFinder, UsersNotFound, TargetAcked, ScheduledRestart, RestartAsked, MonitorTakes,
       ConnectorAnswered, Unasked, UserFound, SupplierReplace, ConfigModified, FinderRest, Trouble, ConnectorEvent
  <2> QED  BY <2>1
<1>4. CASE UNCHANGED vars
  BY <1>4 DEF vars
<1> QED  BY <1>1, <1>2, <1>3, <1>4

-----------------------------------------------------------------------------
(* What fire_hire waits for.                                               *)

Nobody(q) == \A i \in DOMAIN q : ~ Search(q[i])
Single(q) == \E i \in DOMAIN q : Search(q[i]) /\ \A j \in DOMAIN q : Search(q[j]) => j = i
Decided(q) == \E i \in DOMAIN q : q[i].event = "made-decision"

(* While fire_hire hires, just one has the search in hand, otherwise       *)
(* nobody; once the search is lost, fire_hire hires for good, and nobody   *)
(* has it.                                                                 *)
SearchIn(q, lost) ==
  /\ state = "HIRE_ONE" /\ finder.state = "AT_STARTUP" => IF lost THEN Nobody(q) ELSE Single(q)
  /\ state # "HIRE_ONE" \/ finder.state # "AT_STARTUP" => Nobody(q) /\ ~ lost
  /\ state # "HIRE_ONE" => finder.state = "AT_STARTUP"
  /\ state = "DECISION?" => Decided(q)

SearchOK(lost) == SearchIn(queue, lost)

(* What a queue becomes by events that do not search.                      *)
More(q, r) ==
  /\ Nobody(q) => Nobody(r)
  /\ Single(q) => Single(r)
  /\ Decided(q) => Decided(r)

LEMMA MoreSame == \A q : More(q, q)
  BY DEF More

LEMMA NobodyWaits == Nobody(<<>>)
  BY DEF Nobody

LEMMA Joined ==
  ASSUME NEW q \in Seq(Message), NEW p \in Seq(Message)
  PROVE  /\ Nobody(q) /\ Nobody(p) => Nobody(q \o p)
         /\ Nobody(q) /\ Single(p) => Single(q \o p)
         /\ Single(q) /\ Nobody(p) => Single(q \o p)
         /\ Decided(q) \/ Decided(p) => Decided(q \o p)
<1> DEFINE r == q \o p
           n == Len(q)
<1>1. /\ Len(r) = n + Len(p) /\ n \in Nat /\ Len(p) \in Nat
      /\ DOMAIN q = 1..n /\ DOMAIN p = 1..Len(p) /\ DOMAIN r = 1..(n + Len(p))
      /\ \A i \in 1..n + Len(p) : r[i] = IF i <= n THEN q[i] ELSE p[i - n]
  BY ConcatProperties, LenProperties
<1> HIDE DEF r, n
<1>2. \A i \in DOMAIN r : (i \in DOMAIN q /\ r[i] = q[i]) \/ (i - n \in DOMAIN p /\ r[i] = p[i - n] /\ (i - n) + n = i)
  BY <1>1
<1>3. \A i \in DOMAIN q : i \in DOMAIN r /\ r[i] = q[i]
  BY <1>1
<1>4. \A i \in DOMAIN p : i + n \in DOMAIN r /\ r[i + n] = p[i]
  BY <1>1
<1> DEFINE C == n + Len(p)
<1>5. ASSUME Nobody(q), Nobody(p) PROVE Nobody(r)
  BY <1>2, <1>5 DEF Nobody
<1>6. ASSUME Nobody(q), Single(p) PROVE Single(r)
  <2>1. PICK i \in DOMAIN p : Search(p[i]) /\ \A j \in DOMAIN p : Search(p[j]) => j = i
    BY <1>6 DEF Single
  <2>2. i + n \in DOMAIN r /\ Search(r[i + n])
    BY <1>4, <2>1
  <2>3. ASSUME NEW j \in DOMAIN r, Search(r[j]) PROVE j = i + n
    <3>1. j - n \in DOMAIN p /\ r[j] = p[j - n] /\ (j - n) + n = j
      BY <1>2, <1>6, <2>3 DEF Nobody
    <3> QED  BY <2>1, <2>3, <3>1
  <2> QED  BY <2>2, <2>3 DEF Single
<1>7. ASSUME Single(q), Nobody(p) PROVE Single(r)
  <2>1. PICK i \in DOMAIN q : Search(q[i]) /\ \A j \in DOMAIN q : Search(q[j]) => j = i
    BY <1>7 DEF Single
  <2>2. i \in DOMAIN r /\ Search(r[i])
    BY <1>3, <2>1
  <2>3. ASSUME NEW j \in DOMAIN r, Search(r[j]) PROVE j = i
    BY <1>2, <1>7, <2>1, <2>3 DEF Nobody
  <2> QED  BY <2>2, <2>3 DEF Single
<1>8. Decided(q) \/ Decided(p) => Decided(r)
  BY <1>3, <1>4 DEF Decided
<1> QED  BY <1>5, <1>6, <1>7, <1>8 DEF r

LEMMA JoinedMore ==
  ASSUME NEW q \in Seq(Message), NEW p \in Seq(Message), Nobody(p)
  PROVE  More(q, q \o p)
  BY Joined DEF More

LEMMA OneEvent ==
  ASSUME NEW m \in Message
  PROVE  /\ <<m>> \in Seq(Message)
         /\ IF Search(m) THEN Single(<<m>>) ELSE Nobody(<<m>>)
         /\ m.event = "made-decision" => Decided(<<m>>)
<1> HIDE DEF Message
<1> DEFINE q == <<m>>
<1>1. q \in Seq(Message) /\ DOMAIN q = {1} /\ q[1] = m
  OBVIOUS
<1> HIDE DEF q
<1>2. IF Search(m) THEN Single(q) ELSE Nobody(q)
  BY <1>1 DEF Single, Nobody
<1>3. m.event = "made-decision" => Decided(q)
  BY <1>1 DEF Decided
<1> QED  BY <1>1, <1>2, <1>3 DEF q

LEMMA Told ==
  ASSUME NEW list \in Seq(User), NEW e \in {"connect", "disconnect", "shutdown"}
  PROVE  TellAll(list, e) \in Seq(Message) /\ Nobody(TellAll(list, e))
<1>1. TellAll(list, e) \in Seq(Message)
  <2> HIDE DEF Message
  <2> QED  BY TellAllType, SeqMonotonic DEF Calm
<1>2. \A i \in DOMAIN TellAll(list, e) : TellAll(list, e)[i].to = "supplier_connector"
  BY DEF TellAll, Tell
<1> HIDE DEF Message
<1> QED  BY <1>1, <1>2 DEF Nobody, Search

LEMMA FirstTaken ==
  ASSUME NEW q \in Seq(Message), q # <<>>
  PROVE  /\ Head(q) \in Message /\ Tail(q) \in Seq(Message)
         /\ Nobody(q) => ~ Search(Head(q)) /\ Nobody(Tail(q))
         /\ Single(q) => IF Search(Head(q)) THEN Nobody(Tail(q)) ELSE Single(Tail(q))
         /\ Decided(q) => Head(q).event = "made-decision" \/ Decided(Tail(q))
<1> HIDE DEF Message
<1> DEFINE t == Tail(q)
           m == Head(q)
<1>1. /\ m \in Message /\ m = q[1] /\ t \in Seq(Message) /\ Len(t) = Len(q) - 1
      /\ \A i \in 1..Len(t) : t[i] = q[i + 1]
  BY HeadTailProperties
<1>2. /\ Len(q) \in Nat /\ Len(q) # 0 /\ DOMAIN q = 1..Len(q) /\ DOMAIN t = 1..Len(t)
  BY <1>1, LenProperties, EmptySeq
<1> HIDE DEF t, m
<1>3. 1 \in DOMAIN q /\ \A i \in DOMAIN q : i = 1 \/ (i - 1 \in DOMAIN t /\ t[i - 1] = q[i])
  BY <1>1, <1>2
<1>4. \A i \in DOMAIN t : i + 1 \in DOMAIN q /\ q[i + 1] = t[i] /\ i + 1 # 1 /\ (i + 1) - 1 = i
  BY <1>1, <1>2
<1>5. Nobody(q) => ~ Search(m) /\ Nobody(t)
  BY <1>1, <1>3, <1>4 DEF Nobody
<1>6. Single(q) => IF Search(m) THEN Nobody(t) ELSE Single(t)
  <2> SUFFICES ASSUME Single(q) PROVE IF Search(m) THEN Nobody(t) ELSE Single(t)
    OBVIOUS
  <2>1. PICK i \in DOMAIN q : Search(q[i]) /\ \A j \in DOMAIN q : Search(q[j]) => j = i
    BY DEF Single
  <2>2. CASE Search(m)
    <3>1. i = 1
      BY <1>1, <1>3, <2>1, <2>2
    <3>2. ASSUME NEW j \in DOMAIN t, Search(t[j]) PROVE FALSE
      BY <1>4, <2>1, <3>1, <3>2
    <3> QED  BY <2>2, <3>2 DEF Nobody
  <2>3. CASE ~ Search(m)
    <3>1. i - 1 \in DOMAIN t /\ t[i - 1] = q[i]
      BY <1>1, <1>3, <2>1, <2>3
    <3>2. ASSUME NEW j \in DOMAIN t, Search(t[j]) PROVE j = i - 1
      <4>1. j + 1 = i
        BY <1>4, <2>1, <3>2
      <4> QED  BY <1>4, <4>1
    <3> QED  BY <2>1, <2>3, <3>1, <3>2 DEF Single
  <2> QED  BY <2>2, <2>3
<1>7. Decided(q) => m.event = "made-decision" \/ Decided(t)
  BY <1>1, <1>3 DEF Decided
<1> QED  BY <1>1, <1>5, <1>6, <1>7 DEF t, m

(* Three ways to keep SearchOK: nobody hires, a search is handed on, or    *)
(* the finder has it.                                                      *)
LEMMA Rests ==
  ASSUME NEW lost \in BOOLEAN, ~ lost,
         Nobody(queue'), state' # "HIRE_ONE", finder'.state = "AT_STARTUP", state' = "DECISION?" => Decided(queue')
  PROVE  SearchOK(lost)'
  BY DEF SearchOK, SearchIn

LEMMA HandedOn ==
  ASSUME NEW lost \in BOOLEAN, ~ lost,
         Single(queue'), state' = "HIRE_ONE", finder'.state = "AT_STARTUP"
  PROVE  SearchOK(lost)'
  BY DEF SearchOK, SearchIn

LEMMA Searches ==
  ASSUME NEW lost \in BOOLEAN, ~ lost,
         Nobody(queue'), state' = "HIRE_ONE", finder'.state # "AT_STARTUP"
  PROVE  SearchOK(lost)'
  BY DEF SearchOK, SearchIn

LEMMA SearchKept ==
  ASSUME NEW lost \in BOOLEAN, NEW q, SearchIn(q, lost), More(q, queue'), UNCHANGED <<state, finder>>
  PROVE  SearchOK(lost)'
  BY DEF SearchOK, SearchIn, More

(* An event of the search, posted when nobody has it.                      *)
LEMMA PostsSearch ==
  ASSUME NEW q \in Seq(Message), Nobody(q), NEW m \in Message, Search(m)
  PROVE  Single(q \o <<m>>)
<1>1. <<m>> \in Seq(Message) /\ Single(<<m>>)
  BY OneEvent
<1> HIDE DEF Message
<1> QED  BY <1>1, Joined

LEMMA PostsOther ==
  ASSUME NEW q \in Seq(Message), NEW m \in Message, ~ Search(m)
  PROVE  /\ More(q, q \o <<m>>) /\ q \o <<m>> \in Seq(Message)
         /\ m.event = "made-decision" => Decided(q \o <<m>>)
<1>1. /\ <<m>> \in Seq(Message) /\ Nobody(<<m>>)
      /\ m.event = "made-decision" => Decided(<<m>>)
  BY OneEvent
<1> HIDE DEF Message
<1>2. q \o <<m>> \in Seq(Message)
  BY <1>1, ConcatProperties
<1> QED  BY <1>1, <1>2, JoinedMore, Joined

LEMMA KnownEvents ==
  /\ \A e \in {"instant", "restart"} : Hire(e, <<>>) \in Message /\ ~ Search(Hire(e, <<>>)) /\ Hire(e, <<>>).to = "fire_hire"
  /\ \A d \in Seq(User) : LET m == Hire("made-decision", d)
                          IN  m \in Message /\ ~ Search(m) /\ m.to = "fire_hire" /\ m.event = "made-decision"
  /\ \A u \in User : LET m == Hire("supplier-connected", <<u>>)
                     IN  m \in Message /\ Search(m) /\ m.who[1] = u
  /\ \A u \in User : LET m == Hire("supplier-state-changed", <<u>>)
                     IN  m \in Message /\ ~ Search(m) /\ m.to = "fire_hire"
  /\ \A u \in User : \A e \in {"connect", "shutdown"} :
       LET m == Tell(u, e) IN  m \in Message /\ ~ Search(m) /\ m.to = "supplier_connector"
  /\ LET m == Find("start") IN  m \in Message /\ Search(m) /\ m.to = "supplier_finder"
  /\ LET m == Hire("search-failed", <<>>) IN  m \in Message /\ Search(m) /\ m.event = "search-failed"
  /\ LET m == Find("supplier-not-connected")
     IN  m \in Message /\ ~ Search(m) /\ m.event = "supplier-not-connected"
  /\ LET m == Find("supplier-connected") IN  m \in Message /\ ~ Search(m)
  BY DEF Hire, Find, Tell, Message, Search

-----------------------------------------------------------------------------
(* The steps of fire_hire.                                                 *)

LEMMA DecisionComes ==
  ASSUME Typed, NEW q \in Seq(Message), Nobody(q), DecideToDismiss(q)
  PROVE  Nobody(queue') /\ Decided(queue')
<1>1. PICK d \in Seq(User) : queue' = q \o <<Hire("made-decision", d)>>
  BY DecisionType
<1>2. More(q, queue') /\ Decided(queue')
  BY <1>1, KnownEvents, PostsOther
<1> QED  BY <1>2 DEF More

LEMMA ReadySearch ==
  ASSUME NEW lost \in BOOLEAN, ~ lost,
         NEW q \in Seq(Message), Nobody(q), NEW r, Ready(r, q), finder'.state = "AT_STARTUP"
  PROVE  SearchOK(lost)'
<1>1. queue' = q \o <<Hire("instant", <<>>)>> /\ state' = "READY"
  BY DEF Ready, Posts
<1>2. More(q, queue')
  BY <1>1, KnownEvents, PostsOther
<1> QED  BY <1>1, <1>2, Rests DEF More

LEMMA DisconnectSearch ==
  ASSUME NEW lost \in BOOLEAN, ~ lost,
         Typed, NEW q \in Seq(Message), Nobody(q), NEW d \in Seq(User), DisconnectSuppliers(d, q),
         state' = "FIRE_MANY", finder'.state = "AT_STARTUP"
  PROVE  SearchOK(lost)'
<1>1. queue' = q \o TellAll(Among(d, Existing), "disconnect")
  BY DEF DisconnectSuppliers, Posts
<1>2. Among(d, Existing) \in Seq(User)
  <2>1. Existing \in SUBSET User /\ d \in Seq(People)
    <3>1. User \subseteq People
      BY DEF People
    <3> QED  BY <3>1, SeqMonotonic DEF Existing
  <2> QED  BY <2>1, AmongUsers
<1>3. /\ TellAll(Among(d, Existing), "disconnect") \in Seq(Message)
      /\ Nobody(TellAll(Among(d, Existing), "disconnect"))
  BY <1>2, Told
<1>4. Nobody(queue')
  BY <1>1, <1>3, Joined
<1> QED  BY <1>4, Rests

LEMMA FireHireSearch ==
  ASSUME Typed, NEW lost \in BOOLEAN, SearchOK(lost), NEW m \in Message, m.to = "fire_hire", NEW q \in Seq(Message),
         queue # <<>>, m = Head(queue), q = Tail(queue), FireHireEvent(m.event, m.who, q)
  PROVE  SearchOK(lost)' \/ (NamesSupplier /\ SearchOK(TRUE)')
<1> DEFINE e == m.event
           who == m.who
<1>0. /\ Nobody(queue) => ~ Search(m) /\ Nobody(q)
      /\ Single(queue) => IF Search(m) THEN Nobody(q) ELSE Single(q)
      /\ Decided(queue) => e = "made-decision" \/ Decided(q)
  BY FirstTaken DEF Typed
<1>1. Search(m) <=> e \in {"supplier-connected", "search-failed"}
  BY DEF Search
<1>2. /\ state # "HIRE_ONE" => finder.state = "AT_STARTUP" /\ Nobody(q) /\ ~ Search(m) /\ ~ lost
      /\ Search(m) => state = "HIRE_ONE" /\ finder.state = "AT_STARTUP" /\ Nobody(q) /\ ~ lost
  BY <1>0 DEF SearchOK, SearchIn
<1>3. ~ Search(m) /\ (state = "DECISION?" => e # "made-decision") => SearchIn(q, lost)
  BY <1>0 DEF SearchOK, SearchIn
<1>4. /\ e = "made-decision" => who \in Seq(User)
      /\ e \in {"supplier-connected", "supplier-state-changed"} => who[1] \in User
  BY EventIs
<1>5. FireHireEvent(e, who, q)
  OBVIOUS
<1>6. dismissList \in Seq(User)
  BY DEF Typed, CycleOK
<1> HIDE DEF e, who, Mine, Message
<1>7. CASE state = "READY" /\ RestartInReady(q)
  <2>1. UNCHANGED finder
    BY <1>7 DEF RestartInReady
  <2>2. CASE IsConfigChanged /\ Mine # {}
    <3>1. state' = "SUPPLIERS?" /\ queue' = q \o TellAll(Among(suppliers, Mine), "connect")
      BY <1>7, <2>2 DEF RestartInReady, Posts
    <3>2. Among(suppliers, Mine) \in Seq(User)
      BY MineType, AmongUsers DEF Typed, CycleOK
    <3>3. /\ TellAll(Among(suppliers, Mine), "connect") \in Seq(Message)
          /\ Nobody(TellAll(Among(suppliers, Mine), "connect"))
      BY <3>2, Told
    <3>4. Nobody(queue')
      BY <1>2, <1>7, <3>1, <3>3, Joined
    <3> QED  BY <1>2, <1>7, <2>1, <3>1, <3>4, Rests
  <2>3. CASE ~ (IsConfigChanged /\ Mine # {})
    <3>1. state' = "DECISION?" /\ DecideToDismiss(q)
      BY <1>7, <2>3 DEF RestartInReady
    <3>2. Nobody(queue') /\ Decided(queue')
      BY <1>2, <1>7, <3>1, DecisionComes
    <3> QED  BY <1>2, <1>7, <2>1, <3>1, <3>2, Rests
  <2> QED  BY <2>2, <2>3
<1>8. CASE e = "restart" /\ RestartLater(q)
  <2>1. SearchIn(q, lost) /\ queue' = q /\ UNCHANGED <<state, finder>>
    BY <1>1, <1>3, <1>8 DEF RestartLater, Posts
  <2> QED  BY <2>1, MoreSame, SearchKept
<1>9. CASE e = "made-decision" /\ state = "DECISION?" /\ MadeDecision(who, q)
  <2>1. UNCHANGED finder
    BY <1>9 DEF MadeDecision
  <2>2. CASE IsMoreNeeded(who)
    <3>1. state' = "HIRE_ONE" /\ queue' = q \o <<Find("start")>> /\ UNCHANGED suppliers
      BY <1>9, <2>2 DEF MadeDecision, Posts
    <3>2. Single(queue')
      BY <1>2, <1>9, <3>1, KnownEvents, PostsSearch
    <3> QED  BY <1>2, <1>9, <2>1, <3>1, <3>2, HandedOn
  <2>3. CASE ~ IsMoreNeeded(who) /\ who # <<>>
    <3>1. state' = "FIRE_MANY" /\ DisconnectSuppliers(who, q)
      BY <1>9, <2>3 DEF MadeDecision
    <3> QED  BY <1>2, <1>4, <1>9, <2>1, <3>1, DisconnectSearch
  <2>4. CASE ~ IsMoreNeeded(who) /\ who = <<>>
    <3>1. Ready("fire-hire-finished", q)
      BY <1>9, <2>4 DEF MadeDecision
    <3> QED  BY <1>2, <1>9, <2>1, <3>1, ReadySearch
  <2> QED  BY <2>2, <2>3, <2>4
<1>10. CASE e = "supplier-connected" /\ state = "HIRE_ONE" /\ SupplierConnected(who[1], q)
  <2> DEFINE u == who[1]
  <2>1. SupplierConnected(u, q) /\ finder.state = "AT_STARTUP" /\ Nobody(q) /\ ~ lost
    BY <1>1, <1>2, <1>10
  <2> HIDE DEF u
  <2>2. UNCHANGED finder
    BY <2>1 DEF SupplierConnected
  <2>3. CASE IsStillNeeded(u)
    <3>1. state' = "HIRE_ONE" /\ queue' = q \o <<Find("start")>>
      BY <1>10, <2>1, <2>3 DEF SupplierConnected, Posts
    <3>2. Single(queue')
      BY <2>1, <3>1, KnownEvents, PostsSearch
    <3> QED  BY <2>1, <2>2, <3>1, <3>2, HandedOn
  <2>4. CASE ~ IsStillNeeded(u) /\ dismissList # <<>>
    <3>1. state' = "FIRE_MANY" /\ DisconnectSuppliers(dismissList, q)
      BY <2>1, <2>4 DEF SupplierConnected
    <3> QED  BY <1>6, <2>1, <2>2, <3>1, DisconnectSearch
  <2>5. CASE ~ IsStillNeeded(u) /\ dismissList = <<>>
    <3>1. Ready("suppliers-changed", q)
      BY <2>1, <2>5 DEF SupplierConnected
    <3> QED  BY <2>1, <2>2, <3>1, ReadySearch
  <2> QED  BY <2>3, <2>4, <2>5
<1>11. CASE e = "search-failed" /\ state = "HIRE_ONE" /\ SearchFailed(q)
  <2>1. finder.state = "AT_STARTUP" /\ Nobody(q) /\ ~ lost /\ UNCHANGED finder
    BY <1>1, <1>2, <1>11 DEF SearchFailed
  <2>2. CASE dismissList = <<>>
    <3>1. state' = "READY" /\ queue' = q \o <<Hire("instant", <<>>)>>
      BY <1>11, <2>2 DEF SearchFailed, Posts
    <3>2. More(q, queue')
      BY <3>1, KnownEvents, PostsOther
    <3> QED  BY <2>1, <3>1, <3>2, Rests DEF More
  <2>3. CASE dismissList # <<>>
    <3>1. state' = "FIRE_MANY" /\ DisconnectSuppliers(dismissList, q)
      BY <1>11, <2>3 DEF SearchFailed
    <3> QED  BY <1>6, <2>1, <3>1, DisconnectSearch
  <2> QED  BY <2>2, <2>3
<1>12. CASE e = "supplier-state-changed" /\ state = "FIRE_MANY" /\ DismissedReported(who[1], q)
  <2> DEFINE u == who[1]
  <2>1. u \in User /\ DismissedReported(u, q) /\ UNCHANGED finder
    BY <1>4, <1>12 DEF DismissedReported
  <2> HIDE DEF u
  <2>2. More(q, q \o <<Tell(u, "shutdown")>>) /\ q \o <<Tell(u, "shutdown")>> \in Seq(Message)
    BY <2>1, KnownEvents, PostsOther
  <2>3. Nobody(q \o <<Tell(u, "shutdown")>>)
    BY <1>2, <1>12, <2>2 DEF More
  <2>4. CASE Len(dismissList) = dismissResults
    <3>1. Ready("suppliers-changed", q \o <<Tell(u, "shutdown")>>)
      BY <2>1, <2>4 DEF DismissedReported
    <3> QED  BY <1>2, <1>12, <2>1, <2>2, <2>3, <3>1, ReadySearch
  <2>5. CASE Len(dismissList) # dismissResults
    <3>1. queue' = q \o <<Tell(u, "shutdown")>> /\ UNCHANGED state
      BY <2>1, <2>5 DEF DismissedReported, Posts
    <3> QED  BY <1>2, <1>12, <2>1, <2>3, <3>1, Rests
  <2> QED  BY <2>4, <2>5
<1>13. CASE e = "supplier-state-changed" /\ state = "SUPPLIERS?" /\ ConnectReported(q)
  <2>1. UNCHANGED finder
    BY <1>13 DEF ConnectReported
  <2>2. CASE connectList = {}
    <3>1. state' = "DECISION?" /\ DecideToDismiss(q)
      BY <1>13, <2>2 DEF ConnectReported
    <3>2. Nobody(queue') /\ Decided(queue')
      BY <1>2, <1>13, <3>1, DecisionComes
    <3> QED  BY <1>2, <1>13, <2>1, <3>1, <3>2, Rests
  <2>3. CASE connectList # {}
    <3>1. queue' = q /\ UNCHANGED state
      BY <1>13, <2>3 DEF ConnectReported, Posts
    <3> QED  BY <1>2, <1>13, <2>1, <3>1, Rests
  <2> QED  BY <2>2, <2>3
<1>14. CASE /\ Ignored(q) /\ ~ (e = "made-decision" /\ state = "DECISION?")
            /\ ~ (e = "supplier-connected" /\ state = "HIRE_ONE" /\ who[1] \notin Mine)
            /\ ~ (e = "search-failed" /\ state = "HIRE_ONE")
  <2>1. queue' = q /\ UNCHANGED <<state, finder>>
    BY <1>14 DEF Ignored, Posts
  <2>2. CASE ~ Search(m)
    <3>1. SearchIn(q, lost)
      BY <1>3, <1>14, <2>2
    <3> QED  BY <2>1, <3>1, MoreSame, SearchKept
  <2>3. CASE Search(m)
    <3>1. /\ state = "HIRE_ONE" /\ finder.state = "AT_STARTUP" /\ Nobody(q)
          /\ e = "supplier-connected" /\ who[1] \in Mine
      BY <1>1, <1>2, <1>14, <2>3
    <3>2. SearchOK(TRUE)'
      BY <2>1, <3>1 DEF SearchOK, SearchIn
    <3>3. NamesSupplier
      BY <3>1 DEF NamesSupplier, e, who
    <3> QED  BY <3>2, <3>3
  <2> QED  BY <2>2, <2>3
<1> QED  BY <1>5, <1>7, <1>8, <1>9, <1>10, <1>11, <1>12, <1>13, <1>14 DEF FireHireEvent

-----------------------------------------------------------------------------
(* The steps of the finder and of the connectors.                          *)

LEMMA FailedSearch ==
  ASSUME NEW lost \in BOOLEAN, ~ lost,
         NEW q \in Seq(Message), Nobody(q), Failed(q), state' = "HIRE_ONE"
  PROVE  SearchOK(lost)'
<1>1. queue' = q \o <<Hire("search-failed", <<>>)>> /\ finder'.state = "AT_STARTUP"
  BY DEF Failed, Posts, NoFinder
<1>2. Single(queue')
  BY <1>1, KnownEvents, PostsSearch
<1> QED  BY <1>1, <1>2, HandedOn

LEMMA FinderNow ==
  ASSUME Typed, NEW s, Finder(s)
  PROVE  finder'.state = s /\ finder'.target = finder.target
  BY DEF Typed, FinderOK, Finder

LEMMA NextSearch ==
  ASSUME NEW lost \in BOOLEAN, ~ lost,
         Typed, NEW q \in Seq(Message), Nobody(q), NextAttempt(q), state' = "HIRE_ONE"
  PROVE  SearchOK(lost)'
<1>1. CASE finder.attempts < MaxAttempts
  <2>1. Finder("RANDOM_USER") /\ queue' = q
    BY <1>1 DEF NextAttempt, Posts
  <2>2. finder'.state = "RANDOM_USER"
    BY <2>1, FinderNow
  <2> QED  BY <2>1, <2>2, Searches
<1>2. CASE ~ (finder.attempts < MaxAttempts)
  BY <1>2, FailedSearch DEF NextAttempt
<1> QED  BY <1>1, <1>2

LEMMA FinderSearch ==
  ASSUME Typed, NEW lost \in BOOLEAN, SearchOK(lost), NEW m \in Message, m.to = "supplier_finder",
         NEW q \in Seq(Message), queue # <<>>, m = Head(queue), q = Tail(queue), FinderEvent(m.event, q)
  PROVE  SearchOK(lost)'
<1> DEFINE e == m.event
<1>0. /\ Nobody(queue) => ~ Search(m) /\ Nobody(q)
      /\ Single(queue) => IF Search(m) THEN Nobody(q) ELSE Single(q)
      /\ Decided(queue) => e = "made-decision" \/ Decided(q)
  BY FirstTaken DEF Typed
<1>1. (Search(m) <=> e = "start") /\ e # "made-decision"
  BY DEF Search, Message
<1>2. /\ finder.state # "AT_STARTUP" => state = "HIRE_ONE" /\ Nobody(q) /\ ~ Search(m) /\ ~ lost
      /\ Search(m) => state = "HIRE_ONE" /\ finder.state = "AT_STARTUP" /\ Nobody(q) /\ ~ lost
  BY <1>0 DEF SearchOK, SearchIn
<1>3. ~ Search(m) => SearchIn(q, lost)
  BY <1>0, <1>1 DEF SearchOK, SearchIn
<1>4. FinderEvent(e, q)
  OBVIOUS
<1>5. UNCHANGED state
  BY DEF FinderEvent
<1> HIDE DEF e, Message
<1>6. CASE e = "start" /\ finder.state = "AT_STARTUP"
  <2>1. queue' = q /\ finder'.state \in {"RANDOM_USER", "ACK?"}
    BY <1>4, <1>6 DEF FinderEvent, FinderStart, Posts, NoFinder
  <2> QED  BY <1>1, <1>2, <1>5, <1>6, <2>1, Searches
<1>7. CASE e = "supplier-connected" /\ finder.state = "SERVICE?"
  <2> DEFINE n == Hire("supplier-connected", <<finder.target>>)
  <2>1. finder' = NoFinder /\ queue' = q \o <<n>>
    BY <1>4, <1>7 DEF FinderEvent, Posts
  <2>2. n \in Message /\ Search(n)
    BY <1>7, KnownEvents DEF Typed, FinderOK
  <2> HIDE DEF n
  <2>3. Single(queue')
    BY <1>2, <1>7, <2>1, <2>2, PostsSearch
  <2>4. finder'.state = "AT_STARTUP"
    BY <2>1 DEF NoFinder
  <2> QED  BY <1>2, <1>5, <1>7, <2>3, <2>4, HandedOn
<1>8. CASE e = "supplier-not-connected" /\ finder.state = "SERVICE?"
  <2>1. NextAttempt(q)
    BY <1>4, <1>8 DEF FinderEvent
  <2> QED  BY <1>2, <1>5, <1>8, <2>1, NextSearch
<1>9. CASE /\ ~ (e = "start" /\ finder.state = "AT_STARTUP")
           /\ ~ (e = "supplier-connected" /\ finder.state = "SERVICE?")
           /\ ~ (e = "supplier-not-connected" /\ finder.state = "SERVICE?")
  <2>1. queue' = q /\ UNCHANGED finder
    BY <1>4, <1>9 DEF FinderEvent, Posts
  <2>2. SearchIn(q, lost)
    BY <1>1, <1>2, <1>3, <1>9
  <2> QED  BY <1>5, <2>1, <2>2, MoreSame, SearchKept
<1> QED  BY <1>6, <1>7, <1>8, <1>9

LEMMA FoundIs ==
  ASSUME NEW u, NEW s
  PROVE  \/ FoundOne(u, s) = <<>> \/ FoundOne(u, s) = <<Find("supplier-not-connected")>>
         \/ FoundOne(u, s) = <<Find("supplier-connected")>> /\ finder.target = u /\ u \notin Mine
  BY DEF FoundOne, FindsOut

LEMMA ConnectorSearch ==
  ASSUME Typed, NEW u \in User, NEW e, NEW q \in Seq(Message),
         NEW lost \in BOOLEAN, SearchIn(q, lost), ConnectorEvent(u, e, q)
  PROVE  SearchOK(lost)'
<1> DEFINE h == Handles(sc[u].state, sc[u].leaving, e)
           p == IF Counted(u) THEN <<Hire("supplier-state-changed", <<u>>)>> ELSE <<>>
           f == FoundOne(u, h.state)
<1>1. UNCHANGED <<state, finder>> /\ queue' = IF ~ h.reports THEN q ELSE (q \o p) \o f
  BY DEF ConnectorEvent, Posts
<1>2. p \in Seq(Message) /\ Nobody(p)
  <2> DEFINE m == Hire("supplier-state-changed", <<u>>)
  <2>1. m \in Message /\ ~ Search(m) /\ m.to = "fire_hire"
    BY KnownEvents
  <2> HIDE DEF m
  <2>2. <<m>> \in Seq(Message) /\ Nobody(<<m>>)
    BY <2>1, OneEvent
  <2>3. <<>> \in Seq(Message)
    OBVIOUS
  <2> QED  BY <2>2, <2>3, NobodyWaits DEF m
<1>3. f \in Seq(Message) /\ Nobody(f)
  <2> DEFINE m == Find("supplier-not-connected")
             n == Find("supplier-connected")
  <2>1. m \in Message /\ ~ Search(m) /\ n \in Message /\ ~ Search(n)
    BY KnownEvents
  <2>2. \/ f = <<>> \/ f = <<m>> \/ f = <<n>>
    BY FoundIs
  <2> HIDE DEF m, n, f
  <2>3. <<m>> \in Seq(Message) /\ Nobody(<<m>>) /\ <<n>> \in Seq(Message) /\ Nobody(<<n>>)
    BY <2>1, OneEvent
  <2>4. <<>> \in Seq(Message)
    OBVIOUS
  <2> QED  BY <2>2, <2>3, <2>4, NobodyWaits
<1> HIDE DEF h, p, f, Message
<1>4. CASE ~ h.reports
  BY <1>1, <1>4, MoreSame, SearchKept
<1>5. CASE h.reports
  <2>1. More(q, q \o p) /\ q \o p \in Seq(Message)
    BY <1>2, JoinedMore, ConcatProperties
  <2>2. More(q \o p, queue')
    BY <1>1, <1>3, <1>5, <2>1, JoinedMore
  <2>3. More(q, queue')
    BY <2>1, <2>2 DEF More
  <2> QED  BY <1>1, <2>3, SearchKept
<1> QED  BY <1>4, <1>5

LEMMA HandleEventSearch ==
  ASSUME Typed, NEW lost \in BOOLEAN, SearchOK(lost), HandleEvent
  PROVE  SearchOK(lost)' \/ (NamesSupplier /\ SearchOK(TRUE)')
<1> DEFINE m == Head(queue)
           q == Tail(queue)
<1>1. queue \in Seq(Message) /\ queue # <<>> /\ m \in Message /\ q \in Seq(Message)
  BY Taking DEF Typed, HandleEvent
<1>2. m.to \in {"fire_hire", "supplier_finder", "supplier_connector"}
      /\ (m.to = "supplier_connector" => m.who[1] \in User /\ m.event \in {"connect", "disconnect", "shutdown"})
  BY <1>1, EventIs
<1>3. CASE m.to = "fire_hire"
  <2>1. FireHireEvent(m.event, m.who, q)
    BY <1>3 DEF HandleEvent
  <2> QED  BY <1>1, <1>3, <2>1, FireHireSearch
<1>4. CASE m.to = "supplier_finder"
  <2>1. FinderEvent(m.event, q)
    BY <1>4 DEF HandleEvent
  <2> QED  BY <1>1, <1>4, <2>1, FinderSearch
<1>5. CASE m.to = "supplier_connector"
  <2>1. ConnectorEvent(m.who[1], m.event, q)
    BY <1>5 DEF HandleEvent
  <2>2. ~ Search(m) /\ m.event # "made-decision"
    BY <1>2, <1>5 DEF Search
  <2>3. SearchIn(q, lost)
    <3>1. /\ Nobody(queue) => Nobody(q)
          /\ Single(queue) => Single(q)
          /\ Decided(queue) => Decided(q)
      BY <1>1, <2>2, FirstTaken
    <3> QED  BY <3>1 DEF SearchOK, SearchIn
  <2> HIDE DEF m, q
  <2> QED  BY <1>1, <1>2, <1>5, <2>1, <2>3, ConnectorSearch
<1> QED  BY <1>2, <1>3, <1>4, <1>5

(* Those outside.                                                          *)
LEMMA OutsideSearch ==
  ASSUME Typed, NEW lost \in BOOLEAN, SearchOK(lost), Next, ~ HandleEvent
  PROVE  SearchOK(lost)'
<1>1. /\ queue \in Seq(Message) /\ <<>> \in Seq(Message) /\ SearchIn(queue, lost)
      /\ finder.state # "AT_STARTUP" => state = "HIRE_ONE" /\ Nobody(queue) /\ ~ lost
      /\ state # "HIRE_ONE" => finder.state = "AT_STARTUP" /\ ~ lost
  BY DEF Typed, SearchOK, SearchIn
<1>2. CASE TimerFireHire
  <2>1. queue = <<>> /\ UNCHANGED finder
    BY <1>2 DEF TimerFireHire
  <2>2. state \in {"FIRE_MANY", "SUPPLIERS?"}
    BY <1>2 DEF TimerFireHire
  <2>3. finder.state = "AT_STARTUP" /\ ~ lost
    BY <1>1, <2>2
  <2>4. CASE state = "FIRE_MANY"
    <3> DEFINE p == TellAll(EveryOther(dismissList), "shutdown")
    <3>1. Ready("suppliers-changed", p)
      BY <1>2, <2>4 DEF TimerFireHire
    <3>2. p \in Seq(Message) /\ Nobody(p)
      BY EveryOtherType, Told
    <3> HIDE DEF p
    <3> QED  BY <2>1, <2>3, <3>1, <3>2, ReadySearch
  <2>5. CASE state = "SUPPLIERS?"
    <3>1. state' = "DECISION?" /\ DecideToDismiss(<<>>)
      BY <1>2, <2>5 DEF TimerFireHire
    <3>2. Nobody(queue') /\ Decided(queue')
      BY <1>1, <3>1, NobodyWaits, DecisionComes
    <3> QED  BY <2>1, <2>3, <3>1, <3>2, Rests
  <2> QED  BY <2>2, <2>4, <2>5
<1>3. CASE TimerFinder
  <2>1. NextAttempt(<<>>) /\ finder.state # "AT_STARTUP" /\ UNCHANGED state
    BY <1>3 DEF TimerFinder, FinderRest
  <2> QED  BY <1>1, <2>1, NobodyWaits, NextSearch
<1>4. CASE UsersNotFound
  <2>1. Failed(queue) /\ finder.state # "AT_STARTUP" /\ UNCHANGED state
    BY <1>4 DEF UsersNotFound, FinderRest
  <2> QED  BY <1>1, <2>1, FailedSearch
<1>5. CASE TargetAcked
  <2> DEFINE m == Tell(finder.target, "connect")
  <2>1. /\ Finder("SERVICE?") /\ finder.state = "ACK?" /\ UNCHANGED state
        /\ CanCome /\ queue' = Append(queue, m)
    BY <1>5 DEF TargetAcked, FinderRest, Queued
  <2>2. m \in Message /\ ~ Search(m) /\ m.to = "supplier_connector"
    BY <2>1, KnownEvents DEF Typed, FinderOK
  <2> HIDE DEF m, Message
  <2>3. queue' = queue \o <<m>>
    BY <1>1, <2>1, <2>2, AppendIsConcat
  <2>4. Nobody(queue')
    BY <1>1, <2>1, <2>2, <2>3, PostsOther DEF More
  <2>5. finder'.state = "SERVICE?"
    BY <2>1, FinderNow
  <2> QED  BY <1>1, <2>1, <2>4, <2>5, Searches
<1>6. ASSUME NEW u \in User, UserFound(u) PROVE SearchOK(lost)'
  <2>1. finder.state = "RANDOM_USER" /\ finder'.state = "ACK?" /\ UNCHANGED <<state, queue>>
    BY <1>6 DEF UserFound, FinderRest
  <2> QED  BY <1>1, <2>1, Searches
<1>7. ASSUME NEW u \in User, ConnectorAnswered(u) \/ Unasked(u) PROVE SearchOK(lost)'
  <2>1. \E e : \E q \in {queue, <<>>} : ConnectorEvent(u, e, q) /\ (q = <<>> => queue = <<>>)
    BY <1>7 DEF ConnectorAnswered, Unasked
  <2>2. PICK e : \E q \in {queue, <<>>} : ConnectorEvent(u, e, q) /\ (q = <<>> => queue = <<>>)
    BY <2>1
  <2>3. ConnectorEvent(u, e, queue)
    BY <2>2
  <2> QED  BY <1>1, <2>3, ConnectorSearch
<1>8. ASSUME queue' = Append(queue, Restart), UNCHANGED <<state, finder>> PROVE SearchOK(lost)'
  <2>1. Restart \in Message /\ ~ Search(Restart) /\ Restart.to = "fire_hire"
    BY KnownEvents DEF Restart
  <2> HIDE DEF Message
  <2>2. queue' = queue \o <<Restart>>
    BY <1>1, <1>8, <2>1, AppendIsConcat
  <2>3. More(queue, queue')
    BY <1>1, <2>1, <2>2, PostsOther
  <2> QED  BY <1>1, <1>8, <2>3, SearchKept
<1>9. CASE ScheduledRestart
  BY <1>8, <1>9 DEF ScheduledRestart, Queued
<1>10. CASE RestartAsked
  BY <1>8, <1>10 DEF RestartAsked, Trouble, Queued
<1>11. ASSUME NEW n \in Numbers, ConfigModified(n) PROVE SearchOK(lost)'
  BY <1>8, <1>11 DEF ConfigModified, Trouble, Queued
<1>12. ASSUME NEW S \in SUBSET User, SupplierReplace(S) PROVE SearchOK(lost)'
  <2> DEFINE p == [i \in 1 .. Cardinality(S) |-> Restart]
  <2>1. queue' = queue \o p /\ UNCHANGED <<state, finder>>
    BY <1>12 DEF SupplierReplace, Trouble, Posts
  <2>2. Restart \in Message /\ ~ Search(Restart) /\ Restart.to = "fire_hire"
    BY KnownEvents DEF Restart
  <2>3. p \in Seq(Message) /\ Nobody(p)
    <3>1. Cardinality(S) \in Nat
      BY NumbersAssumption, FS_Subset, FS_CardinalityType
    <3> HIDE DEF Message
    <3>2. p \in [1 .. Cardinality(S) -> Message] /\ \A i \in DOMAIN p : p[i] = Restart
      BY <2>2
    <3> HIDE DEF p
    <3>3. p \in Seq(Message)
      BY <3>1, <3>2, SeqDef
    <3> QED  BY <2>2, <3>2, <3>3 DEF Nobody
  <2> HIDE DEF p, Message
  <2>4. More(queue, queue')
    BY <1>1, <2>1, <2>3, JoinedMore
  <2> QED  BY <1>1, <2>1, <2>4, SearchKept
<1>13. CASE MonitorTakes
  <2>1. UNCHANGED <<state, finder, queue>>
    BY <1>13 DEF MonitorTakes
  <2> QED  BY <1>1, <2>1, MoreSame, SearchKept
<1> QED  BY <1>2, <1>3, <1>4, <1>5, <1>6, <1>7, <1>9, <1>10, <1>11, <1>12, <1>13 DEF Next

-----------------------------------------------------------------------------
(* The theorems.                                                           *)

(* Every step keeps each part of the state what it should be: the finder   *)
(* has a target when he is asked, and no attempt is beyond the last one.   *)
THEOREM FireHireTypes == Spec => []TypeOK
<1>1. Init => Inv
  BY InvInit
<1>2. Inv /\ [Next]_vars => Inv'
  BY InvStep DEF Keeps
<1>3. Inv => TypeOK
  <2>1. ASSUME NEW m \in Message PROVE m.to \in {"fire_hire", "supplier_finder", "supplier_connector"}
    BY EventIs
  <2>2. ASSUME queue \in Seq(Message) PROVE \A i \in DOMAIN queue : queue[i] \in Message
    BY <2>2, LenProperties, ElementOfSeq
  <2> HIDE DEF Message
  <2>3. ASSUME Inv PROVE \A i \in DOMAIN queue : queue[i].to \in {"fire_hire", "supplier_finder", "supplier_connector"}
    BY <2>1, <2>2, <2>3 DEF Inv, Typed
  <2> QED  BY <2>3 DEF Inv, Typed, FinderOK, CycleOK, ConnectorsOK, AskedOK, CycleChanges, TypeOK,
                 People, ConnectorType, ConnectorStates, Ends
<1> QED  BY <1>1, <1>2, <1>3, PTL DEF Spec

(* fire_hire keeps to Hiring: suppliers change only in a cycle that was    *)
(* asked for, 'fire-hire-finished' comes only when nothing has changed,    *)
(* and a search that fails has taken nobody's place and asks for another.  *)
THEOREM FireHirePromise == Spec => Promise
<1>1. Init => Inv /\ Abstract!HiringInit
  BY InvInit
<1>2. Inv /\ [Next]_vars => Inv' /\ [Abstract!HiringNext]_(Abstract!hiring)
  BY InvStep DEF Keeps, Follows
<1> QED  BY <1>1, <1>2, PTL DEF Spec, Promise, Abstract!HiringSpec

(* Who is told that he is dismissed has no place in the list any more,     *)
(* unless there were more suppliers than are desired: the search goes on   *)
(* until there is somebody for each place, counted as isStillNeeded does.  *)
THEOREM FireHireReplaced == Spec => Replaced
<1>1. Init => Inv
  BY InvInit
<1>2. Inv /\ [Next]_vars => Inv'
  BY InvStep DEF Keeps
<1>3. Inv /\ [Next]_vars =>
        [state # "FIRE_MANY" /\ state' = "FIRE_MANY" /\ Len(suppliers') <= desired
           => ToSet(dismissList') \cap {suppliers'[i] : i \in DOMAIN suppliers'} = {}]_vars
  BY StepTellsWhoLeft DEF Inv, NoneLeft
<1> QED  BY <1>1, <1>2, <1>3, PTL DEF Spec, Replaced

(* fire_hire does not come to wait for what does not come, however many    *)
(* events wait when an answer comes from outside: its decision is under    *)
(* way in DECISION?, and in HIRE_ONE one search is, or what has become of  *)
(* it, unless the event that it handles names a supplier that it has.      *)
THEOREM FireHireAwaited == Spec => Awaited
<1>1. Init => Inv /\ SearchOK(FALSE)
  <2>1. Init => queue = <<Restart>> /\ state = "READY" /\ finder = NoFinder
    BY DEF Init
  <2>2. Restart \in Message /\ ~ Search(Restart)
    BY KnownEvents DEF Restart
  <2>3. Nobody(<<Restart>>)
    BY <2>2, OneEvent
  <2>4. queue = <<Restart>> /\ state = "READY" /\ finder = NoFinder => SearchOK(FALSE)
    BY <2>3 DEF SearchOK, SearchIn, NoFinder
  <2> QED  BY <2>1, <2>4, InvInit
<1>2. ASSUME Inv, NEW lost \in BOOLEAN, SearchOK(lost), [Next]_vars
      PROVE  Inv' /\ (SearchOK(lost)' \/ (NamesSupplier /\ SearchOK(TRUE)'))
  <2>1. Inv' /\ Typed
    BY <1>2, InvStep DEF Keeps, Inv
  <2>2. CASE HandleEvent
    BY <1>2, <2>1, <2>2, HandleEventSearch
  <2>3. CASE Next /\ ~ HandleEvent
    BY <1>2, <2>1, <2>3, OutsideSearch
  <2>4. CASE UNCHANGED vars
    <3>1. UNCHANGED <<state, finder, queue>> /\ SearchIn(queue, lost)
      BY <1>2, <2>4 DEF vars, SearchOK
    <3> QED  BY <1>2, <2>1, <3>1, MoreSame, SearchKept
  <2> QED  BY <1>2, <2>1, <2>2, <2>3, <2>4
<1> DEFINE Waits == SearchOK(TRUE) \/ SearchOK(FALSE)
<1>3. Inv /\ Waits /\ [Next]_vars => Inv' /\ Waits'
  BY <1>2
<1>4. SearchOK(FALSE)' => (state' = "DECISION?" => Deciding') /\ (state' = "HIRE_ONE" => Searching')
  <2>1. Decided(queue') => Deciding'
    BY DEF Decided, Deciding
  <2>2. Single(queue') => \E i \in DOMAIN queue' : Search(queue'[i])
    BY DEF Single
  <2> QED  BY <2>1, <2>2 DEF SearchOK, SearchIn, Searching
<1>5. SearchOK(TRUE) => state = "HIRE_ONE" /\ ~ Searching
  BY DEF SearchOK, SearchIn, Searching, Nobody
<1>6. Inv /\ Waits /\ [Next]_vars =>
        [/\ state' = "DECISION?" => Deciding'
         /\ state' = "HIRE_ONE" /\ ~ Searching' => NamesSupplier \/ (state = "HIRE_ONE" /\ ~ Searching)]_vars
  <2> SUFFICES ASSUME Inv, Waits, [Next]_vars
               PROVE  /\ state' = "DECISION?" => Deciding'
                      /\ state' = "HIRE_ONE" /\ ~ Searching' => NamesSupplier \/ (state = "HIRE_ONE" /\ ~ Searching)
    OBVIOUS
  <2>1. CASE SearchOK(FALSE)
    <3>1. SearchOK(FALSE)' \/ (NamesSupplier /\ SearchOK(TRUE)')
      BY <1>2, <2>1
    <3>2. SearchOK(TRUE)' => state' = "HIRE_ONE"
      BY DEF SearchOK, SearchIn
    <3> QED  BY <1>4, <3>1, <3>2
  <2>2. CASE SearchOK(TRUE)
    <3>1. SearchOK(TRUE)'
      BY <1>2, <2>2
    <3>2. state' = "HIRE_ONE"
      BY <3>1 DEF SearchOK, SearchIn
    <3> QED  BY <1>5, <2>2, <3>2
  <2> QED  BY <2>1, <2>2
<1> QED  BY <1>1, <1>3, <1>6, PTL DEF Spec, Awaited
=============================================================================
