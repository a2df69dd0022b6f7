------------------------- MODULE LocalService_proofs -------------------------
(***************************************************************************)
(* Theorems about the services, for every set of services and every        *)
(* dependency relation: type correctness, one outcome per start, and the   *)
(* implementation of Layers, from which follows that no service runs       *)
(* without the services it depends on.                                     *)
(***************************************************************************)
EXTENDS LocalService, FiniteSetTheorems, SequenceTheorems, WellFoundedInduction, TLAPS

USE ServiceAssumption, DependsOnAssumption, KindAssumption, BoundAssumption

(* The events that are no outcome of a start.                              *)
Plain == {m \in Message : m.event \notin Outcome}

Has(q, s, e) == \E i \in DOMAIN q : q[i].to = s /\ q[i].event = e

Single(q, s) ==
  \A i, j \in DOMAIN q : /\ q[i].to = s /\ q[i].event \in Outcome
                         /\ q[j].to = s /\ q[j].event \in Outcome
                         => i = j

(* OneOutcomeOf in those terms.                                            *)
LEMMA OneOutcomeAgain ==
  ASSUME NEW s \in Service
  PROVE  OneOutcomeOf(s) <=>
           /\ Single(queue, s)
           /\ s \in starts => \A e \in Outcome : ~ Has(queue, s, e)
           /\ state[s] = "STARTING" <=> s \in starts \/ \E e \in Outcome : Has(queue, s, e)
BY DEF OneOutcomeOf, IsOutcome, Single, Has

-----------------------------------------------------------------------------
(* What the operators of the driver return.                                *)

LEMMA OrdersType ==
  ASSUME NEW S \in SUBSET Service, NEW order \in Orders(S)
  PROVE  order \in Seq(Service)
<1>1. IsFiniteSet(S) /\ Cardinality(S) \in Nat
  BY FS_Subset, FS_CardinalityType
<1>2. order \in [1..Cardinality(S) -> S]
  BY DEF Orders
<1> QED  BY <1>1, <1>2

LEMMA PostAllType ==
  ASSUME NEW order \in Seq(Service), NEW e \in Event \ Outcome
  PROVE  PostAll(order, e) \in Seq(Plain)
<1>1. \A s \in Service : Post(s, e) \in Plain
  BY DEF Post, Plain, Message
<1>2. order \in [1..Len(order) -> Service] /\ Len(order) \in Nat
  BY LenProperties
<1>3. PostAll(order, e) \in [1..Len(order) -> Plain]
  BY <1>1, <1>2 DEF PostAll
<1> QED  BY <1>2, <1>3

LEMMA CallbackType ==
  ASSUME NEW s \in Service, NEW result, NEW order \in Orders(Told(result, s)),
         enabled \subseteq Service
  PROVE  OnServiceCallback(result, order) \in Seq(Plain)
<1>1. Told(result, s) \in SUBSET Service
  BY DEF Told, Dependents
<1>2. order \in Seq(Service)
  BY <1>1, OrdersType
<1>3. "start" \in Event \ Outcome /\ "depend-service-stopped" \in Event \ Outcome
  BY DEF Event, Outcome
<1> QED  BY <1>2, <1>3, PostAllType DEF OnServiceCallback

(* A nonempty set of positions of a sequence has a first one.              *)
LEMMA FirstPosition ==
  ASSUME NEW can \in SUBSET Nat, can # {}
  PROVE  \E i \in can : \A j \in can : i <= j
<1> DEFINE Less == OpToRel(<, Nat)
<1>1. \E i \in can : \A j \in can : ~ (<<j, i>> \in Less)
  BY NatLessThanWellFounded, WFMin
<1>2. \A i, j \in Nat : j < i => <<j, i>> \in Less
  BY Zenon DEF OpToRel
<1>3. PICK R : /\ \E i \in can : \A j \in can : ~ (<<j, i>> \in R)
              /\ \A i, j \in Nat : j < i => <<j, i>> \in R
  BY <1>1, <1>2, Zenon
<1>4. PICK i \in can : \A j \in can : ~ (<<j, i>> \in R)
  BY <1>3, Zenon
<1>5. \A j \in can : ~ (j < i)
  BY <1>3, <1>4, Zenon
<1> QED  BY <1>5

BatchOK(b) ==
  /\ b.batch \in {"none", "starting", "stopping"}
  /\ b.waiting \subseteq Service
  /\ b.restarts \in Seq(Service)
  /\ b.posts \in Seq(Plain)

LEMMA FireType ==
  ASSUME TypeOK, NEW S, NEW st
  PROVE  BatchOK(Fire(S, st))
<1>1. \A s \in Service, e \in {"start", "stop"} : PostDeferred(s, e) \in Plain
  BY DEF PostDeferred, Plain, Message, Event, Outcome
<1>2. BatchOK(NoBatch)
  BY EmptySeq DEF BatchOK, NoBatch, Batch
<1>3. BatchOK(AfterStarting)
  <2>1. CASE restarts = <<>>
    BY <1>2, <2>1 DEF AfterStarting
  <2>2. CASE restarts # <<>>
    <3>1. Head(restarts) \in Service /\ restarts \in Seq(Service)
      BY <2>2 DEF TypeOK
    <3>2. <<PostDeferred(Head(restarts), "stop")>> \in Seq(Plain)
      BY <1>1, <3>1
    <3> QED  BY <2>2, <3>1, <3>2 DEF AfterStarting, BatchOK, Batch
  <2> QED  BY <2>1, <2>2
<1>4. BatchOK(AfterStopping(st))
  <2> DEFINE can == {i \in DOMAIN restarts : Startable(restarts[i], st)}
             first == restarts[CHOOSE i \in can : \A j \in can : i <= j]
  <2>1. CASE can = {}
    BY <1>2, <2>1 DEF AfterStopping
  <2>2. CASE can # {}
    <3>1. can \in SUBSET Nat
      BY LenProperties DEF TypeOK
    <3>2. (CHOOSE i \in can : \A j \in can : i <= j) \in can
      BY <2>2, <3>1, FirstPosition
    <3>3. first \in Service
      BY <3>2, ElementOfSeq, LenProperties DEF TypeOK
    <3> HIDE DEF can, first
    <3>4. <<PostDeferred(first, "start")>> \in Seq(Plain)
      BY <1>1, <3>3
    <3>5. AfterStopping(st) = Batch("starting", {first}, <<>>, <<PostDeferred(first, "start")>>)
      BY <2>2 DEF AfterStopping, can, first
    <3> QED  BY <3>3, <3>4, <3>5, EmptySeq DEF BatchOK, Batch
  <2> QED  BY <2>1, <2>2
<1>5. BatchOK(Batch(batch, waiting \ S, restarts, <<>>))
  BY EmptySeq DEF TypeOK, BatchOK, Batch
<1> QED  BY <1>3, <1>4, <1>5 DEF Fire

-----------------------------------------------------------------------------
(* What a handler does to the queue: it takes the first event and posts    *)
(* plain events; at most one outcome follows.                              *)

LEMMA Consume ==
  ASSUME NEW q \in Seq(Message), q # <<>>, NEW m \in Seq(Plain), NEW r, r = Tail(q) \o m
  PROVE  /\ r \in Seq(Message)
         /\ \A s \in Service : Single(q, s) => Single(r, s)
         /\ \A s \in Service, e \in Outcome : Has(r, s, e) => Has(q, s, e)
         /\ \A s \in Service, e \in Outcome :
              /\ Has(q, s, e) /\ ~ (Head(q).to = s /\ Head(q).event = e)
              => Has(r, s, e)
         /\ Single(q, Head(q).to) /\ Head(q).event \in Outcome =>
              \A e \in Outcome : ~ Has(r, Head(q).to, e)
<1>1. m \in Seq(Message) /\ \A i \in 1..Len(m) : m[i].event \notin Outcome
  BY SeqMonotonic, ElementOfSeq DEF Plain
<1>2. /\ Tail(q) \in Seq(Message)
      /\ Len(Tail(q)) = Len(q) - 1
      /\ \A i \in 1..Len(Tail(q)) : Tail(q)[i] = q[i + 1]
      /\ Head(q) = q[1]
  BY HeadTailProperties
<1>3. r \in Seq(Message)
  BY <1>1, <1>2, ConcatProperties
<1>4. /\ Len(q) \in Nat \ {0} /\ Len(m) \in Nat
      /\ DOMAIN q = 1..Len(q)
      /\ DOMAIN r = 1..(Len(q) - 1 + Len(m))
  BY <1>1, <1>2, <1>3, ConcatProperties, LenProperties, EmptySeq
<1>5. \A i \in DOMAIN r : r[i] = IF i <= Len(q) - 1 THEN q[i + 1] ELSE m[i - (Len(q) - 1)]
  BY <1>1, <1>2, <1>4, ConcatProperties
<1>6. \A i \in DOMAIN r : r[i].event \in Outcome =>
        i <= Len(q) - 1 /\ i + 1 \in DOMAIN q /\ i + 1 # 1 /\ r[i] = q[i + 1]
  BY <1>1, <1>4, <1>5
<1>7. \A i \in DOMAIN q : i # 1 => i - 1 \in DOMAIN r /\ r[i - 1] = q[i]
  BY <1>4, <1>5
<1>8. \A i \in DOMAIN r : i \in Nat
  BY <1>4
<1>9. ASSUME NEW s \in Service, Single(q, s)
      PROVE  Single(r, s)
  BY <1>6, <1>8, <1>9 DEF Single
<1>10. ASSUME NEW s \in Service, NEW e \in Outcome, Has(r, s, e)
       PROVE  Has(q, s, e)
  BY <1>6, <1>10 DEF Has
<1>11. ASSUME NEW s \in Service, NEW e \in Outcome, Has(q, s, e),
              ~ (Head(q).to = s /\ Head(q).event = e)
       PROVE  Has(r, s, e)
  BY <1>2, <1>7, <1>11 DEF Has
<1>12. ASSUME Single(q, Head(q).to), Head(q).event \in Outcome, NEW e \in Outcome,
              Has(r, Head(q).to, e)
       PROVE  FALSE
  <2>1. PICK i \in DOMAIN r : r[i].to = Head(q).to /\ r[i].event = e
    BY <1>12 DEF Has
  <2>2. i + 1 \in DOMAIN q /\ i + 1 # 1 /\ r[i] = q[i + 1]
    BY <1>6, <2>1
  <2>3. 1 \in DOMAIN q
    BY <1>4
  <2> QED  BY <1>2, <1>12, <2>1, <2>2, <2>3 DEF Single
<1> QED  BY <1>3, <1>9, <1>10, <1>11, <1>12

LEMMA Produce ==
  ASSUME NEW q \in Seq(Message), NEW x \in Message, NEW r, r = q \o <<x>>
  PROVE  /\ r \in Seq(Message)
         /\ \A s \in Service, e \in Outcome :
              Has(r, s, e) <=> Has(q, s, e) \/ (x.to = s /\ x.event = e)
         /\ \A s \in Service :
              /\ Single(q, s)
              /\ x.to # s \/ x.event \notin Outcome \/ \A e \in Outcome : ~ Has(q, s, e)
              => Single(r, s)
<1>1. /\ r \in Seq(Message)
      /\ Len(q) \in Nat
      /\ DOMAIN q = 1..Len(q)
      /\ DOMAIN r = 1..(Len(q) + 1)
      /\ \A i \in 1..Len(q) : r[i] = q[i]
      /\ r[Len(q) + 1] = x
  BY ConcatProperties, LenProperties
<1>2. \A i \in DOMAIN r : (i \in DOMAIN q /\ r[i] = q[i]) \/ (i = Len(q) + 1 /\ r[i] = x)
  BY <1>1
<1>3. DOMAIN q \subseteq DOMAIN r /\ Len(q) + 1 \in DOMAIN r
  BY <1>1
<1>4. ASSUME NEW s \in Service, NEW e \in Outcome
      PROVE  Has(r, s, e) <=> Has(q, s, e) \/ (x.to = s /\ x.event = e)
  BY <1>1, <1>2, <1>3 DEF Has
<1>5. ASSUME NEW s \in Service, Single(q, s),
             x.to # s \/ x.event \notin Outcome \/ \A e \in Outcome : ~ Has(q, s, e)
      PROVE  Single(r, s)
  BY <1>2, <1>5 DEF Single, Has
<1> QED  BY <1>1, <1>4, <1>5

-----------------------------------------------------------------------------
(* The forms the steps have.  A handler of s changes nothing for the other *)
(* services.                                                               *)

Same(t) ==
  /\ state'[t] = state[t]
  /\ t \in starts' <=> t \in starts
  /\ \A e \in Outcome : Has(queue', t, e) <=> Has(queue, t, e)
  /\ Single(queue, t) => Single(queue', t)

LEMMA PlainStep ==
  ASSUME TypeOK, NEW s \in Service, queue # <<>>, Head(queue).to = s,
         NEW m \in Seq(Plain), queue' = Tail(queue) \o m
  PROVE  /\ queue' \in Seq(Message)
         /\ \A t \in Service : Single(queue, t) => Single(queue', t)
         /\ \A t \in Service \ {s}, e \in Outcome : Has(queue', t, e) <=> Has(queue, t, e)
         /\ Head(queue).event \notin Outcome =>
              \A e \in Outcome : Has(queue', s, e) <=> Has(queue, s, e)
         /\ Single(queue, s) /\ Head(queue).event \in Outcome =>
              \A e \in Outcome : ~ Has(queue', s, e)
<1>1. queue \in Seq(Message)
  BY DEF TypeOK
<1> QED  BY <1>1, Consume

LEMMA StartStep ==
  ASSUME TypeOK, NEW s \in Service, queue # <<>>, Head(queue).to = s,
         Head(queue).event \notin Outcome,
         Single(queue, s), \A e \in Outcome : ~ Has(queue, s, e),
         NEW m \in Seq(Plain), NEW o \in Outcome \cup {"deferred"},
         queue' = Tail(queue) \o m \o Posted(s, o)
  PROVE  /\ queue' \in Seq(Message)
         /\ \A t \in Service : Single(queue, t) => Single(queue', t)
         /\ \A t \in Service \ {s}, e \in Outcome : Has(queue', t, e) <=> Has(queue, t, e)
         /\ \A e \in Outcome : Has(queue', s, e) <=> e = o
<1> DEFINE r == Tail(queue) \o m
<1>1. queue \in Seq(Message)
  BY DEF TypeOK
<1>2. /\ r \in Seq(Message)
      /\ \A t \in Service : Single(queue, t) => Single(r, t)
      /\ \A t \in Service, e \in Outcome : Has(r, t, e) => Has(queue, t, e)
      /\ \A t \in Service \ {s}, e \in Outcome : Has(queue, t, e) => Has(r, t, e)
  BY <1>1, Consume
<1>3. "deferred" \notin Outcome
  BY DEF Outcome
<1>4. CASE o = "deferred"
  <2>1. queue' = r \o <<>>
    BY <1>4 DEF Posted
  <2>2. queue' = r
    BY <1>2, <2>1, ConcatEmptySeq
  <2> HIDE DEF r
  <2> QED  BY <1>2, <1>3, <1>4, <2>2
<1>5. CASE o # "deferred"
  <2>a. Post(s, o) \in Message /\ Post(s, o).to = s /\ Post(s, o).event = o
    BY <1>5 DEF Post, Message, Event, Outcome
  <2>1. PICK x \in Message : x = Post(s, o) /\ x.to = s /\ x.event = o
    BY <2>a
  <2>2. queue' = r \o <<x>>
    BY <1>5, <2>1 DEF Posted
  <2> HIDE DEF r
  <2>3. /\ queue' \in Seq(Message)
        /\ \A t \in Service, e \in Outcome :
             Has(queue', t, e) <=> Has(r, t, e) \/ (x.to = t /\ x.event = e)
        /\ \A t \in Service :
             /\ Single(r, t)
             /\ x.to # t \/ x.event \notin Outcome \/ \A e \in Outcome : ~ Has(r, t, e)
             => Single(queue', t)
    BY <1>2, <2>2, Produce
  <2> QED  BY <1>2, <1>5, <2>1, <2>3
<1> QED  BY <1>4, <1>5

(* An event posted from outside the handlers.                              *)
LEMMA PostStep ==
  ASSUME TypeOK, NEW x \in Message, queue' = Append(queue, x)
  PROVE  /\ queue' \in Seq(Message)
         /\ \A t \in Service, e \in Outcome :
              Has(queue', t, e) <=> Has(queue, t, e) \/ (x.to = t /\ x.event = e)
         /\ \A t \in Service :
              /\ Single(queue, t)
              /\ x.to # t \/ x.event \notin Outcome \/ \A e \in Outcome : ~ Has(queue, t, e)
              => Single(queue', t)
<1>1. queue \in Seq(Message) /\ queue' = queue \o <<x>>
  BY DEF TypeOK
<1> QED  BY <1>1, Produce

LEMMA NotifyStep ==
  ASSUME TypeOK, queue # <<>>, NEW s \in Service, NEW result, NEW waiters \in SUBSET Service,
         NEW before \in Seq(Plain), NEW after \in Seq(Message),
         Notify(s, result, waiters, before, after)
  PROVE  /\ \E m \in Seq(Plain) : queue' = Tail(queue) \o m \o after
         /\ batch' \in {"none", "starting", "stopping"}
         /\ waiting' \subseteq Service
         /\ restarts' \in Seq(Service)
         /\ callback' \subseteq Service
<1> DEFINE fired == Fire(waiters \cap {s}, state')
<1>1. BatchOK(fired)
  BY FireType
<1>2. /\ SetBatch(fired)
      /\ callback' = waiters \ {s}
  BY DEF Notify
<1>3. PICK order \in Orders(Told(result, s)) :
        queue' = Tail(queue) \o (before \o fired.posts \o OnServiceCallback(result, order)) \o after
  BY DEF Notify
<1> HIDE DEF fired
<1>4. OnServiceCallback(result, order) \in Seq(Plain)
  BY CallbackType DEF TypeOK
<1>5. before \o fired.posts \o OnServiceCallback(result, order) \in Seq(Plain)
  BY <1>1, <1>4, ConcatProperties DEF BatchOK
<1> QED  BY <1>1, <1>2, <1>3, <1>5 DEF BatchOK, SetBatch

LEMMA NotifyOnly ==
  ASSUME TypeOK, queue # <<>>, NEW s \in Service, NEW result, NEW waiters \in SUBSET Service,
         Notify(s, result, waiters, <<>>, <<>>)
  PROVE  \E m \in Seq(Plain) : queue' = Tail(queue) \o m
<1>1. <<>> \in Seq(Plain) /\ <<>> \in Seq(Message)
  BY EmptySeq
<1>2. PICK m \in Seq(Plain) : queue' = Tail(queue) \o m \o <<>>
  BY <1>1, NotifyStep
<1>3. Tail(queue) \in Seq(Message) /\ m \in Seq(Message)
  BY HeadTailProperties, SeqMonotonic DEF TypeOK, Plain
<1>4. Tail(queue) \o m \in Seq(Message)
  BY <1>3, ConcatProperties
<1> QED  BY <1>2, <1>4, ConcatEmptySeq

LEMMA DependentsStep ==
  ASSUME TypeOK, NEW s \in Service, StopDependents(s)
  PROVE  \E m \in Seq(Plain) : queue' = Tail(queue) \o m
<1>1. "stop" \in Event \ Outcome /\ Post(s, "depend-service-stopped") \in Plain
  BY DEF Event, Outcome, Post, Plain, Message
<1>2. <<Post(s, "depend-service-stopped")>> \in Seq(Plain)
  BY <1>1
<1>3. PICK order \in Orders(Dependents(s)) :
        queue' = Tail(queue) \o (IF Dependents(s) = {} THEN <<Post(s, "depend-service-stopped")>>
                                 ELSE PostAll(order, "stop"))
  BY DEF StopDependents
<1>4. PostAll(order, "stop") \in Seq(Plain)
  BY <1>1, OrdersType, PostAllType DEF Dependents
<1> QED  BY <1>2, <1>3, <1>4

-----------------------------------------------------------------------------
(* The inductive invariant, and what a step of service s may do to it.     *)

IInv == TypeOK /\ OneOutcome

Off(s) == ~ Up(s) /\ ~ Booting(s)

(* The step of Layers that a step of s stands for.                         *)
Stays(s) == (Up(s)' <=> Up(s)) /\ (Booting(s)' <=> Booting(s))
Boots(s) == Off(s) /\ Booting(s)' /\ ~ Up(s)' /\ \A d \in DependsOn[s] : Up(d)
Finishes(s) == Booting(s) /\ ~ Up(s) /\ Up(s)' /\ ~ Booting(s)'
Fails(s) == Booting(s) /\ ~ Up(s) /\ Off(s)'
GoesDown(s) == Up(s) /\ ~ Booting(s) /\ Off(s)' /\ \A t \in Dependents(s) : Off(t)
Reboots(s) == /\ Up(s) /\ ~ Booting(s) /\ Booting(s)' /\ ~ Up(s)'
              /\ \A t \in Dependents(s) : Off(t)
              /\ \A d \in DependsOn[s] : Up(d)

Effect(s) ==
  /\ TypeOK'
  /\ \A t \in Service \ {s} : Same(t)
  /\ OneOutcomeOf(s)'
  /\ Stays(s) \/ Boots(s) \/ Finishes(s) \/ Fails(s) \/ GoesDown(s) \/ Reboots(s)

LEMMA BootingAgain ==
  ASSUME NEW s \in Service
  PROVE  Booting(s) <=> state[s] = "STARTING" /\ (s \in starts \/ Has(queue, s, "service-started"))
BY DEF Booting, Has

LEMMA BootingNext ==
  ASSUME NEW s \in Service
  PROVE  Booting(s)' <=> state'[s] = "STARTING" /\ (s \in starts' \/ Has(queue', s, "service-started"))
BY DEF Booting, Has

LEMMA OneOutcomeNow ==
  ASSUME OneOutcome, NEW s \in Service
  PROVE  /\ Single(queue, s)
         /\ s \in starts => \A e \in Outcome : ~ Has(queue, s, e)
         /\ state[s] = "STARTING" <=> s \in starts \/ \E e \in Outcome : Has(queue, s, e)
BY OneOutcomeAgain DEF OneOutcome

LEMMA OneOutcomeThen ==
  ASSUME NEW s \in Service,
         Single(queue', s),
         s \in starts' => \A e \in Outcome : ~ Has(queue', s, e),
         state'[s] = "STARTING" <=> s \in starts' \/ \E e \in Outcome : Has(queue', s, e)
  PROVE  OneOutcomeOf(s)'
BY DEF OneOutcomeOf, IsOutcome, Single, Has

(* A handler of s that takes an event which is no outcome and changes      *)
(* neither starts nor whether s is STARTING.                               *)
LEMMA QuietEffect ==
  ASSUME IInv, NEW s \in Service, queue # <<>>, Head(queue).to = s,
         Head(queue).event \notin Outcome,
         NEW m \in Seq(Plain), queue' = Tail(queue) \o m,
         starts' = starts, NEW new \in State, state' = [state EXCEPT ![s] = new],
         new = "STARTING" <=> state[s] = "STARTING"
  PROVE  /\ queue' \in Seq(Message)
         /\ state' \in [Service -> State]
         /\ \A t \in Service \ {s} : Same(t)
         /\ OneOutcomeOf(s)'
         /\ Booting(s)' <=> Booting(s)
<1>1. /\ queue' \in Seq(Message)
      /\ \A t \in Service : Single(queue, t) => Single(queue', t)
      /\ \A t \in Service, e \in Outcome : Has(queue', t, e) <=> Has(queue, t, e)
  BY PlainStep DEF IInv
<1>2. state' \in [Service -> State] /\ state'[s] = new
  BY DEF IInv, TypeOK
<1>3. \A t \in Service \ {s} : state'[t] = state[t]
  BY DEF IInv, TypeOK
<1>4. \A t \in Service \ {s} : Same(t)
  BY <1>1, <1>3 DEF Same
<1>5. OneOutcomeOf(s)'
  BY <1>1, <1>2, OneOutcomeNow, OneOutcomeThen DEF IInv
<1>6. "service-started" \in Outcome
  BY DEF Outcome
<1>7. Booting(s)' <=> Booting(s)
  BY <1>1, <1>2, <1>6, BootingAgain, BootingNext
<1> QED  BY <1>1, <1>2, <1>4, <1>5, <1>7

(* A handler of s that takes the outcome of its start.                     *)
LEMMA OutcomeEffect ==
  ASSUME IInv, NEW s \in Service, queue # <<>>, Head(queue).to = s,
         Head(queue).event \in Outcome, state[s] = "STARTING",
         NEW m \in Seq(Plain), queue' = Tail(queue) \o m,
         starts' = starts, NEW new \in State \ {"STARTING"},
         state' = [state EXCEPT ![s] = new]
  PROVE  /\ queue' \in Seq(Message)
         /\ state' \in [Service -> State]
         /\ \A t \in Service \ {s} : Same(t)
         /\ OneOutcomeOf(s)'
         /\ ~ Booting(s)'
         /\ Booting(s) <=> Head(queue).event = "service-started"
<1>0. Single(queue, s) /\ (s \in starts => \A e \in Outcome : ~ Has(queue, s, e))
  BY OneOutcomeNow DEF IInv
<1>1. /\ queue' \in Seq(Message)
      /\ \A t \in Service : Single(queue, t) => Single(queue', t)
      /\ \A t \in Service \ {s}, e \in Outcome : Has(queue', t, e) <=> Has(queue, t, e)
      /\ \A e \in Outcome : ~ Has(queue', s, e)
  BY <1>0, PlainStep DEF IInv
<1>2. state' \in [Service -> State] /\ state'[s] = new
  BY DEF IInv, TypeOK
<1>3. \A t \in Service \ {s} : state'[t] = state[t]
  BY DEF IInv, TypeOK
<1>4. \A t \in Service \ {s} : Same(t)
  BY <1>1, <1>3 DEF Same
<1>5. 1 \in DOMAIN queue /\ Head(queue) = queue[1]
  BY DEF IInv, TypeOK
<1>6. s \notin starts
  BY <1>0, <1>5 DEF Has
<1>7. OneOutcomeOf(s)'
  BY <1>0, <1>1, <1>2, <1>6, OneOutcomeThen
<1>8. Has(queue, s, "service-started") <=> Head(queue).event = "service-started"
  BY <1>0, <1>5 DEF Has, Single, Outcome
<1>9. Booting(s) <=> Head(queue).event = "service-started"
  BY <1>6, <1>8, BootingAgain
<1>10. ~ Booting(s)'
  BY <1>2, BootingNext
<1> QED  BY <1>1, <1>2, <1>4, <1>7, <1>9, <1>10

(* A handler of s that calls doStartService.                               *)
LEMMA StartEffect ==
  ASSUME IInv, NEW s \in Service, queue # <<>>, Head(queue).to = s,
         Head(queue).event \notin Outcome, state[s] # "STARTING",
         NEW m \in Seq(Plain), NEW o \in StartOutcomes(s),
         queue' = Tail(queue) \o m \o Posted(s, o), StartPending(s, o),
         state' = [state EXCEPT ![s] = "STARTING"]
  PROVE  /\ queue' \in Seq(Message)
         /\ state' \in [Service -> State]
         /\ starts' \subseteq Service
         /\ \A t \in Service \ {s} : Same(t)
         /\ OneOutcomeOf(s)'
         /\ ~ Up(s)'
         /\ Booting(s)' => \A d \in DependsOn[s] : Up(d)
<1>1. o \in Outcome \cup {"deferred"} /\ "deferred" \notin Outcome
  BY DEF StartOutcomes, Outcome
<1>2. Single(queue, s) /\ s \notin starts /\ \A e \in Outcome : ~ Has(queue, s, e)
  BY OneOutcomeNow DEF IInv
<1>3. /\ queue' \in Seq(Message)
      /\ \A t \in Service : Single(queue, t) => Single(queue', t)
      /\ \A t \in Service \ {s}, e \in Outcome : Has(queue', t, e) <=> Has(queue, t, e)
      /\ \A e \in Outcome : Has(queue', s, e) <=> e = o
  BY <1>1, <1>2, StartStep DEF IInv
<1>4. /\ state' \in [Service -> State]
      /\ state'[s] = "STARTING"
      /\ \A t \in Service \ {s} : state'[t] = state[t]
  BY DEF IInv, TypeOK, State
<1>5. /\ s \in starts' <=> o = "deferred"
      /\ starts' \subseteq Service
      /\ \A t \in Service \ {s} : t \in starts' <=> t \in starts
  BY <1>2 DEF StartPending, IInv, TypeOK
<1>6. \A t \in Service \ {s} : Same(t)
  BY <1>3, <1>4, <1>5 DEF Same
<1>7. OneOutcomeOf(s)'
  BY <1>1, <1>2, <1>3, <1>4, <1>5, OneOutcomeThen
<1>8. ~ Up(s)'
  BY <1>4 DEF Up
<1>9. Booting(s)' => o \in {"deferred", "service-started"}
  BY <1>3, <1>5, BootingNext DEF Outcome
<1>10. o \in {"deferred", "service-started"} => \A d \in DependsOn[s] : state[d] = "ON"
  BY DEF StartOutcomes
<1> QED  BY <1>3, <1>4, <1>5, <1>6, <1>7, <1>8, <1>9, <1>10 DEF Up

-----------------------------------------------------------------------------
(* The effect of each handler.                                             *)

LEMMA GotPlain ==
  ASSUME IInv, NEW s \in Service, NEW e \in Event, Got(s, e)
  PROVE  /\ queue # <<>> /\ Head(queue).to = s /\ Head(queue).event = e
         /\ WithCallback(s) \in SUBSET Service
         /\ Tail(queue) \in Seq(Message)
         /\ Tail(queue) = Tail(queue) \o <<>>
         /\ <<>> \in Seq(Plain)
<1>1. queue # <<>> /\ Tail(queue) \in Seq(Message)
  BY HeadTailProperties DEF Got, IInv, TypeOK
<1> QED  BY <1>1, ConcatEmptySeq, EmptySeq DEF Got, WithCallback, IInv, TypeOK

LEMMA StopWhenOnEffect ==
  ASSUME IInv, NEW s \in Service, StopWhenOn(s)
  PROVE  Effect(s)
<1>1. "stop" \in Event /\ "stop" \notin Outcome
  BY DEF Event, Outcome
<1>2. /\ queue # <<>> /\ Head(queue).to = s /\ Head(queue).event = "stop"
      /\ WithCallback(s) \subseteq Service
  BY <1>1, GotPlain DEF StopWhenOn
<1>3. PICK m \in Seq(Plain) : queue' = Tail(queue) \o m
  BY DependentsStep DEF StopWhenOn, IInv
<1>4. /\ state' = [state EXCEPT ![s] = "INFLUENCE"] /\ "INFLUENCE" \in State
      /\ state[s] = "ON" /\ starts' = starts
  BY DEF StopWhenOn, Become, State
<1>5. /\ queue' \in Seq(Message) /\ state' \in [Service -> State]
      /\ \A t \in Service \ {s} : Same(t)
      /\ OneOutcomeOf(s)'
      /\ Booting(s)' <=> Booting(s)
  BY <1>1, <1>2, <1>3, <1>4, QuietEffect
<1>6. TypeOK'
  BY <1>2, <1>5 DEF StopWhenOn, driverVars, IInv, TypeOK
<1>7. Stays(s)
  BY <1>4, <1>5 DEF Stays, Up, IInv, TypeOK
<1> QED  BY <1>5, <1>6, <1>7 DEF Effect

LEMMA StopWhenOffEffect ==
  ASSUME IInv, NEW s \in Service, StopWhenOff(s)
  PROVE  Effect(s)
<1>1. "stop" \in Event /\ "stop" \notin Outcome
  BY DEF Event, Outcome
<1>2. /\ queue # <<>> /\ Head(queue).to = s /\ Head(queue).event = "stop"
      /\ WithCallback(s) \in SUBSET Service
      /\ <<>> \in Seq(Plain) /\ <<>> \in Seq(Message)
  BY <1>1, GotPlain, EmptySeq DEF StopWhenOff
<1>3. PICK result \in {"stopped", "not_installed", "depends_off"} :
        state[s] # "STARTING" /\ Answer(s, result)
  BY DEF StopWhenOff
<1>4. Notify(s, result, WithCallback(s), <<>>, <<>>) /\ UNCHANGED <<state, starts>>
  BY <1>3 DEF Answer
<1>5. PICK m \in Seq(Plain) : queue' = Tail(queue) \o m
  BY <1>2, <1>4, NotifyOnly DEF IInv
<1>6. state' = [state EXCEPT ![s] = state[s]] /\ state[s] \in State
  BY <1>4 DEF IInv, TypeOK
<1>7. /\ queue' \in Seq(Message) /\ state' \in [Service -> State]
      /\ \A t \in Service \ {s} : Same(t)
      /\ OneOutcomeOf(s)'
      /\ Booting(s)' <=> Booting(s)
  BY <1>1, <1>2, <1>4, <1>5, <1>6, QuietEffect
<1>8. /\ batch' \in {"none", "starting", "stopping"}
      /\ waiting' \subseteq Service /\ restarts' \in Seq(Service) /\ callback' \subseteq Service
  BY <1>2, <1>4, NotifyStep DEF IInv
<1>9. TypeOK'
  BY <1>3, <1>7, <1>8 DEF Answer, IInv, TypeOK
<1>10. Stays(s)
  BY <1>4, <1>7 DEF Stays, Up
<1> QED  BY <1>7, <1>9, <1>10 DEF Effect

LEMMA StartWhenOffEffect ==
  ASSUME IInv, NEW s \in Service, StartWhenOff(s)
  PROVE  Effect(s)
<1>1. "start" \in Event /\ "start" \notin Outcome
  BY DEF Event, Outcome
<1>2. /\ queue # <<>> /\ Head(queue).to = s /\ Head(queue).event = "start"
      /\ WithCallback(s) \in SUBSET Service
      /\ Tail(queue) = Tail(queue) \o <<>> /\ <<>> \in Seq(Plain)
  BY <1>1, GotPlain DEF StartWhenOff
<1>3. PICK o \in StartOutcomes(s) :
        queue' = Tail(queue) \o <<>> \o Posted(s, o) /\ StartPending(s, o)
  BY <1>2 DEF StartWhenOff
<1>4. state[s] \in Stopped /\ state' = [state EXCEPT ![s] = "STARTING"]
  BY DEF StartWhenOff, Become
<1>5. state[s] # "STARTING" /\ Off(s)
  BY <1>4 DEF Off, Up, Booting, Stopped
<1>6. /\ queue' \in Seq(Message) /\ state' \in [Service -> State]
      /\ starts' \subseteq Service
      /\ \A t \in Service \ {s} : Same(t)
      /\ OneOutcomeOf(s)'
      /\ ~ Up(s)'
      /\ Booting(s)' => \A d \in DependsOn[s] : Up(d)
  BY <1>1, <1>2, <1>3, <1>4, <1>5, StartEffect
<1>7. needStart' \subseteq Service /\ needStop' \subseteq Service
  BY DEF StartWhenOff, IInv, TypeOK
<1>8. TypeOK'
  BY <1>2, <1>6, <1>7 DEF StartWhenOff, driverVars, IInv, TypeOK
<1>9. Stays(s) \/ Boots(s)
  BY <1>5, <1>6 DEF Stays, Boots, Off
<1> QED  BY <1>6, <1>8, <1>9 DEF Effect

(* The handlers that only record who asked.                                *)
LEMMA OnlyCallbackEffect ==
  ASSUME IInv, NEW s \in Service, Got(s, "start") \/ Got(s, "stop"), OnlyCallback(s),
         needStart' \subseteq Service, needStop' \subseteq Service
  PROVE  Effect(s)
<1>1. /\ queue # <<>> /\ Head(queue).to = s /\ Head(queue).event \notin Outcome
      /\ WithCallback(s) \in SUBSET Service
      /\ Tail(queue) = Tail(queue) \o <<>> /\ <<>> \in Seq(Plain)
  BY GotPlain DEF Event, Outcome
<1>2. /\ queue' = Tail(queue) \o <<>>
      /\ UNCHANGED <<state, driverVars, starts, stops>>
      /\ callback' = WithCallback(s)
  BY <1>1 DEF OnlyCallback
<1>3. state' = [state EXCEPT ![s] = state[s]] /\ state[s] \in State
  BY <1>2 DEF IInv, TypeOK
<1>4. /\ queue' \in Seq(Message) /\ state' \in [Service -> State]
      /\ \A t \in Service \ {s} : Same(t)
      /\ OneOutcomeOf(s)'
      /\ Booting(s)' <=> Booting(s)
  BY <1>1, <1>2, <1>3, QuietEffect
<1>5. TypeOK'
  BY <1>1, <1>2, <1>4 DEF driverVars, IInv, TypeOK
<1>6. Stays(s)
  BY <1>2, <1>4 DEF Stays, Up
<1> QED  BY <1>4, <1>5, <1>6 DEF Effect

LEMMA RequestEffect ==
  ASSUME IInv, NEW s \in Service,
         RequestInInfluence(s) \/ RequestInStarting(s) \/ StartInStopping(s)
  PROVE  Effect(s)
<1>1. needStart' \subseteq Service /\ needStop' \subseteq Service
  BY DEF RequestInInfluence, RequestInStarting, StartInStopping, IInv, TypeOK
<1>2. OnlyCallback(s) /\ (Got(s, "start") \/ Got(s, "stop"))
  BY DEF RequestInInfluence, RequestInStarting, StartInStopping
<1> QED  BY <1>1, <1>2, OnlyCallbackEffect

LEMMA PostedType ==
  ASSUME NEW s \in Service
  PROVE  /\ \A o \in StopOutcomes(s) : Posted(s, o) \in Seq(Plain)
         /\ \A o \in StartOutcomes(s) : Posted(s, o) \in Seq(Message)
<1>1. Post(s, "service-stopped") \in Plain
  BY DEF Post, Plain, Message, Event, Outcome
<1>2. \A o \in Outcome : Post(s, o) \in Message
  BY DEF Post, Message, Event, Outcome
<1>3. \A o \in StopOutcomes(s) : o = "deferred" \/ Post(s, o) \in Plain
  BY <1>1 DEF StopOutcomes
<1>4. \A o \in StartOutcomes(s) : o = "deferred" \/ Post(s, o) \in Message
  <2>1. \A o \in StartOutcomes(s) : o = "deferred" \/ o \in Outcome
    BY DEF StartOutcomes, Outcome
  <2> QED  BY <1>2, <2>1
<1>5. \A o \in StopOutcomes(s) : Posted(s, o) \in Seq(Plain)
  BY <1>3, EmptySeq DEF Posted
<1>6. \A o \in StartOutcomes(s) : Posted(s, o) \in Seq(Message)
  BY <1>4, EmptySeq DEF Posted
<1> QED  BY <1>5, <1>6

LEMMA DependentsOff ==
  ASSUME NEW s \in Service, isAllDependsStopped(s)
  PROVE  \A t \in Dependents(s) : Off(t)
BY DEF isAllDependsStopped, Stopped, Off, Up, Booting

LEMMA DependsStoppedEffect ==
  ASSUME IInv, NEW s \in Service, DependsStopped(s)
  PROVE  Effect(s)
<1>1. /\ queue # <<>> /\ Head(queue).to = s /\ Head(queue).event \notin Outcome
      /\ Tail(queue) \in Seq(Message)
  BY GotPlain DEF DependsStopped, Event, Outcome
<1>2. PICK o \in StopOutcomes(s) : queue' = Tail(queue) \o Posted(s, o) /\ StopPending(s, o)
  BY DEF DependsStopped
<1>3. Posted(s, o) \in Seq(Plain)
  BY PostedType
<1>4. /\ state' = [state EXCEPT ![s] = "STOPPING"] /\ "STOPPING" \in State
      /\ state[s] = "INFLUENCE" /\ starts' = starts
  BY DEF DependsStopped, Become, State
<1>5. /\ queue' \in Seq(Message) /\ state' \in [Service -> State]
      /\ \A t \in Service \ {s} : Same(t)
      /\ OneOutcomeOf(s)'
      /\ Booting(s)' <=> Booting(s)
  BY <1>1, <1>2, <1>3, <1>4, QuietEffect
<1>6. stops' \in [Service -> Nat]
  BY <1>2 DEF StopPending, IInv, TypeOK
<1>7. TypeOK'
  BY <1>5, <1>6 DEF DependsStopped, driverVars, IInv, TypeOK
<1>8. GoesDown(s)
  <2>1. Up(s) /\ ~ Booting(s) /\ ~ Up(s)'
    BY <1>4 DEF Up, Booting, IInv, TypeOK
  <2>2. \A t \in Dependents(s) : Off(t)
    BY DependentsOff DEF DependsStopped
  <2> QED  BY <1>5, <2>1, <2>2 DEF GoesDown, Off
<1> QED  BY <1>5, <1>7, <1>8 DEF Effect

LEMMA DependsStoppedNeedStartEffect ==
  ASSUME IInv, NEW s \in Service, DependsStoppedNeedStart(s)
  PROVE  Effect(s)
<1>1. /\ queue # <<>> /\ Head(queue).to = s /\ Head(queue).event \notin Outcome
  BY GotPlain DEF DependsStoppedNeedStart, Event, Outcome
<1>2. PICK down \in StopOutcomes(s), o \in StartOutcomes(s) :
        /\ Notify(s, "stopped", callback, Posted(s, down), Posted(s, o))
        /\ StopPending(s, down) /\ StartPending(s, o)
  BY DEF DependsStoppedNeedStart
<1>3. Posted(s, down) \in Seq(Plain)
  BY PostedType
<1>4. Posted(s, o) \in Seq(Message)
  BY PostedType
<1>5. callback \in SUBSET Service
  BY DEF IInv, TypeOK
<1>6. /\ \E m \in Seq(Plain) : queue' = Tail(queue) \o m \o Posted(s, o)
      /\ batch' \in {"none", "starting", "stopping"}
      /\ waiting' \subseteq Service /\ restarts' \in Seq(Service) /\ callback' \subseteq Service
  BY <1>1, <1>2, <1>3, <1>4, <1>5, NotifyStep DEF IInv
<1>7. PICK m \in Seq(Plain) : queue' = Tail(queue) \o m \o Posted(s, o)
  BY <1>6
<1>8. state[s] = "INFLUENCE" /\ state' = [state EXCEPT ![s] = "STARTING"]
  BY DEF DependsStoppedNeedStart, Become
<1>9. /\ queue' \in Seq(Message) /\ state' \in [Service -> State]
      /\ starts' \subseteq Service
      /\ \A t \in Service \ {s} : Same(t)
      /\ OneOutcomeOf(s)'
      /\ ~ Up(s)'
      /\ Booting(s)' => \A d \in DependsOn[s] : Up(d)
  BY <1>1, <1>2, <1>7, <1>8, StartEffect
<1>10. stops' \in [Service -> Nat]
  BY <1>2 DEF StopPending, IInv, TypeOK
<1>11. TypeOK'
  BY <1>6, <1>9, <1>10 DEF DependsStoppedNeedStart, IInv, TypeOK
<1>12. GoesDown(s) \/ Reboots(s)
  <2>1. Up(s) /\ ~ Booting(s)
    BY <1>8 DEF Up, Booting
  <2>2. \A t \in Dependents(s) : Off(t)
    BY DependentsOff DEF DependsStoppedNeedStart
  <2> QED  BY <1>9, <2>1, <2>2 DEF GoesDown, Reboots, Off
<1> QED  BY <1>9, <1>11, <1>12 DEF Effect

LEMMA StartedEffect ==
  ASSUME IInv, NEW s \in Service, Started(s)
  PROVE  Effect(s)
<1>1. /\ queue # <<>> /\ Head(queue).to = s /\ Head(queue).event = "service-started"
      /\ Head(queue).event \in Outcome
  BY GotPlain DEF Started, Event, Outcome
<1>2. /\ Notify(s, "started", callback, <<>>, <<>>)
      /\ callback \in SUBSET Service /\ <<>> \in Seq(Plain) /\ <<>> \in Seq(Message)
  BY EmptySeq DEF Started, IInv, TypeOK
<1>3. PICK m \in Seq(Plain) : queue' = Tail(queue) \o m
  BY <1>1, <1>2, NotifyOnly DEF IInv
<1>4. /\ batch' \in {"none", "starting", "stopping"}
      /\ waiting' \subseteq Service /\ restarts' \in Seq(Service) /\ callback' \subseteq Service
  BY <1>1, <1>2, NotifyStep DEF IInv
<1>5. /\ state[s] = "STARTING" /\ state' = [state EXCEPT ![s] = "ON"]
      /\ "ON" \in State \ {"STARTING"} /\ starts' = starts
  BY DEF Started, Become, State
<1>6. /\ queue' \in Seq(Message) /\ state' \in [Service -> State]
      /\ \A t \in Service \ {s} : Same(t)
      /\ OneOutcomeOf(s)'
      /\ ~ Booting(s)' /\ Booting(s)
  BY <1>1, <1>3, <1>5, OutcomeEffect
<1>7. TypeOK'
  BY <1>4, <1>6 DEF Started, IInv, TypeOK
<1>8. Finishes(s)
  BY <1>5, <1>6 DEF Finishes, Up, IInv, TypeOK
<1> QED  BY <1>6, <1>7, <1>8 DEF Effect

LEMMA StartedNeedStopEffect ==
  ASSUME IInv, NEW s \in Service, StartedNeedStop(s)
  PROVE  Effect(s)
<1>1. /\ queue # <<>> /\ Head(queue).to = s /\ Head(queue).event = "service-started"
      /\ Head(queue).event \in Outcome
  BY GotPlain DEF StartedNeedStop, Event, Outcome
<1>2. PICK m \in Seq(Plain) : queue' = Tail(queue) \o m
  BY DependentsStep DEF StartedNeedStop, IInv
<1>3. /\ state[s] = "STARTING" /\ state' = [state EXCEPT ![s] = "INFLUENCE"]
      /\ "INFLUENCE" \in State \ {"STARTING"} /\ starts' = starts
  BY DEF StartedNeedStop, Become, State
<1>4. /\ queue' \in Seq(Message) /\ state' \in [Service -> State]
      /\ \A t \in Service \ {s} : Same(t)
      /\ OneOutcomeOf(s)'
      /\ ~ Booting(s)' /\ Booting(s)
  BY <1>1, <1>2, <1>3, OutcomeEffect
<1>5. TypeOK'
  BY <1>4 DEF StartedNeedStop, driverVars, IInv, TypeOK
<1>6. Finishes(s)
  BY <1>3, <1>4 DEF Finishes, Up, IInv, TypeOK
<1> QED  BY <1>4, <1>5, <1>6 DEF Effect

LEMMA NotStartedEffect ==
  ASSUME IInv, NEW s \in Service, NotStarted(s)
  PROVE  Effect(s)
<1>1. PICK e \in {"service-failed", "service-not-installed", "service-depend-off"},
           new \in {"OFF", "NOT_INSTALLED", "DEPENDS_OFF"}, result \in Result :
        Got(s, e) /\ Become(s, new) /\ Notify(s, result, callback, <<>>, <<>>)
  BY DEF NotStarted, Result
<1>2. /\ queue # <<>> /\ Head(queue).to = s /\ Head(queue).event # "service-started"
      /\ Head(queue).event \in Outcome
  BY <1>1, GotPlain DEF Event, Outcome
<1>3. callback \in SUBSET Service /\ <<>> \in Seq(Plain) /\ <<>> \in Seq(Message)
  BY EmptySeq DEF IInv, TypeOK
<1>4. PICK m \in Seq(Plain) : queue' = Tail(queue) \o m
  BY <1>1, <1>2, <1>3, NotifyOnly DEF IInv
<1>5. /\ batch' \in {"none", "starting", "stopping"}
      /\ waiting' \subseteq Service /\ restarts' \in Seq(Service) /\ callback' \subseteq Service
  BY <1>1, <1>2, <1>3, NotifyStep DEF IInv
<1>6. /\ state[s] = "STARTING" /\ state' = [state EXCEPT ![s] = new]
      /\ new \in State \ {"STARTING"} /\ starts' = starts
  BY <1>1 DEF NotStarted, Become, State
<1>7. /\ queue' \in Seq(Message) /\ state' \in [Service -> State]
      /\ \A t \in Service \ {s} : Same(t)
      /\ OneOutcomeOf(s)'
      /\ ~ Booting(s)' /\ ~ Booting(s)
  BY <1>2, <1>4, <1>6, OutcomeEffect
<1>8. TypeOK'
  BY <1>5, <1>7 DEF NotStarted, IInv, TypeOK
<1>9. Stays(s)
  BY <1>6, <1>7 DEF Stays, Up, IInv, TypeOK
<1> QED  BY <1>7, <1>8, <1>9 DEF Effect

LEMMA StoppedNowEffect ==
  ASSUME IInv, NEW s \in Service, StoppedNow(s)
  PROVE  Effect(s)
<1>1. queue # <<>> /\ Head(queue).to = s /\ Head(queue).event \notin Outcome
  BY GotPlain DEF StoppedNow, Event, Outcome
<1>2. /\ Notify(s, "stopped", callback, <<>>, <<>>)
      /\ callback \in SUBSET Service /\ <<>> \in Seq(Plain) /\ <<>> \in Seq(Message)
  BY EmptySeq DEF StoppedNow, IInv, TypeOK
<1>3. PICK m \in Seq(Plain) : queue' = Tail(queue) \o m
  BY <1>1, <1>2, NotifyOnly DEF IInv
<1>4. /\ batch' \in {"none", "starting", "stopping"}
      /\ waiting' \subseteq Service /\ restarts' \in Seq(Service) /\ callback' \subseteq Service
  BY <1>1, <1>2, NotifyStep DEF IInv
<1>5. /\ state[s] = "STOPPING" /\ state' = [state EXCEPT ![s] = "OFF"]
      /\ "OFF" \in State /\ starts' = starts
  BY DEF StoppedNow, Become, State
<1>6. /\ queue' \in Seq(Message) /\ state' \in [Service -> State]
      /\ \A t \in Service \ {s} : Same(t)
      /\ OneOutcomeOf(s)'
      /\ Booting(s)' <=> Booting(s)
  BY <1>1, <1>3, <1>5, QuietEffect
<1>7. TypeOK'
  BY <1>4, <1>6 DEF StoppedNow, IInv, TypeOK
<1>8. Stays(s)
  BY <1>5, <1>6 DEF Stays, Up, IInv, TypeOK
<1> QED  BY <1>6, <1>7, <1>8 DEF Effect

(* An outcome is never ignored: only a STARTING service has one to come.   *)
LEMMA IgnoreEffect ==
  ASSUME IInv, NEW s \in Service, Ignore(s)
  PROVE  Effect(s)
<1>1. /\ queue # <<>> /\ Head(queue).to = s /\ Head(queue).event \notin Handled(s)
      /\ queue' = Tail(queue) /\ UNCHANGED <<state, driverVars, serviceVars>>
  BY DEF Ignore
<1>2. 1 \in DOMAIN queue /\ Head(queue) = queue[1]
  BY <1>1 DEF IInv, TypeOK
<1>3. Head(queue).event \notin Outcome
  <2>1. ASSUME Head(queue).event \in Outcome  PROVE FALSE
    <3>1. state[s] = "STARTING"
      BY <1>1, <1>2, <2>1, OneOutcomeNow DEF IInv, Has
    <3>2. Outcome \subseteq Handled(s)
      BY <3>1 DEF Handled, Outcome, Stopped
    <3> QED  BY <1>1, <2>1, <3>2
  <2> QED  BY <2>1
<1>4. Tail(queue) \in Seq(Message) /\ <<>> \in Seq(Plain)
  BY <1>1, HeadTailProperties, EmptySeq DEF IInv, TypeOK
<1>5. queue' = Tail(queue) \o <<>>
  BY <1>1, <1>4, ConcatEmptySeq
<1>6. state' = [state EXCEPT ![s] = state[s]] /\ state[s] \in State /\ starts' = starts
  BY <1>1 DEF serviceVars, IInv, TypeOK
<1>7. /\ queue' \in Seq(Message) /\ state' \in [Service -> State]
      /\ \A t \in Service \ {s} : Same(t)
      /\ OneOutcomeOf(s)'
      /\ Booting(s)' <=> Booting(s)
  BY <1>1, <1>3, <1>4, <1>5, <1>6, QuietEffect
<1>8. TypeOK'
  BY <1>1, <1>7 DEF driverVars, serviceVars, IInv, TypeOK
<1>9. Stays(s)
  BY <1>1, <1>7 DEF Stays, Up
<1> QED  BY <1>7, <1>8, <1>9 DEF Effect

-----------------------------------------------------------------------------
(* The steps that are no handlers.                                         *)

LEMMA StartDoneEffect ==
  ASSUME IInv, NEW s \in Service, StartDone(s)
  PROVE  Effect(s)
<1>1. PICK e \in {"service-started", "service-failed"} : queue' = Append(queue, Post(s, e))
  BY DEF StartDone
<1>2. Post(s, e) \in Message /\ Post(s, e).to = s /\ Post(s, e).event = e /\ e \in Outcome
  BY DEF Post, Message, Event, Outcome
<1>3. PICK x \in Message : queue' = Append(queue, x) /\ x.to = s /\ x.event = e
  BY <1>1, <1>2
<1>4. /\ Single(queue, s) /\ s \in starts /\ \A f \in Outcome : ~ Has(queue, s, f)
      /\ state[s] = "STARTING"
  BY OneOutcomeNow DEF StartDone, IInv
<1>5. /\ queue' \in Seq(Message)
      /\ \A t \in Service, f \in Outcome :
           Has(queue', t, f) <=> Has(queue, t, f) \/ (s = t /\ e = f)
      /\ Single(queue', s)
      /\ \A t \in Service \ {s} : Single(queue, t) => Single(queue', t)
  BY <1>3, <1>4, PostStep DEF IInv
<1>6. /\ state' = state /\ starts' = starts \ {s}
      /\ UNCHANGED <<driverVars, needStart, needStop, callback, stops>>
  BY DEF StartDone
<1>7. \A t \in Service \ {s} : Same(t)
  BY <1>5, <1>6 DEF Same
<1>8. OneOutcomeOf(s)'
  BY <1>2, <1>4, <1>5, <1>6, OneOutcomeThen
<1>9. TypeOK'
  BY <1>5, <1>6 DEF driverVars, IInv, TypeOK
<1>10. Stays(s) \/ Fails(s)
  <2>1. Booting(s) /\ ~ Up(s) /\ ~ Up(s)'
    BY <1>4, <1>6 DEF Booting, Up
  <2> QED  BY <2>1 DEF Stays, Fails, Off
<1> QED  BY <1>7, <1>8, <1>9, <1>10 DEF Effect

(* A step that posts at most one plain event and changes nothing that the  *)
(* invariant or Layers speaks of.                                          *)
Silent ==
  /\ TypeOK'
  /\ \A t \in Service : Same(t)

LEMMA StopDoneSilent ==
  ASSUME IInv, NEW s \in Service, StopDone(s)
  PROVE  Silent
<1>1. /\ queue' = Append(queue, Post(s, "service-stopped"))
      /\ UNCHANGED <<state, driverVars, needStart, needStop, callback, starts>>
      /\ stops' \in [Service -> Nat]
  BY DEF StopDone, IInv, TypeOK
<1>2. Post(s, "service-stopped") \in Message /\ Post(s, "service-stopped").event \notin Outcome
  BY DEF Post, Message, Event, Outcome
<1>3. /\ queue' \in Seq(Message)
      /\ \A t \in Service, e \in Outcome : Has(queue', t, e) <=> Has(queue, t, e)
      /\ \A t \in Service : Single(queue, t) => Single(queue', t)
  BY <1>1, <1>2, PostStep DEF IInv
<1> QED  BY <1>1, <1>3 DEF Silent, Same, driverVars, IInv, TypeOK

LEMMA EnabledDisabledSilent ==
  ASSUME IInv, NEW s \in Service, NEW v \in BOOLEAN, EnabledDisabled(s, v)
  PROVE  Silent
<1>1. PICK e \in {"start", "stop"} : queue' = Append(queue, Post(s, e))
  BY DEF EnabledDisabled
<1>2. Post(s, e) \in Message /\ Post(s, e).event \notin Outcome
  BY DEF Post, Message, Event, Outcome
<1>3. /\ queue' \in Seq(Message)
      /\ \A t \in Service, f \in Outcome : Has(queue', t, f) <=> Has(queue, t, f)
      /\ \A t \in Service : Single(queue, t) => Single(queue', t)
  BY <1>1, <1>2, PostStep DEF IInv
<1>4. /\ UNCHANGED <<state, loaded, batch, waiting, restarts, timers, serviceVars>>
      /\ enabled' \subseteq Service
  BY DEF EnabledDisabled, IInv, TypeOK
<1>5. TypeOK'
  BY <1>3, <1>4 DEF serviceVars, IInv, TypeOK
<1> QED  BY <1>3, <1>4, <1>5 DEF Silent, Same, serviceVars

LEMMA DoStopType ==
  ASSUME IInv, NEW s \in Service, DoStop(s) \/ UNCHANGED <<batch, waiting, restarts, queue>>
  PROVE  /\ queue' \in Seq(Message)
         /\ \A t \in Service, e \in Outcome : Has(queue', t, e) <=> Has(queue, t, e)
         /\ \A t \in Service : Single(queue, t) => Single(queue', t)
         /\ batch' \in {"none", "starting", "stopping"}
         /\ waiting' \subseteq Service
         /\ restarts' \in Seq(Service)
<1>1. PostDeferred(s, "stop") \in Message /\ PostDeferred(s, "stop").event \notin Outcome
  BY DEF PostDeferred, Message, Event, Outcome
<1>2. CASE queue' = Append(queue, PostDeferred(s, "stop"))
           /\ SetBatch(Batch("stopping", {s}, <<s>>, <<>>))
  <2>1. /\ queue' \in Seq(Message)
        /\ \A t \in Service, e \in Outcome : Has(queue', t, e) <=> Has(queue, t, e)
        /\ \A t \in Service : Single(queue, t) => Single(queue', t)
    BY <1>1, <1>2, PostStep DEF IInv
  <2>2. <<s>> \in Seq(Service)
    OBVIOUS
  <2> QED  BY <1>2, <2>1, <2>2 DEF SetBatch, Batch
<1>3. CASE restarts' = Append(restarts, s) /\ UNCHANGED <<batch, waiting, queue>>
  <2>1. restarts' \in Seq(Service)
    BY <1>3, AppendProperties DEF IInv, TypeOK
  <2> QED  BY <1>3, <2>1 DEF IInv, TypeOK
<1>4. CASE UNCHANGED <<batch, waiting, restarts, queue>>
  BY <1>4 DEF IInv, TypeOK
<1> QED  BY <1>2, <1>3, <1>4 DEF DoStop

LEMMA RestartSilent ==
  ASSUME IInv, NEW s \in Service, NEW v \in BOOLEAN, Restart(s, v) \/ Timeout(s)
  PROVE  Silent
<1>1. /\ UNCHANGED <<state, enabled, loaded, serviceVars>>
      /\ timers' \subseteq Service
  BY DEF Restart, Timeout, IInv, TypeOK
<1>2. \/ DoStop(s) \/ UNCHANGED <<batch, waiting, restarts, queue>>
      \/ restarts' = Append(restarts, s) /\ UNCHANGED <<batch, waiting, queue>>
  BY DEF Restart, Timeout
<1>3. /\ queue' \in Seq(Message)
      /\ \A t \in Service, e \in Outcome : Has(queue', t, e) <=> Has(queue, t, e)
      /\ \A t \in Service : Single(queue, t) => Single(queue', t)
      /\ batch' \in {"none", "starting", "stopping"}
      /\ waiting' \subseteq Service
      /\ restarts' \in Seq(Service)
  <2>1. CASE DoStop(s) \/ UNCHANGED <<batch, waiting, restarts, queue>>
    BY <2>1, DoStopType
  <2>2. CASE restarts' = Append(restarts, s) /\ UNCHANGED <<batch, waiting, queue>>
    <3>1. restarts' \in Seq(Service)
      BY <2>2, AppendProperties DEF IInv, TypeOK
    <3> QED  BY <2>2, <3>1 DEF IInv, TypeOK
  <2> QED  BY <1>2, <2>1, <2>2
<1>4. TypeOK'
  BY <1>1, <1>3 DEF serviceVars, IInv, TypeOK
<1> QED  BY <1>1, <1>3, <1>4 DEF Silent, Same, serviceVars

LEMMA StutterSilent ==
  ASSUME IInv, UNCHANGED vars
  PROVE  Silent
BY DEF vars, driverVars, serviceVars, Silent, Same, IInv, TypeOK

LEMMA ShutdownEffect ==
  ASSUME IInv, Shutdown
  PROVE  IInv' /\ \A s \in Service : Off(s)'
<1>1. /\ state' = [s \in Service |-> "CLOSED"] /\ queue' = <<>> /\ starts' = {}
      /\ callback' = {} /\ enabled' = {} /\ loaded' = FALSE
      /\ stops' = [s \in Service |-> 0]
      /\ UNCHANGED <<batch, waiting, restarts, timers, needStart, needStop>>
  BY DEF Shutdown
<1>2. TypeOK'
  BY <1>1, EmptySeq DEF IInv, TypeOK, State
<1>3. OneOutcome'
  BY <1>1 DEF OneOutcome, OneOutcomeOf
<1>4. \A s \in Service : Off(s)'
  BY <1>1 DEF Off, Up, Booting
<1> QED  BY <1>2, <1>3, <1>4 DEF IInv

-----------------------------------------------------------------------------
(* The invariant.                                                          *)

LEMMA InitInvariant == Init => IInv
<1> SUFFICES ASSUME Init PROVE IInv
  OBVIOUS
<1>1. PICK order \in Orders(enabled) : queue = [i \in DOMAIN order |-> PostDeferred(order[i], "start")]
  BY DEF Init
<1>2. enabled \in SUBSET Service /\ order \in Seq(Service)
  BY <1>1, OrdersType DEF Init
<1>3. \A i \in DOMAIN order : PostDeferred(order[i], "start") \in Plain
  BY <1>2 DEF PostDeferred, Plain, Message, Event, Outcome
<1>4. queue \in Seq(Message) /\ \A i \in DOMAIN queue : queue[i].event \notin Outcome
  BY <1>1, <1>2, <1>3 DEF Plain
<1>5. TypeOK
  BY <1>2, <1>4, EmptySeq DEF Init, TypeOK, State
<1>6. OneOutcome
  BY <1>4 DEF Init, OneOutcome, OneOutcomeOf, IsOutcome
<1> QED  BY <1>5, <1>6 DEF IInv

(* A service the step leaves alone keeps its outcome.                      *)
LEMMA SameOutcome ==
  ASSUME OneOutcome, NEW t \in Service, Same(t)
  PROVE  OneOutcomeOf(t)'
<1>1. /\ Single(queue, t)
      /\ t \in starts => \A e \in Outcome : ~ Has(queue, t, e)
      /\ state[t] = "STARTING" <=> t \in starts \/ \E e \in Outcome : Has(queue, t, e)
  BY OneOutcomeNow
<1> QED  BY <1>1, OneOutcomeThen DEF Same

(* Every step of the system has one of three forms.                        *)
StepForms == Silent \/ (\E s \in Service : Effect(s)) \/ Shutdown

LEMMA NextForms ==
  ASSUME IInv, [Next]_vars
  PROVE  StepForms
<1>1. CASE \E s \in Service : Handle(s)
  <2> PICK s \in Service : Handle(s)
    BY <1>1
  <2>1. CASE StopWhenOn(s) \/ StopWhenOff(s) \/ StartWhenOff(s)
    BY <2>1, StopWhenOnEffect, StopWhenOffEffect, StartWhenOffEffect DEF StepForms
  <2>2. CASE RequestInInfluence(s) \/ RequestInStarting(s) \/ StartInStopping(s)
    BY <2>2, RequestEffect DEF StepForms
  <2>3. CASE DependsStopped(s) \/ DependsStoppedNeedStart(s)
    BY <2>3, DependsStoppedEffect, DependsStoppedNeedStartEffect DEF StepForms
  <2>4. CASE Started(s) \/ StartedNeedStop(s) \/ NotStarted(s)
    BY <2>4, StartedEffect, StartedNeedStopEffect, NotStartedEffect DEF StepForms
  <2>5. CASE StoppedNow(s) \/ Ignore(s)
    BY <2>5, StoppedNowEffect, IgnoreEffect DEF StepForms
  <2> QED  BY <2>1, <2>2, <2>3, <2>4, <2>5 DEF Handle
<1>2. CASE \E s \in Service : StartDone(s) \/ StopDone(s) \/ Timeout(s)
  BY <1>2, StartDoneEffect, StopDoneSilent, RestartSilent DEF StepForms
<1>3. CASE Environment
  BY <1>3, EnabledDisabledSilent, RestartSilent DEF Environment, StepForms
<1>4. CASE UNCHANGED vars
  BY <1>4, StutterSilent DEF StepForms
<1> QED  BY <1>1, <1>2, <1>3, <1>4 DEF Next

LEMMA NextInvariant ==
  ASSUME IInv, [Next]_vars
  PROVE  IInv'
<1>1. CASE Silent
  BY <1>1, SameOutcome DEF Silent, IInv, OneOutcome
<1>2. ASSUME NEW s \in Service, Effect(s)  PROVE IInv'
  BY <1>2, SameOutcome DEF Effect, IInv, OneOutcome
<1>3. CASE Shutdown
  BY <1>3, ShutdownEffect
<1> QED  BY <1>1, <1>2, <1>3, NextForms DEF StepForms

LEMMA Invariant == Spec => []IInv
BY InitInvariant, NextInvariant, PTL DEF Spec

(* Whatever the order of events, requests and answers, every variable of   *)
(* the services and of the driver keeps its type: only Services are        *)
(* waited for, and the stops that are pending are counted right.           *)
THEOREM TypeCorrect == Spec => []TypeOK
BY Invariant, PTL DEF IInv

(* No outcome of an earlier start of a service is taken for that of the    *)
(* current one, for any set of services, any dependencies and any queue.   *)
THEOREM OutcomeCorrect == Spec => []OneOutcome
BY Invariant, PTL DEF IInv

-----------------------------------------------------------------------------
(* The services implement Layers.                                          *)

(* Up and Booting of a service the step leaves alone do not change.        *)
LEMMA SameStays ==
  ASSUME NEW t \in Service, Same(t)
  PROVE  (Up(t)' <=> Up(t)) /\ (Booting(t)' <=> Booting(t))
BY BootingAgain, BootingNext DEF Same, Up, Outcome

(* The steps of the services as steps of Layers.                           *)
LEMMA EffectStep ==
  ASSUME IInv, NEW s \in Service, Effect(s)
  PROVE  [Promise!Next]_(Promise!vars)
<1> DEFINE up == {t \in Service : Up(t)}
           booting == {t \in Service : Booting(t)}
           upNext == {t \in Service : Up(t)'}
           bootingNext == {t \in Service : Booting(t)'}
<1>1. \A t \in Service \ {s} : (Up(t)' <=> Up(t)) /\ (Booting(t)' <=> Booting(t))
  BY SameStays DEF Effect
<1>2. up' = upNext /\ booting' = bootingNext
  OBVIOUS
<1>3. DependsOn[s] \in SUBSET Service /\ s \notin DependsOn[s]
  OBVIOUS
<1>4. CASE Stays(s)
  <2>1. up' = up /\ booting' = booting
    BY <1>1, <1>4 DEF Stays
  <2> QED  BY <2>1 DEF Promise!vars
<1>5. CASE Boots(s)
  <2>1. up' = up /\ booting' = booting \cup {s}
    BY <1>1, <1>5 DEF Boots, Off
  <2>2. s \notin up \cup booting /\ DependsOn[s] \subseteq up
    BY <1>3, <1>5 DEF Boots, Off
  <2> QED  BY <2>1, <2>2 DEF Promise!Next, Promise!Boot, Promise!Active
<1>6. CASE Finishes(s)
  <2>1. up' = up \cup {s} /\ booting' = booting \ {s} /\ s \in booting
    BY <1>1, <1>6 DEF Finishes
  <2> QED  BY <2>1 DEF Promise!Next, Promise!Finish
<1>7. CASE Fails(s)
  <2>1. up' = up /\ booting' = booting \ {s} /\ s \in booting
    BY <1>1, <1>7 DEF Fails, Off
  <2> QED  BY <2>1 DEF Promise!Next, Promise!Fail
<1>8. CASE GoesDown(s)
  <2>1. up' = up \ {s} /\ booting' = booting /\ s \in up
    BY <1>1, <1>8 DEF GoesDown, Off
  <2>2. \A t \in up \cup booting : s \notin DependsOn[t]
    BY <1>8 DEF GoesDown, Off, Dependents
  <2> QED  BY <2>1, <2>2 DEF Promise!Next, Promise!TakeDown, Promise!NoneOnTop, Promise!Active
<1>9. CASE Reboots(s)
  <2>1. up' = up \ {s} /\ booting' = booting \cup {s} /\ s \in up
    BY <1>1, <1>9 DEF Reboots
  <2>2. \A t \in up \cup booting : s \notin DependsOn[t]
    BY <1>9 DEF Reboots, Off, Dependents
  <2>3. DependsOn[s] \subseteq up
    BY <1>3, <1>9 DEF Reboots
  <2> QED  BY <2>1, <2>2, <2>3 DEF Promise!Next, Promise!Reboot, Promise!NoneOnTop, Promise!Active
<1> QED  BY <1>4, <1>5, <1>6, <1>7, <1>8, <1>9 DEF Effect

LEMMA NextImplements ==
  ASSUME IInv, [Next]_vars
  PROVE  [Promise!Next]_(Promise!vars)
<1>1. CASE Silent
  <2>1. \A t \in Service : (Up(t)' <=> Up(t)) /\ (Booting(t)' <=> Booting(t))
    BY <1>1, SameStays DEF Silent
  <2>2. {t \in Service : Up(t)}' = {t \in Service : Up(t)}
        /\ {t \in Service : Booting(t)}' = {t \in Service : Booting(t)}
    BY <2>1
  <2> QED  BY <2>2 DEF Promise!vars
<1>2. CASE \E s \in Service : Effect(s)
  BY <1>2, EffectStep
<1>3. CASE Shutdown
  <2>1. {t \in Service : Up(t)}' = {} /\ {t \in Service : Booting(t)}' = {}
    BY <1>3, ShutdownEffect DEF Off
  <2> QED  BY <2>1 DEF Promise!Next, Promise!Close
<1> QED  BY <1>1, <1>2, <1>3, NextForms DEF StepForms

LEMMA InitImplements == Init => Promise!Init
BY DEF Init, Promise!Init, Up, Booting

(* The services implement Layers: every step of a service, of the driver   *)
(* or of those who start and stop services is a step of Layers or none.    *)
THEOREM Implementation == Spec => KeepsPromise
BY InitImplements, NextImplements, Invariant, PTL DEF Spec, KeepsPromise, Promise!Spec

-----------------------------------------------------------------------------
(* The invariant of Layers, carried over by the refinement.                *)

LEMMA PromiseKeepsOrder ==
  ASSUME DependenciesUp, [Promise!Next]_(Promise!vars)
  PROVE  DependenciesUp'
<1> DEFINE U == {t \in Service : Up(t)}
           B == {t \in Service : Booting(t)}
           Ordered(u, b) == \A t \in u \cup b : DependsOn[t] \subseteq u
<1>1. DependenciesUp <=> Ordered(U, B)
  BY DEF DependenciesUp
<1>2. DependenciesUp' <=> Ordered(U', B')
  BY DEF DependenciesUp
<1>3. \/ U' = U /\ B' = B
      \/ \E s \in Service :
           \/ DependsOn[s] \subseteq U /\ B' = B \cup {s} /\ U' = U
           \/ s \in B /\ B' = B \ {s} /\ U' = U \cup {s}
           \/ B' = B \ {s} /\ U' = U
           \/ (\A t \in U \cup B : s \notin DependsOn[t]) /\ U' = U \ {s} /\ B' = B
           \/ /\ (\A t \in U \cup B : s \notin DependsOn[t]) /\ DependsOn[s] \subseteq U
              /\ U' = U \ {s} /\ B' = B \cup {s}
      \/ U' = {} /\ B' = {}
  BY DEF Promise!vars, Promise!Next, Promise!Boot, Promise!Finish, Promise!Fail, Promise!TakeDown,
         Promise!Reboot, Promise!Close, Promise!NoneOnTop, Promise!Active
<1>4. ASSUME NEW u \in SUBSET Service, NEW b \in SUBSET Service,
             NEW v \in SUBSET Service, NEW c \in SUBSET Service, Ordered(u, b),
             \/ v = u /\ c = b
             \/ \E s \in Service :
                  \/ DependsOn[s] \subseteq u /\ c = b \cup {s} /\ v = u
                  \/ s \in b /\ c = b \ {s} /\ v = u \cup {s}
                  \/ c = b \ {s} /\ v = u
                  \/ (\A t \in u \cup b : s \notin DependsOn[t]) /\ v = u \ {s} /\ c = b
                  \/ /\ (\A t \in u \cup b : s \notin DependsOn[t]) /\ DependsOn[s] \subseteq u
                     /\ v = u \ {s} /\ c = b \cup {s}
             \/ v = {} /\ c = {}
      PROVE  Ordered(v, c)
  BY <1>4
<1>5. U \in SUBSET Service /\ B \in SUBSET Service /\ U' \in SUBSET Service /\ B' \in SUBSET Service
  OBVIOUS
<1> HIDE DEF U, B, Ordered
<1> QED  BY <1>1, <1>2, <1>3, <1>4, <1>5

LEMMA InitOrder == Init => DependenciesUp
BY DEF Init, DependenciesUp, Up, Booting

(* A service runs, or is being started, only while all it depends on runs: *)
(* for every set of services and every dependency relation, whatever is    *)
(* started, stopped or restarted and whenever start() and stop() end.      *)
THEOREM LayerCorrect == Spec => []DependenciesUp
BY InitOrder, Invariant, NextImplements, PromiseKeepsOrder, PTL DEF Spec

-----------------------------------------------------------------------------
(* A batch and the Deferreds it gave away.                                 *)

(* The events that carry no Deferred.                                      *)
Bare == {m \in Message : m.deferred = FALSE}

(* The Deferreds on their way in q and those in c are those of different   *)
(* services in w.                                                          *)
Owed(q, c, w) ==
  /\ c \subseteq w
  /\ \A i \in DOMAIN q : q[i].deferred = TRUE => q[i].to \in w \ c
  /\ \A i, j \in DOMAIN q :
       q[i].deferred = TRUE /\ q[j].deferred = TRUE /\ q[i].to = q[j].to => i = j

LEMMA AnswerOnceAgain ==
  ASSUME TypeOK
  PROVE  AnswerOnce <=> (batch = "none" <=> waiting = {}) /\ Owed(queue, callback, waiting)
<1>1. \A i \in DOMAIN queue : queue[i] \in Message
  BY DEF TypeOK
<1>2. \A m \in Message : m.deferred \in BOOLEAN
  BY DEF Message
<1>3. \A i \in DOMAIN queue : queue[i].deferred <=> queue[i].deferred = TRUE
  BY <1>1, <1>2, Zenon
<1> QED  BY <1>3, Zenon DEF AnswerOnce, Owed

(* Two queues that owe different services owe both, one after the other.   *)
LEMMA OwedJoin ==
  ASSUME NEW q \in Seq(Message), NEW p \in Seq(Message), NEW c, NEW v, NEW w,
         Owed(q, c, v), Owed(p, {}, w), v \cap w = {}
  PROVE  Owed(q \o p, c, v \cup w)
<1> DEFINE r == q \o p
<1>1. /\ r \in Seq(Message) /\ Len(q) \in Nat /\ Len(p) \in Nat
      /\ DOMAIN q = 1..Len(q) /\ DOMAIN p = 1..Len(p) /\ DOMAIN r = 1..(Len(q) + Len(p))
      /\ \A i \in DOMAIN r : r[i] = IF i <= Len(q) THEN q[i] ELSE p[i - Len(q)]
  BY ConcatProperties, LenProperties
<1>2. \A i \in DOMAIN r : (i \in DOMAIN q /\ r[i] = q[i])
                           \/ (i - Len(q) \in DOMAIN p /\ r[i] = p[i - Len(q)])
  BY <1>1
<1>3. \A i, j \in DOMAIN r : i - Len(q) = j - Len(q) => i = j
  BY <1>1
<1> HIDE DEF r
<1>4. \A i \in DOMAIN r : r[i].deferred = TRUE => r[i].to \in (v \cup w) \ c
  BY <1>2 DEF Owed
<1>5. \A i, j \in DOMAIN r :
        r[i].deferred = TRUE /\ r[j].deferred = TRUE /\ r[i].to = r[j].to => i = j
  BY <1>2, <1>3 DEF Owed
<1>6. Owed(r, c, v \cup w)
  BY <1>4, <1>5 DEF Owed
<1> QED  BY <1>6 DEF r

LEMMA OwedBare ==
  ASSUME NEW p \in Seq(Bare)
  PROVE  p \in Seq(Message) /\ Owed(p, {}, {})
<1>1. \A i \in DOMAIN p : p[i] \in Message /\ p[i].deferred = FALSE
  BY DEF Bare
<1>2. p \in Seq(Message)
  BY SeqMonotonic DEF Bare
<1> QED  BY <1>1, <1>2 DEF Owed

LEMMA OwedPlus ==
  ASSUME NEW q \in Seq(Message), NEW p \in Seq(Bare), NEW c, NEW v, Owed(q, c, v)
  PROVE  q \o p \in Seq(Message) /\ Owed(q \o p, c, v)
<1>1. p \in Seq(Message) /\ Owed(p, {}, {})
  BY OwedBare
<1>2. Owed(q \o p, c, v \cup {}) /\ v \cup {} = v
  BY <1>1, OwedJoin
<1> QED  BY <1>1, <1>2, ConcatProperties

(* A handler takes the first event, and keeps its Deferred or does not.    *)
LEMMA OwedTail ==
  ASSUME TypeOK, AnswerOnce, queue # <<>>, NEW s \in Service, Head(queue).to = s
  PROVE  /\ Tail(queue) \in Seq(Message)
         /\ Owed(Tail(queue), callback, waiting)
         /\ Owed(Tail(queue), WithCallback(s), waiting)
<1>1. /\ queue \in Seq(Message) /\ Tail(queue) \in Seq(Message)
      /\ Len(queue) \in Nat \ {0} /\ Len(Tail(queue)) = Len(queue) - 1
      /\ DOMAIN queue = 1..Len(queue)
      /\ DOMAIN Tail(queue) = 1..Len(Tail(queue))
      /\ \A i \in 1..Len(Tail(queue)) : Tail(queue)[i] = queue[i + 1]
      /\ Head(queue) = queue[1]
  BY HeadTailProperties, LenProperties, EmptySeq DEF TypeOK
<1>2. Owed(queue, callback, waiting)
  BY AnswerOnceAgain
<1> DEFINE r == Tail(queue)
<1>3. \A i \in DOMAIN r : i + 1 \in DOMAIN queue /\ i + 1 # 1 /\ r[i] = queue[i + 1]
  BY <1>1
<1>4. \A i, j \in DOMAIN r : i + 1 = j + 1 => i = j
  BY <1>1
<1>5. 1 \in DOMAIN queue /\ queue[1].to = s /\ queue[1] \in Message
  BY <1>1
<1> HIDE DEF r
<1>6. Owed(r, callback, waiting)
  <2>1. \A i \in DOMAIN r : r[i].deferred = TRUE => r[i].to \in waiting \ callback
    BY <1>2, <1>3 DEF Owed
  <2>2. \A i, j \in DOMAIN r :
          r[i].deferred = TRUE /\ r[j].deferred = TRUE /\ r[i].to = r[j].to => i = j
    BY <1>2, <1>3, <1>4 DEF Owed
  <2> QED  BY <1>2, <2>1, <2>2 DEF Owed
<1>7. ASSUME queue[1].deferred = TRUE
      PROVE  Owed(r, callback \cup {s}, waiting)
  <2>1. s \in waiting
    BY <1>2, <1>5, <1>7 DEF Owed
  <2>2. \A i \in DOMAIN r : r[i].deferred = TRUE => r[i].to # s
    BY <1>2, <1>3, <1>5, <1>7 DEF Owed
  <2> QED  BY <1>6, <2>1, <2>2 DEF Owed
<1>8. queue[1].deferred \in BOOLEAN
  BY <1>5 DEF Message
<1>9. WithCallback(s) = callback \/ (queue[1].deferred = TRUE /\ WithCallback(s) = callback \cup {s})
  BY <1>1, <1>8, Zenon DEF WithCallback
<1>10. Owed(r, WithCallback(s), waiting)
  BY <1>6, <1>7, <1>9
<1> QED  BY <1>1, <1>6, <1>10 DEF r

(* What is posted without a Deferred.                                      *)
LEMMA PostBare ==
  ASSUME NEW s \in Service, NEW e \in Event
  PROVE  Post(s, e) \in Bare /\ <<Post(s, e)>> \in Seq(Bare)
<1>1. Post(s, e) \in Message /\ Post(s, e).deferred = FALSE
  BY DEF Post, Message
<1>2. Post(s, e) \in Bare
  BY <1>1 DEF Bare
<1> QED  BY <1>2

LEMMA PostedBare ==
  ASSUME NEW s \in Service, NEW o \in Event \cup {"deferred"}
  PROVE  Posted(s, o) \in Seq(Bare)
BY PostBare, EmptySeq DEF Posted

LEMMA PostAllBare ==
  ASSUME NEW S \in SUBSET Service, NEW order \in Orders(S), NEW e \in Event
  PROVE  PostAll(order, e) \in Seq(Bare)
<1>1. order \in [1..Len(order) -> Service] /\ Len(order) \in Nat
  BY OrdersType, LenProperties
<1>2. PostAll(order, e) \in [1..Len(order) -> Bare]
  BY <1>1, PostBare DEF PostAll
<1> QED  BY <1>1, <1>2

LEMMA OutcomeEvents ==
  ASSUME NEW s \in Service
  PROVE  /\ StartOutcomes(s) \subseteq Event \cup {"deferred"}
         /\ StopOutcomes(s) \subseteq Event \cup {"deferred"}
BY DEF StartOutcomes, StopOutcomes, Event

LEMMA DependentsBare ==
  ASSUME NEW s \in Service, StopDependents(s)
  PROVE  \E m \in Seq(Bare) : queue' = Tail(queue) \o m
<1>1. "stop" \in Event /\ "depend-service-stopped" \in Event
  BY DEF Event
<1>2. PICK order \in Orders(Dependents(s)) :
        queue' = Tail(queue) \o (IF Dependents(s) = {} THEN <<Post(s, "depend-service-stopped")>>
                                 ELSE PostAll(order, "stop"))
  BY DEF StopDependents
<1>3. PostAll(order, "stop") \in Seq(Bare)
  BY <1>1, PostAllBare DEF Dependents
<1> QED  BY <1>1, <1>2, <1>3, PostBare

LEMMA CallbackBare ==
  ASSUME TypeOK, NEW s \in Service, NEW result, NEW order \in Orders(Told(result, s))
  PROVE  OnServiceCallback(result, order) \in Seq(Bare)
<1>1. Told(result, s) \in SUBSET Service
  BY DEF Told, Dependents, TypeOK
<1>2. "start" \in Event /\ "depend-service-stopped" \in Event
  BY DEF Event
<1> QED  BY <1>1, <1>2, PostAllBare DEF OnServiceCallback

(* What the Deferreds in S leave to be waited for: the rest of the batch,  *)
(* or the one service that the next batch begins with.                     *)
LEMMA FireOwed ==
  ASSUME TypeOK, batch = "none" <=> waiting = {}, NEW c, NEW q, Owed(q, c, waiting),
         NEW S, S \subseteq c, NEW st
  PROVE  LET b == Fire(S, st)
         IN  /\ b.batch = "none" <=> b.waiting = {}
             /\ b.posts \in Seq(Message)
             /\ \E v, w : /\ v \cap w = {} /\ b.waiting = v \cup w
                          /\ Owed(q, c \ S, v) /\ Owed(b.posts, {}, w)
<1> DEFINE Good(b) ==
      /\ b.batch = "none" <=> b.waiting = {}
      /\ b.posts \in Seq(Message)
      /\ \E w : b.waiting = w /\ Owed(b.posts, {}, w)
<1>1. \A s \in Service, e \in {"start", "stop"} :
        /\ PostDeferred(s, e) \in Message
        /\ PostDeferred(s, e).to = s
  BY DEF PostDeferred, Message, Event
<1>0. <<>> \in Seq(Message) /\ Owed(<<>>, {}, {})
  BY EmptySeq DEF Owed
<1>2. Good(NoBatch)
  BY <1>0 DEF NoBatch, Batch
<1>3. ASSUME NEW s \in Service, NEW e \in {"start", "stop"}, NEW kind \in {"starting", "stopping"},
             NEW chain
      PROVE  Good(Batch(kind, {s}, chain, <<PostDeferred(s, e)>>))
  <2> DEFINE p == <<PostDeferred(s, e)>>
  <2>1. p \in Seq(Message) /\ DOMAIN p = {1} /\ p[1].to = s
    BY <1>1
  <2>2. Owed(p, {}, {s})
    BY <2>1 DEF Owed
  <2> HIDE DEF p
  <2>3. Good(Batch(kind, {s}, chain, p))
    BY <2>1, <2>2 DEF Batch
  <2> QED  BY <2>3 DEF p
<1>4. Good(AfterStarting)
  <2>1. CASE restarts = <<>>
    BY <1>2, <2>1 DEF AfterStarting
  <2>2. CASE restarts # <<>>
    <3>1. Head(restarts) \in Service
      BY <2>2 DEF TypeOK
    <3>2. Good(Batch("stopping", {Head(restarts)}, restarts, <<PostDeferred(Head(restarts), "stop")>>))
      BY <1>3, <3>1
    <3> HIDE DEF Good
    <3> QED  BY <2>2, <3>2 DEF AfterStarting
  <2> QED  BY <2>1, <2>2
<1>5. Good(AfterStopping(st))
  <2> DEFINE can == {i \in DOMAIN restarts : Startable(restarts[i], st)}
             first == restarts[CHOOSE i \in can : \A j \in can : i <= j]
  <2>1. CASE can = {}
    BY <1>2, <2>1 DEF AfterStopping
  <2>2. CASE can # {}
    <3>1. can \in SUBSET Nat
      BY LenProperties DEF TypeOK
    <3>2. (CHOOSE i \in can : \A j \in can : i <= j) \in can
      BY <2>2, <3>1, FirstPosition
    <3>3. first \in Service
      BY <3>2, ElementOfSeq, LenProperties DEF TypeOK
    <3>4. AfterStopping(st) = Batch("starting", {first}, <<>>, <<PostDeferred(first, "start")>>)
      BY <2>2 DEF AfterStopping
    <3> HIDE DEF can, first, Good
    <3>5. Good(Batch("starting", {first}, <<>>, <<PostDeferred(first, "start")>>))
      BY <1>3, <3>3
    <3> QED  BY <3>4, <3>5
  <2> QED  BY <2>1, <2>2
<1>6. CASE S = {} \/ waiting \ S # {}
  <2> DEFINE b == Batch(batch, waiting \ S, restarts, <<>>)
  <2>1. Fire(S, st) = b
    BY <1>6 DEF Fire
  <2>2. /\ b.batch = batch /\ b.waiting = waiting \ S /\ b.posts = <<>>
    BY DEF Batch
  <2>3. (waiting \ S) \cap {} = {} /\ b.waiting = (waiting \ S) \cup {}
    BY <2>2
  <2>a. Owed(q, c \ S, waiting \ S)
    BY DEF Owed
  <2>4. Owed(q, c \ S, waiting \ S) /\ Owed(b.posts, {}, {}) /\ b.posts \in Seq(Message)
    BY <1>0, <2>a, <2>2
  <2>5. b.batch = "none" <=> b.waiting = {}
    BY <1>6, <2>2
  <2> HIDE DEF b
  <2> QED  BY <2>1, <2>3, <2>4, <2>5
<1>7. CASE S # {} /\ waiting \ S = {}
  <2> DEFINE b == Fire(S, st)
  <2>1. Good(b)
    <3> HIDE DEF Good
    <3> QED  BY <1>4, <1>5, <1>7 DEF Fire
  <2>2. Owed(q, c \ S, {})
    BY <1>7 DEF Owed
  <2> HIDE DEF b
  <2>3. PICK w : b.waiting = w /\ Owed(b.posts, {}, w)
    BY <2>1
  <2>4. {} \cap w = {} /\ b.waiting = {} \cup w
    BY <2>3
  <2>5. /\ b.batch = "none" <=> b.waiting = {}
        /\ b.posts \in Seq(Message)
        /\ \E v, u : /\ v \cap u = {} /\ b.waiting = v \cup u
                     /\ Owed(q, c \ S, v) /\ Owed(b.posts, {}, u)
    BY <2>1, <2>2, <2>3, <2>4
  <2> QED  BY <2>5 DEF b
<1> QED  BY <1>6, <1>7

LEMMA NotifyOwed ==
  ASSUME TypeOK, AnswerOnce, queue # <<>>, NEW s \in Service, NEW result,
         Head(queue).to = s, NEW waiters \in {callback, WithCallback(s)},
         NEW before \in Seq(Bare), NEW after \in Seq(Bare),
         Notify(s, result, waiters, before, after)
  PROVE  (batch' = "none" <=> waiting' = {}) /\ Owed(queue', callback', waiting')
<1> DEFINE S == waiters \cap {s}
           fired == Fire(S, state')
<1>1. SetBatch(fired) /\ callback' = waiters \ {s}
  BY DEF Notify
<1>2. PICK order \in Orders(Told(result, s)) :
        queue' = Tail(queue) \o (before \o fired.posts \o OnServiceCallback(result, order)) \o after
  BY DEF Notify
<1>3. /\ Tail(queue) \in Seq(Message)
      /\ Owed(Tail(queue), waiters, waiting)
      /\ batch = "none" <=> waiting = {}
  BY OwedTail, AnswerOnceAgain
<1>4. S \subseteq waiters /\ waiters \ S = waiters \ {s}
  OBVIOUS
<1>5. /\ fired.batch = "none" <=> fired.waiting = {}
      /\ fired.posts \in Seq(Message)
      /\ \E v, w : /\ v \cap w = {} /\ fired.waiting = v \cup w
                   /\ Owed(Tail(queue), waiters \ S, v) /\ Owed(fired.posts, {}, w)
  <2> HIDE DEF S
  <2> QED  BY <1>3, <1>4, FireOwed
<1>6. OnServiceCallback(result, order) \in Seq(Bare)
  BY CallbackBare
<1> HIDE DEF S, fired
<1>7. PICK v, w : /\ v \cap w = {} /\ fired.waiting = v \cup w
                  /\ Owed(Tail(queue), waiters \ {s}, v) /\ Owed(fired.posts, {}, w)
  BY <1>4, <1>5
<1> DEFINE posts == OnServiceCallback(result, order)
           half == before \o fired.posts
           all == half \o posts
<1>8. before \in Seq(Message) /\ Owed(before, {}, {})
  BY OwedBare
<1>9. half \in Seq(Message) /\ Owed(half, {}, w)
  <2>1. Owed(before \o fired.posts, {}, {} \cup w) /\ {} \cup w = w
    BY <1>5, <1>7, <1>8, OwedJoin
  <2> QED  BY <1>5, <1>8, <2>1, ConcatProperties
<1> HIDE DEF half, posts
<1>10. all \in Seq(Message) /\ Owed(all, {}, w)
  BY <1>6, <1>9, OwedPlus DEF posts
<1> HIDE DEF all
<1>11. /\ Tail(queue) \o all \in Seq(Message)
       /\ Owed(Tail(queue) \o all, waiters \ {s}, fired.waiting)
  <2>1. Owed(Tail(queue) \o all, waiters \ {s}, v \cup w)
    BY <1>3, <1>7, <1>10, OwedJoin
  <2> QED  BY <1>3, <1>7, <1>10, <2>1, ConcatProperties
<1>12. Owed((Tail(queue) \o all) \o after, waiters \ {s}, fired.waiting)
  BY <1>11, OwedPlus
<1>13. queue' = (Tail(queue) \o all) \o after
  BY <1>2 DEF all, half, posts
<1> QED  BY <1>1, <1>5, <1>12, <1>13 DEF SetBatch

(* A handler that tells nobody.                                            *)
LEMMA QuietOwed ==
  ASSUME TypeOK, AnswerOnce, queue # <<>>, NEW s \in Service, Head(queue).to = s,
         callback' \in {callback, WithCallback(s)},
         UNCHANGED <<batch, waiting>>,
         NEW m \in Seq(Bare), queue' = Tail(queue) \o m
  PROVE  (batch' = "none" <=> waiting' = {}) /\ Owed(queue', callback', waiting')
<1>1. Tail(queue) \in Seq(Message) /\ Owed(Tail(queue), callback', waiting)
  BY OwedTail
<1>2. Owed(Tail(queue) \o m, callback', waiting)
  BY <1>1, OwedPlus
<1>3. batch = "none" <=> waiting = {}
  BY AnswerOnceAgain
<1> QED  BY <1>2, <1>3

LEMMA PostOwed ==
  ASSUME TypeOK, AnswerOnce, UNCHANGED <<batch, waiting, callback>>,
         NEW s \in Service, NEW e \in Event, queue' = Append(queue, Post(s, e))
  PROVE  (batch' = "none" <=> waiting' = {}) /\ Owed(queue', callback', waiting')
<1>1. <<Post(s, e)>> \in Seq(Bare) /\ queue' = queue \o <<Post(s, e)>>
  BY PostBare DEF TypeOK
<1>2. queue \in Seq(Message)
  BY DEF TypeOK
<1>3. (batch = "none" <=> waiting = {}) /\ Owed(queue, callback, waiting)
  BY AnswerOnceAgain
<1>4. Owed(queue \o <<Post(s, e)>>, callback, waiting)
  BY <1>1, <1>2, <1>3, OwedPlus
<1> QED  BY <1>1, <1>3, <1>4

LEMMA DoStopOwed ==
  ASSUME TypeOK, AnswerOnce, UNCHANGED callback, NEW s \in Service,
         DoStop(s) \/ UNCHANGED <<batch, waiting, queue>>
  PROVE  (batch' = "none" <=> waiting' = {}) /\ Owed(queue', callback', waiting')
<1>1. (batch = "none" <=> waiting = {}) /\ Owed(queue, callback, waiting)
  BY AnswerOnceAgain
<1>2. CASE UNCHANGED <<batch, waiting, queue>>
  BY <1>1, <1>2
<1>3. CASE batch = "none" /\ SetBatch(Batch("stopping", {s}, <<s>>, <<>>))
           /\ queue' = Append(queue, PostDeferred(s, "stop"))
  <2> DEFINE x == PostDeferred(s, "stop")
  <2>1. x \in Message /\ x.to = s
    BY DEF PostDeferred, Message, Event
  <2> HIDE DEF x
  <2>2. <<x>> \in Seq(Message) /\ Owed(<<x>>, {}, {s})
    BY <2>1 DEF Owed
  <2>3. waiting = {} /\ callback = {}
    BY <1>1, <1>3 DEF Owed
  <2>4. Owed(queue \o <<x>>, {}, {} \cup {s}) /\ {} \cup {s} = {s} /\ {} \cap {s} = {}
    <3>1. queue \in Seq(Message) /\ Owed(queue, {}, {}) /\ {} \cap {s} = {}
      BY <1>1, <2>3 DEF TypeOK
    <3> QED  BY <2>2, <3>1, OwedJoin
  <2>5. queue' = queue \o <<x>> /\ batch' = "stopping" /\ waiting' = {s} /\ callback' = {}
    BY <1>3, <2>3 DEF x, SetBatch, Batch, TypeOK
  <2> QED  BY <2>4, <2>5
<1> QED  BY <1>2, <1>3 DEF DoStop

(* The orders of a loop name every service once.                           *)
LEMMA OrdersOnce ==
  ASSUME NEW S \in SUBSET Service, NEW order \in Orders(S)
  PROVE  \A i, j \in DOMAIN order : order[i] = order[j] => i = j
<1> DEFINE n == Cardinality(S)
<1>1. IsFiniteSet(S) /\ n \in Nat
  BY FS_Subset, FS_CardinalityType
<1>2. IsFiniteSet(1..n) /\ Cardinality(1..n) = n
  BY <1>1, FS_Interval
<1>3. order \in Surjection(1..n, S)
  BY DEF Orders, Surjection
<1>4. order \in Injection(1..n, S)
  BY <1>1, <1>2, <1>3, FS_SurjSameCardinalityImpliesInj
<1> QED  BY <1>4 DEF Injection, IsInjective

LEMMA InitAnswer == Init => AnswerOnce
<1> SUFFICES ASSUME Init PROVE AnswerOnce
  OBVIOUS
<1>1. PICK order \in Orders(enabled) : queue = [i \in DOMAIN order |-> PostDeferred(order[i], "start")]
  BY DEF Init
<1>2. enabled \in SUBSET Service /\ waiting = enabled /\ callback = {}
  BY DEF Init
<1>3. \A i, j \in DOMAIN order : order[i] = order[j] => i = j
  BY <1>1, <1>2, OrdersOnce
<1>4. order \in [1..Cardinality(enabled) -> enabled]
  BY <1>1 DEF Orders
<1>5. \A i \in DOMAIN queue : i \in DOMAIN order /\ queue[i].to = order[i]
  BY <1>1 DEF PostDeferred
<1>6. Owed(queue, callback, waiting)
  BY <1>2, <1>3, <1>4, <1>5 DEF Owed
<1>7. batch = "none" <=> waiting = {}
  BY <1>2 DEF Init
<1>8. TypeOK
  BY InitInvariant DEF IInv
<1> QED  BY <1>6, <1>7, <1>8, AnswerOnceAgain

LEMMA HandleAnswer ==
  ASSUME IInv, AnswerOnce, NEW s \in Service, Handle(s)
  PROVE  (batch' = "none" <=> waiting' = {}) /\ Owed(queue', callback', waiting')
<1>0. TypeOK
  BY DEF IInv
<1>1. queue # <<>> /\ Head(queue).to = s
  BY DEF Handle, StopWhenOn, StopWhenOff, StartWhenOff, RequestInInfluence, DependsStopped,
         DependsStoppedNeedStart, RequestInStarting, Started, StartedNeedStop, NotStarted,
         StartInStopping, StoppedNow, Ignore, Got
<1>e. <<>> \in Seq(Bare)
  BY EmptySeq
<1>q. ASSUME queue' = Tail(queue)
      PROVE  queue' = Tail(queue) \o <<>>
  <2>1. Tail(queue) \in Seq(Message)
    BY <1>0, <1>1, OwedTail
  <2> QED  BY <1>q, <2>1, ConcatEmptySeq
<1>2. CASE StopWhenOn(s) \/ StartedNeedStop(s)
  <2>1. PICK m \in Seq(Bare) : queue' = Tail(queue) \o m
    BY <1>2, DependentsBare DEF StopWhenOn, StartedNeedStop
  <2>2. callback' \in {callback, WithCallback(s)} /\ UNCHANGED <<batch, waiting>>
    BY <1>2 DEF StopWhenOn, StartedNeedStop, driverVars
  <2> QED  BY <1>0, <1>1, <2>1, <2>2, QuietOwed
<1>3. CASE StopWhenOff(s) \/ Started(s) \/ NotStarted(s) \/ StoppedNow(s)
  <2>1. \/ \E result \in Result : Notify(s, result, WithCallback(s), <<>>, <<>>)
        \/ \E result \in Result : Notify(s, result, callback, <<>>, <<>>)
    BY <1>3 DEF StopWhenOff, Answer, Started, NotStarted, StoppedNow, Result
  <2> QED  BY <1>0, <1>1, <1>e, <2>1, NotifyOwed
<1>4. CASE StartWhenOff(s) \/ DependsStopped(s)
  <2>1. PICK o \in Event \cup {"deferred"} : queue' = Tail(queue) \o Posted(s, o)
    BY <1>4, OutcomeEvents DEF StartWhenOff, DependsStopped
  <2>2. callback' \in {callback, WithCallback(s)} /\ UNCHANGED <<batch, waiting>>
    BY <1>4 DEF StartWhenOff, DependsStopped, driverVars
  <2>3. Posted(s, o) \in Seq(Bare)
    BY PostedBare
  <2> QED  BY <1>0, <1>1, <2>1, <2>2, <2>3, QuietOwed
<1>5. CASE RequestInInfluence(s) \/ RequestInStarting(s) \/ StartInStopping(s) \/ Ignore(s)
  <2>1. queue' = Tail(queue)
    BY <1>5 DEF RequestInInfluence, RequestInStarting, StartInStopping, OnlyCallback, Ignore
  <2>2. callback' \in {callback, WithCallback(s)} /\ UNCHANGED <<batch, waiting>>
    BY <1>5 DEF RequestInInfluence, RequestInStarting, StartInStopping, OnlyCallback, Ignore,
                driverVars, serviceVars
  <2> QED  BY <1>0, <1>1, <1>e, <1>q, <2>1, <2>2, QuietOwed
<1>6. CASE DependsStoppedNeedStart(s)
  <2>1. PICK down \in StopOutcomes(s), up \in StartOutcomes(s) :
          Notify(s, "stopped", callback, Posted(s, down), Posted(s, up))
    BY <1>6 DEF DependsStoppedNeedStart
  <2>2. Posted(s, down) \in Seq(Bare) /\ Posted(s, up) \in Seq(Bare)
    BY PostedBare, OutcomeEvents
  <2> QED  BY <1>0, <1>1, <2>1, <2>2, NotifyOwed
<1> QED  BY <1>2, <1>3, <1>4, <1>5, <1>6 DEF Handle

LEMMA NextAnswer ==
  ASSUME IInv, AnswerOnce, [Next]_vars
  PROVE  AnswerOnce'
<1>0. TypeOK /\ TypeOK'
  BY NextInvariant DEF IInv
<1>1. SUFFICES (batch' = "none" <=> waiting' = {}) /\ Owed(queue', callback', waiting')
  <2>1. \A i \in DOMAIN queue' : queue'[i] \in Message
    BY <1>0 DEF TypeOK
  <2>2. \A m \in Message : m.deferred \in BOOLEAN
    BY DEF Message
  <2>3. \A i \in DOMAIN queue' : queue'[i].deferred <=> queue'[i].deferred = TRUE
    BY <2>1, <2>2, Zenon
  <2> QED  BY <1>1, <2>3, Zenon DEF AnswerOnce, Owed
<1>2. CASE \E s \in Service : Handle(s)
  BY <1>2, HandleAnswer
<1>3. CASE \E s \in Service : StartDone(s) \/ StopDone(s)
  <2> PICK s \in Service : StartDone(s) \/ StopDone(s)
    BY <1>3
  <2>1. \E e \in Event : queue' = Append(queue, Post(s, e))
    BY DEF StartDone, StopDone, Event
  <2>2. UNCHANGED <<batch, waiting, callback>>
    BY DEF StartDone, StopDone, driverVars
  <2> QED  BY <1>0, <2>1, <2>2, PostOwed
<1>4. CASE \E s \in Service, v \in BOOLEAN : EnabledDisabled(s, v)
  <2> PICK s \in Service, v \in BOOLEAN : EnabledDisabled(s, v)
    BY <1>4
  <2>1. \E e \in Event : queue' = Append(queue, Post(s, e))
    BY DEF EnabledDisabled, Event
  <2>2. UNCHANGED <<batch, waiting, callback>>
    BY DEF EnabledDisabled, serviceVars
  <2> QED  BY <1>0, <2>1, <2>2, PostOwed
<1>5. CASE \E s \in Service : Timeout(s) \/ \E v \in BOOLEAN : Restart(s, v)
  <2> PICK s \in Service : Timeout(s) \/ \E v \in BOOLEAN : Restart(s, v)
    BY <1>5
  <2>1. UNCHANGED callback /\ (DoStop(s) \/ UNCHANGED <<batch, waiting, queue>>)
    BY DEF Timeout, Restart, serviceVars
  <2> QED  BY <1>0, <2>1, DoStopOwed
<1>6. CASE Shutdown
  <2>1. batch = "none" <=> waiting = {}
    BY <1>0, AnswerOnceAgain
  <2>2. queue' = <<>> /\ callback' = {} /\ UNCHANGED <<batch, waiting>>
    BY <1>6 DEF Shutdown
  <2> QED  BY <2>1, <2>2 DEF Owed
<1>7. CASE UNCHANGED vars
  BY <1>0, <1>7, AnswerOnceAgain DEF vars, driverVars, serviceVars
<1> QED  BY <1>2, <1>3, <1>4, <1>5, <1>6, <1>7 DEF Next, Environment

(* The Deferred that a batch gives to a service is fired at most once, and *)
(* a batch in progress is one that waits for somebody: for any services,   *)
(* and however starts, stops, restarts and answers cross.                  *)
THEOREM AnswerCorrect == Spec => []AnswerOnce
BY InitAnswer, NextAnswer, Invariant, PTL DEF Spec

-----------------------------------------------------------------------------
(* No enabled service is left behind.                                      *)

BaseOn(s) == \A d \in DependsOn[s] : state[d] = "ON"

(* Behind each 'service-depend-off' of s a 'start' is on its way.          *)
Behind(q, s) ==
  \A i \in DOMAIN q : q[i].to = s /\ q[i].event = "service-depend-off" =>
    \E j \in DOMAIN q : j > i /\ q[j].to = s /\ q[j].event = "start"

(* The inductive form of NotLeftBehind: an outcome that says 'the services *)
(* below are off' while they are ON is out of date, and the 'start' that   *)
(* the last of them sent comes after it.                                   *)
Followed ==
  \A s \in enabled : BaseOn(s) =>
    /\ Behind(queue, s)
    /\ state[s] = "DEPENDS_OFF" => Has(queue, s, "start")

LEMMA FollowedNotLeft == Followed => NotLeftBehind
BY DEF Followed, NotLeftBehind, BaseOn, Has

(* A handler of s takes the first event and posts those in m.              *)
LEMMA TakenBehind ==
  ASSUME NEW q \in Seq(Message), q # <<>>, NEW m \in Seq(Message), NEW r, r = Tail(q) \o m,
         NEW t \in Service
  PROVE  /\ ~ Has(m, t, "service-depend-off") /\ Behind(q, t) => Behind(r, t)
         /\ ~ Has(m, t, "service-depend-off") /\ Has(m, t, "start") => Behind(r, t)
         /\ Has(m, t, "start") => Has(r, t, "start")
         /\ Has(q, t, "start") /\ (Head(q).to # t \/ Head(q).event # "start") => Has(r, t, "start")
         /\ Behind(q, t) /\ Head(q).to = t /\ Head(q).event = "service-depend-off"
              => Has(r, t, "start")
<1>1. /\ Tail(q) \in Seq(Message) /\ Len(Tail(q)) = Len(q) - 1
      /\ \A i \in 1..Len(Tail(q)) : Tail(q)[i] = q[i + 1]
      /\ Head(q) = q[1]
      /\ Len(q) \in Nat \ {0} /\ Len(m) \in Nat
      /\ DOMAIN q = 1..Len(q) /\ DOMAIN m = 1..Len(m)
  BY HeadTailProperties, LenProperties, EmptySeq
<1>2. /\ DOMAIN r = 1..(Len(q) - 1 + Len(m))
      /\ \A i \in DOMAIN r : r[i] = IF i <= Len(q) - 1 THEN q[i + 1] ELSE m[i - (Len(q) - 1)]
  <2>1. r \in Seq(Message) /\ Len(r) = Len(q) - 1 + Len(m)
    BY <1>1, ConcatProperties
  <2>2. DOMAIN r = 1..Len(r)
    BY <2>1, LenProperties
  <2> QED  BY <1>1, <2>1, <2>2, ConcatProperties
<1>3. \A i \in DOMAIN q : i # 1 => i - 1 \in DOMAIN r /\ r[i - 1] = q[i]
  BY <1>1, <1>2
<1>4. \A k \in DOMAIN m : k + (Len(q) - 1) \in DOMAIN r /\ r[k + (Len(q) - 1)] = m[k]
  BY <1>1, <1>2
<1>5. \A i \in DOMAIN r : \/ i + 1 \in DOMAIN q /\ r[i] = q[i + 1]
                          \/ i - (Len(q) - 1) \in DOMAIN m /\ r[i] = m[i - (Len(q) - 1)]
  BY <1>1, <1>2
<1>6. 1 \in DOMAIN q
  BY <1>1
<1>7. ASSUME ~ Has(m, t, "service-depend-off"), NEW i \in DOMAIN r,
             r[i].to = t, r[i].event = "service-depend-off"
      PROVE  i + 1 \in DOMAIN q /\ r[i] = q[i + 1]
  BY <1>5, <1>7 DEF Has
<1>8. ASSUME ~ Has(m, t, "service-depend-off"), Behind(q, t)
      PROVE  Behind(r, t)
  <2> SUFFICES ASSUME NEW i \in DOMAIN r, r[i].to = t, r[i].event = "service-depend-off"
               PROVE  \E j \in DOMAIN r : j > i /\ r[j].to = t /\ r[j].event = "start"
    BY DEF Behind
  <2>1. i + 1 \in DOMAIN q /\ r[i] = q[i + 1]
    BY <1>7, <1>8
  <2>2. PICK j \in DOMAIN q : j > i + 1 /\ q[j].to = t /\ q[j].event = "start"
    BY <1>8, <2>1 DEF Behind
  <2>3. j # 1 /\ j - 1 > i
    BY <1>1, <1>2, <2>2
  <2> QED  BY <1>3, <2>2, <2>3
<1>9. ASSUME ~ Has(m, t, "service-depend-off"), Has(m, t, "start")
      PROVE  Behind(r, t)
  <2> SUFFICES ASSUME NEW i \in DOMAIN r, r[i].to = t, r[i].event = "service-depend-off"
               PROVE  \E j \in DOMAIN r : j > i /\ r[j].to = t /\ r[j].event = "start"
    BY DEF Behind
  <2>1. i + 1 \in DOMAIN q
    BY <1>7, <1>9
  <2>2. PICK k \in DOMAIN m : m[k].to = t /\ m[k].event = "start"
    BY <1>9 DEF Has
  <2>3. k + (Len(q) - 1) > i
    BY <1>1, <1>2, <2>1
  <2> QED  BY <1>4, <2>2, <2>3
<1>10. Has(m, t, "start") => Has(r, t, "start")
  BY <1>4 DEF Has
<1>11. Has(q, t, "start") /\ (Head(q).to # t \/ Head(q).event # "start") => Has(r, t, "start")
  BY <1>1, <1>3 DEF Has
<1>12. ASSUME Behind(q, t), Head(q).to = t, Head(q).event = "service-depend-off"
       PROVE  Has(r, t, "start")
  <2>1. PICK j \in DOMAIN q : j > 1 /\ q[j].to = t /\ q[j].event = "start"
    BY <1>1, <1>6, <1>12 DEF Behind
  <2>2. j # 1
    BY <1>1, <2>1
  <2> QED  BY <1>3, <2>1, <2>2 DEF Has
<1> QED  BY <1>8, <1>9, <1>10, <1>11, <1>12

(* What of a handler matters here.                                         *)
Follows(s) ==
  /\ queue # <<>> /\ Head(queue).to = s
  /\ enabled' = enabled
  /\ \A t \in Service \ {s} : state'[t] = state[t]
  /\ state'[s] = "DEPENDS_OFF" => \/ state[s] = "DEPENDS_OFF" /\ Head(queue).event # "start"
                                  \/ Head(queue).event = "service-depend-off"
  /\ \E m \in Seq(Message) :
       /\ queue' = Tail(queue) \o m
       /\ \A t \in Service : t # s \/ BaseOn(s) => ~ Has(m, t, "service-depend-off")
       /\ state'[s] = "ON" /\ state[s] # "ON" =>
            \A t \in Dependents(s) \cap enabled : state[t] # "ON" => Has(m, t, "start")

LEMMA FollowsStep ==
  ASSUME IInv, Followed, NEW s \in Service, Follows(s)
  PROVE  Followed'
<1> SUFFICES ASSUME NEW t \in enabled, BaseOn(t)'
             PROVE  /\ Behind(queue', t)
                    /\ state'[t] = "DEPENDS_OFF" => Has(queue', t, "start")
  BY DEF Followed, Follows, Behind, Has
<1>1. t \in Service /\ queue \in Seq(Message) /\ s \notin DependsOn[s]
  BY DEF IInv, TypeOK
<1>2. PICK m \in Seq(Message) :
        /\ queue' = Tail(queue) \o m
        /\ \A u \in Service : u # s \/ BaseOn(s) => ~ Has(m, u, "service-depend-off")
        /\ state'[s] = "ON" /\ state[s] # "ON" =>
             \A u \in Dependents(s) \cap enabled : state[u] # "ON" => Has(m, u, "start")
  BY DEF Follows
<1>3. queue # <<>> /\ Head(queue).to = s
  BY DEF Follows
<1>4. DependsOn[t] \subseteq Service /\ \A u \in Service \ {s} : state'[u] = state[u]
  BY <1>1 DEF Follows
<1>5. /\ ~ Has(m, t, "service-depend-off") /\ Behind(queue, t) => Behind(queue', t)
      /\ ~ Has(m, t, "service-depend-off") /\ Has(m, t, "start") => Behind(queue', t)
      /\ Has(m, t, "start") => Has(queue', t, "start")
      /\ Has(queue, t, "start") /\ (Head(queue).to # t \/ Head(queue).event # "start")
           => Has(queue', t, "start")
      /\ Behind(queue, t) /\ Head(queue).to = t /\ Head(queue).event = "service-depend-off"
           => Has(queue', t, "start")
  BY <1>1, <1>2, <1>3, TakenBehind
<1>6. CASE t = s
  <2>1. BaseOn(s)
    BY <1>1, <1>4, <1>6 DEF BaseOn
  <2>2. /\ ~ Has(m, t, "service-depend-off") /\ Behind(queue, t)
        /\ state[t] = "DEPENDS_OFF" => Has(queue, t, "start")
    BY <1>1, <1>2, <1>6, <2>1 DEF Followed
  <2> QED  BY <1>3, <1>5, <1>6, <2>2 DEF Follows
<1>7. CASE t # s /\ BaseOn(t)
  <2>1. /\ ~ Has(m, t, "service-depend-off") /\ Behind(queue, t)
        /\ state[t] = "DEPENDS_OFF" => Has(queue, t, "start")
    BY <1>1, <1>2, <1>7 DEF Followed
  <2>2. state'[t] = state[t]
    BY <1>1, <1>4, <1>7
  <2> QED  BY <1>3, <1>5, <1>7, <2>1, <2>2
<1>8. CASE t # s /\ ~ BaseOn(t)
  <2>1. s \in DependsOn[t] /\ state'[s] = "ON" /\ state[s] # "ON"
    BY <1>4, <1>8 DEF BaseOn
  <2>2. ~ Has(m, t, "service-depend-off") /\ state'[t] = state[t]
    BY <1>1, <1>2, <1>4, <1>8
  <2>3. CASE state[t] # "ON"
    <3>1. Has(m, t, "start")
      BY <1>1, <1>2, <2>1, <2>3 DEF Dependents
    <3> QED  BY <1>5, <2>2, <3>1
  <2>4. CASE state[t] = "ON"
    <3>1. \A e \in Outcome : ~ Has(queue, t, e)
      BY <1>1, <2>4, OneOutcomeNow DEF IInv
    <3>2. Behind(queue, t)
      BY <3>1 DEF Behind, Has, Outcome
    <3> QED  BY <1>5, <2>2, <2>4, <3>2
  <2> QED  BY <2>3, <2>4
<1> QED  BY <1>6, <1>7, <1>8

LEMMA PlainHas ==
  ASSUME NEW m \in Seq(Plain)
  PROVE  m \in Seq(Message) /\ \A t \in Service : ~ Has(m, t, "service-depend-off")
<1>1. \A i \in DOMAIN m : m[i].event \notin Outcome
  BY DEF Plain
<1>2. m \in Seq(Message)
  BY SeqMonotonic DEF Plain
<1> QED  BY <1>1, <1>2 DEF Has, Outcome

(* What doStartService posts to s is about s, and says that a service is   *)
(* off only when one is.                                                   *)
LEMMA PostedHas ==
  ASSUME NEW s \in Service, NEW o \in StartOutcomes(s), NEW m \in Seq(Plain)
  PROVE  /\ m \o Posted(s, o) \in Seq(Message)
         /\ \A t \in Service : t # s \/ BaseOn(s) => ~ Has(m \o Posted(s, o), t, "service-depend-off")
<1> DEFINE u == Posted(s, o)
           r == m \o u
<1>1. u \in Seq(Message) /\ m \in Seq(Message)
  BY PostedType, PlainHas
<1>2. \A i \in DOMAIN u : u[i] = Post(s, o) /\ o # "deferred"
  BY DEF Posted
<1>3. o = "service-depend-off" => ~ BaseOn(s)
  BY DEF StartOutcomes, BaseOn
<1>4. /\ r \in Seq(Message) /\ Len(m) \in Nat /\ Len(u) \in Nat
      /\ DOMAIN m = 1..Len(m) /\ DOMAIN u = 1..Len(u) /\ DOMAIN r = 1..(Len(m) + Len(u))
      /\ \A i \in DOMAIN r : r[i] = IF i <= Len(m) THEN m[i] ELSE u[i - Len(m)]
  BY <1>1, ConcatProperties, LenProperties
<1>5. \A i \in DOMAIN r : \/ i \in DOMAIN m /\ r[i] = m[i]
                          \/ i - Len(m) \in DOMAIN u /\ r[i] = u[i - Len(m)]
  BY <1>4
<1> HIDE DEF u, r
<1>6. \A i \in DOMAIN r : \/ i \in DOMAIN m /\ r[i] = m[i]
                          \/ r[i] = Post(s, o)
  BY <1>2, <1>5
<1>7. \A t \in Service : t # s \/ BaseOn(s) => ~ Has(r, t, "service-depend-off")
  BY <1>3, <1>6, PlainHas DEF Has, Post
<1> QED  BY <1>4, <1>7 DEF u, r

(* A service that has come up sends 'start' to all that wait for it.       *)
LEMMA StartedTells ==
  ASSUME TypeOK, NEW s \in Service, queue # <<>>, NEW waiters \in SUBSET Service,
         Notify(s, "started", waiters, <<>>, <<>>)
  PROVE  \E m \in Seq(Plain) :
           /\ queue' = Tail(queue) \o m
           /\ \A t \in Dependents(s) \cap enabled : state[t] # "ON" => Has(m, t, "start")
<1> DEFINE fired == Fire(waiters \cap {s}, state')
           T == Told("started", s)
<1>1. PICK order \in Orders(T) :
        queue' = Tail(queue) \o (<<>> \o fired.posts \o OnServiceCallback("started", order)) \o <<>>
  BY DEF Notify
<1>2. fired.posts \in Seq(Plain)
  BY FireType DEF BatchOK
<1>3. OnServiceCallback("started", order) \in Seq(Plain)
  BY <1>1, CallbackType DEF TypeOK
<1>4. OnServiceCallback("started", order) = [i \in DOMAIN order |-> Post(order[i], "start")]
  BY DEF OnServiceCallback, PostAll
<1>5. \A t \in T : \E i \in DOMAIN order : order[i] = t
  BY <1>1 DEF Orders
<1> DEFINE p == fired.posts
           c == OnServiceCallback("started", order)
           m == p \o c
<1>6. p \in Seq(Plain) /\ c \in Seq(Plain)
  BY <1>2, <1>3
<1>7. \A t \in T : \E i \in DOMAIN c : c[i].to = t /\ c[i].event = "start"
  BY <1>4, <1>5 DEF Post
<1>8. T = {t \in Dependents(s) \cap enabled : state[t] # "ON"}
  BY DEF Told
<1> HIDE DEF fired, T, p, c
<1>9. /\ m \in Seq(Plain)
      /\ Len(p) \in Nat /\ Len(c) \in Nat /\ DOMAIN c = 1..Len(c) /\ DOMAIN m = 1..(Len(p) + Len(c))
      /\ \A i \in DOMAIN m : m[i] = IF i <= Len(p) THEN p[i] ELSE c[i - Len(p)]
  BY <1>6, ConcatProperties, LenProperties
<1>10. \A i \in DOMAIN c : i + Len(p) \in DOMAIN m /\ m[i + Len(p)] = c[i]
  BY <1>9
<1> HIDE DEF m
<1>11. \A t \in T : Has(m, t, "start")
  BY <1>7, <1>10 DEF Has
<1>12. queue' = Tail(queue) \o m
  <2>1. Tail(queue) \in Seq(Message) /\ m \in Seq(Message) /\ p \in Seq(Message)
    BY <1>6, <1>9, PlainHas, HeadTailProperties DEF TypeOK
  <2>2. <<>> \o p = p
    BY <2>1, ConcatEmptySeq
  <2>3. Tail(queue) \o m \in Seq(Message)
    BY <2>1, ConcatProperties
  <2>4. (Tail(queue) \o m) \o <<>> = Tail(queue) \o m
    BY <2>3, ConcatEmptySeq
  <2> QED  BY <1>1, <2>2, <2>4 DEF m, p, c, T, fired
<1> QED  BY <1>8, <1>9, <1>11, <1>12

LEMMA HandleFollows ==
  ASSUME IInv, NEW s \in Service, Handle(s)
  PROVE  Follows(s)
<1>0. TypeOK
  BY DEF IInv
<1>1. queue # <<>> /\ Head(queue).to = s
  BY DEF Handle, StopWhenOn, StopWhenOff, StartWhenOff, RequestInInfluence, DependsStopped,
         DependsStoppedNeedStart, RequestInStarting, Started, StartedNeedStop, NotStarted,
         StartInStopping, StoppedNow, Ignore, Got
<1>2. enabled' = enabled
  BY DEF Handle, StopWhenOn, StopWhenOff, Answer, StartWhenOff, RequestInInfluence, DependsStopped,
         DependsStoppedNeedStart, RequestInStarting, Started, StartedNeedStop, NotStarted,
         StartInStopping, StoppedNow, Ignore, OnlyCallback, driverVars
<1>3. \A t \in Service \ {s} : state'[t] = state[t]
  BY <1>0 DEF Handle, StopWhenOn, StopWhenOff, Answer, StartWhenOff, RequestInInfluence,
         DependsStopped, DependsStoppedNeedStart, RequestInStarting, Started, StartedNeedStop,
         NotStarted, StartInStopping, StoppedNow, Ignore, OnlyCallback, Become, TypeOK
<1>e. <<>> \in Seq(Plain) /\ <<>> \in Seq(Message) /\ Tail(queue) \in Seq(Message)
  BY <1>0, <1>1, HeadTailProperties, EmptySeq DEF TypeOK
<1>t. Tail(queue) \o <<>> = Tail(queue)
  BY <1>e, ConcatEmptySeq
<1>c. callback \in SUBSET Service /\ WithCallback(s) \in SUBSET Service
  BY <1>0 DEF WithCallback, TypeOK
<1>u. state[s] \in State /\ state \in [Service -> State]
  BY <1>0 DEF TypeOK
<1> DEFINE Quiet == \E m \in Seq(Plain) : queue' = Tail(queue) \o m
           DependOff == state'[s] = "DEPENDS_OFF" =>
                          \/ state[s] = "DEPENDS_OFF" /\ Head(queue).event # "start"
                          \/ Head(queue).event = "service-depend-off"
<1>4. ASSUME Quiet, DependOff, state'[s] # "ON" \/ state[s] = "ON"
      PROVE  Follows(s)
  <2>1. PICK m \in Seq(Plain) : queue' = Tail(queue) \o m
    BY <1>4
  <2>2. m \in Seq(Message) /\ \A t \in Service : ~ Has(m, t, "service-depend-off")
    BY PlainHas
  <2> QED  BY <1>1, <1>2, <1>3, <1>4, <2>1, <2>2 DEF Follows
<1>5. CASE StopWhenOn(s) \/ StartedNeedStop(s)
  <2>1. Quiet
    BY <1>0, <1>5, DependentsStep DEF StopWhenOn, StartedNeedStop
  <2>2. state'[s] = "INFLUENCE"
    BY <1>5, <1>u DEF StopWhenOn, StartedNeedStop, Become
  <2> QED  BY <1>4, <2>1, <2>2
<1>6. CASE StopWhenOff(s)
  <2>1. UNCHANGED state /\ Head(queue).event = "stop"
    BY <1>6 DEF StopWhenOff, Answer, Got
  <2>2. \E result \in Result : Notify(s, result, WithCallback(s), <<>>, <<>>)
    BY <1>6 DEF StopWhenOff, Answer, Result
  <2>3. Quiet
    BY <1>0, <1>1, <1>c, <2>2, NotifyOnly
  <2> QED  BY <1>4, <2>1, <2>3
<1>7. CASE Started(s)
  <2>1. Notify(s, "started", callback, <<>>, <<>>) /\ state'[s] = "ON"
    BY <1>7, <1>u DEF Started, Become
  <2>2. PICK m \in Seq(Plain) :
          /\ queue' = Tail(queue) \o m
          /\ \A t \in Dependents(s) \cap enabled : state[t] # "ON" => Has(m, t, "start")
    BY <1>0, <1>1, <1>c, <2>1, StartedTells
  <2>3. m \in Seq(Message) /\ \A t \in Service : ~ Has(m, t, "service-depend-off")
    BY PlainHas
  <2> QED  BY <1>1, <1>2, <1>3, <2>1, <2>2, <2>3 DEF Follows
<1>8. CASE NotStarted(s) \/ StoppedNow(s)
  <2>1. \E result \in Result : Notify(s, result, callback, <<>>, <<>>)
    BY <1>8 DEF NotStarted, StoppedNow, Result
  <2>2. Quiet
    BY <1>0, <1>1, <1>c, <2>1, NotifyOnly
  <2>3. DependOff /\ state'[s] # "ON"
    BY <1>8, <1>u DEF NotStarted, StoppedNow, Become, Got
  <2> QED  BY <1>4, <2>2, <2>3
<1>9. CASE StartWhenOff(s)
  <2>1. PICK o \in StartOutcomes(s) : queue' = Tail(queue) \o Posted(s, o)
    BY <1>9 DEF StartWhenOff
  <2>2. state'[s] = "STARTING"
    BY <1>9, <1>u DEF StartWhenOff, Become
  <2>3. /\ <<>> \o Posted(s, o) \in Seq(Message)
        /\ \A t \in Service : t # s \/ BaseOn(s) => ~ Has(<<>> \o Posted(s, o), t, "service-depend-off")
    BY <1>e, PostedHas
  <2>4. <<>> \o Posted(s, o) = Posted(s, o)
    BY PostedType, ConcatEmptySeq
  <2> QED  BY <1>1, <1>2, <1>3, <2>1, <2>2, <2>3, <2>4 DEF Follows
<1>10. CASE DependsStopped(s)
  <2>1. PICK o \in StopOutcomes(s) : queue' = Tail(queue) \o Posted(s, o)
    BY <1>10 DEF DependsStopped
  <2>2. state'[s] = "STOPPING"
    BY <1>10, <1>u DEF DependsStopped, Become
  <2>3. Quiet
    BY <2>1, PostedType
  <2> QED  BY <1>4, <2>2, <2>3
<1>11. CASE DependsStoppedNeedStart(s)
  <2>1. PICK down \in StopOutcomes(s), o \in StartOutcomes(s) :
          Notify(s, "stopped", callback, Posted(s, down), Posted(s, o))
    BY <1>11 DEF DependsStoppedNeedStart
  <2>2. state'[s] = "STARTING"
    BY <1>11, <1>u DEF DependsStoppedNeedStart, Become
  <2>3. \E p \in Seq(Plain) : queue' = Tail(queue) \o p \o Posted(s, o)
    BY <1>0, <1>1, <1>c, <2>1, PostedType, NotifyStep
  <2>4. PICK p \in Seq(Plain) : queue' = Tail(queue) \o p \o Posted(s, o)
    BY <2>3
  <2>5. /\ p \o Posted(s, o) \in Seq(Message)
        /\ \A t \in Service : t # s \/ BaseOn(s) => ~ Has(p \o Posted(s, o), t, "service-depend-off")
    BY PostedHas
  <2>6. queue' = Tail(queue) \o (p \o Posted(s, o))
    <3>1. p \in Seq(Message) /\ Posted(s, o) \in Seq(Message)
      BY PlainHas, PostedType
    <3> QED  BY <1>e, <2>4, <3>1, ConcatAssociative
  <2> QED  BY <1>1, <1>2, <1>3, <2>2, <2>5, <2>6 DEF Follows
<1>12. CASE RequestInInfluence(s) \/ RequestInStarting(s) \/ StartInStopping(s) \/ Ignore(s)
  <2>1. Quiet
    BY <1>12, <1>e, <1>t DEF RequestInInfluence, RequestInStarting, StartInStopping, OnlyCallback, Ignore
  <2>2. UNCHANGED state
    BY <1>12 DEF RequestInInfluence, RequestInStarting, StartInStopping, OnlyCallback, Ignore
  <2>3. state[s] = "DEPENDS_OFF" => Head(queue).event # "start"
    BY <1>12 DEF RequestInInfluence, RequestInStarting, StartInStopping, Ignore, Handled, Stopped
  <2> QED  BY <1>4, <2>1, <2>2, <2>3
<1> QED  BY <1>5, <1>6, <1>7, <1>8, <1>9, <1>10, <1>11, <1>12 DEF Handle

(* An event posted from outside the handlers.                              *)
LEMMA PostFollowed ==
  ASSUME IInv, Followed, UNCHANGED state, NEW x \in Message, queue' = Append(queue, x),
         x.event # "service-depend-off",
         \A t \in enabled' \ enabled : x.to = t /\ x.event = "start",
         enabled' \subseteq Service
  PROVE  Followed'
<1> SUFFICES ASSUME NEW t \in enabled', BaseOn(t)'
             PROVE  /\ Behind(queue', t)
                    /\ state'[t] = "DEPENDS_OFF" => Has(queue', t, "start")
  BY DEF Followed, Behind, Has
<1>1. BaseOn(t)
  BY DEF BaseOn
<1>2. /\ Len(queue) \in Nat /\ DOMAIN queue = 1..Len(queue)
      /\ DOMAIN queue' = 1..(Len(queue) + 1)
      /\ \A i \in 1..Len(queue) : queue'[i] = queue[i]
      /\ queue'[Len(queue) + 1] = x
  BY DEF IInv, TypeOK
<1>3. \A i \in DOMAIN queue' : \/ i \in DOMAIN queue /\ queue'[i] = queue[i]
                               \/ queue'[i] = x
  BY <1>2
<1>4. DOMAIN queue \subseteq DOMAIN queue' /\ \A i \in DOMAIN queue : queue'[i] = queue[i]
  BY <1>2
<1>5. CASE t \in enabled
  <2>1. Behind(queue, t) /\ (state[t] = "DEPENDS_OFF" => Has(queue, t, "start"))
    BY <1>1, <1>5 DEF Followed
  <2>2. Behind(queue', t)
    BY <1>3, <1>4, <2>1 DEF Behind
  <2>3. Has(queue, t, "start") => Has(queue', t, "start")
    BY <1>4 DEF Has
  <2> QED  BY <2>1, <2>2, <2>3
<1>6. CASE t \notin enabled
  <2>1. x.to = t /\ x.event = "start"
    BY <1>6
  <2>2. Len(queue) + 1 \in DOMAIN queue' /\ queue'[Len(queue) + 1] = x
    BY <1>2
  <2>3. \A i \in DOMAIN queue : Len(queue) + 1 > i
    BY <1>2
  <2>4. \A i \in DOMAIN queue' : queue'[i].event = "service-depend-off" => i \in DOMAIN queue
    BY <1>3, <2>1
  <2>5. Behind(queue', t)
    BY <2>1, <2>2, <2>3, <2>4 DEF Behind
  <2> QED  BY <2>1, <2>2, <2>5 DEF Has
<1> QED  BY <1>5, <1>6

LEMMA SameFollowed ==
  ASSUME Followed, UNCHANGED <<state, queue, enabled>>
  PROVE  Followed'
BY DEF Followed, BaseOn, Behind, Has

LEMMA NextFollowed ==
  ASSUME IInv, Followed, [Next]_vars
  PROVE  Followed'
<1>0. enabled \subseteq Service
  BY DEF IInv, TypeOK
<1>p. \A s \in Service, e \in Event :
        /\ Post(s, e) \in Message /\ Post(s, e).to = s /\ Post(s, e).event = e
        /\ PostDeferred(s, e) \in Message /\ PostDeferred(s, e).event = e
  BY DEF Post, PostDeferred, Message
<1>1. CASE \E s \in Service : Handle(s)
  BY <1>1, HandleFollows, FollowsStep
<1>2. CASE \E s \in Service : StartDone(s) \/ StopDone(s)
  <2> PICK s \in Service : StartDone(s) \/ StopDone(s)
    BY <1>2
  <2>1. PICK e \in Event \ {"service-depend-off"} : queue' = Append(queue, Post(s, e))
    BY DEF StartDone, StopDone, Event
  <2>2. UNCHANGED <<state, enabled>>
    BY DEF StartDone, StopDone, driverVars
  <2> QED  BY <1>0, <1>p, <2>1, <2>2, PostFollowed
<1>3. CASE \E s \in Service, v \in BOOLEAN : EnabledDisabled(s, v)
  <2> PICK s \in Service, v \in BOOLEAN : EnabledDisabled(s, v)
    BY <1>3
  <2>1. UNCHANGED state
    BY DEF EnabledDisabled
  <2>2. CASE v = TRUE
    <3>1. enabled' = enabled \cup {s} /\ queue' = Append(queue, Post(s, "start"))
      BY <2>2 DEF EnabledDisabled
    <3>2. "start" \in Event
      BY DEF Event
    <3> QED  BY <1>0, <1>p, <2>1, <3>1, <3>2, PostFollowed
  <2>3. CASE v = FALSE
    <3>1. enabled' = enabled \ {s} /\ queue' = Append(queue, Post(s, "stop"))
      BY <2>3 DEF EnabledDisabled
    <3>2. "stop" \in Event
      BY DEF Event
    <3> QED  BY <1>0, <1>p, <2>1, <3>1, <3>2, PostFollowed
  <2> QED  BY <2>2, <2>3
<1>4. CASE \E s \in Service : Timeout(s) \/ \E v \in BOOLEAN : Restart(s, v)
  <2> PICK s \in Service : Timeout(s) \/ \E v \in BOOLEAN : Restart(s, v)
    BY <1>4
  <2>1. UNCHANGED <<state, enabled>>
    BY DEF Timeout, Restart
  <2>2. UNCHANGED queue \/ queue' = Append(queue, PostDeferred(s, "stop"))
    BY DEF Timeout, Restart, DoStop
  <2>3. "stop" \in Event
    BY DEF Event
  <2>4. CASE UNCHANGED queue
    BY <2>1, <2>4, SameFollowed
  <2>5. CASE queue' = Append(queue, PostDeferred(s, "stop"))
    BY <1>0, <1>p, <2>1, <2>3, <2>5, PostFollowed
  <2> QED  BY <2>2, <2>4, <2>5
<1>5. CASE Shutdown
  <2>1. enabled' = {}
    BY <1>5 DEF Shutdown
  <2> QED  BY <2>1 DEF Followed
<1>6. CASE UNCHANGED vars
  BY <1>6, SameFollowed DEF vars, driverVars
<1> QED  BY <1>1, <1>2, <1>3, <1>4, <1>5, <1>6 DEF Next, Environment

LEMMA InitFollowed == Init => Followed
<1> SUFFICES ASSUME Init PROVE Followed
  OBVIOUS
<1>1. PICK order \in Orders(enabled) : queue = [i \in DOMAIN order |-> PostDeferred(order[i], "start")]
  BY DEF Init
<1>2. \A i \in DOMAIN queue : queue[i].event = "start"
  BY <1>1 DEF PostDeferred
<1>3. enabled \subseteq Service /\ \A s \in Service : state[s] = "OFF"
  BY DEF Init
<1> QED  BY <1>2, <1>3 DEF Followed, Behind

(* An enabled service whose dependencies are all ON is not left in         *)
(* DEPENDS_OFF without a 'start' on its way: for any services, although    *)
(* its outcome was computed when one of them was still off.                *)
THEOREM NobodyLeftBehind == Spec => []NotLeftBehind
BY InitFollowed, NextFollowed, FollowedNotLeft, Invariant, PTL DEF Spec
=============================================================================
