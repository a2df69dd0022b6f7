-------------------------- MODULE UdpStream_proofs --------------------------
(***************************************************************************)
(* The types and the verdicts of UdpStream, for files of any size, buffers *)
(* and groups of any length, and any number of faults and troubles.        *)
(***************************************************************************)
EXTENDS UdpStream, FiniteSetTheorems, SequenceTheorems, NaturalsInduction, WellFoundedInduction, TLAPS

Ended == {"finished", "failed"}
Registration == {"asked", "late"} \cup Answer
Going(f) == f.state \notin {"COMPLETION", "CLOSED"}

OutRecord ==
  [state : {"DOWNTIME", "SENDING", "PAUSE", "COMPLETION", "CLOSED"}, pushed : 0..Size,
   blocks : SUBSET Block, fresh : SUBSET Block, delivered : Int, status : Ended \cup {"none"},
   cancelled : BOOLEAN, reg : Registration, due : SUBSET {"close", "resume", "timeout"}]

InRecord ==
  [state : {"NONE", "DOWNTIME", "RECEIVING", "COMPLETION", "CLOSED"}, blocks : SUBSET Block, toAck : SUBSET Block,
   file : Seq(Block), acked : BOOLEAN, eof : BOOLEAN, status : Ended \cup {"none"},
   reg : Registration, due : SUBSET {"close"}]

(* The buffer of the sender: what was read and is not acknowledged.        *)
OutOK(o) ==
  /\ o \in OutRecord
  /\ o.blocks \subseteq 1..o.pushed /\ o.fresh \subseteq 1..o.pushed
  /\ Cardinality(o.blocks) <= Buffer
  /\ Going(o) => o.delivered = o.pushed - Cardinality(o.blocks)

(* The file of the receiver: the blocks that were written are the first.   *)
InOK(i) ==
  /\ i \in InRecord
  /\ Len(i.file) <= Size /\ i.file = [n \in 1..Len(i.file) |-> n]
  /\ i.eof = (Len(i.file) = Size)
  /\ i.state = "NONE" => i = NoIn

(* What the gateway of a side was told, when ss are the sessions that are  *)
(* CONNECTED.                                                              *)
Tales(f, told, side, ss) ==
  /\ told \in Seq(Ended)
  /\ "close" \in f.due => f.status # "none"
  /\ "close" \in f.due \/ f.state = "CLOSED" => (f.reg = "yes" => told # <<>>) /\ (side \in ss => f.reg \in Answer)
  /\ f.reg = "asked" => told = <<>>
  /\ f.reg = "late" => f.state = "CLOSED"
  /\ Going(f) /\ side \in ss => told = <<>> /\ (f.reg = "asked" => f.status = "none")
  /\ Len(told) > 1 => told[2] = "failed"
  /\ side \in ss => Len(told) <= 1

Whole(i) == i.file = [k \in Block |-> k]

(* The blocks that the receiver has acknowledged, as far as the sender has *)
(* learnt it or may still learn it.                                        *)
Learnt(o) == IF Going(o) THEN (1..o.pushed) \ o.blocks ELSE {}
UnderWay(ds) == UNION {d.acks : d \in {e \in ds : e.kind = "ack"}}
Acked(o, ds) == UnderWay(ds) \cup Learnt(o)

(* What is acknowledged is written or waits for a block that is missing;   *)
(* if the receiver gave up, some block was never acknowledged.             *)
Kept(i, acks) ==
  \/ Whole(i)
  \/ /\ Going(i)
     /\ acks \cup i.toAck \subseteq 1..Len(i.file) \cup i.blocks
     /\ Len(i.file) + 1 \notin i.blocks
  \/ ~ Going(i) /\ \E k \in Block : k \notin acks

Faithful(o, i, ds) ==
  /\ "finished" \in {o.status, i.status} => Whole(i)
  /\ Kept(i, Acked(o, ds))

IInv ==
  /\ OutOK(out) /\ InOK(in) /\ net \subseteq Datagram
  /\ sessions \subseteq {"out", "in"}
  /\ Tales(out, outTold, "out", sessions)
  /\ Tales(in, inTold, "in", sessions)
  /\ ~ renewed => Faithful(out, in, net)

-----------------------------------------------------------------------------
(* Sets of numbers and sequences.                                          *)

(* The greatest of some numbers that have a bound.                         *)
LEMMA Greatest ==
  ASSUME NEW n \in Nat, NEW S \in SUBSET 0..n, S # {}
  PROVE  Max(S) \in S /\ \A y \in S : y <= Max(S)
<1> DEFINE T == {m \in 0..n : n - m \in S}
           Less == OpToRel(<, Nat)
<1>1. T \in SUBSET Nat /\ T # {}
  <2>1. PICK y \in S : TRUE
    OBVIOUS
  <2>2. n - y \in 0..n /\ n - (n - y) = y
    BY <2>1
  <2>3. n - y \in T
    BY <2>1, <2>2
  <2>4. T \in SUBSET Nat
    OBVIOUS
  <2> QED  BY <2>3, <2>4
<1>2. \E i \in T : \A j \in T : ~ (<<j, i>> \in Less)
  BY <1>1, NatLessThanWellFounded, WFMin
<1>3. \A i, j \in Nat : j < i => <<j, i>> \in Less
  BY Zenon DEF OpToRel
<1>4. PICK R : /\ \E i \in T : \A j \in T : ~ (<<j, i>> \in R)
              /\ \A i, j \in Nat : j < i => <<j, i>> \in R
  BY <1>2, <1>3, Zenon
<1>5. PICK i \in T : \A j \in T : ~ (<<j, i>> \in R)
  BY <1>4, Zenon
<1>6. \A j \in T : ~ (j < i)
  BY <1>1, <1>4, <1>5, Zenon
<1>7. \A y \in S : n - y \in T
  OBVIOUS
<1>8. n - i \in S /\ \A y \in S : y <= n - i
  BY <1>5, <1>6, <1>7
<1> QED  BY <1>8 DEF Max

LEMMA Intervals ==
  ASSUME NEW n \in Nat, NEW S \in SUBSET 1..n
  PROVE  IsFiniteSet(S) /\ Cardinality(S) \in 0..n
<1>1. IsFiniteSet(1..n) /\ Cardinality(1..n) = n
  BY FS_Interval
<1>2. IsFiniteSet(S) /\ Cardinality(S) <= n
  BY <1>1, FS_Subset
<1> QED  BY <1>2, FS_CardinalityType

LEMMA Told ==
  ASSUME NEW told \in Seq(Ended), NEW s \in Ended
  PROVE  /\ Append(told, s) \in Seq(Ended) /\ Append(told, s) # <<>>
         /\ Len(Append(told, s)) = Len(told) + 1
         /\ told = <<>> => Len(Append(told, s)) = 1
         /\ Len(told) > 1 => Append(told, s)[2] = told[2]
         /\ Len(told) = 1 => Append(told, s)[2] = s
         /\ Len(told) \in Nat /\ (Len(told) = 0 <=> told = <<>>)
<1>1. Len(told) \in Nat /\ (Len(told) = 0 <=> told = <<>>)
  BY EmptySeq, LenProperties
<1>2. /\ Append(told, s) \in Seq(Ended) /\ Append(told, s) # <<>>
      /\ Len(Append(told, s)) = Len(told) + 1
      /\ \A i \in 1..Len(told) : Append(told, s)[i] = told[i]
      /\ Append(told, s)[Len(told) + 1] = s
  BY AppendProperties
<1> DEFINE t == Append(told, s)
<1>3. Len(told) > 1 => 2 \in 1..Len(told)
  BY <1>1
<1>4. Len(told) = 1 => Len(told) + 1 = 2
  OBVIOUS
<1>5. Len(told) > 1 => t[2] = told[2]
  BY <1>2, <1>3
<1>6. Len(told) = 1 => t[2] = s
  BY <1>2, <1>4
<1>7. told = <<>> => Len(t) = 1
  BY <1>1, <1>2
<1> QED  BY <1>1, <1>2, <1>5, <1>6, <1>7, Zenon

-----------------------------------------------------------------------------
(* What the gateway is told, one lemma for each thing that befalls a file. *)

Side == OutRecord \cup InRecord

(* Something else about the stream changes.                                *)
LEMMA TalesMoved ==
  ASSUME NEW f, NEW g, NEW told, NEW side, NEW ss, Tales(f, told, side, ss),
         g.status = f.status, g.reg = f.reg, "close" \in g.due <=> "close" \in f.due,
         g.state = f.state \/ (Going(f) /\ Going(g))
  PROVE  Tales(g, told, side, ss)
  BY DEF Tales, Going

LEMMA TalesJudged ==
  ASSUME NEW f \in Side, NEW told, NEW side, NEW ss, Tales(f, told, side, ss),
         NEW s \in Ended, Going(f), s = "finished" => side \in ss
  PROVE  Tales(Judged(f, s), Tell(f, told, s), side, ss)
<1> DEFINE g == Judged(f, s)
<1>1. /\ g.state = "COMPLETION" /\ g.status = s /\ g.reg = f.reg
      /\ g.due = IF f.reg = "asked" THEN f.due ELSE f.due \cup {"close"}
  BY DEF Judged, Side, OutRecord, InRecord
<1>2. f.reg \in {"asked"} \cup Answer /\ f.state # "CLOSED" /\ ~ Going(g)
  BY <1>1 DEF Tales, Going, Side, OutRecord, InRecord, Registration
<1> HIDE DEF g
<1>3. s # "none"
  BY DEF Ended
<1>4. told \in Seq(Ended)
  BY DEF Tales
<1>5. CASE f.reg = "yes"
  <2>1. Tell(f, told, s) = Append(told, s)
    BY <1>5 DEF Tell
  <2>2. told # <<>> => s = "failed" /\ side \notin ss
    BY DEF Tales, Ended
  <2> DEFINE t == Append(told, s)
  <2>3. /\ t \in Seq(Ended) /\ t # <<>> /\ Len(t) = Len(told) + 1 /\ Len(told) \in Nat
        /\ Len(told) = 0 <=> told = <<>>
        /\ Len(told) > 1 => t[2] = told[2]
        /\ Len(told) = 1 => t[2] = s
    BY <1>4, Told, Zenon
  <2> HIDE DEF t
  <2>4. /\ Len(t) > 1 => t[2] = "failed"
        /\ side \in ss => Len(t) <= 1
    <3>1. Len(told) > 1 => told[2] = "failed"
      BY DEF Tales
    <3>2. CASE told = <<>>
      BY <2>3, <3>2
    <3>3. CASE told # <<>>
      <4>1. s = "failed" /\ side \notin ss
        BY <2>2, <3>3, Zenon
      <4>2. Len(told) = 1 \/ Len(told) > 1
        <5>1. Len(told) # 0
          BY <2>3, <3>3, Zenon
        <5>2. Len(told) \in Nat
          BY <2>3, Zenon
        <5>3. \A l \in Nat : l # 0 => l = 1 \/ l > 1
          OBVIOUS
        <5> QED  BY <5>1, <5>2, <5>3, Zenon
      <4>3. t[2] = "failed"
        BY <2>3, <3>1, <4>1, <4>2
      <4> QED  BY <4>1, <4>3, Zenon
    <3> QED  BY <3>2, <3>3
  <2>5. Tales(g, t, side, ss)
    BY <1>1, <1>2, <1>3, <1>5, <2>3, <2>4 DEF Tales
  <2> QED  BY <2>1, <2>5 DEF g, t
<1>6. CASE f.reg # "yes"
  <2>1. Tell(f, told, s) = told
    BY <1>6 DEF Tell
  <2>2. Tales(g, told, side, ss)
    BY <1>1, <1>2, <1>3, <1>6 DEF Tales
  <2> QED  BY <2>1, <2>2 DEF g
<1> QED  BY <1>2, <1>5, <1>6 DEF g

LEMMA TalesAbandoned ==
  ASSUME NEW f \in Side, NEW told, NEW side, NEW ss, Tales(f, told, side, ss),
         NEW tt, side \notin tt
  PROVE  Tales(Abandoned(f), IF f.state \in {"NONE", "CLOSED"} THEN told ELSE Tell(f, told, "failed"), side, tt)
<1> DEFINE g == Abandoned(f)
<1>1. CASE f.state \in {"NONE", "CLOSED"}
  BY <1>1 DEF Tales, Abandoned
<1>2. CASE f.state \notin {"NONE", "CLOSED"}
  <2>1. /\ g.state = f.state /\ g.status = "failed" /\ g.reg = f.reg
        /\ g.due = f.due \cup {"close"}
    BY <1>2 DEF Abandoned, Side, OutRecord, InRecord
  <2> HIDE DEF g
  <2>2. told \in Seq(Ended) /\ "failed" \in Ended
    BY DEF Tales, Ended
  <2>3. CASE f.reg = "yes"
    <3>1. Tell(f, told, "failed") = Append(told, "failed")
      BY <2>3 DEF Tell
    <3>2. Tales(g, Append(told, "failed"), side, tt)
      BY <1>2, <2>1, <2>2, <2>3, Told DEF Tales
    <3> QED  BY <1>2, <3>1, <3>2 DEF g
  <2>4. CASE f.reg # "yes"
    <3>1. Tell(f, told, "failed") = told
      BY <2>4 DEF Tell
    <3>2. Tales(g, told, side, tt)
      BY <1>2, <2>1, <2>2, <2>4 DEF Tales
    <3> QED  BY <1>2, <3>1, <3>2 DEF g
  <2> QED  BY <2>3, <2>4
<1> QED  BY <1>1, <1>2

LEMMA Answers == Answer = {"yes", "none"} /\ \A a \in Answer : a \notin {"asked", "late"}
  BY DEF Answer

LEMMA TalesAnswered ==
  ASSUME NEW f \in Side, NEW told, NEW side, NEW ss, Tales(f, told, side, ss),
         f.reg = "asked", f.state # "CLOSED", NEW answer \in Answer
  PROVE  LET g == Answered(f, answer) IN
         Tales(g, IF g.status = "none" THEN told ELSE Tell(g, told, g.status), side, ss)
<1> DEFINE g == Answered(f, answer)
<1>1. /\ g.state = f.state /\ g.status = f.status /\ g.reg = answer
      /\ g.due = IF f.status = "none" THEN f.due ELSE f.due \cup {"close"}
      /\ f.status \in Ended \cup {"none"}
  BY DEF Answered, Side, OutRecord, InRecord
<1> HIDE DEF g
<1>2. told \in Seq(Ended) /\ told = <<>>
  BY DEF Tales
<1>3. CASE f.status = "none"
  BY <1>1, <1>2, <1>3, Answers DEF Tales, Going, g
<1>4. CASE f.status # "none" /\ answer # "yes"
  <2>1. Tell(g, told, g.status) = told
    BY <1>1, <1>4 DEF Tell
  <2>2. Tales(g, told, side, ss)
    BY <1>1, <1>2, <1>4, Answers DEF Tales, Going
  <2> QED  BY <1>1, <1>4, <2>1, <2>2 DEF g
<1>5. CASE f.status # "none" /\ answer = "yes"
  <2>1. Tell(g, told, g.status) = Append(told, f.status) /\ f.status \in Ended
    BY <1>1, <1>5 DEF Tell
  <2>2. Tales(g, Append(told, f.status), side, ss)
    BY <1>1, <1>2, <1>5, <2>1, Told, Answers DEF Tales, Going
  <2> QED  BY <1>1, <1>5, <2>1, <2>2 DEF g
<1> QED  BY <1>3, <1>4, <1>5

LEMMA TalesClosed ==
  ASSUME NEW f, NEW g, NEW told, NEW side, NEW ss, Tales(f, told, side, ss),
         "close" \in f.due, g.state = "CLOSED", g.status = f.status, g.reg = f.reg, "close" \notin g.due
  PROVE  Tales(g, told, side, ss)
  BY DEF Tales, Going

LEMMA TalesLate ==
  ASSUME NEW f, NEW g, NEW told, NEW side, NEW ss, Tales(f, told, side, ss),
         f.state = "CLOSED", f.reg = "asked", g.state = "CLOSED", g.reg = "late",
         g.status = f.status, g.due = f.due
  PROVE  Tales(g, told, side, ss)
  BY Answers DEF Tales, Going

LEMMA TalesCancelled ==
  ASSUME NEW f, NEW g, NEW told, NEW side, NEW ss, Tales(f, told, side, ss),
         f.reg = "yes", g.state = f.state, g.reg = f.reg, g.status = "failed", g.due = f.due
  PROVE  Tales(g, told, side, ss)
  BY DEF Tales, Going

(* The other session closes or opens.                                      *)
LEMMA TalesElsewhere ==
  ASSUME NEW f, NEW told, NEW side, NEW ss, Tales(f, told, side, ss),
         NEW tt, side \in tt <=> side \in ss
  PROVE  Tales(f, told, side, tt)
  BY DEF Tales

-----------------------------------------------------------------------------
(* The buffer of the sender.                                               *)

LEMMA OutFinite ==
  ASSUME NEW o, OutOK(o)
  PROVE  /\ IsFiniteSet(o.blocks) /\ Cardinality(o.blocks) \in Nat
         /\ o.pushed \in 0..Size /\ o.delivered \in Int
<1>1. o.pushed \in Nat /\ o.blocks \in SUBSET 1..o.pushed
  BY SizeAssumption DEF OutOK, OutRecord
<1>2. IsFiniteSet(o.blocks) /\ Cardinality(o.blocks) \in Nat
  BY <1>1, Intervals
<1> QED  BY <1>2 DEF OutOK, OutRecord

LEMMA OutJudged ==
  ASSUME NEW o, OutOK(o), NEW s \in Ended
  PROVE  /\ OutOK(Judged(o, s)) /\ ~ Going(Judged(o, s))
         /\ Judged(o, s).status = s
<1> DEFINE g == Judged(o, s)
<1>1. /\ g \in OutRecord /\ g.state = "COMPLETION" /\ g.status = s
      /\ g.blocks = {} /\ g.fresh = o.fresh /\ g.pushed = o.pushed
  BY DEF Judged, OutOK, OutRecord
<1> HIDE DEF g
<1>2. Cardinality(g.blocks) = 0
  BY <1>1, FS_EmptySet
<1>3. OutOK(g) /\ ~ Going(g)
  BY <1>1, <1>2, SizeAssumption DEF OutOK, Going
<1> QED  BY <1>1, <1>3 DEF g

(* What fits into the buffer is added to it, and nothing is acknowledged.  *)
LEMMA OutPushed ==
  ASSUME NEW o, OutOK(o), Going(o)
  PROVE  LET p == Pushed(o) IN
         /\ OutOK(p)
         /\ (1..p.pushed) \ p.blocks = (1..o.pushed) \ o.blocks
         /\ p.state = o.state /\ p.status = o.status /\ p.reg = o.reg /\ p.due = o.due
         /\ p.cancelled = o.cancelled /\ p.delivered = o.delivered
<1> DEFINE fits == {q \in o.pushed..Size : /\ q = Size \/ (q - o.pushed) % PerAck = 0
                                           /\ q - o.pushed + Cardinality(o.blocks) <= Buffer}
           last == IF fits = {} THEN o.pushed ELSE Max(fits)
           more == (o.pushed + 1)..last
           p == Pushed(o)
<1>1. /\ IsFiniteSet(o.blocks) /\ Cardinality(o.blocks) \in Nat
      /\ o.pushed \in 0..Size /\ o.delivered \in Int
  BY OutFinite
<1>2. last \in o.pushed..Size /\ last - o.pushed + Cardinality(o.blocks) <= Buffer
  <2>1. CASE fits = {}
    BY <1>1, <2>1, SizeAssumption DEF OutOK
  <2>2. CASE fits # {}
    <3>1. fits \in SUBSET 0..Size /\ Size \in Nat
      BY <1>1, SizeAssumption
    <3>2. Max(fits) \in fits
      BY <2>2, <3>1, Greatest
    <3>3. last \in fits
      BY <2>2, <3>2
    <3> QED  BY <3>3
  <2> QED  BY <2>1, <2>2
<1>3. p = [o EXCEPT !.pushed = last, !.blocks = @ \cup more, !.fresh = @ \cup more]
  BY DEF Pushed
<1> HIDE DEF last, p
<1>4. /\ p.pushed = last /\ p.blocks = o.blocks \cup more /\ p.fresh = o.fresh \cup more
      /\ p.state = o.state /\ p.status = o.status /\ p.reg = o.reg /\ p.due = o.due
      /\ p.cancelled = o.cancelled /\ p.delivered = o.delivered
  BY <1>3 DEF OutOK, OutRecord
<1>5. more \in SUBSET Block /\ last \in 0..Size
  BY <1>1, <1>2, SizeAssumption DEF Block
<1>6. p \in OutRecord
  BY <1>3, <1>5 DEF OutOK, OutRecord
<1>7. p.blocks \subseteq 1..p.pushed /\ p.fresh \subseteq 1..p.pushed
  <2>1. more \subseteq 1..last /\ 1..o.pushed \subseteq 1..last
    BY <1>1, <1>2, SizeAssumption
  <2> QED  BY <1>4, <2>1 DEF OutOK
<1>8. Cardinality(p.blocks) = Cardinality(o.blocks) + (last - o.pushed)
  <2>1. IsFiniteSet(more) /\ Cardinality(more) = last - o.pushed
    <3>1. o.pushed + 1 \in Int /\ last \in Int
      BY <1>1, <1>2, SizeAssumption
    <3>2. IsFiniteSet(more) /\ Cardinality(more) = IF o.pushed + 1 > last THEN 0 ELSE last - (o.pushed + 1) + 1
      BY <3>1, FS_Interval
    <3> QED  BY <1>1, <1>2, <3>2, SizeAssumption
  <2>2. o.blocks \cap more = {}
    BY <1>1, <1>2, SizeAssumption DEF OutOK
  <2>3. Cardinality(o.blocks \cup more) = Cardinality(o.blocks) + Cardinality(more) - Cardinality(o.blocks \cap more)
    BY <1>1, <2>1, FS_Union
  <2>4. Cardinality(o.blocks \cap more) = 0
    BY <2>2, FS_EmptySet
  <2> HIDE DEF more
  <2> QED  BY <1>1, <1>2, <1>4, <2>1, <2>3, <2>4, SizeAssumption
<1>9. OutOK(p)
  <2>1. p.delivered = p.pushed - Cardinality(p.blocks)
    BY <1>1, <1>2, <1>4, <1>8, SizeAssumption DEF OutOK
  <2>2. Cardinality(p.blocks) <= Buffer
    BY <1>1, <1>2, <1>8, SizeAssumption
  <2> QED  BY <1>6, <1>7, <2>1, <2>2 DEF OutOK
<1>10. (1..p.pushed) \ p.blocks = (1..o.pushed) \ o.blocks
  <2>1. ASSUME NEW k
        PROVE  k \in (1..last) \ (o.blocks \cup more) <=> k \in (1..o.pushed) \ o.blocks
    BY <1>1, <1>2, SizeAssumption
  <2> QED  BY <1>4, <2>1
<1> QED  BY <1>4, <1>9, <1>10 DEF p

AckedOf(o, acks) ==
  [o EXCEPT !.blocks = @ \ acks, !.fresh = @ \ acks, !.delivered = @ + Cardinality(acks)]

LEMMA OutAcked ==
  ASSUME NEW o, OutOK(o), Going(o), NEW acks \in SUBSET o.blocks
  PROVE  LET p == AckedOf(o, acks) IN
         /\ OutOK(p)
         /\ (1..p.pushed) \ p.blocks = ((1..o.pushed) \ o.blocks) \cup acks
         /\ p.state = o.state /\ p.status = o.status /\ p.reg = o.reg /\ p.due = o.due
         /\ p.cancelled = o.cancelled
<1> DEFINE p == AckedOf(o, acks)
<1>1. /\ IsFiniteSet(o.blocks) /\ Cardinality(o.blocks) \in Nat
      /\ o.pushed \in 0..Size /\ o.delivered \in Int
  BY OutFinite
<1>2. /\ Cardinality(acks) \in Nat /\ Cardinality(acks) <= Cardinality(o.blocks)
      /\ Cardinality(o.blocks \ acks) = Cardinality(o.blocks) - Cardinality(acks)
  <2>1. IsFiniteSet(acks) /\ Cardinality(acks) <= Cardinality(o.blocks)
    BY <1>1, FS_Subset
  <2>2. Cardinality(acks) \in Nat
    BY <2>1, FS_CardinalityType
  <2>3. o.blocks \cap acks = acks
    OBVIOUS
  <2>4. Cardinality(o.blocks \ acks) = Cardinality(o.blocks) - Cardinality(o.blocks \cap acks)
    BY <1>1, FS_Difference
  <2> QED  BY <2>1, <2>2, <2>3, <2>4
<1>3. /\ p.pushed = o.pushed /\ p.blocks = o.blocks \ acks /\ p.fresh = o.fresh \ acks
      /\ p.delivered = o.delivered + Cardinality(acks)
      /\ p.state = o.state /\ p.status = o.status /\ p.reg = o.reg /\ p.due = o.due
      /\ p.cancelled = o.cancelled
  BY DEF AckedOf, OutOK, OutRecord
<1>4. p \in OutRecord
  <2>1. o \in OutRecord
    BY DEF OutOK
  <2>2. o.delivered + Cardinality(acks) \in Int
    BY <1>1, <1>2
  <2>3. o.blocks \ acks \in SUBSET Block /\ o.fresh \ acks \in SUBSET Block
    BY <2>1 DEF OutRecord
  <2>4. p = [[[o EXCEPT !.blocks = o.blocks \ acks] EXCEPT !.fresh = o.fresh \ acks]
               EXCEPT !.delivered = o.delivered + Cardinality(acks)]
    BY <2>1 DEF AckedOf, OutRecord
  <2> QED  BY <2>1, <2>2, <2>3, <2>4 DEF OutRecord
<1> HIDE DEF p
<1>5. p.delivered = p.pushed - Cardinality(p.blocks) /\ Cardinality(p.blocks) <= Buffer
  BY <1>1, <1>2, <1>3, SizeAssumption DEF OutOK
<1>6. p.blocks \subseteq 1..p.pushed /\ p.fresh \subseteq 1..p.pushed
  BY <1>3 DEF OutOK
<1>7. OutOK(p)
  BY <1>4, <1>5, <1>6 DEF OutOK
<1>8. acks \subseteq 1..o.pushed
  BY DEF OutOK
<1>9. (1..p.pushed) \ p.blocks = ((1..o.pushed) \ o.blocks) \cup acks
  BY <1>3, <1>8
<1> QED  BY <1>3, <1>7, <1>9 DEF p

(* Every block of a file that is done was acknowledged.                    *)
LEMMA OutDone ==
  ASSUME NEW o, OutOK(o), Going(o), IsDone(o)
  PROVE  (1..o.pushed) \ o.blocks = Block
<1>1. IsFiniteSet(o.blocks) /\ Cardinality(o.blocks) \in Nat
  BY OutFinite
<1>2. Cardinality(o.blocks) = 0
  BY <1>1, SizeAssumption DEF IsDone, OutOK
<1>3. o.blocks = {}
  BY <1>1, <1>2, FS_EmptySet
<1> QED  BY <1>3 DEF IsDone, Block

LEMMA GroupsAreBlocks ==
  ASSUME NEW o, OutOK(o), NEW g \in Groups(o)
  PROVE  g \in SUBSET Block
<1>1. o.blocks \subseteq Block /\ o.fresh \subseteq Block
  BY DEF OutOK, OutRecord
<1> QED  BY <1>1 DEF Groups

-----------------------------------------------------------------------------
(* The file of the receiver.                                               *)

LEMMA FileLength ==
  ASSUME NEW i, InOK(i)
  PROVE  /\ Len(i.file) \in 0..Size /\ (Whole(i) <=> Len(i.file) = Size)
         /\ i.eof <=> Whole(i)
<1>1. i.file \in Seq(Block)
  BY DEF InOK, InRecord
<1>2. Len(i.file) \in Nat /\ DOMAIN i.file = 1..Len(i.file)
  BY <1>1, LenProperties
<1>3. Len(i.file) \in 0..Size
  BY <1>2, SizeAssumption DEF InOK
<1>4. Whole(i) => Len(i.file) = Size
  <2>1. SUFFICES ASSUME Whole(i) PROVE Len(i.file) = Size
    OBVIOUS
  <2>2. DOMAIN i.file = 1..Size
    BY <2>1 DEF Whole, Block
  <2>3. 1..Len(i.file) = 1..Size
    BY <1>2, <2>2
  <2> QED  BY <1>3, <2>3, SizeAssumption
<1>5. Len(i.file) = Size => Whole(i)
  BY DEF InOK, Whole, Block
<1>6. i.eof = (Len(i.file) = Size) /\ i.eof \in BOOLEAN
  BY DEF InOK, InRecord
<1> QED  BY <1>3, <1>4, <1>5, <1>6

LEMMA Prefix ==
  ASSUME NEW c \in 0..Size
  PROVE  [n \in 1..c |-> n] \in Seq(Block) /\ Len([n \in 1..c |-> n]) = c
<1>1. c \in Nat /\ \A n \in 1..c : n \in Block
  BY SizeAssumption DEF Block
<1>2. \A n \in 1..c : [m \in 1..c |-> m][n] \in Block
  BY <1>1
<1>3. [n \in 1..c |-> n] \in [1..c -> Block]
  BY <1>1
<1>4. [n \in 1..c |-> n] \in Seq(Block)
  BY <1>1, <1>3, SeqDef
<1>5. DOMAIN [n \in 1..c |-> n] = 1..c
  OBVIOUS
<1>6. 1..Len([n \in 1..c |-> n]) = 1..c /\ Len([n \in 1..c |-> n]) \in Nat
  BY <1>4, <1>5, LenProperties
<1> QED  BY <1>1, <1>4, <1>6

(* A block that comes is kept: what was written stays, and what waits does *)
(* so because the next block is missing.                                   *)
LEMMA InReceived ==
  ASSUME NEW i, InOK(i), i.state # "NONE", NEW k \in Block
  PROVE  LET r == Received(i, k) IN
         /\ InOK(r)
         /\ r.state = i.state /\ r.status = i.status /\ r.reg = i.reg /\ r.due = i.due
         /\ r.acked = i.acked
         /\ Whole(i) => Whole(r)
         /\ \A acks : Kept(i, acks) => Kept(r, acks)
<1> DEFINE current == Len(i.file)
           stored == IF k < current THEN i.blocks ELSE i.blocks \cup {k}
           next == {n \in k..Size : k..n \subseteq stored}
           c == IF k # current + 1 THEN current ELSE Max(next)
           r == Received(i, k)
<1>1. i \in InRecord /\ current \in 0..Size /\ (Whole(i) <=> current = Size)
  BY FileLength DEF InOK
<1>2. k \in Int /\ 1 <= k /\ k <= Size /\ Size \in Nat
  BY SizeAssumption DEF Block
<1>3. stored \in SUBSET Block
  BY <1>1 DEF InRecord
<1>4. k = current + 1 => c \in next /\ \A n \in next : n <= c
  <2>1. SUFFICES ASSUME k = current + 1 PROVE Max(next) \in next /\ \A n \in next : n <= Max(next)
    OBVIOUS
  <2>2. k \in next
    <3>1. k \in stored /\ k..k = {k}
      BY <1>1, <1>2, <2>1
    <3> QED  BY <1>2, <3>1
  <2>3. next \in SUBSET 0..Size /\ next # {}
    <3>1. next \subseteq k..Size /\ next # {}
      BY <2>2
    <3>2. k..Size \subseteq 0..Size
      BY <1>2
    <3> QED  BY <3>1, <3>2
  <2> HIDE DEF next
  <2> QED  BY <1>2, <2>3, Greatest
<1>5. c \in current..Size
  BY <1>1, <1>2, <1>4
<1>6. c + 1 \in stored => k # current + 1 /\ c = current
  <2>1. SUFFICES ASSUME c + 1 \in stored, k = current + 1 PROVE FALSE
    OBVIOUS
  <2>2. c \in next /\ \A n \in next : n <= c
    BY <1>4, <2>1
  <2>3. k..c \subseteq stored /\ c \in Int /\ k <= c
    <3>1. next \subseteq k..Size /\ \A n \in next : k..n \subseteq stored
      OBVIOUS
    <3> HIDE DEF next, c, stored
    <3> QED  BY <1>2, <2>2, <3>1
  <2> HIDE DEF next, c, stored
  <2>4. c + 1 \in k..Size
    BY <1>2, <1>3, <2>1, <2>3 DEF Block
  <2>5. ASSUME NEW n \in k..(c + 1)
        PROVE  n \in stored
    <3>1. n \in k..c \/ n = c + 1
      BY <1>2, <2>3
    <3> QED  BY <2>1, <2>3, <3>1
  <2>6. c + 1 \in next
    BY <2>4, <2>5 DEF next
  <2>7. c + 1 <= c
    BY <2>2, <2>6
  <2> QED  BY <2>3, <2>7
<1> DEFINE file == [n \in 1..c |-> n]
           rest == stored \ (current + 1)..c
           whole == i.eof \/ c = Size
<1>7. r = [i EXCEPT !.toAck = i.toAck \cup {k}, !.file = file, !.blocks = rest, !.eof = whole]
  BY <1>1 DEF Received, InRecord
<1> HIDE DEF c, r, stored, next
<1>8. file \in Seq(Block) /\ Len(file) = c
  <2>1. c \in 0..Size
    BY <1>1, <1>5, SizeAssumption
  <2> QED  BY <2>1, Prefix
<1>9. rest \in SUBSET Block /\ whole \in BOOLEAN /\ i.toAck \cup {k} \in SUBSET Block
  BY <1>1, <1>3 DEF InRecord
<1> HIDE DEF file, rest, whole
<1>10. /\ r.toAck = i.toAck \cup {k} /\ r.file = file /\ r.blocks = rest /\ r.eof = whole
       /\ r.state = i.state /\ r.status = i.status /\ r.reg = i.reg /\ r.due = i.due
       /\ r.acked = i.acked /\ r \in InRecord
  BY <1>1, <1>7, <1>8, <1>9 DEF InRecord
<1>11. whole = (c = Size)
  <2>1. i.eof = (current = Size)
    BY DEF InOK
  <2>2. current = Size => c = Size
    BY <1>1, <1>2, <1>5
  <2> HIDE DEF current
  <2> QED  BY <2>1, <2>2 DEF whole
<1>12. InOK(r)
  BY <1>2, <1>5, <1>1, <1>8, <1>10, <1>11 DEF InOK, file
<1>13. Whole(i) => Whole(r)
  <2>1. Whole(r) <=> Len(r.file) = Size
    BY <1>12, FileLength
  <2> QED  BY <1>1, <1>5, <1>8, <1>10, <2>1
<1>14. ASSUME NEW acks, Kept(i, acks)
       PROVE  Kept(r, acks)
  <2>1. CASE Whole(i)
    BY <1>13, <2>1 DEF Kept
  <2>2. CASE ~ Going(i) /\ \E b \in Block : b \notin acks
    BY <1>10, <2>2 DEF Kept, Going
  <2>3. CASE /\ Going(i)
             /\ acks \cup i.toAck \subseteq 1..Len(i.file) \cup i.blocks
             /\ Len(i.file) + 1 \notin i.blocks
    <3>1. c + 1 \notin rest
      <4>1. SUFFICES ASSUME c + 1 \in stored PROVE FALSE
        BY DEF rest
      <4>2. k # current + 1 /\ c = current
        BY <1>6, <4>1
      <4> QED  BY <2>3, <4>1, <4>2 DEF stored
    <3>2. 1..current \cup stored \subseteq 1..c \cup rest
      BY <1>1, <1>5, SizeAssumption DEF rest
    <3>3. acks \cup i.toAck \subseteq 1..c \cup rest
      BY <2>3, <3>2 DEF stored
    <3>4. k \in 1..current \cup stored
      BY <1>1, <1>2 DEF stored
    <3>5. k \in 1..c \cup rest
      BY <3>2, <3>4
    <3> QED  BY <1>8, <1>10, <2>3, <3>1, <3>3, <3>5 DEF Kept, Going
  <2> QED  BY <1>14, <2>1, <2>2, <2>3 DEF Kept
<1> QED  BY <1>10, <1>12, <1>13, <1>14 DEF r

-----------------------------------------------------------------------------
(* What is acknowledged and what is kept.                                  *)

(* Nothing is acknowledged that was not.                                   *)
LEMMA AckedOnly ==
  ASSUME NEW p, NEW es, NEW known,
         \A d \in es : d.kind = "ack" => d.acks \subseteq known,
         Going(p) => (1..p.pushed) \ p.blocks \subseteq known
  PROVE  Acked(p, es) \subseteq known
<1>1. UnderWay(es) \subseteq known
  <2>1. ASSUME NEW a \in UnderWay(es)
        PROVE  a \in known
    <3>1. PICK d \in es : d.kind = "ack" /\ a \in d.acks
      BY <2>1 DEF UnderWay
    <3> QED  BY <3>1
  <2> QED  BY <2>1
<1>2. Learnt(p) \subseteq known
  BY DEF Learnt
<1> QED  BY <1>1, <1>2 DEF Acked

LEMMA AckedThen ==
  ASSUME NEW o, NEW ds
  PROVE  /\ \A d \in ds : d.kind = "ack" => d.acks \subseteq Acked(o, ds)
         /\ Going(o) => (1..o.pushed) \ o.blocks \subseteq Acked(o, ds)
<1>1. ASSUME NEW d \in ds, d.kind = "ack", NEW a \in d.acks
      PROVE  a \in UnderWay(ds)
  <2>1. d.acks \in {e.acks : e \in {e \in ds : e.kind = "ack"}}
    BY <1>1
  <2> QED  BY <1>1, <2>1 DEF UnderWay
<1>2. Going(o) => (1..o.pushed) \ o.blocks = Learnt(o)
  BY DEF Learnt
<1> QED  BY <1>1, <1>2 DEF Acked

LEMMA KeptFewer ==
  ASSUME NEW i, NEW more, Kept(i, more), NEW acks, acks \subseteq more
  PROVE  Kept(i, acks)
  BY DEF Kept

(* If everything is acknowledged the receiver has it.                      *)
LEMMA KeptAll ==
  ASSUME NEW i, InOK(i), NEW acks, Kept(i, acks), Block \subseteq acks
  PROVE  Whole(i)
<1>1. Len(i.file) \in 0..Size /\ (Whole(i) <=> Len(i.file) = Size)
  BY FileLength
<1>2. SUFFICES ASSUME Len(i.file) < Size PROVE FALSE
  BY <1>1, SizeAssumption
<1>3. Len(i.file) + 1 \in Block /\ Len(i.file) + 1 \notin 1..Len(i.file)
  BY <1>1, <1>2, SizeAssumption DEF Block
<1> QED  BY <1>1, <1>2, <1>3 DEF Kept

(* The receiver gives up.                                                  *)
LEMMA KeptEnds ==
  ASSUME NEW i, InOK(i), NEW acks, Kept(i, acks), NEW j, j.file = i.file, ~ Going(j)
  PROVE  Kept(j, acks)
<1>1. Len(i.file) \in 0..Size /\ (Whole(i) <=> Len(i.file) = Size)
  BY FileLength
<1>2. CASE Whole(i)
  BY <1>2 DEF Kept, Whole
<1>3. CASE ~ Whole(i)
  <2>1. Len(i.file) + 1 \in Block /\ Len(i.file) + 1 \notin 1..Len(i.file)
    BY <1>1, <1>3, SizeAssumption DEF Block
  <2> QED  BY <1>3, <2>1 DEF Kept
<1> QED  BY <1>2, <1>3

(* A step of the sender.                                                   *)
LEMMA FaithfulOut ==
  ASSUME NEW o, NEW i, NEW ds, Faithful(o, i, ds), NEW p, NEW es,
         \A d \in es : d.kind = "ack" => d \in ds,
         Going(p) => (1..p.pushed) \ p.blocks \subseteq Acked(o, ds),
         p.status = "finished" => o.status = "finished" \/ Whole(i)
  PROVE  Faithful(p, i, es)
<1>1. \A d \in es : d.kind = "ack" => d.acks \subseteq Acked(o, ds)
  BY AckedThen
<1>2. Acked(p, es) \subseteq Acked(o, ds)
  BY <1>1, AckedOnly
<1>3. Kept(i, Acked(p, es))
  BY <1>2, KeptFewer DEF Faithful
<1> QED  BY <1>3 DEF Faithful

(* A step of the receiver, which may send one more ack.                    *)
LEMMA FaithfulIn ==
  ASSUME NEW o, NEW i, NEW ds, Faithful(o, i, ds), NEW j, NEW es, NEW more,
         Kept(j, Acked(o, ds) \cup more),
         \A d \in es : d.kind = "ack" => d \in ds \/ d.acks = more,
         Whole(i) => Whole(j), j.status = "finished" => i.status = "finished" \/ Whole(j)
  PROVE  Faithful(o, j, es)
<1>1. \A d \in es : d.kind = "ack" => d.acks \subseteq Acked(o, ds) \cup more
  BY AckedThen
<1>2. Acked(o, es) \subseteq Acked(o, ds) \cup more
  BY <1>1, AckedThen, AckedOnly
<1>3. Kept(j, Acked(o, es))
  BY <1>2, KeptFewer
<1> QED  BY <1>3 DEF Faithful

LEMMA KeptSent ==
  ASSUME NEW i \in InRecord, NEW acks, Kept(i, acks), Going(i),
         NEW j, j = [i EXCEPT !.toAck = {}, !.acked = TRUE]
  PROVE  Kept(j, acks \cup i.toAck)
<1>1. j.file = i.file /\ j.blocks = i.blocks /\ j.toAck = {} /\ j.state = i.state
  BY DEF InRecord
<1> QED  BY <1>1 DEF Kept, Going, Whole

-----------------------------------------------------------------------------
(* The datagrams.                                                          *)

LEMMA DataSent ==
  ASSUME NEW left \in SUBSET Datagram, NEW g \in SUBSET Block, Sends(left, Data(g))
  PROVE  net' \subseteq Datagram /\ \A d \in net' : d.kind = "ack" => d \in left
<1>1. Data(g) \subseteq Datagram /\ \A d \in Data(g) : d.kind = "data"
  BY DEF Data, Datagram
<1> QED  BY <1>1 DEF Sends

LEMMA NothingSent ==
  ASSUME NEW left, Sends(left, {})
  PROVE  net' = left
  BY DEF Sends

LEMMA ZeroSent ==
  ASSUME NEW left \in SUBSET Datagram, Sends(left, {ZeroAck})
  PROVE  net' \subseteq Datagram /\ \A d \in net' : d.kind = "ack" => d \in left
<1>1. ZeroAck \in Datagram /\ ZeroAck.kind = "zero"
  BY DEF ZeroAck, Datagram
<1> QED  BY <1>1 DEF Sends

LEMMA AckIsSent ==
  ASSUME NEW left \in SUBSET Datagram, NEW eof \in BOOLEAN, NEW acks \in SUBSET Block,
         NEW pause \in BOOLEAN, Sends(left, {Ack(eof, acks, pause)})
  PROVE  net' \subseteq Datagram /\ \A d \in net' : d.kind = "ack" => d \in left \/ d.acks = acks
<1>1. Ack(eof, acks, pause) \in Datagram /\ Ack(eof, acks, pause).acks = acks
  BY DEF Ack, Datagram
<1> QED  BY <1>1 DEF Sends

LEMMA Resent ==
  ASSUME NEW o, OutOK(o), NEW left \in SUBSET Datagram, ResendBlocks(o, left)
  PROVE  /\ OutOK(out')
         /\ out'.pushed = o.pushed /\ out'.blocks = o.blocks
         /\ out'.state = o.state /\ out'.status = o.status /\ out'.reg = o.reg /\ out'.due = o.due
         /\ net' \subseteq Datagram /\ \A d \in net' : d.kind = "ack" => d \in left
<1>1. PICK g \in Groups(o) : out' = [o EXCEPT !.fresh = @ \ g] /\ Sends(left, Data(g))
  BY DEF ResendBlocks
<1>2. g \in SUBSET Block
  BY GroupsAreBlocks
<1>3. /\ out'.pushed = o.pushed /\ out'.blocks = o.blocks /\ out'.delivered = o.delivered
      /\ out'.state = o.state /\ out'.status = o.status /\ out'.reg = o.reg /\ out'.due = o.due
      /\ out'.fresh = o.fresh \ g /\ out' \in OutRecord
  BY <1>1 DEF OutOK, OutRecord
<1>4. OutOK(out')
  BY <1>3 DEF OutOK, Going
<1> QED  BY <1>1, <1>2, <1>3, <1>4, DataSent

-----------------------------------------------------------------------------
(* The steps of the sender.                                                *)

LEMMA OutMoved ==
  ASSUME NEW o, OutOK(o), NEW g \in OutRecord, g.pushed = o.pushed, g.blocks = o.blocks,
         g.fresh = o.fresh, g.delivered = o.delivered, Going(g) => Going(o)
  PROVE  OutOK(g)
  BY DEF OutOK

Turned(o, p) ==
  /\ p \in OutRecord /\ p.pushed = o.pushed /\ p.blocks = o.blocks /\ p.fresh = o.fresh
  /\ p.delivered = o.delivered /\ p.status = o.status /\ p.reg = o.reg
  /\ "close" \in p.due <=> "close" \in o.due

Turn(o, state, less, more) == [o EXCEPT !.state = state, !.due = (@ \ less) \cup more]

LEMMA OutTurned ==
  ASSUME NEW o \in OutRecord, NEW more \in SUBSET {"resume", "timeout"}, NEW less \in SUBSET {"resume", "timeout"},
         NEW state, state \in {"SENDING", "PAUSE"} \/ state = o.state
  PROVE  Turned(o, Turn(o, state, less, more)) /\ Turn(o, state, less, more).state = state
<1> DEFINE due == (o.due \ less) \cup more
           p == [o EXCEPT !.state = state, !.due = due]
<1>1. due \in SUBSET {"close", "resume", "timeout"} /\ ("close" \in due <=> "close" \in o.due)
  BY DEF OutRecord
<1>2. state \in {"DOWNTIME", "SENDING", "PAUSE", "COMPLETION", "CLOSED"}
  BY DEF OutRecord
<1> HIDE DEF due
<1>3. Turned(o, p) /\ p.state = state
  BY <1>1, <1>2 DEF Turned, OutRecord
<1>4. p = Turn(o, state, less, more)
  BY DEF Turn, due, OutRecord
<1> QED  BY <1>3, <1>4

LEMMA SenderStep ==
  ASSUME IInv, OutOK(out'), net' \subseteq Datagram, \A d \in net' : d.kind = "ack" => d \in net,
         Tales(out', outTold', "out", sessions'),
         Going(out') => (1..out'.pushed) \ out'.blocks \subseteq Acked(out, net),
         ~ renewed /\ out'.status = "finished" => out.status = "finished" \/ Whole(in),
         UNCHANGED <<in, inTold, renewed>>,
         sessions' = sessions \/ sessions' = sessions \ {"out"}
  PROVE  IInv'
<1>2. sessions' \subseteq {"out", "in"} /\ ("in" \in sessions' <=> "in" \in sessions)
  BY DEF IInv
<1>3. Tales(in, inTold, "in", sessions)
  BY DEF IInv
<1>6. Tales(in', inTold', "in", sessions')
  BY <1>2, <1>3, TalesElsewhere
<1>7. ~ renewed => Faithful(out', in', net')
  <2>1. SUFFICES ASSUME ~ renewed PROVE Faithful(out', in, net')
    OBVIOUS
  <2>2. Faithful(out, in, net)
    BY <2>1 DEF IInv
  <2> QED  BY <2>1, <2>2, FaithfulOut
<1> QED  BY <1>2, <1>6, <1>7 DEF IInv

LEMMA OutSide ==
  ASSUME IInv
  PROVE  /\ OutOK(out) /\ out \in OutRecord /\ out \in Side /\ net \in SUBSET Datagram
         /\ Tales(out, outTold, "out", sessions)
         /\ Going(out) => (1..out.pushed) \ out.blocks \subseteq Acked(out, net)
  BY AckedThen DEF IInv, OutOK, Side

LEMMA StepProcessFile ==
  ASSUME IInv, ProcessFile
  PROVE  IInv'
<1> DEFINE p == Pushed(out)
           s == [p EXCEPT !.state = "SENDING"]
<1>1. Going(out) /\ UNCHANGED <<in, inTold, renewed, sessions, outTold>>
  BY DEF ProcessFile, Working, Going
<1>2. /\ OutOK(p) /\ (1..p.pushed) \ p.blocks = (1..out.pushed) \ out.blocks
      /\ p.state = out.state /\ p.status = out.status /\ p.reg = out.reg /\ p.due = out.due
  BY <1>1, OutSide, OutPushed
<1>3. \/ out' = p /\ UNCHANGED net
      \/ ResendBlocks(s, net)
  BY DEF ProcessFile
<1> HIDE DEF p
<1>4. Going(p)
  BY <1>1, <1>2 DEF Going
<1>5. CASE out' = p /\ UNCHANGED net
  <2>1. Tales(p, outTold, "out", sessions)
    BY <1>2, OutSide, TalesMoved
  <2> QED  BY <1>1, <1>2, <1>5, <2>1, OutSide, SenderStep
<1>6. CASE ResendBlocks(s, net)
  <2>1. /\ s \in OutRecord /\ s.state = "SENDING" /\ s.status = p.status /\ s.reg = p.reg /\ s.due = p.due
        /\ s.pushed = p.pushed /\ s.blocks = p.blocks /\ s.fresh = p.fresh /\ s.delivered = p.delivered
    BY <1>2 DEF OutOK, OutRecord
  <2> HIDE DEF s
  <2>2. OutOK(s)
    BY <1>2, <1>4, <2>1, OutMoved
  <2>3. /\ OutOK(out') /\ out'.pushed = s.pushed /\ out'.blocks = s.blocks
        /\ out'.state = s.state /\ out'.status = s.status /\ out'.reg = s.reg /\ out'.due = s.due
        /\ net' \subseteq Datagram /\ \A d \in net' : d.kind = "ack" => d \in net
    BY <1>6, <2>2, OutSide, Resent
  <2>4. Going(out')
    BY <2>1, <2>3 DEF Going
  <2>5. out'.status = out.status /\ out'.reg = out.reg /\ out'.due = out.due
    BY <1>2, <2>1, <2>3
  <2>6. Tales(out', outTold, "out", sessions)
    BY <1>1, <2>4, <2>5, OutSide, TalesMoved
  <2>7. (1..out'.pushed) \ out'.blocks \subseteq Acked(out, net)
    BY <1>1, <1>2, <2>1, <2>3, OutSide
  <2> QED  BY <1>1, <2>3, <2>5, <2>6, <2>7, SenderStep
<1> QED  BY <1>3, <1>5, <1>6

LEMMA StepIterate ==
  ASSUME IInv, Iterate
  PROVE  IInv'
<1>1. Going(out) /\ UNCHANGED <<in, inTold, renewed, sessions, outTold>> /\ ResendBlocks(out, net)
  BY DEF Iterate, Going
<1>2. /\ OutOK(out') /\ out'.pushed = out.pushed /\ out'.blocks = out.blocks
      /\ out'.state = out.state /\ out'.status = out.status /\ out'.reg = out.reg /\ out'.due = out.due
      /\ net' \subseteq Datagram /\ \A d \in net' : d.kind = "ack" => d \in net
  BY <1>1, OutSide, Resent
<1>3. Tales(out', outTold, "out", sessions)
  BY <1>2, OutSide, TalesMoved
<1>4. (1..out'.pushed) \ out'.blocks \subseteq Acked(out, net)
  BY <1>1, <1>2, OutSide
<1> QED  BY <1>1, <1>2, <1>3, <1>4, SenderStep

(* A step that leaves the buffer and moves the stream to another state.    *)
LEMMA MovedStep ==
  ASSUME IInv, NEW p, OutOK(p), Going(out), (1..p.pushed) \ p.blocks \subseteq Acked(out, net),
         p.status = out.status, p.reg = out.reg, "close" \in p.due <=> "close" \in out.due,
         Going(p), NEW left \in SUBSET Datagram, \A d \in left : d \in net,
         (out' = p /\ net' = left) \/ ResendBlocks(p, left),
         UNCHANGED <<in, inTold, renewed, sessions, outTold>>
  PROVE  IInv'
<1>1. /\ OutOK(out') /\ out'.pushed = p.pushed /\ out'.blocks = p.blocks
      /\ out'.state = p.state /\ out'.status = p.status /\ out'.reg = p.reg /\ out'.due = p.due
      /\ net' \subseteq Datagram /\ \A d \in net' : d.kind = "ack" => d \in left
  BY Resent
<1>2. Going(out')
  BY <1>1 DEF Going
<1>3. Tales(out', outTold, "out", sessions)
  BY <1>1, <1>2, OutSide, TalesMoved
<1> QED  BY <1>1, <1>3, SenderStep

LEMMA StepResume ==
  ASSUME IInv, Resume
  PROVE  IInv'
<1> DEFINE o == [out EXCEPT !.due = @ \ {"resume"}]
           s == [o EXCEPT !.state = "SENDING"]
           t == [o EXCEPT !.state = "SENDING", !.due = @ \cup {"timeout"}]
           turned(state, more) == Turn(out, state, {"resume"}, more)
<1>1. UNCHANGED <<in, inTold, renewed, sessions, outTold>>
  BY DEF Resume
<1>2. /\ Turned(out, o) /\ Turned(out, s) /\ Turned(out, t)
      /\ o.state = out.state /\ s.state = "SENDING" /\ t.state = "SENDING"
  <2>1. o = turned(out.state, {}) /\ s = turned("SENDING", {}) /\ t = turned("SENDING", {"timeout"})
    BY OutSide DEF OutRecord, Turn
  <2>2. Turned(out, turned(out.state, {})) /\ turned(out.state, {}).state = out.state
    <3>1. {"resume"} \in SUBSET {"resume", "timeout"} /\ {} \in SUBSET {"resume", "timeout"}
      OBVIOUS
    <3> QED  BY <3>1, OutSide, OutTurned
  <2>3. Turned(out, turned("SENDING", {})) /\ turned("SENDING", {}).state = "SENDING"
    BY OutSide, OutTurned
  <2>4. Turned(out, turned("SENDING", {"timeout"})) /\ turned("SENDING", {"timeout"}).state = "SENDING"
    BY OutSide, OutTurned
  <2> HIDE DEF turned, o, s, t
  <2> QED  BY <2>1, <2>2, <2>3, <2>4
<1>3. \/ out.state = "PAUSE" /\ (ResendBlocks(s, net) \/ (out' = t /\ UNCHANGED net))
      \/ out' = o /\ UNCHANGED net
  BY DEF Resume
<1> HIDE DEF o, s, t
<1>4. CASE out.state = "PAUSE" /\ (ResendBlocks(s, net) \/ (out' = t /\ UNCHANGED net))
  <2>1. Going(out) /\ Going(s) /\ Going(t)
    BY <1>2, <1>4 DEF Going
  <2>2. OutOK(s) /\ OutOK(t)
    BY <1>2, <2>1, OutSide, OutMoved DEF Turned
  <2>3. \/ ResendBlocks(s, net)
        \/ out' = t /\ net' = net
    BY <1>4
  <2> QED  BY <1>1, <1>2, <2>1, <2>2, <2>3, OutSide, MovedStep DEF Turned
<1>5. CASE out' = o /\ UNCHANGED net
  <2>1. OutOK(out') /\ Tales(out', outTold, "out", sessions)
    <3>1. Going(o) => Going(out)
      BY <1>2 DEF Going
    <3> QED  BY <1>2, <1>5, <3>1, OutSide, OutMoved, TalesMoved DEF Turned
  <2>2. Going(out') => (1..out'.pushed) \ out'.blocks \subseteq Acked(out, net)
    BY <1>2, <1>5, OutSide DEF Going, Turned
  <2> QED  BY <1>1, <1>2, <1>5, <2>1, <2>2, OutSide, SenderStep DEF Turned
<1> QED  BY <1>3, <1>4, <1>5

(* The file of the sender is judged, as 'finished' only if all was         *)
(* acknowledged: then the receiver has it.                                 *)
LEMMA JudgedStep ==
  ASSUME IInv, NEW o, OutOK(o), Going(out), Going(o), (1..o.pushed) \ o.blocks \subseteq Acked(out, net),
         o.reg = out.reg, o.status = out.status, "close" \in o.due <=> "close" \in out.due,
         NEW s \in Ended, s = "finished" => "out" \in sessions /\ IsDone(o),
         out' = Judged(o, s), outTold' = Tell(o, outTold, s),
         net' \subseteq net,
         UNCHANGED <<in, inTold, renewed, sessions>>
  PROVE  IInv'
<1>1. OutOK(out') /\ ~ Going(out') /\ out'.status = s
  BY OutJudged
<1>2. Tales(o, outTold, "out", sessions)
  BY OutSide, TalesMoved
<1>3. Tales(out', outTold', "out", sessions)
  <2>1. o \in Side
    BY DEF OutOK, Side, IInv
  <2> QED  BY <1>2, <2>1, TalesJudged
<1>4. ASSUME ~ renewed, out'.status = "finished"
      PROVE  Whole(in)
  <2>1. Block \subseteq Acked(out, net)
    BY <1>1, <1>4, OutDone
  <2>2. InOK(in) /\ Kept(in, Acked(out, net))
    BY <1>4 DEF IInv, Faithful
  <2> QED  BY <2>1, <2>2, KeptAll
<1>5. net' \subseteq Datagram /\ \A d \in net' : d.kind = "ack" => d \in net
  BY OutSide
<1> QED  BY <1>1, <1>3, <1>4, <1>5, SenderStep

LEMMA StepAck ==
  ASSUME IInv, NEW d \in net, AckArrives(d, net \ {d})
  PROVE  IInv'
<1> DEFINE left == net \ {d}
<1>1. /\ UNCHANGED <<in, inTold, renewed, sessions>> /\ left \in SUBSET Datagram /\ left \subseteq net
      /\ d.kind \in {"ack", "zero"}
  BY OutSide DEF AckArrives
<1>2. CASE "out" \in sessions /\ Working
  <2> DEFINE acks == IF d.kind = "zero" THEN {} ELSE d.acks \cap out.blocks
             acked == AckedOf(out, acks)
             o == IF acks = {} \/ IsDone(acked) \/ out.cancelled THEN acked ELSE Pushed(acked)
  <2>1. Going(out) /\ acks \in SUBSET out.blocks
    BY <1>2 DEF Working, Going
  <2>2. acks \subseteq Acked(out, net)
    BY <1>1, AckedThen
  <2>3. /\ OutOK(acked) /\ Going(acked) /\ (1..acked.pushed) \ acked.blocks \subseteq Acked(out, net)
        /\ acked.state = out.state /\ acked.status = out.status /\ acked.reg = out.reg /\ acked.due = out.due
    <3> HIDE DEF acks
    <3>1. /\ OutOK(acked) /\ (1..acked.pushed) \ acked.blocks = ((1..out.pushed) \ out.blocks) \cup acks
          /\ acked.state = out.state /\ acked.status = out.status /\ acked.reg = out.reg /\ acked.due = out.due
      BY <2>1, OutSide, OutAcked
    <3> HIDE DEF acked
    <3>2. (1..out.pushed) \ out.blocks \subseteq Acked(out, net)
      BY <2>1, OutSide
    <3>3. Going(acked)
      BY <2>1, <3>1 DEF Going
    <3> QED  BY <2>2, <3>1, <3>2, <3>3
  <2>4. OnAck(d, left)
    BY <1>2 DEF AckArrives
  <2>5. \/ SendDone(o) /\ Sends(left, {})
        \/ /\ \/ /\ out.state = "SENDING"
                 /\ out' = [o EXCEPT !.state = "PAUSE", !.due = @ \cup {"resume"}]
                 /\ Sends(left, {})
              \/ ResendBlocks(o, left)
              \/ out' = o /\ Sends(left, {})
           /\ UNCHANGED outTold
    BY <2>4 DEF OnAck, AckedOf
  <2> HIDE DEF acks, acked
  <2>6. /\ OutOK(o) /\ Going(o) /\ (1..o.pushed) \ o.blocks \subseteq Acked(out, net)
        /\ o.state = out.state /\ o.status = out.status /\ o.reg = out.reg /\ o.due = out.due
    <3>1. LET p == Pushed(acked) IN
          /\ OutOK(p) /\ (1..p.pushed) \ p.blocks = (1..acked.pushed) \ acked.blocks
          /\ p.state = acked.state /\ p.status = acked.status /\ p.reg = acked.reg /\ p.due = acked.due
      BY <2>3, OutPushed
    <3>2. Going(Pushed(acked))
      BY <2>3, <3>1 DEF Going
    <3>3. o = acked \/ o = Pushed(acked)
      OBVIOUS
    <3> HIDE DEF o
    <3> QED  BY <2>3, <3>1, <3>2, <3>3
  <2> HIDE DEF o
  <2>7. CASE SendDone(o) /\ Sends(left, {})
    <3>1. PICK s \in Ended : out' = Judged(o, s) /\ outTold' = Tell(o, outTold, s) /\ (s = "finished" => IsDone(o))
      BY <2>7 DEF SendDone, Ended
    <3>2. net' \subseteq net
      BY <2>7, NothingSent
    <3> QED  BY <1>1, <1>2, <2>1, <2>6, <3>1, <3>2, JudgedStep
  <2>8. CASE out.state = "SENDING" /\ out' = [o EXCEPT !.state = "PAUSE", !.due = @ \cup {"resume"}]
             /\ Sends(left, {}) /\ UNCHANGED outTold
    <3>1. o \in OutRecord /\ {"resume"} \in SUBSET {"resume", "timeout"} /\ {} \in SUBSET {"resume", "timeout"}
      BY <2>6 DEF OutOK
    <3>2. out' = Turn(o, "PAUSE", {}, {"resume"})
      BY <2>8, <3>1 DEF Turn, OutRecord
    <3>3. Turned(o, out') /\ out'.state = "PAUSE"
      BY <3>1, <3>2, OutTurned
    <3>4. Going(out')
      BY <3>3 DEF Going
    <3>5. OutOK(out')
      BY <2>6, <3>3, OutMoved DEF Turned
    <3>6. net' = left
      BY <2>8, NothingSent
    <3> DEFINE p == out'
    <3>7. /\ OutOK(p) /\ (1..p.pushed) \ p.blocks \subseteq Acked(out, net) /\ Going(p)
          /\ p.status = out.status /\ p.reg = out.reg
          /\ "close" \in p.due <=> "close" \in out.due
      BY <2>6, <3>3, <3>4, <3>5 DEF Turned
    <3>8. Tales(out', outTold', "out", sessions)
      BY <2>1, <2>8, <3>7, OutSide, TalesMoved
    <3> QED  BY <1>1, <3>6, <3>7, <3>8, SenderStep
  <2>9. CASE (ResendBlocks(o, left) \/ (out' = o /\ Sends(left, {}))) /\ UNCHANGED outTold
    <3>1. ResendBlocks(o, left) \/ (out' = o /\ net' = left)
      BY <2>9, NothingSent
    <3>2. \A e \in left : e \in net
      OBVIOUS
    <3> QED  BY <1>1, <2>1, <2>6, <2>9, <3>1, <3>2, MovedStep
  <2> QED  BY <2>5, <2>7, <2>8, <2>9
<1>3. CASE ~ ("out" \in sessions /\ Working)
  <2>1. net' = left /\ UNCHANGED <<out, outTold>>
    BY <1>3, NothingSent DEF AckArrives
  <2> QED  BY <1>1, <2>1, OutSide, SenderStep
<1> QED  BY <1>2, <1>3

LEMMA StepOutTimeout ==
  ASSUME IInv, OutTimeout
  PROVE  IInv'
<1> DEFINE o == [out EXCEPT !.due = @ \ {"timeout"}]
<1>1. UNCHANGED <<in, inTold, renewed, sessions, net>>
  BY DEF OutTimeout
<1>2. Turned(out, o) /\ o.state = out.state
  <2>1. {"timeout"} \in SUBSET {"resume", "timeout"} /\ {} \in SUBSET {"resume", "timeout"}
    OBVIOUS
  <2>2. o = Turn(out, out.state, {"timeout"}, {})
    BY OutSide DEF Turn, OutRecord
  <2> HIDE DEF o
  <2> QED  BY <2>1, <2>2, OutSide, OutTurned
<1>3. \/ Working /\ out' = Judged(o, "failed") /\ outTold' = Tell(o, outTold, "failed")
      \/ out' = o /\ UNCHANGED outTold
  BY <1>2 DEF OutTimeout
<1> HIDE DEF o
<1>4. OutOK(o) /\ (Going(o) <=> Going(out))
  <2>1. Going(o) <=> Going(out)
    BY <1>2 DEF Going
  <2> QED  BY <1>2, <2>1, OutSide, OutMoved DEF Turned
<1>5. CASE Working /\ out' = Judged(o, "failed") /\ outTold' = Tell(o, outTold, "failed")
  <2>1. Going(out) /\ "failed" \in Ended /\ "failed" # "finished"
    BY <1>5 DEF Working, Going, Ended
  <2>2. /\ (1..o.pushed) \ o.blocks \subseteq Acked(out, net) /\ o.reg = out.reg /\ o.status = out.status
        /\ "close" \in o.due <=> "close" \in out.due
    BY <1>2, <2>1, OutSide DEF Turned
  <2> QED  BY <1>1, <1>4, <1>5, <2>1, <2>2, JudgedStep
<1>6. CASE out' = o /\ UNCHANGED outTold
  <2>1. /\ o.pushed = out.pushed /\ o.blocks = out.blocks /\ o.reg = out.reg /\ o.status = out.status
        /\ "close" \in o.due <=> "close" \in out.due
    BY <1>2 DEF Turned
  <2>2. Tales(out', outTold', "out", sessions)
    BY <1>2, <1>6, <2>1, OutSide, TalesMoved
  <2>3. Going(out') => (1..out'.pushed) \ out'.blocks \subseteq Acked(out, net)
    BY <1>4, <1>6, <2>1, OutSide
  <2> QED  BY <1>1, <1>4, <1>6, <2>1, <2>2, <2>3, OutSide, SenderStep
<1> QED  BY <1>3, <1>5, <1>6

LEMMA StepOutClose ==
  ASSUME IInv, OutClose
  PROVE  IInv'
<1>1. UNCHANGED <<in, outTold, inTold, renewed, sessions, net>> /\ "close" \in out.due
  BY DEF OutClose
<1>2. /\ out' \in OutRecord /\ out'.state = "CLOSED" /\ out'.status = out.status /\ out'.reg = out.reg
      /\ out'.due = out.due \ {"close"} /\ out'.blocks = {} /\ out'.fresh = {}
  <2> DEFINE c == Closed(out)
  <2>1. out' = [c EXCEPT !.fresh = {}, !.delivered = 0, !.cancelled = FALSE]
    BY DEF OutClose
  <2>2. /\ c \in OutRecord /\ c.state = "CLOSED" /\ c.status = out.status /\ c.reg = out.reg
        /\ c.due = out.due \ {"close"} /\ c.blocks = {}
    BY OutSide DEF Closed, OutRecord
  <2> HIDE DEF c
  <2>3. out' \in OutRecord
    <3>1. {} \in SUBSET Block /\ 0 \in Int /\ FALSE \in BOOLEAN
      OBVIOUS
    <3> QED  BY <2>1, <2>2, <3>1 DEF OutRecord
  <2>4. /\ out'.state = c.state /\ out'.status = c.status /\ out'.reg = c.reg
        /\ out'.due = c.due /\ out'.blocks = c.blocks /\ out'.fresh = {}
    BY <2>1, <2>2 DEF OutRecord
  <2> QED  BY <2>2, <2>3, <2>4
<1>3. OutOK(out') /\ ~ Going(out')
  <2>1. Cardinality(out'.blocks) = 0
    BY <1>2, FS_EmptySet
  <2> QED  BY <1>2, <2>1, SizeAssumption DEF OutOK, Going
<1>4. Tales(out', outTold, "out", sessions)
  BY <1>1, <1>2, OutSide, TalesClosed
<1> QED  BY <1>1, <1>2, <1>3, <1>4, OutSide, SenderStep

LEMMA StepOutRegistered ==
  ASSUME IInv, OutRegistered
  PROVE  IInv'
<1>1. UNCHANGED <<in, inTold, renewed, sessions, net>> /\ out.reg = "asked"
  BY DEF OutRegistered
<1>2. /\ out' \in OutRecord /\ out'.state = out.state /\ out'.status = out.status
      /\ out'.blocks = out.blocks /\ out'.fresh = out.fresh /\ out'.pushed = out.pushed
      /\ out'.delivered = out.delivered
      /\ out.state = "CLOSED" => out'.reg = "late" /\ out'.due = out.due
  <2>1. CASE out.state = "CLOSED"
    <3>1. out' = [out EXCEPT !.reg = "late"]
      BY <2>1 DEF OutRegistered
    <3> QED  BY <3>1, OutSide DEF OutRecord, Registration
  <2>2. CASE out.state # "CLOSED"
    <3> DEFINE due == IF out.status = "none" THEN out.due ELSE out.due \cup {"close"}
    <3>1. PICK answer \in Answer : out' = [out EXCEPT !.reg = answer, !.due = due]
      BY <2>2, OutSide DEF OutRegistered, Answered, OutRecord
    <3>2. due \in SUBSET {"close", "resume", "timeout"}
      BY OutSide DEF OutRecord
    <3> HIDE DEF due
    <3> QED  BY <2>2, <3>1, <3>2, OutSide DEF OutRecord, Registration
  <2> QED  BY <2>1, <2>2
<1>3. OutOK(out') /\ (Going(out') <=> Going(out))
  <2>1. Going(out') <=> Going(out)
    BY <1>2 DEF Going
  <2> QED  BY <1>2, <2>1, OutSide, OutMoved
<1>4. Tales(out', outTold', "out", sessions)
  <2>1. CASE out.state = "CLOSED"
    <3>1. UNCHANGED outTold
      BY <2>1 DEF OutRegistered
    <3> QED  BY <1>1, <1>2, <2>1, <3>1, OutSide, TalesLate
  <2>2. CASE out.state # "CLOSED"
    <3>1. PICK answer \in Answer :
          /\ out' = Answered(out, answer)
          /\ outTold' = IF out'.status = "none" THEN outTold ELSE Tell(out', outTold, out'.status)
      BY <2>2 DEF OutRegistered
    <3> QED  BY <1>1, <2>2, <3>1, OutSide, TalesAnswered
  <2> QED  BY <2>1, <2>2
<1> QED  BY <1>1, <1>2, <1>3, <1>4, OutSide, SenderStep

LEMMA StepCancel ==
  ASSUME IInv, Cancel
  PROVE  IInv'
<1>1. UNCHANGED <<in, outTold, inTold, renewed, sessions, net>> /\ out.reg = "yes"
  BY DEF Cancel
<1>2. /\ out' \in OutRecord /\ out'.state = out.state /\ out'.status = "failed" /\ out'.reg = out.reg
      /\ out'.due = out.due
      /\ out'.blocks = out.blocks /\ out'.fresh = out.fresh /\ out'.pushed = out.pushed
      /\ out'.delivered = out.delivered
  BY OutSide DEF Cancel, OutRecord, Ended
<1>3. OutOK(out') /\ (Going(out') <=> Going(out))
  <2>1. Going(out') <=> Going(out)
    BY <1>2 DEF Going
  <2> QED  BY <1>2, <2>1, OutSide, OutMoved
<1>4. Tales(out', outTold, "out", sessions)
  BY <1>1, <1>2, OutSide, TalesCancelled
<1> QED  BY <1>1, <1>2, <1>3, <1>4, OutSide, SenderStep

LEMMA StepOutSessionCloses ==
  ASSUME IInv, OutSessionCloses
  PROVE  IInv'
<1>1. /\ UNCHANGED <<in, inTold, renewed, net>>
      /\ sessions' = sessions \ {"out"} /\ out' = Abandoned(out)
  BY DEF OutSessionCloses
<1>2. /\ out' \in OutRecord /\ out'.state = out.state
      /\ out'.status = "failed" \/ out'.status = out.status
      /\ out'.blocks = out.blocks /\ out'.fresh = out.fresh /\ out'.pushed = out.pushed
      /\ out'.delivered = out.delivered
  BY <1>1, OutSide DEF Abandoned, OutRecord, Ended
<1>3. OutOK(out') /\ (Going(out') <=> Going(out))
  <2>1. Going(out') <=> Going(out)
    BY <1>2 DEF Going
  <2> QED  BY <1>2, <2>1, OutSide, OutMoved
<1>4. Tales(out', outTold', "out", sessions')
  <2>1. "out" \notin sessions'
    BY <1>1
  <2>2. outTold' = IF out.state \in {"NONE", "CLOSED"} THEN outTold ELSE Tell(out, outTold, "failed")
    BY OutSide DEF OutSessionCloses, OutRecord
  <2> QED  BY <1>1, <2>1, <2>2, OutSide, TalesAbandoned
<1> QED  BY <1>1, <1>2, <1>3, <1>4, OutSide, SenderStep

-----------------------------------------------------------------------------
(* The steps of the receiver.                                              *)

LEMMA InSide ==
  ASSUME IInv
  PROVE  /\ InOK(in) /\ in \in InRecord /\ in \in Side /\ net \in SUBSET Datagram
         /\ Tales(in, inTold, "in", sessions)
         /\ ~ renewed => Faithful(out, in, net) /\ Kept(in, Acked(out, net))
  BY DEF IInv, InOK, Side, Faithful

LEMMA ReceiverStep ==
  ASSUME IInv, InOK(in'), net' \subseteq Datagram,
         Tales(in', inTold', "in", sessions'),
         ~ renewed' => Faithful(out, in', net'),
         UNCHANGED <<out, outTold>>,
         sessions' \in {sessions, sessions \ {"in"}, sessions \cup {"in"}}
  PROVE  IInv'
<1>2. sessions' \subseteq {"out", "in"} /\ ("out" \in sessions' <=> "out" \in sessions)
  BY DEF IInv
<1>4. Tales(out, outTold, "out", sessions)
  BY DEF IInv
<1>5. Tales(out', outTold', "out", sessions')
  BY <1>2, <1>4, TalesElsewhere
<1> QED  BY <1>2, <1>5 DEF IInv

(* The stream i of the receiver, after a block came or as it was, with all *)
(* that the invariant says of it.                                          *)
Stays(i) ==
  /\ InOK(i) /\ i.state # "NONE" /\ i.status = in.status
  /\ Tales(i, inTold, "in", sessions)
  /\ Whole(in) => Whole(i)
  /\ ~ renewed => Kept(i, Acked(out, net))

Quiet == UNCHANGED <<out, outTold, inTold, sessions, renewed>>

LEMMA AckedStep ==
  ASSUME IInv, NEW i, Stays(i), Going(i), NEW left \in SUBSET net, NEW pause \in BOOLEAN,
         AckSent(i, left, pause), Quiet
  PROVE  IInv'
<1>1. i \in InRecord /\ in' = [i EXCEPT !.toAck = {}, !.acked = TRUE] /\ Sends(left, {Ack(i.eof, i.toAck, pause)})
  BY DEF Stays, InOK, AckSent
<1>2. /\ in' \in InRecord /\ in'.state = i.state /\ in'.status = i.status /\ in'.reg = i.reg
      /\ in'.due = i.due /\ in'.file = i.file /\ in'.eof = i.eof
  BY <1>1 DEF InRecord
<1>3. InOK(in')
  BY <1>2 DEF InOK, Stays
<1>4. net' \subseteq Datagram /\ \A d \in net' : d.kind = "ack" => d \in net \/ d.acks = i.toAck
  <2>1. i.eof \in BOOLEAN /\ i.toAck \in SUBSET Block /\ left \in SUBSET Datagram
    BY <1>1, InSide DEF InRecord
  <2> QED  BY <1>1, <2>1, AckIsSent
<1>5. Tales(in', inTold', "in", sessions')
  <2>1. Tales(in', inTold, "in", sessions)
    BY <1>2, TalesMoved DEF Stays
  <2> QED  BY <2>1, TalesElsewhere DEF Quiet
<1>6. ASSUME ~ renewed
      PROVE  Faithful(out, in', net')
  <2>1. Kept(in', Acked(out, net) \cup i.toAck)
    BY <1>1, <1>6, KeptSent DEF Stays
  <2>2. Whole(i) => Whole(in')
    BY <1>2 DEF Whole
  <2>3. Whole(in) => Whole(in')
    BY <2>2 DEF Stays
  <2>4. in'.status = in.status
    BY <1>2 DEF Stays
  <2> QED  BY <1>4, <1>6, <2>1, <2>3, <2>4, InSide, FaithfulIn
<1> QED  BY <1>3, <1>4, <1>5, <1>6, ReceiverStep DEF Quiet

(* No ack is sent.                                                         *)
LEMMA SilentStep ==
  ASSUME IInv, NEW left \in SUBSET net, net' = left, Stays(in'), Quiet
  PROVE  IInv'
<1>1. net' \subseteq Datagram /\ \A d \in net' : d.kind = "ack" => d \in net
  BY InSide
<1>2. Tales(in', inTold', "in", sessions')
  <2>1. Tales(in', inTold, "in", sessions)
    BY InSide DEF Stays
  <2> QED  BY <2>1, TalesElsewhere DEF Quiet
<1>3. ASSUME ~ renewed
      PROVE  Faithful(out, in', net')
  <2>1. Acked(out, net) \cup {} = Acked(out, net)
    OBVIOUS
  <2>2. Kept(in', Acked(out, net) \cup {}) /\ (Whole(in) => Whole(in')) /\ in'.status = in.status
    BY <1>3, <2>1 DEF Stays
  <2> QED  BY <1>1, <1>3, <2>2, InSide, FaithfulIn
<1> QED  BY <1>1, <1>2, <1>3, ReceiverStep DEF Quiet, Stays

LEMMA ResendAckStep ==
  ASSUME IInv, NEW i, Stays(i), Going(i), NEW left \in SUBSET net, ResendAck(i, left), Quiet
  PROVE  IInv'
<1>1. \/ \E pause \in BOOLEAN : AckSent(i, left, pause)
      \/ in' = i /\ Sends(left, {})
  BY DEF ResendAck
<1>2. CASE \E pause \in BOOLEAN : AckSent(i, left, pause)
  BY <1>2, AckedStep
<1>3. CASE in' = i /\ Sends(left, {})
  BY <1>3, NothingSent, SilentStep
<1> QED  BY <1>1, <1>2, <1>3

(* The receiver ends: with all blocks, or because none comes.              *)
LEMMA EndedStep ==
  ASSUME IInv, NEW i, Stays(i), Going(i), NEW s \in Ended, NEW left, left \subseteq Datagram,
         s = "finished" => Whole(i) /\ "in" \in sessions,
         \A d \in left : d.kind = "ack" => d \in net \/ d.acks \subseteq i.toAck,
         s = "failed" => \A d \in left : d \in net,
         in' = [Judged(i, s) EXCEPT !.toAck = {}], inTold' = Tell(i, inTold, s), net' = left,
         UNCHANGED <<out, outTold, sessions, renewed>>
  PROVE  IInv'
<1> DEFINE g == Judged(i, s)
<1>1. i \in InRecord
  BY DEF Stays, InOK
<1>2. /\ g \in InRecord /\ g.state = "COMPLETION" /\ g.status = s /\ g.reg = i.reg
      /\ g.file = i.file /\ g.eof = i.eof
  BY <1>1 DEF Judged, InRecord
<1>3. Tales(g, Tell(i, inTold, s), "in", sessions)
  <2>1. i \in Side
    BY <1>1, InSide DEF Side
  <2>2. Tales(i, inTold, "in", sessions)
    BY DEF Stays
  <2> HIDE DEF g
  <2> QED  BY <2>1, <2>2, TalesJudged DEF g
<1> HIDE DEF g
<1>4. /\ in' \in InRecord /\ in'.state = "COMPLETION" /\ in'.status = s /\ in'.reg = g.reg
      /\ in'.due = g.due /\ in'.file = i.file /\ in'.eof = i.eof
  BY <1>2 DEF InRecord, g
<1>5. InOK(in') /\ ~ Going(in')
  BY <1>4 DEF InOK, Stays, Going
<1>6. Tales(in', inTold', "in", sessions')
  <2>1. Tales(in', inTold', "in", sessions)
    BY <1>2, <1>3, <1>4, TalesMoved
  <2> QED  BY <2>1
<1>7. (Whole(i) <=> Whole(in')) /\ (Whole(in) => Whole(in'))
  BY <1>4 DEF Whole, Stays
<1>8. ASSUME ~ renewed
      PROVE  Faithful(out, in', net')
  <2>1. CASE Whole(i)
    BY <1>7, <2>1 DEF Faithful, Kept
  <2>2. CASE ~ Whole(i)
    <3>1. s = "failed" /\ ~ Whole(in)
      BY <2>2 DEF Ended, Stays
    <3>2. Kept(in', Acked(out, net))
      BY <1>4, <1>5, <1>8, KeptEnds DEF Stays
    <3>3. Acked(out, net) \cup {} = Acked(out, net)
      OBVIOUS
    <3>4. Kept(in', Acked(out, net) \cup {})
      BY <3>2, <3>3
    <3>5. in'.status # "finished"
      BY <1>4, <3>1
    <3>6. \A d \in net' : d.kind = "ack" => d \in net
      BY <3>1
    <3> QED  BY <1>7, <1>8, <3>4, <3>5, <3>6, InSide, FaithfulIn
  <2> QED  BY <2>1, <2>2
<1> QED  BY <1>5, <1>6, <1>8, ReceiverStep

LEMMA StaysInSide ==
  ASSUME IInv, in.state # "NONE"
  PROVE  Stays(in)
  BY InSide DEF Stays

LEMMA StaysNew ==
  ASSUME IInv, in.state = "NONE"
  PROVE  Stays(NewIn)
<1>1. in = NoIn
  BY InSide DEF InOK
<1>2. /\ NewIn.state = "DOWNTIME" /\ NewIn.status = "none" /\ NewIn.reg = "asked" /\ NewIn.due = {}
      /\ NewIn.file = <<>> /\ NewIn.blocks = {} /\ NewIn.toAck = {} /\ NewIn.eof = FALSE
      /\ NoIn.state = "NONE" /\ NoIn.status = "none" /\ NoIn.reg = "asked" /\ NoIn.due = {}
      /\ NoIn.file = <<>> /\ NoIn.blocks = {} /\ NoIn.toAck = {} /\ NoIn.eof = FALSE
  BY DEF NewIn, NoIn
<1>3. InOK(NewIn)
  <2>1. <<>> \in Seq(Block) /\ Len(<<>>) = 0 /\ <<>> = [n \in 1..0 |-> n]
    BY EmptySeq
  <2>2. NewIn \in InRecord
    BY <2>1 DEF NewIn, InRecord, Registration
  <2>3. Len(NewIn.file) = 0 /\ NewIn.file = [n \in 1..Len(NewIn.file) |-> n]
    BY <1>2, <2>1
  <2>4. Len(NewIn.file) <= Size /\ (Len(NewIn.file) = Size) = FALSE
    BY <2>3, SizeAssumption
  <2> QED  BY <1>2, <2>2, <2>3, <2>4 DEF InOK
<1>4. Tales(NewIn, inTold, "in", sessions)
  BY <1>1, <1>2, InSide, TalesMoved DEF Going
<1>5. ~ renewed => Kept(NewIn, Acked(out, net))
  BY <1>1, <1>2, InSide DEF Kept, Whole, Going
<1>6. Whole(in) => Whole(NewIn)
  BY <1>1, <1>2 DEF Whole
<1> QED  BY <1>1, <1>2, <1>3, <1>4, <1>5, <1>6 DEF Stays

(* A block that comes.                                                     *)
LEMMA StaysReceived ==
  ASSUME IInv, NEW i, Stays(i), NEW k \in Block
  PROVE  LET r == Received(i, k) IN
         /\ Stays(r) /\ r.state = i.state /\ (r.eof <=> Whole(r))
<1> DEFINE r == Received(i, k)
<1>1. /\ InOK(r)
      /\ r.state = i.state /\ r.status = i.status /\ r.reg = i.reg /\ r.due = i.due
      /\ Whole(i) => Whole(r)
      /\ \A acks : Kept(i, acks) => Kept(r, acks)
  BY InReceived DEF Stays
<1> HIDE DEF r
<1>2. Tales(r, inTold, "in", sessions)
  BY <1>1, TalesMoved DEF Stays
<1>3. r.eof <=> Whole(r)
  BY <1>1, FileLength
<1>4. Stays(r)
  BY <1>1, <1>2 DEF Stays
<1> QED  BY <1>1, <1>3, <1>4 DEF r

LEMMA OnBlockStep ==
  ASSUME IInv, NEW i, Stays(i), i.state # "CLOSED", "in" \in sessions, NEW k \in Block,
         NEW left \in SUBSET net, OnBlock(i, k, left), UNCHANGED <<out, outTold, sessions, renewed>>
  PROVE  IInv'
<1> DEFINE r == Received(i, k)
           opened == [r EXCEPT !.state = "RECEIVING"]
<1>1. /\ Stays(r) /\ r.state = i.state /\ (r.eof <=> Whole(r))
  BY StaysReceived
<1>2. \/ i.state = "DOWNTIME" /\ ResendAck(opened, left) /\ UNCHANGED inTold
      \/ i.state = "RECEIVING" /\ ResendAck(r, left) /\ UNCHANGED inTold
      \/ /\ i.state = "RECEIVING" /\ r.eof
         /\ ReceiveDone(r) /\ Sends(left, {Ack(TRUE, r.toAck, FALSE)})
      \/ i.state = "COMPLETION" /\ in' = r /\ Sends(left, {}) /\ UNCHANGED inTold
  <2>1. i.state \in {"DOWNTIME", "RECEIVING", "COMPLETION"}
    BY DEF Stays, InOK, InRecord
  <2> QED  BY <2>1 DEF OnBlock
<1> HIDE DEF r
<1>3. CASE i.state = "DOWNTIME" /\ ResendAck(opened, left) /\ UNCHANGED inTold
  <2>1. r \in InRecord
    BY <1>1 DEF Stays, InOK
  <2>2. /\ opened \in InRecord /\ opened.state = "RECEIVING" /\ opened.status = r.status /\ opened.reg = r.reg
        /\ opened.due = r.due /\ opened.file = r.file /\ opened.eof = r.eof /\ opened.blocks = r.blocks
        /\ opened.toAck = r.toAck
    BY <2>1 DEF InRecord
  <2> HIDE DEF opened
  <2>3. Going(r) /\ Going(opened)
    BY <1>1, <1>3, <2>2 DEF Going
  <2>4. InOK(opened) /\ (Whole(r) => Whole(opened))
    BY <1>1, <2>2 DEF InOK, Stays, Whole
  <2>5. Tales(opened, inTold, "in", sessions)
    BY <1>1, <2>2, <2>3, TalesMoved DEF Stays
  <2>6. ~ renewed => Kept(opened, Acked(out, net))
    BY <1>1, <2>2, <2>3 DEF Stays, Kept, Whole
  <2>7. Stays(opened)
    BY <1>1, <2>2, <2>4, <2>5, <2>6 DEF Stays
  <2> QED  BY <1>3, <2>3, <2>7, ResendAckStep DEF Quiet
<1>4. CASE i.state = "RECEIVING" /\ ResendAck(r, left) /\ UNCHANGED inTold
  <2>1. Going(r)
    BY <1>1, <1>4 DEF Going
  <2> QED  BY <1>1, <1>4, <2>1, ResendAckStep DEF Quiet
<1>5. CASE /\ i.state = "RECEIVING" /\ r.eof
           /\ ReceiveDone(r) /\ Sends(left, {Ack(TRUE, r.toAck, FALSE)})
  <2>1. Going(r) /\ r.toAck \in SUBSET Block /\ left \in SUBSET Datagram /\ TRUE \in BOOLEAN /\ FALSE \in BOOLEAN
    BY <1>1, <1>5, InSide DEF Going, Stays, InOK, InRecord
  <2>2. net' \subseteq Datagram /\ \A d \in net' : d.kind = "ack" => d \in net \/ d.acks \subseteq r.toAck
    <3> DEFINE acks == r.toAck
    <3>1. acks \in SUBSET Block /\ Sends(left, {Ack(TRUE, acks, FALSE)})
      BY <1>5, <2>1
    <3> HIDE DEF acks
    <3>2. net' \subseteq Datagram /\ \A d \in net' : d.kind = "ack" => d \in left \/ d.acks = acks
      BY <2>1, <3>1, AckIsSent
    <3> QED  BY <3>2 DEF acks
  <2>3. in' = [Judged(r, "finished") EXCEPT !.toAck = {}] /\ inTold' = Tell(r, inTold, "finished")
    BY <1>5 DEF ReceiveDone
  <2>4. "finished" \in Ended /\ "finished" # "failed"
    BY DEF Ended
  <2> QED  BY <1>1, <1>5, <2>1, <2>2, <2>3, <2>4, EndedStep
<1>6. CASE i.state = "COMPLETION" /\ in' = r /\ Sends(left, {}) /\ UNCHANGED inTold
  <2>1. net' = left
    BY <1>6, NothingSent
  <2> QED  BY <1>1, <1>6, <2>1, SilentStep DEF Quiet
<1> QED  BY <1>2, <1>3, <1>4, <1>5, <1>6

(* Neither side changes; no ack comes into being.                          *)
LEMMA NetworkStep ==
  ASSUME IInv, net' \subseteq Datagram, \A d \in net' : d.kind = "ack" => d \in net,
         UNCHANGED <<out, in, outTold, inTold, sessions, renewed>>
  PROVE  IInv'
<1>1. Going(out') => (1..out'.pushed) \ out'.blocks \subseteq Acked(out, net)
  BY OutSide
<1>2. Tales(out', outTold', "out", sessions')
  BY OutSide, TalesElsewhere
<1> QED  BY <1>1, <1>2, OutSide, SenderStep

LEMMA StepBlock ==
  ASSUME IInv, NEW d \in net, BlockArrives(d, net \ {d})
  PROVE  IInv'
<1> DEFINE left == net \ {d}
<1>1. /\ UNCHANGED <<out, outTold, sessions, renewed>> /\ left \in SUBSET Datagram /\ left \in SUBSET net
      /\ d.kind = "data" /\ d \in Datagram
  BY InSide DEF BlockArrives
<1>2. d.block \in Block
  BY <1>1 DEF Datagram, Data, ZeroAck
<1>3. \/ Sends(left, {}) /\ UNCHANGED <<in, inTold>>
      \/ "in" \in sessions /\ in.state = "NONE" /\ OnBlock(NewIn, d.block, left)
      \/ Refused(left)
      \/ "in" \in sessions /\ in.state \notin {"NONE", "CLOSED"} /\ OnBlock(in, d.block, left)
  BY DEF BlockArrives, NoStream
<1> HIDE DEF left
<1>4. CASE Sends(left, {}) /\ UNCHANGED <<in, inTold>>
  BY <1>1, <1>4, NothingSent, NetworkStep
<1>5. CASE "in" \in sessions /\ in.state = "NONE" /\ OnBlock(NewIn, d.block, left)
  <2>1. NewIn.state # "CLOSED"
    BY DEF NewIn
  <2> QED  BY <1>1, <1>2, <1>5, <2>1, StaysNew, OnBlockStep
<1>6. CASE Refused(left)
  <2>1. UNCHANGED <<in, inTold>> /\ Sends(left, {ZeroAck})
    BY <1>6 DEF Refused
  <2>2. net' \subseteq Datagram /\ \A e \in net' : e.kind = "ack" => e \in left
    BY <1>1, <2>1, ZeroSent
  <2> QED  BY <1>1, <2>1, <2>2, NetworkStep
<1>7. CASE "in" \in sessions /\ in.state \notin {"NONE", "CLOSED"} /\ OnBlock(in, d.block, left)
  BY <1>1, <1>2, <1>7, StaysInSide, OnBlockStep
<1> QED  BY <1>3, <1>4, <1>5, <1>6, <1>7

LEMMA StepSendAcks ==
  ASSUME IInv, SendAcks
  PROVE  IInv'
<1>1. /\ Going(in) /\ in.state # "NONE" /\ AckSent(in, net, FALSE)
      /\ UNCHANGED <<out, outTold, inTold, sessions, renewed>> /\ FALSE \in BOOLEAN
  BY DEF SendAcks, Going
<1> QED  BY <1>1, StaysInSide, AckedStep DEF Quiet

LEMMA StepInTimeout ==
  ASSUME IInv, InTimeout
  PROVE  IInv'
<1>1. /\ Going(in) /\ in.state # "NONE" /\ UNCHANGED <<out, outTold, sessions, renewed, net>>
      /\ in' = [Judged(in, "failed") EXCEPT !.toAck = {}] /\ inTold' = Tell(in, inTold, "failed")
      /\ "failed" \in Ended /\ "failed" # "finished"
  BY DEF InTimeout, Going, Ended
<1>2. net \subseteq Datagram
  BY InSide
<1> QED  BY <1>1, <1>2, StaysInSide, EndedStep

LEMMA StepInClose ==
  ASSUME IInv, InClose
  PROVE  IInv'
<1>1. UNCHANGED <<out, outTold, inTold, sessions, renewed, net>> /\ "close" \in in.due
  BY DEF InClose
<1>2. /\ in' \in InRecord /\ in'.state = "CLOSED" /\ in'.status = in.status /\ in'.reg = in.reg
      /\ in'.due = in.due \ {"close"} /\ in'.file = in.file /\ in'.eof = in.eof
  <2> DEFINE c == Closed(in)
  <2>1. in' = [c EXCEPT !.toAck = {}, !.acked = FALSE]
    BY DEF InClose
  <2>2. /\ c \in InRecord /\ c.state = "CLOSED" /\ c.status = in.status /\ c.reg = in.reg
        /\ c.due = in.due \ {"close"} /\ c.file = in.file /\ c.eof = in.eof
    BY InSide DEF Closed, InRecord
  <2> HIDE DEF c
  <2> QED  BY <2>1, <2>2 DEF InRecord
<1>3. InOK(in') /\ ~ Going(in')
  BY <1>2, InSide DEF InOK, Going
<1>4. Tales(in', inTold', "in", sessions')
  BY <1>1, <1>2, InSide, TalesClosed
<1>5. ASSUME ~ renewed
      PROVE  Faithful(out, in', net')
  <2>1. Kept(in', Acked(out, net)) /\ (Whole(in) => Whole(in'))
    BY <1>2, <1>3, <1>5, InSide, KeptEnds DEF Whole
  <2> QED  BY <1>1, <1>2, <1>5, <2>1, InSide DEF Faithful
<1> QED  BY <1>1, <1>3, <1>4, <1>5, InSide, ReceiverStep

(* The file and its blocks stay as they are, and so does where it is.      *)
LEMMA SameFileStep ==
  ASSUME IInv, in' \in InRecord, in'.file = in.file, in'.blocks = in.blocks, in'.toAck = in.toAck,
         in'.eof = in.eof, in'.state = in.state, in'.state = "NONE" => in' = in,
         in'.status = "finished" => in.status = "finished",
         Tales(in', inTold', "in", sessions'),
         UNCHANGED <<out, outTold, renewed, net>>,
         sessions' = sessions \/ sessions' = sessions \ {"in"}
  PROVE  IInv'
<1>1. InOK(in')
  BY InSide DEF InOK
<1>2. ASSUME ~ renewed
      PROVE  Faithful(out, in', net')
  <2>1. Kept(in', Acked(out, net)) /\ (Whole(in) => Whole(in'))
    BY <1>2, InSide DEF Kept, Going, Whole
  <2> QED  BY <1>2, <2>1, InSide DEF Faithful
<1> QED  BY <1>1, <1>2, InSide, ReceiverStep

LEMMA StepInRegistered ==
  ASSUME IInv, InRegistered
  PROVE  IInv'
<1>1. UNCHANGED <<out, outTold, sessions, renewed, net>> /\ in.reg = "asked" /\ in.state # "NONE"
  BY DEF InRegistered
<1>2. /\ in' \in InRecord /\ in'.state = in.state /\ in'.status = in.status
      /\ in'.file = in.file /\ in'.blocks = in.blocks /\ in'.toAck = in.toAck /\ in'.eof = in.eof
      /\ in.state = "CLOSED" => in'.reg = "late" /\ in'.due = in.due
  <2>1. CASE in.state = "CLOSED"
    <3>1. in' = [in EXCEPT !.reg = "late"]
      BY <2>1 DEF InRegistered
    <3> QED  BY <3>1, InSide DEF InRecord, Registration
  <2>2. CASE in.state # "CLOSED"
    <3> DEFINE due == IF in.status = "none" THEN in.due ELSE in.due \cup {"close"}
    <3>1. PICK answer \in Answer : in' = [in EXCEPT !.reg = answer, !.due = due]
      BY <2>2, InSide DEF InRegistered, Answered, InRecord
    <3>2. due \in SUBSET {"close"}
      BY InSide DEF InRecord
    <3> HIDE DEF due
    <3> QED  BY <2>2, <3>1, <3>2, InSide DEF InRecord, Registration
  <2> QED  BY <2>1, <2>2
<1>3. Tales(in', inTold', "in", sessions)
  <2>1. CASE in.state = "CLOSED"
    <3>1. UNCHANGED inTold
      BY <2>1 DEF InRegistered
    <3> QED  BY <1>1, <1>2, <2>1, <3>1, InSide, TalesLate
  <2>2. CASE in.state # "CLOSED"
    <3>1. PICK answer \in Answer :
          /\ in' = Answered(in, answer)
          /\ inTold' = IF in'.status = "none" THEN inTold ELSE Tell(in', inTold, in'.status)
      BY <2>2 DEF InRegistered
    <3> QED  BY <1>1, <2>2, <3>1, InSide, TalesAnswered
  <2> QED  BY <2>1, <2>2
<1> QED  BY <1>1, <1>2, <1>3, SameFileStep

LEMMA StepInSessionCloses ==
  ASSUME IInv, InSessionCloses
  PROVE  IInv'
<1>1. /\ UNCHANGED <<out, outTold, renewed, net>>
      /\ sessions' = sessions \ {"in"} /\ in' = Abandoned(in)
      /\ inTold' = IF in.state \in {"NONE", "CLOSED"} THEN inTold ELSE Tell(in, inTold, "failed")
  BY DEF InSessionCloses
<1>2. /\ in' \in InRecord /\ in'.state = in.state /\ (in'.state = "NONE" => in' = in)
      /\ in'.status = "failed" \/ in'.status = in.status
      /\ in'.file = in.file /\ in'.blocks = in.blocks /\ in'.toAck = in.toAck /\ in'.eof = in.eof
  BY <1>1, InSide DEF Abandoned, InRecord, Ended
<1>3. Tales(in', inTold', "in", sessions')
  <2>1. "in" \notin sessions'
    BY <1>1
  <2> QED  BY <1>1, <2>1, InSide, TalesAbandoned
<1> QED  BY <1>1, <1>2, <1>3, SameFileStep

LEMMA NoInOK == InOK(NoIn) /\ \A ss : Tales(NoIn, <<>>, "in", ss)
<1>1. /\ NoIn.state = "NONE" /\ NoIn.status = "none" /\ NoIn.reg = "asked" /\ NoIn.due = {}
      /\ NoIn.file = <<>> /\ NoIn.eof = FALSE
  BY DEF NewIn, NoIn
<1>2. <<>> \in Seq(Block) /\ Len(<<>>) = 0 /\ <<>> = [n \in 1..0 |-> n] /\ <<>> \in Seq(Ended)
  BY EmptySeq
<1>3. NoIn \in InRecord
  BY <1>2 DEF NewIn, NoIn, InRecord, Registration
<1>4. Len(NoIn.file) = 0 /\ NoIn.file = [n \in 1..Len(NoIn.file) |-> n]
  BY <1>1, <1>2
<1>5. Len(NoIn.file) <= Size /\ (Len(NoIn.file) = Size) = FALSE
  BY <1>4, SizeAssumption
<1>6. InOK(NoIn)
  BY <1>1, <1>3, <1>4, <1>5 DEF InOK
<1>7. \A ss : Tales(NoIn, <<>>, "in", ss)
  BY <1>1, <1>2 DEF Tales
<1> QED  BY <1>6, <1>7

LEMMA StepAnew ==
  ASSUME IInv, InSessionOpens \/ InRestarts
  PROVE  IInv'
<1>1. /\ sessions' = sessions \cup {"in"} /\ in' = NoIn /\ inTold' = <<>> /\ renewed' = TRUE
      /\ UNCHANGED <<out, outTold, net>>
  BY DEF InSessionOpens, InRestarts, Anew
<1> QED  BY <1>1, InSide, NoInOK, ReceiverStep

-----------------------------------------------------------------------------
(* The steps of the network.                                               *)

LEMMA StepNetwork ==
  ASSUME IInv, Lose \/ Repeat \/ Cut \/ Heal
  PROVE  IInv'
<1>1. UNCHANGED <<out, in, outTold, inTold, sessions, renewed>>
  BY DEF Lose, Repeat, Cut, Heal
<1>2. net' \subseteq Datagram /\ \A d \in net' : d.kind = "ack" => d \in net
  <2>1. CASE net' \subseteq net
    BY <2>1, InSide
  <2>2. CASE \E k \in 1..out.pushed : net' = net \cup Data({k})
    <3>1. PICK k \in 1..out.pushed : net' = net \cup Data({k})
      BY <2>2
    <3>2. k \in Block
      BY OutSide, OutFinite, SizeAssumption DEF Block
    <3>3. Data({k}) \subseteq Datagram /\ \A d \in Data({k}) : d.kind = "data"
      BY <3>2 DEF Data, Datagram
    <3> QED  BY <3>1, <3>3, InSide
  <2> QED  BY <2>1, <2>2 DEF Lose, Repeat, Cut, Heal
<1> QED  BY <1>1, <1>2, NetworkStep

-----------------------------------------------------------------------------
LEMMA InitInv ==
  ASSUME Init
  PROVE  IInv
<1>1. /\ out \in OutRecord /\ out.state = "DOWNTIME" /\ out.pushed = 0 /\ out.blocks = {} /\ out.fresh = {}
      /\ out.delivered = 0 /\ out.status = "none" /\ out.reg = "asked" /\ out.due = {}
  BY SizeAssumption DEF Init, OutRecord, Registration
<1>2. OutOK(out)
  BY <1>1, FS_EmptySet, SizeAssumption DEF OutOK
<1>3. Tales(out, outTold, "out", sessions)
  BY <1>1, EmptySeq DEF Init, Tales
<1>4. InOK(in) /\ Tales(in, inTold, "in", sessions)
  BY NoInOK DEF Init
<1>5. Faithful(out, in, net)
  <2>1. Acked(out, net) \subseteq {}
    <3> DEFINE none == {}
    <3>1. \A d \in net : d.kind = "ack" => d.acks \subseteq none
      BY DEF Init
    <3>2. (1..out.pushed) \ out.blocks \subseteq none
      BY <1>1
    <3> HIDE DEF none
    <3>3. Acked(out, net) \subseteq none
      BY <3>1, <3>2, AckedOnly
    <3> QED  BY <3>3 DEF none
  <2>2. in.state = "NONE" /\ in.status = "none" /\ in.toAck = {} /\ in.blocks = {}
    BY DEF Init, NoIn, NewIn
  <2> QED  BY <1>1, <2>1, <2>2 DEF Faithful, Kept, Going
<1> QED  BY <1>2, <1>3, <1>4, <1>5 DEF Init, IInv

LEMMA StepInv ==
  ASSUME IInv, [Next]_vars
  PROVE  IInv'
<1>1. CASE ProcessFile
  BY <1>1, StepProcessFile
<1>2. CASE Iterate
  BY <1>2, StepIterate
<1>3. CASE Resume
  BY <1>3, StepResume
<1>4. CASE OutTimeout
  BY <1>4, StepOutTimeout
<1>5. CASE OutClose
  BY <1>5, StepOutClose
<1>6. CASE OutRegistered
  BY <1>6, StepOutRegistered
<1>7. CASE Cancel
  BY <1>7, StepCancel
<1>8. CASE OutSessionCloses
  BY <1>8, StepOutSessionCloses
<1>9. CASE SendAcks
  BY <1>9, StepSendAcks
<1>10. CASE InTimeout
  BY <1>10, StepInTimeout
<1>11. CASE InClose
  BY <1>11, StepInClose
<1>12. CASE InRegistered
  BY <1>12, StepInRegistered
<1>13. CASE InSessionCloses
  BY <1>13, StepInSessionCloses
<1>14. CASE InSessionOpens \/ InRestarts
  BY <1>14, StepAnew
<1>15. CASE Deliver
  <2>1. PICK d \in net : Arrives(d, net \ {d})
    BY <1>15 DEF Deliver
  <2>2. CASE BlockArrives(d, net \ {d})
    BY <2>2, StepBlock
  <2>3. CASE AckArrives(d, net \ {d})
    BY <2>3, StepAck
  <2> QED  BY <2>1, <2>2, <2>3 DEF Arrives
<1>16. CASE Lose \/ Repeat \/ Cut \/ Heal
  BY <1>16, StepNetwork
<1>17. CASE UNCHANGED vars
  BY <1>17, OutSide, NetworkStep DEF vars
<1> QED  BY <1>1, <1>2, <1>3, <1>4, <1>5, <1>6, <1>7, <1>8, <1>9, <1>10, <1>11, <1>12, <1>13, <1>14,
            <1>15, <1>16, <1>17 DEF Next

LEMMA Invariant == Spec => []IInv
<1>1. Init => IInv
  BY InitInv
<1>2. IInv /\ [Next]_vars => IInv'
  BY StepInv
<1> QED  BY <1>1, <1>2, PTL DEF Spec

LEMMA InvTypes ==
  ASSUME IInv
  PROVE  TypeOK
<1>1. in.file \in BoundedSeq(Block, Size)
  <2>1. Len(in.file) \in 0..Size /\ in.file \in Seq(Block)
    BY InSide, FileLength DEF InOK, InRecord
  <2>2. in.file \in [1..Len(in.file) -> Block]
    BY <2>1, LenProperties
  <2>3. [1..Len(in.file) -> Block] \in {[1..m -> Block] : m \in 0..Size}
    BY <2>1
  <2> QED  BY <2>2, <2>3 DEF BoundedSeq, SeqOf
<1>2. Working => Going(out)
  BY DEF Working, Going
<1>3. in.eof = (Len(in.file) = Size)
  BY InSide DEF InOK
<1> QED  BY <1>1, <1>2, <1>3, OutSide, InSide DEF TypeOK, OutOK, OutRecord, InOK, InRecord

LEMMA InvVerdicts ==
  ASSUME IInv
  PROVE  Verdicts
<1>1. "finished" \in {out.status, in.status} /\ ~ renewed => in.file = [k \in Block |-> k]
  BY DEF IInv, Faithful, Whole
<1> QED  BY <1>1, OutSide, InSide DEF Tales, Verdicts

(* The type invariant: the buffer of the sender never holds more than its  *)
(* size and accounts for each block that was read, and the file of the     *)
(* receiver is at its end exactly when it has as many blocks as were sent. *)
THEOREM StreamTypes == Spec => []TypeOK
<1>1. IInv => TypeOK
  BY InvTypes
<1> QED  BY <1>1, Invariant, PTL

(* Either side says 'finished' only of a file which the receiver has, and  *)
(* each gateway is told one verdict before its stream is gone.             *)
THEOREM StreamVerdicts == Spec => []Verdicts
<1>1. IInv => Verdicts
  BY InvVerdicts
<1> QED  BY <1>1, Invariant, PTL
=============================================================================
