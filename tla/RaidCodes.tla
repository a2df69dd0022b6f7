------------------------------ MODULE RaidCodes ------------------------------
(***************************************************************************)
(* raid/: what can be rebuilt from what.  A block is stored as one data    *)
(* and one parity piece for each supplier; the parity piece of number p is *)
(* the exclusive or of the data pieces ParityToData[p].  Here a list of    *)
(* 0 and 1 of the code is the set of the numbers that have a 1, and a file *)
(* is there or not.                                                        *)
(***************************************************************************)
EXTENDS Integers, FiniteSets

CONSTANT ParityToData

Number == DOMAIN ParityToData

ASSUME CodeAssumption ==
  /\ IsFiniteSet(Number) /\ Number = 0..Cardinality(Number) - 1
  /\ \A p \in Number : ParityToData[p] \subseteq Number /\ ParityToData[p] # {}

(* Two of the maps of eccmap.__eccmaps.                                    *)
Ecc2 == [p \in 0..1 |-> IF p = 0 THEN {1} ELSE {0}]
Ecc4 == [p \in 0..3 |-> CASE p = 0 -> {1, 2, 3} [] p = 1 -> {0, 2}
                          [] p = 2 -> {0, 3} [] p = 3 -> {0, 1}]

Total == Cardinality(Number)

(* A parity piece of which exactly one data piece is not there.            *)
Lacks(p, data) == ParityToData[p] \ data
LacksOne(p, data) == Cardinality(Lacks(p, data)) = 1

(* One round of a loop over the parity pieces 0, 1, ... that are there:    *)
(* each rebuilds the only data piece it lacks.                             *)
Round(data, parity) ==
  LET after[k \in 0..Total] ==
        IF k = 0 THEN data
        ELSE LET had == after[k - 1]
             IN  IF k - 1 \in parity /\ LacksOne(k - 1, had)
                 THEN had \cup Lacks(k - 1, had) ELSE had
  IN  after[Total]

(* Rounds are made until one makes no progress: never more than Total.     *)
Rounds(data, parity) ==
  LET after[k \in 0..Total] == IF k = 0 THEN data ELSE Round(after[k - 1], parity)
  IN  after[Total]

Fixable(data, parity) == Rounds(data, parity) = Number

CanMakeProgress(data, parity) ==
  \E p \in Number : IF p \in parity THEN LacksOne(p, data) ELSE Lacks(p, data) = {}

(* The shortest parity piece that lacks only data piece d, the first one   *)
(* of that length; -1 if there is none.                                    *)
GetDataFixPath(data, parity, d) ==
  LET paths == {p \in parity : Lacks(p, data) = {d}}
      Size(p) == Cardinality(ParityToData[p])
  IN  IF paths = {} THEN -1
      ELSE CHOOSE p \in paths :
              \A q \in paths : Size(p) < Size(q) \/ (Size(p) = Size(q) /\ p <= q)

(* One pass over the data pieces, in their order: those on hand after it,  *)
(* and those among them whose file was written.  A data piece is on hand   *)
(* when it could be rebuilt, or when its file was there although the       *)
(* matrix did not say so.                                                  *)
DataPass(start, parity, dataFiles) ==
  LET after[k \in 0..Total] ==
        IF k = 0 THEN start
        ELSE LET had == after[k - 1]
                 path == GetDataFixPath(had.data, parity, k - 1) # -1
             IN  IF k - 1 \in had.data \/ ~ (path \/ k - 1 \in dataFiles) THEN had
                 ELSE [data |-> had.data \cup {k - 1},
                       made |-> IF path THEN had.made \cup {k - 1} ELSE had.made]
  IN  after[Total]

(* Passes are made until one finds nothing: never more than Total.         *)
DataPasses(data, parity, dataFiles) ==
  LET after[k \in 0..Total] == IF k = 0 THEN [data |-> data, made |-> {}]
                               ELSE DataPass(after[k - 1], parity, dataFiles)
  IN  after[Total]

(* rebuild(): the pieces on hand after it, the data and parity files it    *)
(* wrote, and whether an online supplier lacks one of the pieces on hand   *)
(* (newData; reconstructedData and reconstructedParity say which).         *)
Rebuild(active, remote, local, dataFiles) ==
  LET found == DataPasses(local.D, local.P, dataFiles)
      parity == local.P \cup {p \in Number : Lacks(p, found.data) = {}}
  IN  [done |-> TRUE, D |-> found.data, P |-> parity,
       madeD |-> found.made, madeP |-> parity \ local.P,
       newD |-> found.data \cap (active \ remote.D),
       newP |-> parity \cap (active \ remote.P)]

(* raidread(): the data files there are after it, for these files.         *)
RaidRead(dataFiles, parityFiles) == Rounds(dataFiles, parityFiles)

-----------------------------------------------------------------------------
(* What all of them should amount to: the least set of data pieces that is *)
(* closed under "a parity piece on hand which lacks one data piece gives   *)
(* that piece", whatever the order in which pieces are tried.              *)
Closed(data, parity) == \A p \in parity : ~ LacksOne(p, data)

Recoverable(data, parity) ==
  {d \in Number : \A S \in SUBSET Number : data \subseteq S /\ Closed(S, parity) => d \in S}

(* rebuild(), which goes through the data pieces and prefers short parity  *)
(* pieces, and the loops of raidread() and Fixable(), which go through the *)
(* parity pieces, find the same pieces, and no more could be found: what a *)
(* restore takes to be fixable is what it then can read.                   *)
SameAnswers ==
  \A data, parity \in SUBSET Number :
     /\ Rounds(data, parity) = Recoverable(data, parity)
     /\ DataPasses(data, parity, {}).data = Recoverable(data, parity)
=============================================================================
