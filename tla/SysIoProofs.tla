---------------------------- MODULE SysIoProofs ----------------------------
(***************************************************************************)
(* Proofs about the library of the I/O servers, sys/io/io.c: the ring of   *)
(* lifecycle events (module LcQueue) for a ring of any size, any tags and  *)
(* any number of events, and the descriptors (module IoFd) for any         *)
(* processes, files, ids and numbers of generations and queued events.     *)
(*                                                                         *)
(* LcIntact says nothing of how many events are under way, nor of what the *)
(* two threads know about lce_ctrl between their accesses to it.  LcInv    *)
(* adds both: every event is counted as released, in the ring or in the    *)
(* producer's hands, and while nothing is lost the producer's write        *)
(* position and the consumer's first position are still those of lce_ctrl, *)
(* because each of the two positions has only one writer.                  *)
(*                                                                         *)
(* IoFdBooks does not say which copy an indirection leads to, that a copy  *)
(* is never under transfer, nor that a handler deferred to the next        *)
(* operation and a dup() between its halves have what they need.  Sane and *)
(* IoFdInv add this.  An operation applies all queued events at once by a  *)
(* recursive function; SyncStaysIn is the induction over it.               *)
(***************************************************************************)
EXTENDS LcQueue, IoFd, Integers, FiniteSetTheorems, WellFoundedInduction, TLAPS

(* How many slots lie between a read and a write position.                 *)
Dist(rd, wr) == Succ(wr, NumLcEvents - rd)

(* How far the threads have come in their own work.                        *)
Progress ==
  /\ Len(sent) <= MaxEvents
  /\ ppc \in {"mark", "fill", "cas"} => Len(sent) >= 1
  /\ cpc = "apply" => i < count
  /\ cpc = "cas" => i = count
  /\ cpc \in {"idle", "aborted"} => i = 0 /\ count = 0

(* Events whose slots were given back.                                     *)
Released == Len(applied) - i

(* The event that the producer was called for and has not published.       *)
InHands == IF ppc \in {"mark", "fill", "cas"} THEN 1 ELSE 0

(* Every event is released, in the ring or in the producer's hands.        *)
AllCounted == Released + Dist(ctrl.rd, ctrl.wr) + InHands = Len(sent)

NoOverflow == ctrl.overflow = 0 /\ cpc # "aborted"

(* The producer has a free slot, at the write position, and has filled it  *)
(* when it comes to publish it.                                            *)
ProducerKnows ==
  /\ ppc \in {"fill", "cas"} =>
       wrpos = ctrl.wr /\ Dist(ctrl.rd, ctrl.wr) + 2 <= NumLcEvents
  /\ ppc = "cas" => slot[wrpos] = Len(sent)

(* The consumer works on published events, from the read position on.      *)
ConsumerKnows ==
  cpc \in {"apply", "cas"} =>
    first = ctrl.rd /\ count <= Dist(ctrl.rd, ctrl.wr)

RingHolds ==
  \A k \in Positions :
    k < Dist(ctrl.rd, ctrl.wr) => slot[Succ(ctrl.rd, k)] = Released + k + 1

LcInv ==
  /\ LcTypeOK
  /\ Progress
  /\ AppliedInOrder
  /\ lost = {} => /\ NoOverflow /\ AllCounted /\ RingHolds
                  /\ ProducerKnows /\ ConsumerKnows

-----------------------------------------------------------------------------
(* A position plus at most one turn around the ring.                       *)
LEMMA SuccCases ==
  ASSUME NEW p \in Positions, NEW k \in 0..NumLcEvents
  PROVE  /\ Succ(p, k) \in Positions
         /\ Succ(p, k) = IF p + k < NumLcEvents THEN p + k
                         ELSE p + k - NumLcEvents
<1>1. /\ NumLcEvents \in Nat /\ NumLcEvents > 1
      /\ p \in Nat /\ k \in Nat /\ p < NumLcEvents /\ k <= NumLcEvents
  BY LcAssumption DEF Positions
<1>2. CASE p + k < NumLcEvents
  <2>1. (p + k) % NumLcEvents = p + k
    BY <1>1, <1>2
  <2> QED
    BY <1>1, <1>2, <2>1 DEF Succ, Positions
<1>3. CASE p + k >= NumLcEvents
  <2>1. (p + k) % NumLcEvents = p + k - NumLcEvents
    BY <1>1, <1>3
  <2> QED
    BY <1>1, <1>3, <2>1 DEF Succ, Positions
<1> QED
  BY <1>1, <1>2, <1>3

LEMMA DistCases ==
  ASSUME NEW rd \in Positions, NEW wr \in Positions
  PROVE  /\ Dist(rd, wr) \in Positions
         /\ Dist(rd, wr) = IF rd <= wr THEN wr - rd
                           ELSE wr + NumLcEvents - rd
<1>1. NumLcEvents - rd \in 0..NumLcEvents
  BY LcAssumption DEF Positions
<1>2. /\ Succ(wr, NumLcEvents - rd) \in Positions
      /\ Succ(wr, NumLcEvents - rd) =
           IF wr + (NumLcEvents - rd) < NumLcEvents THEN wr + (NumLcEvents - rd)
           ELSE wr + (NumLcEvents - rd) - NumLcEvents
  BY <1>1, SuccCases
<1>3. NumLcEvents \in Nat /\ rd \in Nat /\ wr \in Nat
  BY LcAssumption DEF Positions
<1> QED
  BY <1>2, <1>3 DEF Dist

(* Walking from the read position, the ring's slots differ from each other *)
(* and the write position is the first free one.                           *)
LEMMA RingWalk ==
  ASSUME NEW rd \in Positions, NEW wr \in Positions
  PROVE  /\ Succ(rd, Dist(rd, wr)) = wr
         /\ \A k \in Positions : k < Dist(rd, wr) => Succ(rd, k) # wr
<1>1. /\ rd \in Nat /\ wr \in Nat /\ rd < NumLcEvents /\ wr < NumLcEvents
      /\ NumLcEvents \in Nat /\ Positions \subseteq 0..NumLcEvents
      /\ \A k \in Positions : k \in Nat
  BY LcAssumption DEF Positions
<1> DEFINE d == Dist(rd, wr)
<1>a. d \in Positions /\ d = IF rd <= wr THEN wr - rd ELSE wr + NumLcEvents - rd
  BY DistCases
<1> HIDE DEF d
<1>b. ASSUME NEW k \in Positions
      PROVE  Succ(rd, k) = IF rd + k < NumLcEvents THEN rd + k
                           ELSE rd + k - NumLcEvents
  BY <1>1, SuccCases
<1>2. Succ(rd, d) = wr
  BY <1>1, <1>a, <1>b
<1>3. ASSUME NEW k \in Positions, k < d PROVE Succ(rd, k) # wr
  BY <1>1, <1>3, <1>a, <1>b
<1> QED
  BY <1>2, <1>3 DEF d

(* Publishing one event when the ring is not full.                         *)
LEMMA RingGrows ==
  ASSUME NEW rd \in Positions, NEW wr \in Positions
  PROVE  /\ rd = Succ(wr, 1) <=> Dist(rd, wr) + 1 = NumLcEvents
         /\ Dist(rd, wr) + 2 <= NumLcEvents
              => Dist(rd, Succ(wr, 1)) = Dist(rd, wr) + 1
<1>1. /\ rd \in Nat /\ wr \in Nat /\ rd < NumLcEvents /\ wr < NumLcEvents
      /\ NumLcEvents \in Nat /\ NumLcEvents > 1 /\ 1 \in 0..NumLcEvents
  BY LcAssumption DEF Positions
<1>2. /\ Succ(wr, 1) \in Positions /\ Succ(wr, 1) \in Nat
      /\ Succ(wr, 1) = IF wr + 1 < NumLcEvents THEN wr + 1
                       ELSE wr + 1 - NumLcEvents
  BY <1>1, SuccCases DEF Positions
<1> QED
  BY <1>1, <1>2, DistCases

(* Releasing the first n events of a ring.                                 *)
LEMMA RingShrinks ==
  ASSUME NEW rd \in Positions, NEW wr \in Positions, NEW n \in Nat,
         n <= Dist(rd, wr)
  PROVE  /\ Succ(rd, n) \in Positions
         /\ Dist(Succ(rd, n), wr) = Dist(rd, wr) - n
         /\ \A k \in Positions : k < Dist(rd, wr) - n =>
              /\ k + n \in Positions
              /\ Succ(Succ(rd, n), k) = Succ(rd, k + n)
<1>1. /\ rd \in Nat /\ wr \in Nat /\ rd < NumLcEvents /\ wr < NumLcEvents
      /\ NumLcEvents \in Nat
  BY LcAssumption DEF Positions
<1>a. /\ Dist(rd, wr) \in Positions
      /\ Dist(rd, wr) = IF rd <= wr THEN wr - rd ELSE wr + NumLcEvents - rd
  BY DistCases
<1>b. Dist(rd, wr) \in Nat /\ Dist(rd, wr) < NumLcEvents
  BY <1>1, <1>a DEF Positions
<1>c. n \in 0..NumLcEvents
  BY <1>1, <1>b
<1>2. /\ Succ(rd, n) \in Positions
      /\ Succ(rd, n) = IF rd + n < NumLcEvents THEN rd + n
                       ELSE rd + n - NumLcEvents
  BY <1>c, SuccCases
<1>3. Dist(Succ(rd, n), wr) = Dist(rd, wr) - n
  <2>1. Dist(Succ(rd, n), wr) = IF Succ(rd, n) <= wr THEN wr - Succ(rd, n)
                                ELSE wr + NumLcEvents - Succ(rd, n)
    BY <1>2, DistCases
  <2> QED
    BY <1>1, <1>2, <1>a, <2>1
<1>4. ASSUME NEW k \in Positions, k < Dist(rd, wr) - n
      PROVE  k + n \in Positions /\ Succ(Succ(rd, n), k) = Succ(rd, k + n)
  <2>1. /\ k \in Nat /\ k + n \in Positions
        /\ k \in 0..NumLcEvents /\ k + n \in 0..NumLcEvents
    BY <1>1, <1>4, <1>b DEF Positions
  <2>2. Succ(rd, k + n) = IF rd + (k + n) < NumLcEvents THEN rd + (k + n)
                          ELSE rd + (k + n) - NumLcEvents
    BY <2>1, SuccCases
  <2>3. Succ(Succ(rd, n), k) = IF Succ(rd, n) + k < NumLcEvents
                               THEN Succ(rd, n) + k
                               ELSE Succ(rd, n) + k - NumLcEvents
    BY <1>2, <2>1, SuccCases
  <2> QED
    BY <1>1, <1>2, <2>1, <2>2, <2>3
<1> QED
  BY <1>2, <1>3, <1>4

(* A count goes on with its next number.                                   *)
LEMMA CountGoesOn ==
  ASSUME NEW S, NEW q \in Seq(S), q = [k \in 1..Len(q) |-> k],
         NEW e \in S, e = Len(q) + 1
  PROVE  /\ Append(q, e) \in Seq(S) /\ Len(Append(q, e)) = Len(q) + 1
         /\ Append(q, e) = [k \in 1..Len(Append(q, e)) |-> k]
OBVIOUS

-----------------------------------------------------------------------------
(* The ring starts empty, and nobody works on it.                          *)
LEMMA InitLcInv == LcInit => LcInv
<1> SUFFICES ASSUME LcInit PROVE LcInv
  OBVIOUS
<1> USE LcAssumption DEF LcInit, NoCtrl
<1>1. 0 \in Positions
  BY DEF Positions
<1>2. Dist(0, 0) = 0
  BY <1>1, DistCases
<1>3. LcTypeOK
  <2>1. NoCtrl \in Ctrl /\ 0 \in 0..MaxEvents /\ 0 \in 0..NumLcEvents - 1
    BY <1>1 DEF Ctrl
  <2>2. slot \in [Positions -> 0..MaxEvents]
    BY <2>1
  <2>3. sent \in Seq(LcTags) /\ applied \in Seq(0..MaxEvents)
    OBVIOUS
  <2>4. i \in 0..count /\ lost \subseteq Events
    OBVIOUS
  <2>5. /\ ppc \in {"idle", "mark", "fill", "cas", "poke"}
        /\ cpc \in {"idle", "apply", "cas", "aborted"}
        /\ pokepc \in {"recv", "send"} /\ poke \in BOOLEAN
    OBVIOUS
  <2>6. ctrl \in Ctrl /\ pctrl \in Ctrl /\ cctrl \in Ctrl
    BY <2>1
  <2>7. /\ wrpos \in Positions /\ first \in Positions
        /\ count \in 0..NumLcEvents - 1
    BY <1>1, <2>1
  <2> QED
    BY <2>2, <2>3, <2>4, <2>5, <2>6, <2>7 DEF LcTypeOK
<1>4. Progress /\ AppliedInOrder
  BY DEF Progress, AppliedInOrder
<1>5. NoOverflow /\ AllCounted /\ ProducerKnows /\ ConsumerKnows
  BY <1>2 DEF NoOverflow, AllCounted, Released, InHands, ProducerKnows,
              ConsumerKnows
<1>6. RingHolds
  BY <1>2 DEF RingHolds, Positions
<1> QED
  BY <1>3, <1>4, <1>5, <1>6 DEF LcInv

(***************************************************************************)
(* Every access of the two threads keeps the invariant.                    *)
(***************************************************************************)
LEMMA NextLcInv == LcInv /\ [LcNext]_lcVars => LcInv'
<1> SUFFICES ASSUME LcInv, [LcNext]_lcVars PROVE LcInv'
  OBVIOUS
<1> DEFINE d == Dist(ctrl.rd, ctrl.wr)
<1>a. /\ ctrl.rd \in Positions /\ ctrl.wr \in Positions
      /\ ctrl.overflow \in {0, 1} /\ pctrl.rd \in Positions
      /\ cctrl.wr \in Positions /\ wrpos \in Positions /\ first \in Positions
      /\ NumLcEvents \in Nat /\ NumLcEvents > 1 /\ MaxEvents \in Nat
      /\ count \in Nat /\ count < NumLcEvents /\ i \in Nat /\ i <= count
      /\ Len(sent) \in Nat /\ Len(applied) \in Nat
      /\ \A k \in Positions : k \in Nat /\ k < NumLcEvents
  BY SMTT(40), LcAssumption DEF LcInv, LcTypeOK, Ctrl, Positions
<1>b. d \in Positions /\ d \in Nat /\ d < NumLcEvents
  BY <1>a, DistCases
<1>c. LcTypeOK /\ Progress /\ AppliedInOrder
  BY DEF LcInv
<1>d. lost = {} => /\ NoOverflow /\ AllCounted /\ RingHolds
                   /\ ProducerKnows /\ ConsumerKnows
  BY DEF LcInv
<1>e. Succ(ctrl.wr, NumLcEvents - ctrl.rd) = d
  BY DEF Dist
<1>f. Released \in Int
  BY <1>a DEF Released
<1>g. /\ 0 \in Positions /\ Succ(wrpos, 1) \in Positions
      /\ Succ(first, count) \in Positions /\ NoCtrl \in Ctrl
  <2>1. 0 \in Positions /\ 1 \in 0..NumLcEvents /\ count \in 0..NumLcEvents
    BY <1>a DEF Positions
  <2> QED
    BY <1>a, <2>1, SuccCases DEF NoCtrl, Ctrl
<1> HIDE DEF d
<1>1. ASSUME NEW tag \in LcTags, HandlerLoad(tag) PROVE LcInv'
  <2>1. /\ ppc = "idle" /\ Len(sent) < MaxEvents
        /\ sent' = Append(sent, tag) /\ Len(sent') = Len(sent) + 1
        /\ sent' \in Seq(LcTags)
        /\ pctrl' = ctrl /\ wrpos' = ctrl.wr /\ poke' \in BOOLEAN
        /\ UNCHANGED <<ctrl, slot, cpc, cctrl, first, count, i, applied, pokepc>>
    BY <1>1, <1>c DEF HandlerLoad, LcTypeOK, ctrlVars, consVars
  <2>2. \/ ctrl.overflow = 1 /\ ppc' = "cas" /\ lost' = lost \cup {Len(sent')}
        \/ ctrl.overflow # 1 /\ Full(ctrl) /\ ppc' = "mark" /\ lost' = lost
        \/ ctrl.overflow # 1 /\ ~Full(ctrl) /\ ppc' = "fill" /\ lost' = lost
    BY <1>1 DEF HandlerLoad
  <2>3. LcTypeOK'
    <3>1. Len(sent') \in Events
      BY <1>a, <2>1 DEF Events
    <3>2. lost' \subseteq Events /\ ppc' \in {"mark", "fill", "cas"}
      BY <1>c, <2>2, <3>1 DEF LcTypeOK
    <3> QED
      BY <1>a, <1>c, <2>1, <3>2 DEF LcTypeOK
  <2>4. Progress' /\ AppliedInOrder'
    BY <1>a, <1>c, <2>1, <2>2 DEF Progress, AppliedInOrder
  <2>5. ASSUME lost' = {}
        PROVE  /\ NoOverflow' /\ AllCounted' /\ RingHolds'
               /\ ProducerKnows' /\ ConsumerKnows'
    <3>1. lost = {} /\ ppc' \in {"mark", "fill"} /\ (ppc' = "fill" => ~Full(ctrl))
      BY <2>2, <2>5
    <3>2. ppc' = "fill" => d + 2 <= NumLcEvents
      BY <1>a, <1>b, <3>1, RingGrows DEF Full, d
    <3>3. NoOverflow' /\ RingHolds' /\ ConsumerKnows'
      BY <1>d, <2>1, <3>1 DEF NoOverflow, RingHolds, ConsumerKnows, Released
    <3>4. AllCounted'
      <4>1. InHands = 0 /\ InHands' = 1 /\ Released' = Released
        BY <2>1, <3>1 DEF InHands, Released
      <4> QED
        BY <1>b, <1>d, <1>f, <2>1, <3>1, <4>1 DEF AllCounted, d
    <3>5. ProducerKnows'
      BY <2>1, <3>1, <3>2 DEF ProducerKnows, d
    <3> QED
      BY <3>3, <3>4, <3>5
  <2> QED
    BY <2>3, <2>4, <2>5 DEF LcInv
<1>2. CASE HandlerMark
  <2>1. lost' # {} /\ ppc = "mark" /\ ppc' = "cas" /\ poke' = TRUE
        /\ lost' = lost \cup {Len(sent)} /\ Len(sent) >= 1
    BY <1>2, <1>c DEF HandlerMark, Progress
  <2>2. LcTypeOK'
    <3>1. lost' \subseteq Events
      <4>1. Len(sent) \in Events
        BY <1>a, <1>c, <2>1 DEF Events, Progress
      <4> QED
        BY <1>c, <2>1, <4>1 DEF LcTypeOK
    <3>2. ctrl' = [ctrl EXCEPT !.overflow = 1] /\ ctrl' \in Ctrl
      BY <1>2, <1>c DEF HandlerMark, LcTypeOK, Ctrl
    <3> QED
      BY <1>2, <1>c, <2>1, <3>1, <3>2 DEF HandlerMark, LcTypeOK, consVars
  <2>3. Progress' /\ AppliedInOrder'
    BY <1>2, <1>c, <2>1 DEF HandlerMark, Progress, AppliedInOrder, consVars
  <2> QED
    BY <2>1, <2>2, <2>3 DEF LcInv
<1>3. CASE HandlerFill
  <2>1. /\ ppc = "fill" /\ ppc' = "cas" /\ Len(sent) >= 1
        /\ slot' = [slot EXCEPT ![wrpos] = Len(sent)]
        /\ UNCHANGED <<ctrl, sent, pctrl, wrpos, poke, lost, cpc, cctrl, first,
                       count, i, applied, pokepc>>
    BY <1>3, <1>c DEF HandlerFill, Progress, consVars
  <2>2. LcTypeOK'
    BY SMTT(40), <1>a, <1>c, <2>1 DEF LcTypeOK, Progress
  <2>3. Progress' /\ AppliedInOrder'
    BY <1>c, <2>1 DEF Progress, AppliedInOrder
  <2>4. slot'[wrpos] = Len(sent) /\ \A p \in Positions \ {wrpos} : slot'[p] = slot[p]
    BY <1>a, <1>c, <2>1 DEF LcTypeOK
  <2>5. ASSUME lost' = {}
        PROVE  /\ NoOverflow' /\ AllCounted' /\ RingHolds'
               /\ ProducerKnows' /\ ConsumerKnows'
    <3>1. wrpos = ctrl.wr /\ d + 2 <= NumLcEvents
      BY <1>d, <2>1, <2>5 DEF ProducerKnows, d
    <3>2. ASSUME NEW k \in Positions, k < d
          PROVE  slot'[Succ(ctrl.rd, k)] = Released + k + 1
      <4>1. Succ(ctrl.rd, k) # wrpos /\ Succ(ctrl.rd, k) \in Positions
        <5>1. k \in 0..NumLcEvents
          BY <1>a
        <5> QED
          BY <1>a, <3>1, <3>2, <5>1, RingWalk, SuccCases DEF d
      <4> QED
        BY <1>d, <2>1, <2>4, <2>5, <3>2, <4>1 DEF RingHolds, d
    <3>3. RingHolds'
      BY <2>1, <3>2 DEF RingHolds, Released, d
    <3>4. NoOverflow' /\ AllCounted' /\ ConsumerKnows'
      BY <1>d, <2>1, <2>5 DEF NoOverflow, AllCounted, Released, InHands,
                               ConsumerKnows
    <3>5. ProducerKnows'
      BY <2>1, <2>4, <3>1 DEF ProducerKnows, d
    <3> QED
      BY <3>3, <3>4, <3>5
  <2> QED
    BY <2>2, <2>3, <2>5 DEF LcInv
<1>4. CASE HandlerCas
  <2>1. /\ ppc = "cas"
        /\ UNCHANGED <<slot, sent, poke, lost, cpc, cctrl, first, count, i,
                       applied, pokepc>>
    BY <1>4 DEF HandlerCas, consVars
  <2>2. Progress' /\ AppliedInOrder'
    BY <1>4, <1>c, <2>1 DEF HandlerCas, HandlerDone, Progress, AppliedInOrder
  <2>3. CASE ctrl = pctrl
    <3>1. /\ ctrl' = [rd |-> ctrl.rd, wr |-> Succ(wrpos, 1), overflow |-> 0]
          /\ pctrl' = NoCtrl /\ wrpos' = 0 /\ ppc' \in {"poke", "idle"}
      BY <1>4, <2>3 DEF HandlerCas, HandlerDone
    <3>2. ctrl' \in Ctrl
      BY <1>a, <1>g, <3>1 DEF Ctrl
    <3>3. LcTypeOK'
      BY <1>c, <1>g, <2>1, <3>1, <3>2 DEF LcTypeOK
    <3>4. ASSUME lost' = {}
          PROVE  /\ NoOverflow' /\ AllCounted' /\ RingHolds'
                 /\ ProducerKnows' /\ ConsumerKnows'
      <4>1. /\ wrpos = ctrl.wr /\ d + 2 <= NumLcEvents
            /\ slot[ctrl.wr] = Len(sent)
            /\ Released + d + 1 = Len(sent)
        BY <1>d, <2>1, <3>4 DEF ProducerKnows, AllCounted, InHands, d
      <4>2. Dist(ctrl'.rd, ctrl'.wr) = d + 1 /\ ctrl'.rd = ctrl.rd
        BY <1>a, <3>1, <4>1, RingGrows DEF d
      <4>3. ASSUME NEW k \in Positions, k < d + 1
            PROVE  slot[Succ(ctrl.rd, k)] = Released + k + 1
        <5>1. CASE k < d
          BY <1>d, <2>1, <3>4, <5>1 DEF RingHolds, d
        <5>2. CASE k = d
          BY <1>a, <4>1, <5>2, RingWalk DEF d
        <5> QED
          BY <1>a, <1>b, <4>3, <5>1, <5>2
      <4>4. RingHolds'
        BY <2>1, <4>2, <4>3 DEF RingHolds, Released
      <4>5. AllCounted'
        <5>1. InHands' = 0 /\ Released' = Released /\ Len(sent') = Len(sent)
          BY <2>1, <3>1 DEF InHands, Released
        <5> QED
          BY <1>b, <1>f, <4>1, <4>2, <5>1 DEF AllCounted
      <4>6. NoOverflow' /\ ProducerKnows'
        BY <1>d, <2>1, <3>1, <3>4 DEF NoOverflow, ProducerKnows
      <4>7. ConsumerKnows'
        BY <1>a, <1>b, <1>d, <2>1, <3>4, <4>2 DEF ConsumerKnows, d
      <4> QED
        BY <4>4, <4>5, <4>6, <4>7
    <3> QED
      BY <2>2, <3>3, <3>4 DEF LcInv
  <2>4. CASE ctrl # pctrl /\ ctrl.overflow = 1
    <3>1. /\ pctrl' = NoCtrl /\ wrpos' = 0 /\ ppc' \in {"poke", "idle"}
          /\ ctrl' = ctrl
      BY <1>4, <2>4 DEF HandlerCas, HandlerDone
    <3>2. LcTypeOK'
      BY SMTT(40), <1>c, <2>1, <3>1, <1>a DEF LcTypeOK, Ctrl, NoCtrl, Positions
    <3>3. lost' # {}
      BY <1>d, <2>1, <2>4 DEF NoOverflow
    <3> QED
      BY <2>2, <3>2, <3>3 DEF LcInv
  <2>5. CASE ctrl # pctrl /\ ctrl.overflow # 1
    <3>1. pctrl' = ctrl /\ UNCHANGED <<ctrl, wrpos, ppc>>
      BY <1>4, <2>5 DEF HandlerCas
    <3>2. LcTypeOK'
      BY <1>c, <2>1, <3>1 DEF LcTypeOK
    <3> QED
      BY <1>d, <2>1, <2>2, <3>1, <3>2
         DEF LcInv, NoOverflow, AllCounted, Released, InHands, RingHolds,
             ProducerKnows, ConsumerKnows
  <2> QED
    BY <2>3, <2>4, <2>5
<1>5. CASE HandlerPoke
  <2>1. /\ ppc = "poke" /\ ppc' = "idle" /\ poke' = FALSE /\ pokepc' = "send"
        /\ UNCHANGED <<ctrl, slot, sent, pctrl, wrpos, lost, cpc, cctrl, first,
                       count, i, applied>>
    BY <1>5 DEF HandlerPoke, ctrlVars, consVars
  <2>2. LcTypeOK'
    BY <1>c, <2>1 DEF LcTypeOK
  <2>3. Progress' /\ AppliedInOrder'
    BY <1>c, <2>1 DEF Progress, AppliedInOrder
  <2> QED
    BY <1>d, <2>1, <2>2, <2>3
       DEF LcInv, NoOverflow, AllCounted, Released, InHands, RingHolds,
           ProducerKnows, ConsumerKnows
<1>6. ASSUME SyncLoad, pokepc' \in {"recv", "send"} PROVE LcInv'
  <2>1. /\ cpc = "idle" /\ i = 0 /\ count = 0
        /\ UNCHANGED <<ctrl, slot, sent, ppc, pctrl, wrpos, poke, lost, i, applied>>
    BY <1>6, <1>c DEF SyncLoad, Progress, ctrlVars, prodVars
  <2>2. CASE ctrl.overflow = 1
    <3>1. cpc' = "aborted" /\ UNCHANGED <<cctrl, first, count>> /\ lost' # {}
      BY <1>6, <1>d, <2>1, <2>2 DEF SyncLoad, NoOverflow
    <3>2. LcTypeOK'
      BY <1>6, <1>c, <2>1, <3>1 DEF LcTypeOK
    <3>3. Progress' /\ AppliedInOrder'
      BY <1>c, <2>1, <3>1 DEF Progress, AppliedInOrder
    <3> QED
      BY <3>1, <3>2, <3>3 DEF LcInv
  <2>3. CASE ctrl.overflow # 1 /\ ctrl.rd = ctrl.wr
    <3>1. UNCHANGED <<cpc, cctrl, first, count>>
      BY <1>6, <2>3 DEF SyncLoad
    <3>2. LcTypeOK'
      BY <1>6, <1>c, <2>1, <3>1 DEF LcTypeOK
    <3>3. Progress' /\ AppliedInOrder'
      BY <1>c, <2>1, <3>1 DEF Progress, AppliedInOrder
    <3> QED
      BY <1>d, <2>1, <3>1, <3>2, <3>3
         DEF LcInv, NoOverflow, AllCounted, Released, InHands, RingHolds,
             ProducerKnows, ConsumerKnows
  <2>4. CASE ctrl.overflow # 1 /\ ctrl.rd # ctrl.wr
    <3>1. cctrl' = ctrl /\ first' = ctrl.rd /\ count' = d /\ cpc' = "apply"
      BY <1>6, <1>e, <2>4 DEF SyncLoad
    <3>2. d > 0
      <4>1. d = IF ctrl.rd <= ctrl.wr THEN ctrl.wr - ctrl.rd
                ELSE ctrl.wr + NumLcEvents - ctrl.rd
        BY <1>a, DistCases DEF d
      <4> QED
        <5>1. /\ ctrl.rd \in Nat /\ ctrl.rd < NumLcEvents
              /\ ctrl.wr \in Nat /\ NumLcEvents \in Nat
          BY <1>a
        <5> QED
          BY <2>4, <4>1, <5>1
    <3>3. LcTypeOK'
      BY <1>6, <1>a, <1>b, <1>c, <2>1, <3>1 DEF LcTypeOK
    <3>4. Progress' /\ AppliedInOrder'
      BY <1>a, <1>b, <1>c, <2>1, <3>1, <3>2 DEF Progress, AppliedInOrder
    <3> QED
      BY <1>a, <1>b, <1>d, <2>1, <3>1, <3>3, <3>4
         DEF LcInv, NoOverflow, AllCounted, Released, InHands, RingHolds,
             ProducerKnows, ConsumerKnows, d
  <2> QED
    BY <2>2, <2>3, <2>4
<1>7. CASE SyncApply
  <2> DEFINE e == slot[Succ(first, i)]
  <2>1. /\ cpc = "apply" /\ i < count /\ i' = i + 1
        /\ applied' = Append(applied, e)
        /\ cpc' = IF i' = count THEN "cas" ELSE "apply"
        /\ UNCHANGED <<ctrl, slot, sent, ppc, pctrl, wrpos, poke, lost, cctrl,
                       first, count, pokepc>>
    BY <1>7, <1>c DEF SyncApply, Progress, ctrlVars, prodVars
  <2>2. i \in 0..NumLcEvents /\ i \in Positions /\ Succ(first, i) \in Positions
    <3>1. i \in 0..NumLcEvents /\ i \in Positions
      BY <1>a, <2>1 DEF Positions
    <3> QED
      BY <1>a, <3>1, SuccCases
  <2>3. e \in 0..MaxEvents
    BY <1>c, <2>2 DEF LcTypeOK
  <2> HIDE DEF e
  <2>4. applied' \in Seq(0..MaxEvents) /\ Len(applied') = Len(applied) + 1
    BY <1>c, <2>1, <2>3 DEF LcTypeOK
  <2>5. LcTypeOK'
    BY SMTT(40), <1>a, <1>c, <2>1, <2>4 DEF LcTypeOK
  <2>6. Progress'
    BY <1>a, <1>c, <2>1 DEF Progress
  <2>7. ASSUME lost = {} PROVE applied' = [k \in 1..Len(applied') |-> k]
    <3>1. first = ctrl.rd /\ count <= d
      BY <1>d, <2>1, <2>7 DEF ConsumerKnows, d
    <3>2. e = Released + i + 1
      BY SMTT(40), <1>a, <1>b, <1>d, <2>1, <2>2, <2>7, <3>1 DEF RingHolds, d, e
    <3>3. e = Len(applied) + 1
      BY <1>a, <3>2 DEF Released
    <3>4. applied = [k \in 1..Len(applied) |-> k] /\ applied \in Seq(0..MaxEvents)
      BY <1>c, <2>7 DEF AppliedInOrder, LcTypeOK
    <3> QED
      BY <2>1, <2>3, <3>3, <3>4, CountGoesOn
  <2>8. Released' = Released
    BY <1>a, <2>1, <2>4 DEF Released
  <2>9. AppliedInOrder'
    BY <2>1, <2>7 DEF AppliedInOrder
  <2> QED
    BY <1>d, <2>1, <2>5, <2>6, <2>8, <2>9
       DEF LcInv, NoOverflow, AllCounted, InHands, RingHolds, ProducerKnows,
           ConsumerKnows
<1>8. CASE SyncCas
  <2>1. /\ cpc = "cas" /\ i = count
        /\ UNCHANGED <<slot, sent, ppc, pctrl, wrpos, poke, lost, applied, pokepc>>
    BY <1>8, <1>c DEF SyncCas, Progress, prodVars
  <2>2. CASE ctrl = cctrl
    <3>1. /\ ctrl' = [rd |-> Succ(first, count), wr |-> ctrl.wr, overflow |-> 0]
          /\ cpc' = "idle" /\ cctrl' = NoCtrl /\ first' = 0 /\ count' = 0 /\ i' = 0
      BY <1>8, <2>2 DEF SyncCas
    <3>2. ctrl' \in Ctrl /\ 0 \in 0..NumLcEvents - 1
      BY <1>a, <1>g, <3>1 DEF Ctrl
    <3>3. LcTypeOK'
      BY <1>c, <1>g, <2>1, <3>1, <3>2 DEF LcTypeOK
    <3>4. Progress' /\ AppliedInOrder'
      BY <1>c, <2>1, <3>1 DEF Progress, AppliedInOrder
    <3>5. ASSUME lost' = {}
          PROVE  /\ NoOverflow' /\ AllCounted' /\ RingHolds'
                 /\ ProducerKnows' /\ ConsumerKnows'
      <4>1. lost = {} /\ first = ctrl.rd /\ count <= d
        BY <1>d, <2>1, <3>5 DEF ConsumerKnows, d
      <4>2. /\ ctrl'.wr = ctrl.wr /\ Dist(ctrl'.rd, ctrl'.wr) = d - count
            /\ \A k \in Positions : k < d - count =>
                 k + count \in Positions /\ Succ(ctrl'.rd, k) = Succ(ctrl.rd, k + count)
        BY <1>a, <3>1, <4>1, RingShrinks DEF d
      <4>3. Released' = Released + count
        BY <1>a, <2>1, <3>1 DEF Released
      <4>4. RingHolds'
        <5>1. ASSUME NEW k \in Positions, k < d - count
              PROVE  slot[Succ(ctrl'.rd, k)] = Released + count + k + 1
          <6>1. k + count \in Positions /\ k + count < d
            BY <1>a, <1>b, <4>2, <5>1
          <6>2. slot[Succ(ctrl.rd, k + count)] = Released + (k + count) + 1
            BY <1>d, <4>1, <6>1 DEF RingHolds, d
          <6> QED
            BY <1>a, <4>2, <5>1, <6>2 DEF Released
        <5> QED
          BY <2>1, <4>2, <4>3, <5>1 DEF RingHolds
      <4>5. AllCounted'
        BY SMTT(40), <1>a, <1>b, <1>d, <2>1, <4>1, <4>2, <4>3
           DEF AllCounted, InHands, Released, d
      <4>6. NoOverflow' /\ ConsumerKnows'
        BY <3>1 DEF NoOverflow, ConsumerKnows
      <4>7. ProducerKnows'
        BY <1>a, <1>b, <1>d, <2>1, <4>1, <4>2 DEF ProducerKnows, d
      <4> QED
        BY <4>4, <4>5, <4>6, <4>7
    <3> QED
      BY <3>3, <3>4, <3>5 DEF LcInv
  <2>3. CASE ctrl # cctrl
    <3>1. cctrl' = ctrl /\ UNCHANGED <<ctrl, first, count, i, cpc>>
      BY <1>8, <2>3 DEF SyncCas
    <3>2. LcTypeOK'
      BY <1>c, <2>1, <3>1 DEF LcTypeOK
    <3> QED
      BY <1>c, <1>d, <2>1, <3>1, <3>2
         DEF LcInv, Progress, AppliedInOrder, NoOverflow, AllCounted, Released,
             InHands, RingHolds, ProducerKnows, ConsumerKnows
  <2> QED
    BY <2>2, <2>3
<1>9. CASE SyncCall
  BY <1>6, <1>9, <1>c DEF SyncCall, LcTypeOK
<1>10. CASE SyncPoked
  BY <1>6, <1>10 DEF SyncPoked
<1>11. CASE UNCHANGED lcVars
  <2>1. UNCHANGED <<ctrl, slot, sent, ppc, pctrl, wrpos, poke, lost, cpc, cctrl,
                    first, count, i, applied, pokepc>>
    BY <1>11 DEF lcVars, ctrlVars, prodVars, consVars
  <2>2. LcTypeOK'
    BY <1>c, <2>1 DEF LcTypeOK
  <2> QED
    BY <1>c, <1>d, <2>1, <2>2
       DEF LcInv, Progress, AppliedInOrder, NoOverflow, AllCounted, Released,
           InHands, RingHolds, ProducerKnows, ConsumerKnows
<1> QED
  BY <1>1, <1>2, <1>3, <1>4, <1>5, <1>7, <1>8, <1>9, <1>10, <1>11
     DEF LcNext, HandlerStep, SyncStep

(***************************************************************************)
(* The ring is intact: until an event is lost for want of a slot, events   *)
(* are applied once and in order, and lifecycle_sync() never reads a slot  *)
(* that lifecycle_handler_fn() is at work on, however their accesses to    *)
(* lce_ctrl interleave.                                                    *)
(***************************************************************************)
THEOREM LcQueueIsIntact == LcSpec => []LcIntact
<1>1. LcInv => LcIntact
  <2> SUFFICES ASSUME LcInv PROVE LcIntact
    OBVIOUS
  <2>1. ctrl.rd \in Positions /\ ctrl.wr \in Positions
    BY DEF LcInv, LcTypeOK, Ctrl
  <2>2. ASSUME lost = {}, NEW k \in 0..NumLcEvents - 1,
               k < Succ(ctrl.wr, NumLcEvents - ctrl.rd)
        PROVE  /\ slot[Succ(ctrl.rd, k)] = Len(applied) - i + k + 1
               /\ ppc = "fill" => wrpos # Succ(ctrl.rd, k)
    <3>1. k \in Positions /\ k < Dist(ctrl.rd, ctrl.wr)
      BY <2>2 DEF Positions, Dist
    <3> QED
      BY ZenonT(40), <2>1, <2>2, <3>1, RingWalk DEF LcInv, RingHolds, Released, ProducerKnows
  <2> QED
    BY <2>2 DEF LcInv, LcIntact, SlotsIntact
<1> QED
  BY <1>1, InitLcInv, NextLcInv, PTL DEF LcSpec

(***************************************************************************)
(* As long as no event found the ring full, lifecycle_sync() does not meet *)
(* the overflow bit: its abort() is never for nothing.                     *)
(***************************************************************************)
THEOREM AbortMeansLoss == LcSpec => [](cpc = "aborted" => lost # {})
<1>1. LcInv => (cpc = "aborted" => lost # {})
  BY DEF LcInv, NoOverflow
<1> QED
  BY <1>1, InitLcInv, NextLcInv, PTL DEF LcSpec

-----------------------------------------------------------------------------
(* A set of numbers that is not empty has a least one.                     *)
LEMMA LeastNumber ==
  ASSUME NEW S \in SUBSET Nat, S # {}
  PROVE  \E k \in S : \A l \in S : k <= l
<1>1. \E k \in S : \A l \in S : <<l, k>> \notin OpToRel(<, Nat)
  BY NatLessThanWellFounded, WFMin
<1>2. \A k, l \in S : l < k => <<l, k>> \in OpToRel(<, Nat)
  BY DEF OpToRel
<1>3. \A k, l \in S : ~(l < k) => k <= l
  OBVIOUS
<1> QED
  BY <1>1, <1>2, <1>3

(* lifecycle_sync() stays in a set of states that no event of the queue    *)
(* leads out of: by the least event that would, first for the recursion    *)
(* being well defined and then for what it yields.                         *)
LEMMA SyncStaysIn ==
  ASSUME NEW s, NEW G, s \in G, Len(events) \in Nat,
         \A t \in G, k \in 1..Len(events) : ApplyEvent(t, events[k]) \subseteq G
  PROVE  LifecycleSync(s) \subseteq G
<1> DEFINE N == Len(events)
           F(g, n) == IF n = 0 THEN {s}
                      ELSE UNION {ApplyEvent(t, events[n]) : t \in g[n - 1]}
           after == CHOOSE f : f = [n \in 0..N |-> F(f, n)]
           Early == {m \in 0..N : ~\E g : g = [n \in 0..m |-> F(g, n)]}
<1>1. Early = {}
  <2> SUFFICES ASSUME Early # {} PROVE FALSE
    OBVIOUS
  <2>0. Early \in SUBSET Nat
    OBVIOUS
  <2>1. PICK m \in Early : \A l \in Early : m <= l
    <3> HIDE DEF Early
    <3> QED
      BY <2>0, LeastNumber
  <2>2. m # 0
    <3>1. [n \in 0..0 |-> {s}] = [n \in 0..0 |-> F([k \in 0..0 |-> {s}], n)]
      OBVIOUS
    <3> QED
      BY <3>1
  <2>3. m - 1 \in 0..N /\ m - 1 \notin Early
    BY <2>1, <2>2
  <2>4. PICK g : g = [n \in 0..(m - 1) |-> F(g, n)]
    BY <2>3
  <2> DEFINE h == [n \in 0..m |-> IF n = m THEN F(g, m) ELSE g[n]]
  <2>5. \A n \in 0..m : h[n] = F(h, n)
    <3> SUFFICES ASSUME NEW n \in 0..m PROVE h[n] = F(h, n)
      OBVIOUS
    <3>1. n # 0 => h[n - 1] = g[n - 1]
      BY <2>1
    <3>2. F(h, n) = F(g, n)
      BY <3>1
    <3>3. n # m => g[n] = F(g, n)
      <4>1. n # m => n \in 0..(m - 1)
        BY <2>1
      <4> QED
        BY <4>1, <2>4
    <3>4. h[n] = IF n = m THEN F(g, m) ELSE g[n]
      OBVIOUS
    <3> HIDE DEF F, h
    <3> QED
      BY <3>2, <3>3, <3>4
  <2>6. h = [n \in 0..m |-> F(h, n)]
    BY <2>5
  <2> QED
    BY <2>1, <2>6
<1>2. after = [n \in 0..N |-> F(after, n)]
  <2>1. \E g : g = [n \in 0..N |-> F(g, n)]
    <3> HIDE DEF F
    <3> QED
      BY <1>1
  <2> HIDE DEF F
  <2> QED
    BY <2>1
<1> HIDE DEF after
<1>3. \A n \in 0..N : after[n] \subseteq G
  <2> DEFINE Out == {n \in 0..N : ~(after[n] \subseteq G)}
  <2> SUFFICES ASSUME Out # {} PROVE FALSE
    OBVIOUS
  <2>0. Out \in SUBSET Nat
    OBVIOUS
  <2>1. PICK m \in Out : \A l \in Out : m <= l
    <3> HIDE DEF Out
    <3> QED
      BY <2>0, LeastNumber
  <2>2. after[m] = F(after, m)
    BY <1>2
  <2>3. m # 0
    BY <2>2
  <2>4. m - 1 \in 0..N /\ after[m - 1] \subseteq G
    BY <2>1, <2>3
  <2> QED
    BY <2>2, <2>3, <2>4
<1>4. LifecycleSync(s) = after[N]
  BY Zenon DEF LifecycleSync, after
<1> QED
  BY <1>3, <1>4

-----------------------------------------------------------------------------
Reasons == {"no", "no_client", "stale_file", "stale_rollback", "fork_enomem", "fork_clash"}
IoServer == [fds : [Ids -> Fd], table : [Pids -> [Ids -> 0..MaxFd]],
           clients : SUBSET Pids, xfer : SUBSET [fd : Ids, target : Pids],
           crashed : Reasons]

(* Handles in use belong to clients; the others are blank.                 *)
HandlesOwned(s) == \A d \in Ids :
  /\ s.fds[d].owner # None => s.fds[d].owner \in s.clients /\ s.fds[d].file # None
  /\ s.fds[d].owner = None => s.fds[d] = FreeFd

(* A handle on its way to another process has one entry in the hash, and   *)
(* is not a copy that fork has made.                                       *)
TransfersKnown(s) ==
  /\ \A t \in s.xfer : s.fds[t.fd].transfer = "yes"
  /\ \A t, u \in s.xfer : t.fd = u.fd => t = u
  /\ \A d \in Ids : s.fds[d].transfer = "yes" =>
       s.fds[d].shadow = "no" /\ \E t \in s.xfer : t.fd = d

(* An indirection leads to the copy made of the handle of that number.     *)
TablesLead(s) ==
  /\ \A p \in Pids : \A k \in Ids : s.table[p][k] # 0 =>
       /\ s.table[p][s.table[p][k]] = 0
       /\ s.fds[s.table[p][k]].owner = p
       /\ s.fds[s.table[p][k]].shadow = "yes"
       /\ s.fds[s.table[p][k]].orig = k
  /\ \A p \in Pids : p \notin s.clients \/ p \in InitLive => \A k \in Ids : s.table[p][k] = 0

(* A client's own numbers have no indirection.                             *)
NumbersApart(s) == \A d \in Ids :
  s.fds[d].owner # None /\ s.fds[d].shadow = "no" => s.table[s.fds[d].owner][d] = 0

Sane == {s \in IoServer : HandlesOwned(s) /\ TransfersKnown(s) /\ TablesLead(s) /\ NumbersApart(s)}

(* Ids are the numbers from 1 to MaxFd; None is no process and no file.    *)
LEMMA IdFacts ==
  /\ 0 \notin Ids /\ \A n \in 0..MaxFd : n # 0 => n \in Ids
  /\ \A n \in Ids : n \in 0..MaxFd /\ n # 0 /\ n > 0 /\ n \in Nat
  /\ None \notin Pids /\ None \notin Files /\ 0 \in 0..MaxFd
  /\ "yes" \in YesNo /\ "no" \in YesNo
BY IoFdAssumption DEF Ids, YesNo

(* The fields of a free handle.                                            *)
LEMMA FreeFdFacts ==
  /\ FreeFd \in Fd /\ FreeFd.owner = None /\ FreeFd.shadow = "no"
  /\ FreeFd.transfer = "no" /\ FreeFd.file = None
BY IdFacts DEF Fd, FreeFd

(* The parts of the server's state have their types.                       *)
LEMMA ServerFields ==
  ASSUME NEW s \in IoServer
  PROVE  /\ s.fds \in [Ids -> Fd] /\ s.table \in [Pids -> [Ids -> 0..MaxFd]]
         /\ s.clients \in SUBSET Pids /\ s.xfer \in SUBSET [fd : Ids, target : Pids]
         /\ s.crashed \in Reasons
         /\ \A d \in Ids : /\ s.fds[d] \in Fd /\ s.fds[d].owner \in Pids \cup {None}
                           /\ s.fds[d].file \in Files \cup {None} /\ s.fds[d].shadow \in YesNo
                           /\ s.fds[d].transfer \in YesNo /\ s.fds[d].cloexec \in YesNo
                           /\ s.fds[d].orig \in 0..MaxFd
BY DEF IoServer, Fd

(* Taking handles away, with the transfers and the indirections that name  *)
(* them, and perhaps clients that have no handle left.                     *)
LEMMA FdRemoved ==
  ASSUME NEW s \in Sane, NEW r \in IoServer, NEW D,
         r.fds = [d \in Ids |-> IF d \in D THEN FreeFd ELSE s.fds[d]],
         r.xfer = {t \in s.xfer : t.fd \notin D},
         \A p \in Pids : \A k \in Ids :
            r.table[p][k] # 0 => r.table[p][k] = s.table[p][k] /\ r.table[p][k] \notin D,
         r.clients \subseteq s.clients,
         \A p \in s.clients : p \notin r.clients => Handles(s, p) \subseteq D,
         \A p \in Pids : p \notin r.clients => \A k \in Ids : r.table[p][k] = 0
  PROVE  r \in Sane
<1>1. /\ s \in IoServer /\ HandlesOwned(s) /\ TransfersKnown(s) /\ TablesLead(s) /\ NumbersApart(s)
  BY DEF Sane
<1>2. \A d \in Ids : r.fds[d] = IF d \in D THEN FreeFd ELSE s.fds[d]
  OBVIOUS
<1>3. HandlesOwned(r)
  <2> SUFFICES ASSUME NEW d \in Ids
               PROVE  /\ r.fds[d].owner # None => r.fds[d].owner \in r.clients /\ r.fds[d].file # None
                      /\ r.fds[d].owner = None => r.fds[d] = FreeFd
    BY DEF HandlesOwned
  <2>1. CASE d \in D
    BY <1>2, <2>1, FreeFdFacts
  <2>2. CASE d \notin D
    BY <1>1, <1>2, <2>2 DEF HandlesOwned, Handles
  <2> QED
    BY <2>1, <2>2
<1>4. TransfersKnown(r)
  <2>1. \A t \in r.xfer : t \in s.xfer /\ t.fd \notin D /\ t.fd \in Ids
    BY <1>1, ServerFields
  <2>2. \A t \in r.xfer : r.fds[t.fd].transfer = "yes"
    BY <1>1, <1>2, <2>1 DEF TransfersKnown
  <2>3. \A t, u \in r.xfer : t.fd = u.fd => t = u
    BY <1>1, <2>1 DEF TransfersKnown
  <2>4. ASSUME NEW d \in Ids, r.fds[d].transfer = "yes"
        PROVE  r.fds[d].shadow = "no" /\ \E t \in r.xfer : t.fd = d
    <3>1. d \notin D /\ r.fds[d] = s.fds[d]
      BY <1>2, <2>4, FreeFdFacts
    <3>2. s.fds[d].shadow = "no" /\ \E t \in s.xfer : t.fd = d
      BY <1>1, <2>4, <3>1 DEF TransfersKnown
    <3> QED
      BY <3>1, <3>2
  <2> QED
    BY <2>2, <2>3, <2>4 DEF TransfersKnown
<1>5. TablesLead(r)
  <2>1. ASSUME NEW p \in Pids, NEW k \in Ids, r.table[p][k] # 0
        PROVE  /\ r.table[p][r.table[p][k]] = 0
               /\ r.fds[r.table[p][k]].owner = p
               /\ r.fds[r.table[p][k]].shadow = "yes"
               /\ r.fds[r.table[p][k]].orig = k
    <3> DEFINE f == r.table[p][k]
    <3>1. f \in Ids /\ f = s.table[p][k] /\ f \notin D /\ r.fds[f] = s.fds[f]
      BY <1>2, <2>1, IdFacts, ServerFields
    <3>2. s.table[p][f] = 0 /\ s.fds[f].owner = p /\ s.fds[f].shadow = "yes" /\ s.fds[f].orig = k
      BY <1>1, <2>1, <3>1 DEF TablesLead
    <3>3. r.table[p][f] = 0
      BY <3>1, <3>2
    <3> QED
      BY <3>1, <3>2, <3>3
  <2>2. ASSUME NEW p \in Pids, p \notin r.clients \/ p \in InitLive, NEW k \in Ids
        PROVE  r.table[p][k] = 0
    BY <1>1, <2>2 DEF TablesLead
  <2> QED
    BY <2>1, <2>2 DEF TablesLead
<1>6. NumbersApart(r)
  <2> SUFFICES ASSUME NEW d \in Ids, r.fds[d].owner # None, r.fds[d].shadow = "no"
               PROVE  r.table[r.fds[d].owner][d] = 0
    BY DEF NumbersApart
  <2>1. d \notin D /\ r.fds[d] = s.fds[d]
    BY <1>2, FreeFdFacts
  <2>2. s.table[s.fds[d].owner][d] = 0 /\ s.fds[d].owner \in Pids
    BY <1>1, <2>1, ServerFields DEF NumbersApart
  <2> QED
    BY <2>1, <2>2
<1> QED
  BY <1>3, <1>4, <1>5, <1>6 DEF Sane

(* abort() and failed assertions leave the records alone.                  *)
LEMMA CrashKeeps ==
  ASSUME NEW s \in Sane, NEW why \in Reasons
  PROVE  Crash(s, why) \in Sane
<1> DEFINE r == Crash(s, why)
<1>1. s \in IoServer
  BY DEF Sane
<1>2. r \in IoServer /\ r.fds = s.fds /\ r.table = s.table /\ r.clients = s.clients /\ r.xfer = s.xfer
  BY <1>1 DEF Crash, IoServer
<1>3. HandlesOwned(s) /\ TransfersKnown(s) /\ TablesLead(s) /\ NumbersApart(s)
  BY DEF Sane
<1> HIDE DEF r
<1>4. HandlesOwned(r) /\ TransfersKnown(r)
  BY <1>2, <1>3 DEF HandlesOwned, TransfersKnown
<1>5. TablesLead(r) /\ NumbersApart(r)
  BY <1>2, <1>3 DEF TablesLead, NumbersApart
<1> QED
  BY <1>2, <1>4, <1>5 DEF Sane, r

(* What fd_dtor() leaves.                                                  *)
LEMMA FdDtorFields ==
  ASSUME NEW s \in IoServer, NEW D
  PROVE  LET r == FdDtor(s, D)
         IN  /\ r \in IoServer /\ r.table = s.table /\ r.clients = s.clients /\ r.crashed = s.crashed
             /\ r.fds = [d \in Ids |-> IF d \in D THEN FreeFd ELSE s.fds[d]]
             /\ r.xfer = {t \in s.xfer : t.fd \notin D}
<1> DEFINE F == [d \in Ids |-> IF d \in D THEN FreeFd ELSE s.fds[d]]
           X == {t \in s.xfer : t.fd \notin D}
<1>1. F \in [Ids -> Fd] /\ X \in SUBSET [fd : Ids, target : Pids]
  BY FreeFdFacts, ServerFields
<1>2. FdDtor(s, D) = [s EXCEPT !.fds = F, !.xfer = X]
  BY DEF FdDtor
<1> HIDE DEF F, X
<1>3. /\ [s EXCEPT !.fds = F, !.xfer = X] \in IoServer
      /\ [s EXCEPT !.fds = F, !.xfer = X].table = s.table
      /\ [s EXCEPT !.fds = F, !.xfer = X].clients = s.clients
      /\ [s EXCEPT !.fds = F, !.xfer = X].crashed = s.crashed
      /\ [s EXCEPT !.fds = F, !.xfer = X].fds = F
      /\ [s EXCEPT !.fds = F, !.xfer = X].xfer = X
  BY <1>1 DEF IoServer
<1> QED
  BY <1>2, <1>3 DEF F, X

(* fd_dtor() of handles that no indirection leads to.                      *)
LEMMA FdDtorKeeps ==
  ASSUME NEW s \in Sane, NEW D,
         \A p \in Pids : \A k \in Ids : s.table[p][k] # 0 => s.table[p][k] \notin D
  PROVE  FdDtor(s, D) \in Sane
<1>1. s \in IoServer /\ \A p \in Pids : p \notin s.clients => \A k \in Ids : s.table[p][k] = 0
  BY DEF Sane, TablesLead
<1> DEFINE r == FdDtor(s, D)
<1>2. /\ r \in IoServer /\ r.table = s.table /\ r.clients = s.clients
      /\ r.fds = [d \in Ids |-> IF d \in D THEN FreeFd ELSE s.fds[d]]
      /\ r.xfer = {t \in s.xfer : t.fd \notin D}
  BY <1>1, FdDtorFields
<1> HIDE DEF r
<1>3. r \in Sane
  BY <1>1, <1>2, FdRemoved
<1> QED
  BY <1>3 DEF r

(* late_close_fd() removes the indirection with the copy.                  *)
LEMMA LateCloseKeeps ==
  ASSUME NEW s \in Sane, NEW D \in SUBSET Ids
  PROVE  LateClose(s, D) \in Sane /\ LateClose(s, D).crashed = s.crashed
<1> DEFINE Cut(p, d) == \E f \in D : /\ s.fds[f].shadow = "yes"
                                     /\ s.fds[f].owner = p /\ s.fds[f].orig = d
           T == [p \in Pids |-> [d \in Ids |-> IF Cut(p, d) THEN 0 ELSE s.table[p][d]]]
           s1 == [s EXCEPT !.table = T]
           r == FdDtor(s1, D)
<1>1. s \in IoServer /\ TablesLead(s)
  BY DEF Sane
<1>2. T \in [Pids -> [Ids -> 0..MaxFd]]
  BY <1>1, IdFacts, ServerFields
<1>3. /\ \A p \in Pids : \A k \in Ids : T[p][k] # 0 => T[p][k] = s.table[p][k] /\ ~Cut(p, k)
      /\ \A p \in Pids : \A k \in Ids : T[p][k] = 0 \/ T[p][k] = s.table[p][k]
  OBVIOUS
<1>4. \A p \in Pids : \A k \in Ids : T[p][k] # 0 => T[p][k] \notin D
  <2> SUFFICES ASSUME NEW p \in Pids, NEW k \in Ids, T[p][k] # 0, T[p][k] \in D PROVE FALSE
    OBVIOUS
  <2>1. T[p][k] = s.table[p][k] /\ ~Cut(p, k)
    BY <1>3
  <2>2. s.fds[s.table[p][k]].owner = p /\ s.fds[s.table[p][k]].shadow = "yes" /\ s.fds[s.table[p][k]].orig = k
    BY <1>1, <2>1 DEF TablesLead
  <2> QED
    BY <2>1, <2>2
<1>5. LateClose(s, D) = r
  BY DEF LateClose
<1> HIDE DEF T
<1>6. /\ s1 \in IoServer /\ s1.fds = s.fds /\ s1.table = T /\ s1.clients = s.clients
      /\ s1.xfer = s.xfer /\ s1.crashed = s.crashed
  BY <1>1, <1>2 DEF IoServer
<1> HIDE DEF s1
<1>7. /\ r \in IoServer /\ r.table = T /\ r.clients = s.clients /\ r.crashed = s.crashed
      /\ r.fds = [d \in Ids |-> IF d \in D THEN FreeFd ELSE s.fds[d]]
      /\ r.xfer = {t \in s.xfer : t.fd \notin D}
  BY <1>6, FdDtorFields
<1>8. \A p \in Pids : p \notin s.clients => \A k \in Ids : T[p][k] = 0
  BY <1>1, <1>3 DEF TablesLead
<1> HIDE DEF r
<1>9. /\ \A p \in Pids : \A k \in Ids :
            r.table[p][k] # 0 => r.table[p][k] = s.table[p][k] /\ r.table[p][k] \notin D
      /\ \A p \in Pids : p \notin r.clients => \A k \in Ids : r.table[p][k] = 0
      /\ r.clients \subseteq s.clients /\ \A p \in s.clients : p \in r.clients
  BY <1>3, <1>4, <1>7, <1>8
<1> HIDE DEF Cut
<1>10. r \in Sane
  BY <1>7, <1>9, FdRemoved
<1> QED
  BY <1>5, <1>7, <1>10

(* client_dtor() *)
LEMMA ClientDtorKeeps ==
  ASSUME NEW s \in Sane, NEW p \in Pids
  PROVE  ClientDtor(s, p) \in Sane
<1> DEFINE D == Handles(s, p)
           s1 == FdDtor(s, D)
           None0 == [d \in Ids |-> 0]
           r == ClientDtor(s, p)
<1>1. s \in IoServer /\ TablesLead(s)
  BY DEF Sane
<1>2. /\ s1 \in IoServer /\ s1.table = s.table /\ s1.clients = s.clients
      /\ s1.fds = [d \in Ids |-> IF d \in D THEN FreeFd ELSE s.fds[d]]
      /\ s1.xfer = {t \in s.xfer : t.fd \notin D}
  BY <1>1, FdDtorFields
<1>3. r = [s1 EXCEPT !.clients = s1.clients \ {p}, !.table[p] = None0]
  BY DEF ClientDtor
<1>4. None0 \in [Ids -> 0..MaxFd] /\ \A k \in Ids : None0[k] = 0
  BY IdFacts
<1> HIDE DEF None0, D, s1, r
<1>5. /\ r \in IoServer /\ r.fds = s1.fds /\ r.xfer = s1.xfer /\ r.clients = s.clients \ {p}
      /\ r.table = [s.table EXCEPT ![p] = None0]
  BY <1>2, <1>3, <1>4 DEF IoServer
<1>6. ASSUME NEW q \in Pids, NEW k \in Ids, r.table[q][k] # 0
      PROVE  r.table[q][k] = s.table[q][k] /\ r.table[q][k] \notin D
  <2>1. q # p
    BY <1>1, <1>4, <1>5, <1>6, ServerFields
  <2>2. r.table[q][k] = s.table[q][k]
    BY <1>1, <1>5, <2>1, ServerFields
  <2>3. s.fds[s.table[q][k]].owner = q
    BY <1>1, <1>6, <2>2 DEF TablesLead
  <2> QED
    BY <2>1, <2>2, <2>3 DEF D, Handles
<1>7. ASSUME NEW q \in Pids, q \notin r.clients, NEW k \in Ids
      PROVE  r.table[q][k] = 0
  <2>1. CASE q = p
    BY <1>1, <1>4, <1>5, <2>1, ServerFields
  <2>2. CASE q # p
    <3>1. r.table[q] = s.table[q] /\ q \notin s.clients
      BY <1>1, <1>5, <1>7, <2>2, ServerFields
    <3> QED
      BY <1>1, <3>1 DEF TablesLead
  <2> QED
    BY <2>1, <2>2
<1>8. \A q \in s.clients : q \notin r.clients => Handles(s, q) \subseteq D
  BY <1>5 DEF D
<1>9. /\ r \in IoServer /\ r.clients \subseteq s.clients
      /\ r.fds = [d \in Ids |-> IF d \in D THEN FreeFd ELSE s.fds[d]]
      /\ r.xfer = {t \in s.xfer : t.fd \notin D}
  BY <1>2, <1>5
<1>10. r \in Sane
  BY <1>6, <1>7, <1>8, <1>9, FdRemoved
<1> QED
  BY <1>10 DEF r

(* get_client() *)
LEMMA AddClientKeeps ==
  ASSUME NEW s \in Sane, NEW p \in Pids
  PROVE  /\ AddClient(s, p) \in Sane /\ p \in AddClient(s, p).clients
         /\ AddClient(s, p).crashed = s.crashed
<1> DEFINE r == AddClient(s, p)
<1>1. s \in IoServer /\ HandlesOwned(s) /\ TransfersKnown(s) /\ TablesLead(s) /\ NumbersApart(s)
  BY DEF Sane
<1>2. /\ r \in IoServer /\ r.fds = s.fds /\ r.table = s.table /\ r.clients = s.clients \cup {p}
      /\ r.xfer = s.xfer /\ r.crashed = s.crashed
  BY <1>1 DEF AddClient, IoServer
<1> HIDE DEF r
<1>3. HandlesOwned(r)
  BY <1>1, <1>2 DEF HandlesOwned
<1>4. TransfersKnown(r)
  BY <1>1, <1>2 DEF TransfersKnown
<1>5. TablesLead(r)
  BY <1>1, <1>2 DEF TablesLead
<1>6. NumbersApart(r)
  BY <1>1, <1>2 DEF NumbersApart
<1> QED
  BY <1>2, <1>3, <1>4, <1>5, <1>6 DEF Sane, r

(* What io_add_fd() makes of a handle.                                     *)
NewFd(p, f, cx, tr) ==
  [FreeFd EXCEPT !.file = f, !.owner = p, !.cloexec = cx, !.transfer = tr]

(* io_add_fd() under a number from alloc_fd(), and the transfer that may   *)
(* come with it.                                                           *)
LEMMA AddFdKeeps ==
  ASSUME NEW s \in Sane, NEW p \in s.clients, NEW d \in AllocFd(s, p), NEW f \in Files,
         NEW cx \in YesNo, NEW r \in IoServer, NEW tr \in YesNo,
         \/ tr = "no" /\ r.xfer = s.xfer
         \/ tr = "yes" /\ \E q \in Pids : r.xfer = s.xfer \cup {[fd |-> d, target |-> q]},
         r.fds = [s.fds EXCEPT ![d] = NewFd(p, f, cx, tr)],
         r.table = s.table, r.clients = s.clients
  PROVE  r \in Sane
<1>0. PICK X : /\ r.xfer = s.xfer \cup X
               /\ \/ X = {} /\ tr = "no"
                  \/ tr = "yes" /\ \E q \in Pids : X = {[fd |-> d, target |-> q]}
  <2>1. CASE tr = "no" /\ r.xfer = s.xfer
    <3>1. r.xfer = s.xfer \cup {}
      BY <2>1
    <3> QED
      BY <2>1, <3>1
  <2>2. CASE tr = "yes" /\ \E q \in Pids : r.xfer = s.xfer \cup {[fd |-> d, target |-> q]}
    BY <2>2
  <2> QED
    BY <2>1, <2>2
<1>1. s \in IoServer /\ HandlesOwned(s) /\ TransfersKnown(s) /\ TablesLead(s) /\ NumbersApart(s)
  BY DEF Sane
<1> DEFINE h == NewFd(p, f, cx, tr)
<1>2. d \in Ids /\ s.fds[d].owner = None /\ s.table[p][d] = 0 /\ p \in Pids /\ p # None /\ f # None
  BY <1>1, IdFacts, ServerFields DEF AllocFd, FreeIds
<1>3. h.owner = p /\ h.file = f /\ h.shadow = "no" /\ h.transfer = tr
  BY DEF FreeFd, NewFd
<1>4. r.fds[d] = h /\ \A e \in Ids : e # d => r.fds[e] = s.fds[e]
  BY <1>1, <1>2, ServerFields
<1> HIDE DEF h
<1>5. \A t \in s.xfer : t.fd # d
  BY <1>1, <1>2, FreeFdFacts DEF TransfersKnown, HandlesOwned
<1>6. HandlesOwned(r)
  BY <1>1, <1>2, <1>3, <1>4 DEF HandlesOwned
<1>7. TransfersKnown(r)
  <2>1. \A t \in X : t.fd = d /\ tr = "yes"
    BY <1>0
  <2>2. \A t \in s.xfer : t.fd \in Ids
    BY <1>1, ServerFields
  <2>3. \A t \in r.xfer : r.fds[t.fd].transfer = "yes"
    BY <1>0, <1>1, <1>3, <1>4, <1>5, <2>1, <2>2 DEF TransfersKnown
  <2>4. \A t, u \in r.xfer : t.fd = u.fd => t = u
    <3>1. \A t, u \in X : t = u
      BY <1>0
    <3> QED
      BY <1>0, <1>1, <1>5, <2>1, <3>1 DEF TransfersKnown
  <2>5. ASSUME NEW e \in Ids, r.fds[e].transfer = "yes"
        PROVE  r.fds[e].shadow = "no" /\ \E t \in r.xfer : t.fd = e
    <3>1. CASE e = d
      <4>1. tr = "yes"
        BY <1>3, <1>4, <2>5, <3>1
      <4>2. PICK q \in Pids : X = {[fd |-> d, target |-> q]}
        BY <1>0, <4>1
      <4>3. [fd |-> d, target |-> q] \in r.xfer /\ [fd |-> d, target |-> q].fd = d
        BY <1>0, <4>2
      <4> QED
        BY <1>3, <1>4, <3>1, <4>3
    <3>2. CASE e # d
      BY <1>0, <1>1, <1>4, <2>5, <3>2 DEF TransfersKnown
    <3> QED
      BY <3>1, <3>2
  <2> QED
    BY <2>3, <2>4, <2>5 DEF TransfersKnown
<1>8. TablesLead(r)
  <2>1. ASSUME NEW q \in Pids, NEW k \in Ids, s.table[q][k] # 0
        PROVE  s.table[q][k] \in Ids /\ s.table[q][k] # d
    BY <1>1, <1>2, <2>1, IdFacts, ServerFields DEF TablesLead
  <2> QED
    BY <1>1, <1>4, <2>1 DEF TablesLead
<1>9. NumbersApart(r)
  BY <1>1, <1>2, <1>3, <1>4 DEF NumbersApart
<1> QED
  BY <1>6, <1>7, <1>8, <1>9 DEF Sane

(* io_impl_touch() by a process that has no indirections.                  *)
LEMMA TouchKeeps ==
  ASSUME NEW s \in Sane, NEW p \in s.clients, p \in InitLive, NEW d \in Ids, NEW r \in IoServer,
         [fd |-> d, target |-> p] \in s.xfer, s.fds[d].transfer = "yes",
         r.fds = [s.fds EXCEPT ![d] = [s.fds[d] EXCEPT !.owner = p, !.transfer = "no"]],
         r.table = s.table, r.clients = s.clients,
         r.xfer = s.xfer \ {[fd |-> d, target |-> p]}
  PROVE  r \in Sane
<1>1. s \in IoServer /\ HandlesOwned(s) /\ TransfersKnown(s) /\ TablesLead(s) /\ NumbersApart(s)
  BY DEF Sane
<1> DEFINE h == [s.fds[d] EXCEPT !.owner = p, !.transfer = "no"]
<1>2. s.fds[d].owner # None /\ s.fds[d].shadow = "no" /\ s.fds[d].file # None
  BY <1>1, FreeFdFacts DEF HandlesOwned, TransfersKnown
<1>3. h.owner = p /\ h.file # None /\ h.shadow = "no" /\ h.transfer = "no" /\ p \in Pids /\ p # None
  BY <1>1, <1>2, IdFacts, ServerFields DEF Fd
<1>4. r.fds[d] = h /\ \A e \in Ids : e # d => r.fds[e] = s.fds[e]
  BY <1>1, ServerFields
<1> HIDE DEF h
<1>5. HandlesOwned(r)
  <2> SUFFICES ASSUME NEW e \in Ids
               PROVE  /\ r.fds[e].owner # None => r.fds[e].owner \in r.clients /\ r.fds[e].file # None
                      /\ r.fds[e].owner = None => r.fds[e] = FreeFd
    BY DEF HandlesOwned
  <2>1. CASE e = d
    BY <1>3, <1>4, <2>1
  <2>2. CASE e # d
    BY <1>1, <1>4, <2>2 DEF HandlesOwned
  <2> QED
    BY <2>1, <2>2
<1>6. TransfersKnown(r)
  <2>1. \A t \in r.xfer : t.fd \in Ids /\ t.fd # d
    BY <1>1, ServerFields DEF TransfersKnown
  <2>2. ASSUME NEW e \in Ids, r.fds[e].transfer = "yes"
        PROVE  r.fds[e].shadow = "no" /\ \E t \in r.xfer : t.fd = e
    <3>1. e # d /\ r.fds[e] = s.fds[e]
      BY <1>3, <1>4, <2>2
    <3>2. s.fds[e].shadow = "no" /\ \E t \in s.xfer : t.fd = e
      BY <1>1, <2>2, <3>1 DEF TransfersKnown
    <3> QED
      BY <3>1, <3>2
  <2> QED
    BY <1>1, <1>4, <2>1, <2>2 DEF TransfersKnown
<1>7. TablesLead(r)
  <2>1. ASSUME NEW q \in Pids, NEW k \in Ids, s.table[q][k] # 0
        PROVE  s.table[q][k] \in Ids /\ s.table[q][k] # d
    BY <1>1, <1>2, <2>1, IdFacts, ServerFields DEF TablesLead
  <2> QED
    BY <1>1, <1>4, <2>1 DEF TablesLead
<1>8. NumbersApart(r)
  BY <1>1, <1>3, <1>4 DEF NumbersApart, TablesLead
<1> QED
  BY <1>5, <1>6, <1>7, <1>8 DEF Sane

(* io_impl_set_handle_flags() *)
LEMMA FlagsKeep ==
  ASSUME NEW s \in Sane, NEW d \in Ids, s.fds[d].owner # None, NEW cx \in YesNo
  PROVE  [s EXCEPT !.fds[d].cloexec = cx] \in Sane
<1> DEFINE h == [s.fds[d] EXCEPT !.cloexec = cx]
           F == [s.fds EXCEPT ![d] = h]
           r == [s EXCEPT !.fds = F]
<1>1. s \in IoServer /\ HandlesOwned(s) /\ TransfersKnown(s) /\ TablesLead(s) /\ NumbersApart(s)
  BY DEF Sane
<1>2. /\ h \in Fd /\ h.owner = s.fds[d].owner /\ h.file = s.fds[d].file /\ h.shadow = s.fds[d].shadow
      /\ h.transfer = s.fds[d].transfer /\ h.orig = s.fds[d].orig
  BY <1>1, ServerFields DEF Fd
<1>3. F \in [Ids -> Fd] /\ F[d] = h /\ \A e \in Ids : e # d => F[e] = s.fds[e]
  BY <1>1, <1>2, ServerFields
<1>4. [s EXCEPT !.fds[d].cloexec = cx] = r
  OBVIOUS
<1> HIDE DEF F, h
<1>5. /\ r \in IoServer /\ r.fds = F /\ r.table = s.table /\ r.clients = s.clients /\ r.xfer = s.xfer
  BY <1>1, <1>3 DEF IoServer
<1> HIDE DEF r
<1>6. \A e \in Ids : /\ r.fds[e].owner = s.fds[e].owner /\ r.fds[e].file = s.fds[e].file
                     /\ r.fds[e].shadow = s.fds[e].shadow /\ r.fds[e].transfer = s.fds[e].transfer
                     /\ r.fds[e].orig = s.fds[e].orig
                     /\ s.fds[e].owner = None => r.fds[e] = s.fds[e]
  BY <1>2, <1>3, <1>5
<1>7. HandlesOwned(r)
  BY <1>1, <1>5, <1>6 DEF HandlesOwned
<1>8. TransfersKnown(r)
  <2>1. \A t \in s.xfer : t.fd \in Ids
    BY <1>1, ServerFields
  <2> QED
    BY <1>1, <1>5, <1>6, <2>1 DEF TransfersKnown
<1>9. TablesLead(r)
  <2>1. ASSUME NEW q \in Pids, NEW k \in Ids, s.table[q][k] # 0
        PROVE  s.table[q][k] \in Ids
    BY <1>1, <2>1, IdFacts, ServerFields
  <2> QED
    BY <1>1, <1>5, <1>6, <2>1 DEF TablesLead
<1>10. NumbersApart(r)
  BY <1>1, <1>5, <1>6 DEF NumbersApart
<1> QED
  BY <1>4, <1>5, <1>7, <1>8, <1>9, <1>10 DEF Sane

(* fork_handle() *)
LEMMA ForkHandleFields ==
  ASSUME NEW s \in IoServer, NEW d \in Ids, NEW child \in Pids
  PROVE  LET h == ForkHandle(s, d, child)
         IN  /\ h \in Fd /\ h.owner = child /\ h.shadow = "yes" /\ h.transfer = "no"
             /\ h.orig = d /\ h.file = s.fds[d].file
<1> DEFINE g == s.fds[d]
<1>1. g \in Fd /\ d \in 0..MaxFd
  BY IdFacts, ServerFields
<1> HIDE DEF g
<1> DEFINE g1 == [g EXCEPT !.orig = d]
           g2 == [g1 EXCEPT !.owner = child]
           g3 == [g2 EXCEPT !.transfer = "no"]
           g4 == [g3 EXCEPT !.shadow = "yes"]
<1>2. g1 \in Fd /\ g1.orig = d /\ g1.file = g.file
  BY <1>1 DEF Fd
<1> HIDE DEF g1
<1>3. g2 \in Fd /\ g2.orig = d /\ g2.file = g.file /\ g2.owner = child
  BY <1>2 DEF Fd
<1> HIDE DEF g2
<1>4. g3 \in Fd /\ g3.orig = d /\ g3.file = g.file /\ g3.owner = child /\ g3.transfer = "no"
  BY <1>3, IdFacts DEF Fd
<1> HIDE DEF g3
<1>5. /\ g4 \in Fd /\ g4.orig = d /\ g4.file = g.file /\ g4.owner = child /\ g4.transfer = "no"
      /\ g4.shadow = "yes"
  BY <1>4, IdFacts DEF Fd
<1>6. ForkHandle(s, d, child) = g4
  BY DEF ForkHandle, g, g1, g2, g3
<1> HIDE DEF g4
<1> QED
  BY <1>5, <1>6 DEF g

(* The copies that fork_client() makes.                                    *)
LEMMA ForkIntoKeeps ==
  ASSUME NEW s \in Sane, NEW child \in Pids, child \notin InitLive, child \notin s.clients,
         NEW m, DOMAIN m \subseteq Ids, DOMAIN m \cap FreeIds(s) = {},
         m \in [DOMAIN m -> FreeIds(s)], IsInjective(m)
  PROVE  ForkInto(s, child, m) \in Sane
<1> DEFINE D == DOMAIN m
           ids == {m[d] : d \in D}
           Src(f) == CHOOSE d \in D : m[d] = f
           F == [f \in Ids |-> IF f \in ids THEN ForkHandle(s, Src(f), child) ELSE s.fds[f]]
           T == [d \in Ids |-> IF d \in D THEN m[d] ELSE 0]
           r == ForkInto(s, child, m)
<1>1. s \in IoServer /\ HandlesOwned(s) /\ TransfersKnown(s) /\ TablesLead(s) /\ NumbersApart(s)
  BY DEF Sane
<1>2. r = [s EXCEPT !.fds = F, !.table[child] = T, !.clients = s.clients \cup {child}]
  BY DEF ForkInto
<1>3. ids \subseteq FreeIds(s) /\ \A d \in Ids : d \in FreeIds(s) <=> s.fds[d].owner = None
  BY DEF FreeIds
<1>4. \A d \in D : Src(m[d]) = d
  BY DEF IsInjective
<1>5. \A f \in ids : Src(f) \in D /\ m[Src(f)] = f
  BY <1>4
<1> HIDE DEF Src
<1>6. T \in [Ids -> 0..MaxFd]
  BY IdFacts DEF FreeIds
<1>7. \A f \in Ids : /\ f \in ids => F[f] = ForkHandle(s, Src(f), child)
                     /\ f \notin ids => F[f] = s.fds[f]
  OBVIOUS
<1>8. \A f \in Ids : f \in ids => /\ F[f] \in Fd /\ F[f].owner = child /\ F[f].shadow = "yes"
                                  /\ F[f].transfer = "no" /\ F[f].orig = Src(f)
                                  /\ F[f].file = s.fds[Src(f)].file
  <2> SUFFICES ASSUME NEW f \in Ids, f \in ids
               PROVE  /\ F[f] \in Fd /\ F[f].owner = child /\ F[f].shadow = "yes"
                      /\ F[f].transfer = "no" /\ F[f].orig = Src(f)
                      /\ F[f].file = s.fds[Src(f)].file
    OBVIOUS
  <2>1. Src(f) \in Ids /\ F[f] = ForkHandle(s, Src(f), child)
    BY <1>5, <1>7
  <2> HIDE DEF F
  <2> QED
    BY <1>1, <2>1, ForkHandleFields
<1>9. F \in [Ids -> Fd]
  <2>1. \A f \in Ids : F[f] \in Fd
    BY <1>1, <1>7, <1>8, ServerFields
  <2>2. F = [f \in Ids |-> F[f]]
    OBVIOUS
  <2> HIDE DEF F
  <2> QED
    BY <2>1, <2>2
<1>10. \A k \in Ids : T[k] # 0 => k \in D /\ T[k] = m[k]
  OBVIOUS
<1>11. \A k \in Ids : k \notin D => T[k] = 0
  OBVIOUS
<1> HIDE DEF F, T, r
<1>12. /\ r \in IoServer /\ r.fds = F /\ r.table = [s.table EXCEPT ![child] = T]
       /\ r.clients = s.clients \cup {child} /\ r.xfer = s.xfer
  BY <1>1, <1>2, <1>6, <1>9 DEF IoServer
<1>13. /\ r.table[child] = T /\ \A p \in Pids : p # child => r.table[p] = s.table[p]
  BY <1>1, <1>12, ServerFields
<1>14. child # None
  BY IdFacts
<1>15. HandlesOwned(r)
  <2> SUFFICES ASSUME NEW d \in Ids
               PROVE  /\ r.fds[d].owner # None => r.fds[d].owner \in r.clients /\ r.fds[d].file # None
                      /\ r.fds[d].owner = None => r.fds[d] = FreeFd
    BY DEF HandlesOwned
  <2>1. CASE d \in ids
    <3>1. Src(d) \in Ids /\ s.fds[Src(d)].owner # None
      BY <1>3, <1>5, <2>1
    <3> HIDE DEF ids
    <3> QED
      BY <1>1, <1>8, <1>12, <1>14, <2>1, <3>1 DEF HandlesOwned
  <2>2. CASE d \notin ids
    BY <1>1, <1>7, <1>12, <2>2 DEF HandlesOwned
  <2> QED
    BY <2>1, <2>2
<1>16. TransfersKnown(r)
  <2>1. \A t \in s.xfer : t.fd \in Ids /\ t.fd \notin ids
    BY <1>1, <1>3, FreeFdFacts, ServerFields DEF TransfersKnown, HandlesOwned
  <2> HIDE DEF ids
  <2> QED
    BY <1>1, <1>7, <1>8, <1>12, <2>1 DEF TransfersKnown
<1>17. TablesLead(r)
  <2>1. ASSUME NEW p \in Pids, NEW k \in Ids, r.table[p][k] # 0
        PROVE  /\ r.table[p][r.table[p][k]] = 0
               /\ r.fds[r.table[p][k]].owner = p
               /\ r.fds[r.table[p][k]].shadow = "yes"
               /\ r.fds[r.table[p][k]].orig = k
    <3>1. CASE p = child
      <4>1. k \in D /\ r.table[p][k] = m[k] /\ m[k] \in ids /\ m[k] \in Ids /\ m[k] \notin D /\ Src(m[k]) = k
        BY <1>3, <1>4, <1>10, <1>13, <2>1, <3>1 DEF FreeIds
      <4>2. T[m[k]] = 0
        BY <1>11, <4>1
      <4> HIDE DEF ids
      <4> QED
        BY <1>8, <1>12, <1>13, <3>1, <4>1, <4>2
    <3>2. CASE p # child
      <4> DEFINE f == s.table[p][k]
      <4>1. r.table[p] = s.table[p] /\ f # 0 /\ f \in Ids
        BY <1>1, <1>13, <2>1, <3>2, IdFacts, ServerFields
      <4>2. s.table[p][f] = 0 /\ s.fds[f].owner = p /\ s.fds[f].shadow = "yes" /\ s.fds[f].orig = k
        BY <1>1, <4>1 DEF TablesLead
      <4>3. f \notin ids
        BY <1>3, <4>1, <4>2, IdFacts
      <4> QED
        BY <1>7, <1>12, <4>1, <4>2, <4>3
    <3> QED
      BY <3>1, <3>2
  <2>2. ASSUME NEW p \in Pids, p \notin r.clients \/ p \in InitLive, NEW k \in Ids
        PROVE  r.table[p][k] = 0
    <3>1. p # child /\ (p \notin s.clients \/ p \in InitLive)
      BY <1>12, <2>2
    <3> QED
      BY <1>1, <1>13, <3>1 DEF TablesLead
  <2> QED
    BY <2>1, <2>2 DEF TablesLead
<1>18. NumbersApart(r)
  <2> SUFFICES ASSUME NEW d \in Ids, r.fds[d].owner # None, r.fds[d].shadow = "no"
               PROVE  r.table[r.fds[d].owner][d] = 0
    BY DEF NumbersApart
  <2>1. d \notin ids /\ r.fds[d] = s.fds[d]
    BY <1>7, <1>8, <1>12
  <2>2. s.fds[d].owner \in s.clients /\ s.fds[d].owner \in Pids
    BY <1>1, <2>1, ServerFields DEF HandlesOwned
  <2>3. s.fds[d].owner # child
    BY <2>2
  <2> QED
    BY <1>1, <1>13, <2>1, <2>2, <2>3 DEF NumbersApart
<1>19. r \in Sane
  BY <1>12, <1>15, <1>16, <1>17, <1>18 DEF Sane
<1> QED
  BY <1>19 DEF r

(* fork_client(), for a child that was not there at the start.             *)
LEMMA ForkClientKeeps ==
  ASSUME NEW s \in Sane, NEW p \in Pids, NEW child \in Pids, child \notin InitLive
  PROVE  ForkClient(s, p, child) \subseteq Sane
<1> DEFINE own == OwnHandles(s, p)
           ind == Indirects(s, p)
           maps == {m \in [own \cup ind -> FreeIds(s)] :
                      /\ IsInjective(m)
                      /\ \A k, j \in ind : j < k => m[k] # j}
<1>1. own \cup ind \subseteq Ids /\ (own \cup ind) \cap FreeIds(s) = {}
  BY IdFacts DEF OwnHandles, Indirects, Handles, FreeIds
<1>2. Crash(s, "fork_clash") \in Sane /\ Crash(s, "fork_enomem") \in Sane
  BY CrashKeeps DEF Reasons
<1>3. ASSUME child \notin s.clients, NEW m \in maps PROVE ForkInto(s, child, m) \in Sane
  <2>1. /\ DOMAIN m \subseteq Ids /\ DOMAIN m \cap FreeIds(s) = {}
        /\ m \in [DOMAIN m -> FreeIds(s)] /\ IsInjective(m)
    BY <1>1
  <2> QED
    BY <1>3, <2>1, ForkIntoKeeps
<1>4. child \notin s.clients => {ForkInto(s, child, m) : m \in maps} \subseteq Sane
  BY <1>3
<1>5. \/ ForkClient(s, p, child) = {s}
      \/ ForkClient(s, p, child) = {Crash(s, "fork_clash")}
      \/ ForkClient(s, p, child) = {Crash(s, "fork_enomem")}
      \/ child \notin s.clients /\ ForkClient(s, p, child) = {ForkInto(s, child, m) : m \in maps}
  BY DEF ForkClient
<1> QED
  BY <1>2, <1>4, <1>5

-----------------------------------------------------------------------------
LcEvent == [tag : {"MPL_FORK", "MPL_EXEC", "MPL_EXIT"}, pid : Pids, child : Pids \cup {None}]

(* Only processes that were not there at the start are born of a fork.     *)
EventsKnown ==
  /\ events \in Seq(LcEvent)
  /\ \A k \in 1..Len(events) : events[k].tag = "MPL_FORK" => events[k].child \in Pids \ InitLive

(* The pending confirm handler will find its descriptor.                   *)
ConfirmReady ==
  /\ confirm \in [fn : {"none", "late_close_fd", "io_confirm"}, pid : Pids \cup {None}, fd : 0..MaxFd]
  /\ confirm.fn = "late_close_fd" => confirm.fd \in Ids /\ io.fds[confirm.fd].owner # None
  /\ confirm.fn = "io_confirm" =>
       /\ confirm.fd \in Ids /\ confirm.pid \in io.clients
       /\ GetFd(io, confirm.pid, confirm.fd) # 0

(* Between its halves internal_dup() has a client and a file, and nothing  *)
(* waits for the next operation.                                           *)
DupReady ==
  dup # NoDup => /\ confirm = NoConfirm
                 /\ dup \in [pid : Pids, file : Files, cloexec : YesNo, target : Pids \cup {None}]

Desc == [file : Files \cup {None}, cloexec : YesNo]
Processes ==
  /\ proc \in [Pids -> {"unborn", "live", "dead"}] /\ gen \in [Pids -> 0..MaxGen]
  /\ view \in [Pids -> [Ids -> Desc]]
  /\ \A p \in InitLive : proc[p] # "unborn"

IoFdInv == io \in Sane /\ EventsKnown /\ ConfirmReady /\ DupReady /\ Processes

(* get_fd_nosync() finds handles of the caller's, which have a file.       *)
LEMMA GetFdFacts ==
  ASSUME NEW s \in Sane, NEW p \in Pids, NEW d \in Ids, GetFd(s, p, d) # 0
  PROVE  /\ GetFd(s, p, d) \in Ids /\ s.fds[GetFd(s, p, d)].owner = p
         /\ s.fds[GetFd(s, p, d)].owner # None
         /\ s.fds[GetFd(s, p, d)].file \in Files
<1>1. s \in IoServer /\ TablesLead(s) /\ HandlesOwned(s)
  BY DEF Sane
<1>2. GetFd(s, p, d) \in Ids /\ s.fds[GetFd(s, p, d)].owner = p
  <2>1. CASE s.fds[d].owner = p
    BY <2>1 DEF GetFd
  <2>2. CASE s.fds[d].owner # p
    <3>1. GetFd(s, p, d) = s.table[p][d]
      BY <2>2 DEF GetFd
    <3>2. s.table[p][d] \in Ids
      BY <1>1, <3>1, IdFacts, ServerFields
    <3> QED
      BY <1>1, <3>1, <3>2 DEF TablesLead
  <2> QED
    BY <2>1, <2>2
<1>3. p # None
  BY IdFacts
<1> QED
  BY <1>1, <1>2, <1>3, ServerFields DEF HandlesOwned

(* Any event of the queue.                                                 *)
LEMMA EventKeeps ==
  ASSUME NEW s \in Sane, NEW e \in LcEvent, e.tag = "MPL_FORK" => e.child \in Pids \ InitLive
  PROVE  ApplyEvent(s, e) \subseteq Sane
<1>1. e.pid \in Pids /\ e.tag \in {"MPL_FORK", "MPL_EXEC", "MPL_EXIT"}
  BY DEF LcEvent
<1>2. CASE e.pid \notin s.clients \/ s.crashed # "no"
  BY <1>2 DEF ApplyEvent
<1>3. CASE ~(e.pid \notin s.clients \/ s.crashed # "no")
  <2>1. CASE e.tag = "MPL_FORK"
    <3>1. ApplyEvent(s, e) = ForkClient(s, e.pid, e.child)
      BY <1>3, <2>1 DEF ApplyEvent
    <3> QED
      BY <1>1, <2>1, <3>1, ForkClientKeeps
  <2>2. CASE e.tag = "MPL_EXEC"
    <3> DEFINE D == {d \in Handles(s, e.pid) : s.fds[d].cloexec = "yes"}
    <3>1. ApplyEvent(s, e) = {LateClose(s, D)}
      BY <1>3, <2>2 DEF ApplyEvent
    <3>2. D \in SUBSET Ids
      BY DEF Handles
    <3> HIDE DEF D
    <3> QED
      BY <3>1, <3>2, LateCloseKeeps
  <2>3. CASE e.tag = "MPL_EXIT"
    <3>1. ApplyEvent(s, e) = {ClientDtor(s, e.pid)}
      BY <1>3, <2>3 DEF ApplyEvent
    <3> QED
      BY <1>1, <3>1, ClientDtorKeeps
  <2> QED
    BY <1>1, <2>1, <2>2, <2>3
<1> QED
  BY <1>2, <1>3

(* All of them.                                                            *)
LEMMA SyncKeeps ==
  ASSUME NEW s \in Sane, EventsKnown
  PROVE  LifecycleSync(s) \subseteq Sane
<1>1. Len(events) \in Nat /\ \A k \in 1..Len(events) : events[k] \in LcEvent
  BY DEF EventsKnown
<1>2. \A t \in Sane, k \in 1..Len(events) : ApplyEvent(t, events[k]) \subseteq Sane
  BY <1>1, EventKeeps DEF EventsKnown
<1> QED
  BY <1>1, <1>2, SyncStaysIn

(* sync_confirm() finds the descriptor it is to work on.                   *)
LEMMA FdConfirmKeeps == ASSUME IoFdInv PROVE SyncConfirm(io) \in Sane
<1>1. io \in Sane /\ ConfirmReady
  BY DEF IoFdInv
<1>2. CASE confirm.fn = "none"
  BY <1>1, <1>2 DEF SyncConfirm
<1>3. CASE confirm.fn = "late_close_fd"
  <2>1. SyncConfirm(io) = LateClose(io, {confirm.fd}) /\ {confirm.fd} \in SUBSET Ids
    BY <1>1, <1>3 DEF SyncConfirm, ConfirmReady
  <2> QED
    BY <1>1, <2>1, LateCloseKeeps
<1>4. CASE confirm.fn = "io_confirm"
  BY <1>1, <1>4 DEF SyncConfirm, ConfirmReady
<1> QED
  BY <1>1, <1>2, <1>3, <1>4 DEF ConfirmReady

(* How every operation starts.                                             *)
LEMMA StartKeeps ==
  ASSUME IoFdInv
  PROVE  Start(io) \subseteq Sane /\ Running(io) \subseteq Sane /\ LifecycleSync(io) \subseteq Sane
<1>1. LifecycleSync(SyncConfirm(io)) \subseteq Sane /\ LifecycleSync(io) \subseteq Sane
  BY FdConfirmKeeps, SyncKeeps DEF IoFdInv
<1> QED
  BY <1>1 DEF Start, Running

(* The rollback handler that is set was given a handle or a file.          *)
RollbackKnown ==
  /\ \/ rollback = NoRollback
     \/ rollback.fn = "late_close_fd" /\ rollback.fd \in Ids
     \/ rollback.fn = "chrdev_rollback" /\ rollback.file \in Files
  /\ stale \in YesNo

(* It keeps the records in order even for a call that was answered, or     *)
(* stops the server.                                                       *)
LEMMA UndoKeeps ==
  ASSUME NEW s \in Sane, RollbackKnown, rollback # NoRollback
  PROVE  Undo(s) \in Sane
<1> DEFINE D == {d \in Ids : s.fds[d].file = rollback.file}
<1>1. CASE rollback.fn = "late_close_fd"
  <2>1. rollback.fd \in Ids
    BY <1>1 DEF RollbackKnown
  <2>2. Undo(s) \in {Crash(s, "stale_rollback"), LateClose(s, {rollback.fd})}
    BY <1>1 DEF Undo
  <2>3. {rollback.fd} \in SUBSET Ids
    BY <2>1
  <2> QED
    BY <2>2, <2>3, CrashKeeps, LateCloseKeeps DEF Reasons
<1>2. CASE rollback.fn = "chrdev_rollback"
  <2>1. \/ Undo(s) = Crash(s, "stale_rollback")
        \/ Undo(s) = FdDtor(s, D) /\ \A d \in D : s.fds[d].shadow # "yes"
    BY <1>2 DEF Undo, chrdev_rollback, iof_undo_new
  <2>2. ASSUME \A d \in D : s.fds[d].shadow # "yes" PROVE FdDtor(s, D) \in Sane
    <3>1. ASSUME NEW p \in Pids, NEW k \in Ids, s.table[p][k] # 0 PROVE s.table[p][k] \notin D
      <4>1. s.fds[s.table[p][k]].shadow = "yes"
        BY <3>1 DEF Sane, TablesLead
      <4> QED
        BY <2>2, <4>1
    <3> HIDE DEF D
    <3> QED
      BY <3>1, FdDtorKeeps
  <2> HIDE DEF D
  <2> QED
    BY <2>1, <2>2, CrashKeeps DEF Reasons
<1> QED
  BY <1>1, <1>2 DEF RollbackKnown

(* The end of a call that has set no rollback.                             *)
LEMMA ReplyKeeps ==
  ASSUME NEW s \in Sane, NEW p \in Pids, RollbackKnown, PlainReply(p, s) \/ StaleReply(s)
  PROVE  io' \in Sane
<1>1. CASE PlainReply(p, s)
  BY <1>1 DEF PlainReply
<1>2. CASE StaleReply(s)
  BY <1>2, UndoKeeps DEF StaleReply
<1> QED
  BY <1>1, <1>2

(* The queue is empty once it was applied.                                 *)
LEMMA NoEvents == <<>> \in Seq(LcEvent) /\ Len(<<>>) = 0
OBVIOUS

(* An operation that defers nothing.                                       *)
LEMMA FdDone ==
  ASSUME IoFdInv, io' \in Sane, events' = <<>>, confirm' = NoConfirm, dup' = dup \/ dup' = NoDup,
         Processes'
  PROVE  IoFdInv'
<1>1. EventsKnown'
  BY NoEvents DEF EventsKnown
<1>2. NoConfirm \in [fn : {"none", "late_close_fd", "io_confirm"}, pid : Pids \cup {None}, fd : 0..MaxFd]
  BY IdFacts DEF NoConfirm
<1>3. ConfirmReady'
  BY <1>2 DEF ConfirmReady, NoConfirm
<1>4. DupReady'
  BY DEF DupReady, IoFdInv
<1> QED
  BY <1>1, <1>3, <1>4 DEF IoFdInv

(* Processes and their descriptors as POSIX has them keep their types when *)
(* nothing of them changes,                                                *)
LEMMA SameProcesses == ASSUME Processes, UNCHANGED envVars PROVE Processes'
BY DEF Processes, envVars

(* or their descriptors do, to others of the type,                         *)
LEMMA ViewChanges ==
  ASSUME Processes, UNCHANGED <<proc, gen>>, view' \in [Pids -> [Ids -> Desc]] PROVE Processes'
BY DEF Processes

(* as when one descriptor is assigned to.                                  *)
LEMMA ViewSet ==
  ASSUME Processes, NEW p \in Pids, NEW d \in Ids, NEW x \in Desc
  PROVE  [view EXCEPT ![p][d] = x] \in [Pids -> [Ids -> Desc]]
BY DEF Processes

(* Aborts, pokes and calls that do nothing.                                *)
LEMMA PlainSteps ==
  ASSUME IoFdInv, RollbackKnown, Abort \/ Poke \/ \E p \in Pids : CallFails(p) \/ CallerGone(p)
  PROVE  IoFdInv'
<1>1. events' = <<>> /\ confirm' = NoConfirm /\ dup' = dup /\ UNCHANGED envVars
  BY DEF Abort, Poke, CallFails, CallerGone
<1>2. Processes'
  BY <1>1, SameProcesses DEF IoFdInv
<1>3. io' \in Sane
  <2>1. CASE Abort
    BY <2>1, StartKeeps DEF Abort
  <2>2. CASE Poke
    BY <2>2, StartKeeps DEF Poke
  <2>3. ASSUME NEW p \in Pids, CallFails(p) PROVE io' \in Sane
    <3>1. PICK s \in Running(io) : PlainReply(p, s) \/ StaleReply(s)
      BY <2>3 DEF CallFails
    <3> QED
      BY <3>1, StartKeeps, ReplyKeeps
  <2>4. ASSUME NEW p \in Pids, CallerGone(p) PROVE io' \in Sane
    <3>1. PICK s \in Running(io) : io' = Crash(s, "no_client")
      BY <2>4 DEF CallerGone
    <3> QED
      BY <3>1, StartKeeps, CrashKeeps DEF Reasons
  <2> QED
    BY <2>1, <2>2, <2>3, <2>4
<1> QED
  BY <1>1, <1>2, <1>3, FdDone

(* Descriptors of a process.                                               *)
LEMMA DescTyped ==
  /\ NoDesc \in Desc
  /\ \A f \in Files \cup {None}, cx \in YesNo : [file |-> f, cloexec |-> cx] \in Desc
BY IdFacts DEF Desc, NoDesc

(* What io_add_fd() changes.                                               *)
LEMMA AddFdFields ==
  ASSUME NEW s \in IoServer, NEW p \in Pids, NEW d \in Ids, NEW f \in Files, NEW cx \in YesNo, NEW tr \in YesNo
  PROVE  LET r == AddFd(s, p, d, f, cx, tr)
         IN  /\ r \in IoServer /\ r.table = s.table /\ r.clients = s.clients /\ r.xfer = s.xfer
             /\ r.crashed = s.crashed
             /\ r.fds = [s.fds EXCEPT ![d] = NewFd(p, f, cx, tr)]
<1> DEFINE h == NewFd(p, f, cx, tr)
           F == [s.fds EXCEPT ![d] = h]
<1>1. h \in Fd
  BY IdFacts DEF FreeFd, Fd, NewFd
<1>2. AddFd(s, p, d, f, cx, tr) = [s EXCEPT !.fds = F]
  BY DEF AddFd, NewFd
<1> HIDE DEF h
<1>3. F \in [Ids -> Fd]
  BY <1>1, ServerFields
<1> HIDE DEF F
<1>4. LET r == [s EXCEPT !.fds = F]
      IN  /\ r \in IoServer /\ r.table = s.table /\ r.clients = s.clients /\ r.xfer = s.xfer
          /\ r.crashed = s.crashed /\ r.fds = F
  BY <1>3 DEF IoServer
<1> QED
  BY <1>2, <1>4 DEF F, h

(* chrdev_open() and its rollback.                                         *)
LEMMA OpenKeeps ==
  ASSUME IoFdInv, RollbackKnown, NEW p \in Pids, NEW f \in Files, NEW cx \in YesNo, Open(p, f, cx)
  PROVE  IoFdInv'
<1>0. PICK s0 \in Running(io), out \in Outcome(p) :
        LET s == AddClient(s0, p) IN
        /\ \A d \in Ids : s.fds[d].file # f
        /\ \/ (PlainReply(p, s) \/ StaleReply(s)) /\ view' = view
           \/ \E d \in AllocFd(s, p) :
                \/ /\ io' = AddFd(s, p, d, f, cx, "no")
                   /\ view' = [view EXCEPT ![p][d] = [file |-> f, cloexec |-> cx]]
                \/ io' = chrdev_rollback(AddFd(s, p, d, f, cx, "no"), f) /\ view' = view
  BY DEF Open
<1> DEFINE s == AddClient(s0, p)
<1>1. events' = <<>> /\ confirm' = NoConfirm /\ dup' = dup /\ UNCHANGED <<proc, gen>> /\ Processes
  BY DEF Open, IoFdInv
<1>2. s \in Sane /\ p \in s.clients /\ s \in IoServer
  BY StartKeeps, AddClientKeeps DEF Sane
<1>3. /\ \A d \in Ids : s.fds[d].file # f
      /\ \/ (PlainReply(p, s) \/ StaleReply(s)) /\ view' = view
         \/ \E d \in AllocFd(s, p) :
              \/ /\ io' = AddFd(s, p, d, f, cx, "no")
                 /\ view' = [view EXCEPT ![p][d] = [file |-> f, cloexec |-> cx]]
              \/ io' = chrdev_rollback(AddFd(s, p, d, f, cx, "no"), f) /\ view' = view
  BY <1>0
<1> HIDE DEF s
<1>4. CASE (PlainReply(p, s) \/ StaleReply(s)) /\ view' = view
  <2>1. Processes'
    BY <1>1, <1>4, ViewChanges DEF Processes
  <2>2. io' \in Sane
    BY <1>2, <1>4, ReplyKeeps
  <2> QED
    BY <1>1, <2>1, <2>2, FdDone
<1>5. ASSUME NEW d \in AllocFd(s, p),
             \/ /\ io' = AddFd(s, p, d, f, cx, "no")
                /\ view' = [view EXCEPT ![p][d] = [file |-> f, cloexec |-> cx]]
             \/ io' = chrdev_rollback(AddFd(s, p, d, f, cx, "no"), f) /\ view' = view
      PROVE  IoFdInv'
  <2> DEFINE r == AddFd(s, p, d, f, cx, "no")
             h == NewFd(p, f, cx, "no")
  <2>1. d \in Ids /\ "no" \in YesNo /\ s.fds[d].owner = None
    BY IdFacts DEF AllocFd, FreeIds
  <2>2. /\ r \in IoServer /\ r.table = s.table /\ r.clients = s.clients /\ r.xfer = s.xfer
        /\ r.fds = [s.fds EXCEPT ![d] = h]
    BY <1>2, <2>1, AddFdFields
  <2>3. h.shadow = "no" /\ h.owner = p /\ h.file = f
    BY DEF FreeFd, NewFd
  <2> HIDE DEF r
  <2>4. r \in Sane
    BY <1>2, <2>1, <2>2, AddFdKeeps
  <2> HIDE DEF h
  <2>5. chrdev_rollback(r, f) \in Sane
    <3> DEFINE D == {e \in Ids : r.fds[e].file = f}
    <3>1. D \subseteq {d}
      BY <1>2, <1>3, <2>1, <2>2, ServerFields
    <3>2. ASSUME NEW q \in Pids, NEW k \in Ids, r.table[q][k] # 0 PROVE r.table[q][k] \notin D
      <4>1. r.fds[r.table[q][k]].shadow = "yes"
        BY <2>4, <3>2 DEF Sane, TablesLead
      <4>2. r.fds[d].shadow = "no"
        BY <1>2, <2>1, <2>2, <2>3, ServerFields
      <4> QED
        BY <3>1, <4>1, <4>2
    <3>3. chrdev_rollback(r, f) = FdDtor(r, D)
      BY DEF chrdev_rollback, iof_undo_new
    <3> HIDE DEF D
    <3> QED
      BY <2>4, <3>2, <3>3, FdDtorKeeps
  <2>6. io' \in Sane
    BY <1>5, <2>4, <2>5 DEF r
  <2>7. view' \in [Pids -> [Ids -> Desc]]
    <3>1. [file |-> f, cloexec |-> cx] \in Desc
      BY DescTyped
    <3>2. [view EXCEPT ![p][d] = [file |-> f, cloexec |-> cx]] \in [Pids -> [Ids -> Desc]]
      BY <1>1, <2>1, <3>1, ViewSet
    <3> QED
      BY <1>1, <1>5, <3>2 DEF Processes
  <2>8. Processes'
    BY <1>1, <2>7, ViewChanges
  <2> QED
    BY <1>1, <2>6, <2>8, FdDone
<1> QED
  BY <1>3, <1>4, <1>5

(* io_impl_close() defers its work to a confirm handler whose handle is    *)
(* there.                                                                  *)
LEMMA CloseKeeps ==
  ASSUME IoFdInv, NEW p \in Pids, NEW d \in Ids, Close(p, d)
  PROVE  IoFdInv'
<1>1. PICK s \in Running(io) :
        /\ GetFd(s, p, d) # 0 /\ io' = s
        /\ confirm' = [fn |-> "late_close_fd", pid |-> None, fd |-> GetFd(s, p, d)]
  BY DEF Close
<1>2. /\ events' = <<>> /\ dup = NoDup /\ dup' = dup /\ UNCHANGED <<proc, gen>> /\ Processes
      /\ view' = [view EXCEPT ![p][d] = NoDesc]
  BY DEF Close, Idle, IoFdInv
<1>3. s \in Sane
  BY <1>1, StartKeeps
<1>4. GetFd(s, p, d) \in Ids /\ s.fds[GetFd(s, p, d)].owner # None
  BY <1>1, <1>3, GetFdFacts
<1>5. ConfirmReady'
  BY <1>1, <1>4, IdFacts DEF ConfirmReady
<1>6. view' \in [Pids -> [Ids -> Desc]]
  BY <1>2, ViewSet, DescTyped
<1>7. Processes'
  BY <1>2, <1>6, ViewChanges
<1>8. EventsKnown' /\ DupReady'
  BY <1>2, NoEvents DEF EventsKnown, DupReady
<1> QED
  BY <1>1, <1>3, <1>5, <1>7, <1>8 DEF IoFdInv

(* So do io_impl_read() and io_impl_write().                               *)
LEMMA ReadWriteKeeps ==
  ASSUME IoFdInv, NEW p \in Pids, NEW d \in Ids, ReadWrite(p, d)
  PROVE  IoFdInv'
<1>1. PICK s \in Running(io) : p \in s.clients /\ GetFd(s, p, d) # 0 /\ io' = s
  BY DEF ReadWrite
<1>2. /\ events' = <<>> /\ dup = NoDup /\ dup' = dup /\ UNCHANGED envVars /\ Processes
      /\ confirm' = [fn |-> "io_confirm", pid |-> p, fd |-> d]
  BY DEF ReadWrite, Idle, IoFdInv
<1>3. s \in Sane
  BY <1>1, StartKeeps
<1>4. GetFd(io, confirm.pid, confirm.fd)' # 0
  <2>1. io' = s /\ confirm'.pid = p /\ confirm'.fd = d
    BY <1>1, <1>2
  <2> QED
    BY <1>1, <2>1 DEF GetFd
<1>5. ConfirmReady'
  BY <1>1, <1>2, <1>4, IdFacts DEF ConfirmReady
<1>6. EventsKnown' /\ DupReady' /\ Processes'
  BY <1>2, NoEvents, SameProcesses DEF EventsKnown, DupReady
<1> QED
  BY <1>1, <1>3, <1>5, <1>6 DEF IoFdInv

(* io_impl_set_handle_flags() works on a handle in use.                    *)
LEMMA SetFlagsKeeps ==
  ASSUME IoFdInv, NEW p \in Pids, NEW d \in Ids, NEW cx \in YesNo, SetHandleFlags(p, d, cx)
  PROVE  IoFdInv'
<1>1. PICK s \in Running(io) : GetFd(s, p, d) # 0 /\ io' = [s EXCEPT !.fds[GetFd(s, p, d)].cloexec = cx]
  BY DEF SetHandleFlags, PlainReply
<1>2. /\ events' = <<>> /\ confirm' = NoConfirm /\ dup' = dup /\ UNCHANGED <<proc, gen>> /\ Processes
      /\ view' = [view EXCEPT ![p][d].cloexec = IF proc[p] = "live" THEN cx ELSE @]
  BY DEF SetHandleFlags, IoFdInv
<1>3. s \in Sane
  BY <1>1, StartKeeps
<1>4. GetFd(s, p, d) \in Ids /\ s.fds[GetFd(s, p, d)].owner # None
  BY <1>1, <1>3, GetFdFacts
<1>5. io' \in Sane
  BY <1>1, <1>3, <1>4, FlagsKeep
<1>6. view' \in [Pids -> [Ids -> Desc]]
  <2> DEFINE x == [view[p][d] EXCEPT !.cloexec = IF proc[p] = "live" THEN cx ELSE view[p][d].cloexec]
  <2>0. view[p][d] \in Desc
    BY <1>2 DEF Processes
  <2>1. x \in Desc
    BY <2>0 DEF Desc
  <2>2. view' = [view EXCEPT ![p][d] = x]
    BY <1>2
  <2> HIDE DEF x
  <2> QED
    BY <1>2, <2>1, <2>2, ViewSet
<1>7. Processes'
  BY <1>2, <1>6, ViewChanges
<1> QED
  BY <1>2, <1>5, <1>7, FdDone

(* internal_dup() comes by a client and a file,                            *)
LEMMA DupStartKeeps ==
  ASSUME IoFdInv, NEW p \in Pids, NEW d \in Ids, NEW cx \in YesNo, NEW q \in Pids \cup {None},
         DupStart(p, d, cx, q)
  PROVE  IoFdInv'
<1>1. PICK s \in Running(io) :
        /\ GetFd(s, p, d) # 0 /\ io' = s
        /\ dup' = [pid |-> p, file |-> s.fds[GetFd(s, p, d)].file, cloexec |-> cx, target |-> q]
  BY DEF DupStart
<1>2. events' = <<>> /\ confirm' = NoConfirm /\ UNCHANGED envVars /\ Processes
  BY DEF DupStart, IoFdInv
<1>3. s \in Sane
  BY <1>1, StartKeeps
<1>4. s.fds[GetFd(s, p, d)].file \in Files
  BY <1>1, <1>3, GetFdFacts
<1>5. DupReady'
  BY <1>1, <1>2, <1>4 DEF DupReady
<1>6. NoConfirm \in [fn : {"none", "late_close_fd", "io_confirm"}, pid : Pids \cup {None}, fd : 0..MaxFd]
  BY IdFacts DEF NoConfirm
<1>7. ConfirmReady'
  BY <1>2, <1>6 DEF ConfirmReady, NoConfirm
<1>8. EventsKnown' /\ Processes'
  BY <1>2, NoEvents, SameProcesses DEF EventsKnown
<1> QED
  BY <1>1, <1>3, <1>5, <1>7, <1>8 DEF IoFdInv

(* and makes a handle of them unless the second lifecycle_sync() has       *)
(* closed the file.                                                        *)
LEMMA DupFinishKeeps == ASSUME IoFdInv, RollbackKnown, DupFinish PROVE IoFdInv'
<1> DEFINE p == dup.pid
           tr == IF dup.target = None THEN "no" ELSE "yes"
           X(d) == IF dup.target = None THEN {} ELSE {[fd |-> d, target |-> dup.target]}
<1>1. /\ dup # NoDup /\ dup' = NoDup /\ events' = <<>> /\ confirm' = confirm
      /\ UNCHANGED <<proc, gen>> /\ Processes /\ confirm = NoConfirm
      /\ p \in Pids /\ dup.file \in Files /\ dup.cloexec \in YesNo /\ dup.target \in Pids \cup {None}
  BY DEF DupFinish, IoFdInv, DupReady
<1>2. PICK s0 \in LifecycleSync(io) :
        LET s == AddClient(s0, p)
        IN  \/ io' = s0 /\ view' = view
            \/ io' = Crash(s, "stale_file") /\ view' = view
            \/ \E d \in AllocFd(s, p) :
                 /\ io' = [AddFd(s, p, d, dup.file, dup.cloexec, tr) EXCEPT !.xfer = @ \cup X(d)]
                 /\ view' = [view EXCEPT ![p][d] = [file |-> dup.file, cloexec |-> dup.cloexec]]
            \/ (io' = s \/ PlainReply(p, s) \/ StaleReply(s)) /\ view' = view
  BY DEF DupFinish
<1> DEFINE s == AddClient(s0, p)
<1>3. s0 \in Sane
  BY StartKeeps
<1>4. s \in Sane /\ p \in s.clients /\ s \in IoServer
  BY <1>1, <1>3, AddClientKeeps DEF Sane
<1>5. \/ io' = s0 /\ view' = view
      \/ io' = Crash(s, "stale_file") /\ view' = view
      \/ \E d \in AllocFd(s, p) :
           /\ io' = [AddFd(s, p, d, dup.file, dup.cloexec, tr) EXCEPT !.xfer = @ \cup X(d)]
           /\ view' = [view EXCEPT ![p][d] = [file |-> dup.file, cloexec |-> dup.cloexec]]
      \/ (io' = s \/ PlainReply(p, s) \/ StaleReply(s)) /\ view' = view
  BY <1>2
<1> HIDE DEF s
<1>6. CASE /\ io' = s0 \/ io' = Crash(s, "stale_file") \/ io' = s \/ PlainReply(p, s) \/ StaleReply(s)
           /\ view' = view
  <2>0. p \in Pids
    BY <1>1
  <2> HIDE DEF p
  <2>1. io' \in Sane
    BY <1>3, <1>4, <1>6, <2>0, CrashKeeps, ReplyKeeps DEF Reasons
  <2>2. Processes'
    BY <1>1, <1>6, ViewChanges DEF Processes
  <2> QED
    BY <1>1, <2>1, <2>2, FdDone
<1>7. ASSUME NEW d \in AllocFd(s, p),
             io' = [AddFd(s, p, d, dup.file, dup.cloexec, tr) EXCEPT !.xfer = @ \cup X(d)],
             view' = [view EXCEPT ![p][d] = [file |-> dup.file, cloexec |-> dup.cloexec]]
      PROVE  IoFdInv'
  <2> DEFINE a == AddFd(s, p, d, dup.file, dup.cloexec, tr)
             r == [a EXCEPT !.xfer = a.xfer \cup X(d)]
  <2>1. d \in Ids /\ tr \in YesNo
    BY IdFacts DEF AllocFd, FreeIds
  <2>2. /\ a \in IoServer /\ a.table = s.table /\ a.clients = s.clients /\ a.xfer = s.xfer
        /\ a.fds = [s.fds EXCEPT ![d] = NewFd(p, dup.file, dup.cloexec, tr)]
    BY <1>1, <1>4, <2>1, AddFdFields
  <2>3. X(d) \in SUBSET [fd : Ids, target : Pids]
    BY <1>1, <2>1
  <2>4. io' = r
    BY <1>7
  <2>5. \/ tr = "no" /\ X(d) = {}
        \/ tr = "yes" /\ dup.target \in Pids /\ X(d) = {[fd |-> d, target |-> dup.target]}
    BY <1>1
  <2> HIDE DEF a, X, tr, p
  <2>6. /\ r \in IoServer /\ r.table = s.table /\ r.clients = s.clients /\ r.xfer = s.xfer \cup X(d)
        /\ r.fds = [s.fds EXCEPT ![d] = NewFd(p, dup.file, dup.cloexec, tr)]
    BY <2>2, <2>3 DEF IoServer
  <2> HIDE DEF r
  <2>7. \/ tr = "no" /\ r.xfer = s.xfer
        \/ tr = "yes" /\ \E q \in Pids : r.xfer = s.xfer \cup {[fd |-> d, target |-> q]}
    BY <2>5, <2>6
  <2>8. r \in Sane
    <3> DEFINE f == dup.file
               cx == dup.cloexec
    <3>1. f \in Files /\ cx \in YesNo
      BY <1>1
    <3>2. r.fds = [s.fds EXCEPT ![d] = NewFd(p, f, cx, tr)]
      BY <2>6
    <3>3. r \in IoServer /\ r.table = s.table /\ r.clients = s.clients
      BY <2>6
    <3> HIDE DEF f, cx
    <3>4. CASE tr = "no" /\ r.xfer = s.xfer
      BY <1>4, <2>1, <3>1, <3>2, <3>3, <3>4, AddFdKeeps
    <3>5. CASE tr = "yes" /\ \E q \in Pids : r.xfer = s.xfer \cup {[fd |-> d, target |-> q]}
      BY <1>4, <2>1, <3>1, <3>2, <3>3, <3>5, AddFdKeeps
    <3> QED
      BY <2>7, <3>4, <3>5
  <2>9. view' \in [Pids -> [Ids -> Desc]]
    <3>1. [file |-> dup.file, cloexec |-> dup.cloexec] \in Desc
      BY <1>1, DescTyped
    <3>2. [view EXCEPT ![p][d] = [file |-> dup.file, cloexec |-> dup.cloexec]] \in [Pids -> [Ids -> Desc]]
      BY <1>1, <2>1, <3>1, ViewSet
    <3> QED
      BY <1>7, <3>2
  <2>10. Processes'
    BY <1>1, <2>9, ViewChanges
  <2> QED
    BY <1>1, <2>4, <2>8, <2>10, FdDone
<1> QED
  BY <1>5, <1>6, <1>7

(* io_impl_touch(), by a process that no fork has made.                    *)
LEMMA TouchStep ==
  ASSUME IoFdInv, NEW p \in Pids, p \in InitLive, NEW d \in Ids, Touch(p, d)
  PROVE  IoFdInv'
<1> DEFINE t == [fd |-> d, target |-> p]
           seen(s) == [q \in Pids |-> [view[q] EXCEPT ![d] =
                         IF q = p /\ proc[p] = "live"
                           THEN [file |-> s.fds[d].file, cloexec |-> s.fds[d].cloexec]
                         ELSE IF q = s.fds[d].owner THEN NoDesc ELSE @]]
<1>1. events' = <<>> /\ confirm' = NoConfirm /\ dup' = dup /\ UNCHANGED <<proc, gen>> /\ Processes
  BY DEF Touch, IoFdInv
<1>2. PICK s0 \in Running(io) :
        LET s == AddClient(s0, p)
        IN  \/ io' = s /\ view' = view
            \/ /\ t \in s.xfer /\ s.fds[d].transfer # "no"
               /\ io' = [s EXCEPT !.xfer = @ \ {t}, !.fds[d].owner = p, !.fds[d].transfer = "no"]
               /\ view' = seen(s)
  BY DEF Touch, PlainReply
<1> DEFINE s == AddClient(s0, p)
<1>3. s \in Sane /\ p \in s.clients /\ s \in IoServer
  BY <1>2, StartKeeps, AddClientKeeps DEF Sane
<1>4. \/ io' = s /\ view' = view
      \/ /\ t \in s.xfer /\ s.fds[d].transfer # "no"
         /\ io' = [s EXCEPT !.xfer = @ \ {t}, !.fds[d].owner = p, !.fds[d].transfer = "no"]
         /\ view' = seen(s)
  BY <1>2
<1> HIDE DEF s
<1>5. CASE io' = s /\ view' = view
  <2>1. Processes'
    BY <1>1, <1>5, ViewChanges DEF Processes
  <2> QED
    BY <1>1, <1>3, <1>5, <2>1, FdDone
<1>6. CASE /\ t \in s.xfer /\ s.fds[d].transfer # "no"
           /\ io' = [s EXCEPT !.xfer = @ \ {t}, !.fds[d].owner = p, !.fds[d].transfer = "no"]
           /\ view' = seen(s)
  <2> DEFINE h1 == [s.fds[d] EXCEPT !.owner = p]
             h == [h1 EXCEPT !.transfer = "no"]
             F == [s.fds EXCEPT ![d] = h]
             X == s.xfer \ {t}
             r == [s EXCEPT !.xfer = X, !.fds = F]
  <2>1. s.fds[d] \in Fd /\ s.fds[d].transfer = "yes"
    BY <1>3, <1>6, ServerFields DEF YesNo
  <2>2. h1 \in Fd
    BY <2>1 DEF Fd
  <2>3. h = [s.fds[d] EXCEPT !.owner = p, !.transfer = "no"]
    OBVIOUS
  <2>4. io' = r
    <3>1. s.fds \in [Ids -> Fd]
      BY <1>3, ServerFields
    <3>2. [[s.fds EXCEPT ![d].owner = p] EXCEPT ![d].transfer = "no"] = F
      BY <2>1, <3>1
    <3>3. io' = [s EXCEPT !.xfer = X, !.fds = [[s.fds EXCEPT ![d].owner = p] EXCEPT ![d].transfer = "no"]]
      BY <1>3, <1>6 DEF IoServer
    <3> QED
      BY <3>2, <3>3
  <2> HIDE DEF h1
  <2>5. h \in Fd
    BY <2>2, IdFacts DEF Fd
  <2> HIDE DEF h
  <2>6. F \in [Ids -> Fd] /\ X \in SUBSET [fd : Ids, target : Pids]
    BY <1>3, <2>5, ServerFields
  <2> HIDE DEF F, X
  <2>7. r \in IoServer /\ r.fds = F /\ r.table = s.table /\ r.clients = s.clients /\ r.xfer = X
    BY <1>3, <2>6 DEF IoServer
  <2> HIDE DEF r
  <2>8. r \in Sane
    <3>1. /\ r.fds = [s.fds EXCEPT ![d] = [s.fds[d] EXCEPT !.owner = p, !.transfer = "no"]]
          /\ r.xfer = s.xfer \ {[fd |-> d, target |-> p]} /\ [fd |-> d, target |-> p] \in s.xfer
      BY <1>6, <2>3, <2>7 DEF F, X
    <3> QED
      BY <1>3, <2>1, <2>7, <3>1, TouchKeeps
  <2>9. view' \in [Pids -> [Ids -> Desc]]
    <3>1. \A q \in Pids : view[q] \in [Ids -> Desc]
      BY <1>1 DEF Processes
    <3>2. [file |-> s.fds[d].file, cloexec |-> s.fds[d].cloexec] \in Desc /\ NoDesc \in Desc
      BY <1>3, ServerFields, DescTyped
    <3>3. \A q \in Pids : [view[q] EXCEPT ![d] =
              IF q = p /\ proc[p] = "live"
                THEN [file |-> s.fds[d].file, cloexec |-> s.fds[d].cloexec]
              ELSE IF q = s.fds[d].owner THEN NoDesc ELSE @] \in [Ids -> Desc]
      BY <3>1, <3>2
    <3> QED
      BY <1>6, <3>3
  <2>10. Processes'
    BY <1>1, <2>9, ViewChanges
  <2> QED
    BY <1>1, <2>4, <2>8, <2>10, FdDone
<1> QED
  BY <1>4, <1>5, <1>6

(* A lifecycle event is queued.                                            *)
LEMMA AnnounceKeeps ==
  ASSUME IoFdInv, NEW p \in Pids, NEW q \in Pids \cup {None}, NEW tag \in {"MPL_FORK", "MPL_EXEC", "MPL_EXIT"},
         Announce(tag, p, q), tag = "MPL_FORK" => q \in Pids \ InitLive
  PROVE  /\ io' \in Sane /\ EventsKnown' /\ ConfirmReady' /\ DupReady'
<1> DEFINE e == [tag |-> tag, pid |-> p, child |-> q]
<1>1. events' = Append(events, e) /\ io' = io /\ confirm' = confirm /\ dup' = dup
  BY DEF Announce
<1>2. e \in LcEvent /\ events \in Seq(LcEvent) /\ (e.tag = "MPL_FORK" => e.child \in Pids \ InitLive)
  BY DEF LcEvent, IoFdInv, EventsKnown
<1> HIDE DEF e
<1>3. /\ events' \in Seq(LcEvent) /\ Len(events') = Len(events) + 1 /\ Len(events) \in Nat
      /\ \A k \in 1..(Len(events) + 1) : events'[k] = IF k = Len(events) + 1 THEN e ELSE events[k]
  BY <1>1, <1>2
<1>4. EventsKnown'
  BY <1>2, <1>3 DEF IoFdInv, EventsKnown
<1>5. ConfirmReady'
  BY <1>1 DEF IoFdInv, ConfirmReady, GetFd
<1>6. DupReady'
  BY <1>1 DEF IoFdInv, DupReady
<1> QED
  BY <1>1, <1>4, <1>5, <1>6 DEF IoFdInv

(* Fork, exec and exit of a process.                                       *)
LEMMA ProcessSteps ==
  ASSUME IoFdInv, NEW p \in Pids, Exec(p) \/ Exit(p) \/ \E q \in Pids : Fork(p, q)
  PROVE  IoFdInv'
<1>0. Processes /\ None \notin Pids /\ MaxGen \in Nat
  BY IdFacts, IoFdAssumption DEF IoFdInv
<1>1. CASE Exec(p)
  <2>1. Announce("MPL_EXEC", p, None) /\ UNCHANGED <<proc, gen>>
    BY <1>1 DEF Exec
  <2>2. [d \in Ids |-> IF view[p][d].cloexec = "yes" THEN NoDesc ELSE view[p][d]] \in [Ids -> Desc]
    BY <1>0, DescTyped DEF Processes
  <2>3. view' \in [Pids -> [Ids -> Desc]]
    BY <1>0, <1>1, <2>2 DEF Exec, Processes
  <2>4. Processes'
    BY <1>0, <2>1, <2>3, ViewChanges
  <2> QED
    BY <2>1, <2>4, AnnounceKeeps DEF IoFdInv
<1>2. CASE Exit(p)
  <2>1. Announce("MPL_EXIT", p, None)
    BY <1>2 DEF Exit
  <2>2. [d \in Ids |-> NoDesc] \in [Ids -> Desc]
    BY DescTyped
  <2>3. Processes'
    BY <1>0, <1>2, <2>2 DEF Exit, Processes
  <2> QED
    BY <2>1, <2>3, AnnounceKeeps DEF IoFdInv
<1>3. ASSUME NEW q \in Pids, Fork(p, q) PROVE IoFdInv'
  <2>1. Announce("MPL_FORK", p, q) /\ q \in Pids \ InitLive
    BY <1>0, <1>3 DEF Fork, Processes
  <2>2. gen[p] + 1 \in 0..MaxGen
    BY <1>0, <1>3 DEF Fork, Processes
  <2>3. Processes'
    BY <1>0, <1>3, <2>2 DEF Fork, Processes
  <2> QED
    BY <2>1, <2>3, AnnounceKeeps DEF IoFdInv
<1> QED
  BY <1>1, <1>2, <1>3

(* The server starts without clients.                                      *)
LEMMA IoFdStarts == ASSUME IoFdInit PROVE IoFdInv
<1> DEFINE F == [d \in Ids |-> FreeFd]
           T == [p \in Pids |-> [d \in Ids |-> 0]]
<1>1. io = [fds |-> F, table |-> T, clients |-> {}, xfer |-> {}, crashed |-> "no"]
  BY DEF IoFdInit
<1>2. F \in [Ids -> Fd] /\ T \in [Pids -> [Ids -> 0..MaxFd]] /\ "no" \in Reasons
  BY IdFacts, FreeFdFacts DEF Reasons
<1>3. (\A d \in Ids : F[d] = FreeFd) /\ (\A p \in Pids : \A d \in Ids : T[p][d] = 0)
  OBVIOUS
<1> HIDE DEF F, T
<1>4. io \in IoServer
  BY <1>1, <1>2 DEF IoServer
<1>5. io.fds = F /\ io.table = T /\ io.xfer = {}
  BY <1>1
<1>6. io \in Sane
  BY <1>3, <1>4, <1>5, FreeFdFacts DEF Sane, HandlesOwned, TransfersKnown, TablesLead, NumbersApart
<1>7. EventsKnown
  BY NoEvents DEF IoFdInit, EventsKnown
<1>8. ConfirmReady /\ DupReady
  BY IdFacts DEF IoFdInit, ConfirmReady, DupReady, NoConfirm
<1>9. Processes
  BY DescTyped, IoFdAssumption DEF IoFdInit, Processes
<1> QED
  BY <1>6, <1>7, <1>8, <1>9 DEF IoFdInv

(* Every step keeps the invariant if only processes that no fork has made  *)
(* take over descriptors.                                                  *)
LEMMA IoFdSteps ==
  ASSUME Receivers \subseteq InitLive, IoFdInv, RollbackKnown, [IoFdNext]_ioVars
  PROVE  IoFdInv'
<1>1. CASE UNCHANGED ioVars
  <2>1. io' = io /\ confirm' = confirm /\ dup' = dup /\ events' = events /\ UNCHANGED envVars
    BY <1>1 DEF ioVars
  <2>2. EventsKnown' /\ DupReady' /\ Processes'
    BY <2>1, SameProcesses DEF IoFdInv, EventsKnown, DupReady
  <2>3. ConfirmReady'
    BY <2>1 DEF IoFdInv, ConfirmReady, GetFd
  <2> QED
    BY <2>1, <2>2, <2>3 DEF IoFdInv
<1>2. CASE Abort \/ Poke \/ \E p \in Pids : CallFails(p) \/ CallerGone(p)
  BY <1>2, PlainSteps
<1>3. CASE DupFinish
  BY <1>3, DupFinishKeeps
<1>4. ASSUME NEW p \in Pids, Exec(p) \/ Exit(p) \/ \E q \in Pids : Fork(p, q) PROVE IoFdInv'
  BY <1>4, ProcessSteps
<1>5. ASSUME NEW p \in Pids, NEW f \in Files, NEW cx \in YesNo, Open(p, f, cx) PROVE IoFdInv'
  BY <1>5, OpenKeeps
<1>6. ASSUME NEW p \in Pids, NEW d \in Ids,
             \/ Close(p, d) \/ ReadWrite(p, d)
             \/ p \in Receivers /\ Touch(p, d)
             \/ \E cx \in YesNo : SetHandleFlags(p, d, cx) \/ DupStart(p, d, cx, None)
             \/ \E q \in Receivers : DupStart(p, d, "no", q)
      PROVE  IoFdInv'
  <2>1. None \in Pids \cup {None} /\ "no" \in YesNo /\ \A q \in Receivers : q \in Pids /\ q \in InitLive
    BY IdFacts, IoFdAssumption
  <2> QED
    BY <1>6, <2>1, CloseKeeps, ReadWriteKeeps, TouchStep, SetFlagsKeeps, DupStartKeeps
<1>7. ASSUME NEW p \in Pids, CallFails(p) \/ CallerGone(p) PROVE IoFdInv'
  BY <1>2, <1>7
<1>8. ASSUME NEW p \in Pids, \E d \in Ids :
               \/ Close(p, d) \/ ReadWrite(p, d)
               \/ p \in Receivers /\ Touch(p, d)
               \/ \E cx \in YesNo : SetHandleFlags(p, d, cx) \/ DupStart(p, d, cx, None)
               \/ \E q \in Receivers : DupStart(p, d, "no", q)
      PROVE  IoFdInv'
  BY <1>6, <1>8
<1>9. ASSUME NEW p \in Pids, \E f \in Files, cx \in YesNo : Open(p, f, cx) PROVE IoFdInv'
  BY <1>5, <1>9
<1>10. CASE \E p \in Pids :
       \/ CallFails(p) \/ CallerGone(p) \/ Exec(p) \/ Exit(p)
       \/ \E q \in Pids : Fork(p, q)
       \/ \E f \in Files, cx \in YesNo : Open(p, f, cx)
       \/ \E d \in Ids :
            \/ Close(p, d) \/ ReadWrite(p, d)
            \/ p \in Receivers /\ Touch(p, d)
            \/ \E cx \in YesNo : \/ SetHandleFlags(p, d, cx)
                                 \/ DupStart(p, d, cx, None)
            \/ \E q \in Receivers : DupStart(p, d, "no", q)
  BY <1>4, <1>7, <1>8, <1>9, <1>10
<1>11. CASE IoFdNext
  BY <1>2, <1>3, <1>10, <1>11 DEF IoFdNext
<1> QED
  BY <1>1, <1>11

(* Only open() and dup() set a rollback handler.                           *)
LEMMA RollbackSteps ==
  ASSUME RollbackKnown, IoFdInv, [IoFdNext]_ioVars
  PROVE  RollbackKnown'
<1>0. "yes" \in YesNo /\ NoRollback = [fn |-> "none", fd |-> 0, file |-> None]
  BY DEF YesNo, NoRollback
<1>1. ASSUME rollback' \in {rollback, NoRollback}, stale' = stale \/ stale' = "yes" PROVE RollbackKnown'
  BY <1>0, <1>1 DEF RollbackKnown, NoRollback
<1>2. ASSUME NEW p, NEW s, PlainReply(p, s) \/ StaleReply(s) PROVE RollbackKnown'
  BY <1>1, <1>2 DEF PlainReply, StaleReply, Leftovers
<1>3. ASSUME UNCHANGED rbkVars PROVE RollbackKnown'
  BY <1>1, <1>3 DEF rbkVars
<1>4. ASSUME NEW p \in Pids, NEW f \in Files, NEW cx \in YesNo, Open(p, f, cx) PROVE RollbackKnown'
  <2>1. \/ \E s : PlainReply(p, s) \/ StaleReply(s)
        \/ /\ rollback' \in {NoRollback, [NoRollback EXCEPT !.fn = "chrdev_rollback", !.file = f]}
           /\ stale' = stale
    BY <1>4 DEF Open, Leftovers
  <2>2. CASE rollback' = [NoRollback EXCEPT !.fn = "chrdev_rollback", !.file = f] /\ stale' = stale
    BY <1>0, <2>2 DEF RollbackKnown
  <2> QED
    BY <1>1, <1>2, <2>1, <2>2
<1>5. CASE DupFinish
  <2>1. \/ UNCHANGED rbkVars
        \/ \E p, s : PlainReply(p, s) \/ StaleReply(s)
        \/ rollback' = NoRollback /\ stale' = stale
        \/ /\ \E s : \E d \in AllocFd(s, dup.pid) :
                rollback' \in {NoRollback, [NoRollback EXCEPT !.fn = "late_close_fd", !.fd = d]}
           /\ stale' = stale
    BY <1>5 DEF DupFinish, Leftovers
  <2>2. ASSUME NEW s, NEW d \in AllocFd(s, dup.pid), stale' = stale,
               rollback' = [NoRollback EXCEPT !.fn = "late_close_fd", !.fd = d]
        PROVE  RollbackKnown'
    BY <1>0, <2>2 DEF RollbackKnown, AllocFd, FreeIds
  <2> QED
    BY <1>1, <1>2, <1>3, <2>1, <2>2
<1>6. CASE UNCHANGED ioVars \/ Abort \/ Poke
  BY <1>3, <1>6 DEF ioVars, Abort, Poke
<1>7. ASSUME NEW p \in Pids, CallFails(p) \/ CallerGone(p) PROVE RollbackKnown'
  BY <1>2, <1>3, <1>7 DEF CallFails, CallerGone
<1>8. ASSUME NEW p \in Pids, Exec(p) \/ Exit(p) \/ \E q \in Pids : Fork(p, q) PROVE RollbackKnown'
  BY <1>3, <1>8 DEF Exec, Exit, Fork, Announce
<1>9. ASSUME NEW p \in Pids, NEW d \in Ids, Close(p, d) \/ ReadWrite(p, d) PROVE RollbackKnown'
  BY <1>3, <1>9 DEF Close, ReadWrite
<1>10. ASSUME NEW p \in Pids, NEW d \in Ids, Touch(p, d) PROVE RollbackKnown'
  <2>1. \E s : PlainReply(p, s)
    BY <1>10 DEF Touch
  <2> QED
    BY <1>2, <2>1
<1>11. ASSUME NEW p \in Pids, NEW d \in Ids, NEW cx \in YesNo, SetHandleFlags(p, d, cx) PROVE RollbackKnown'
  <2>1. \E s : PlainReply(p, s)
    BY <1>11 DEF SetHandleFlags
  <2> QED
    BY <1>2, <2>1
<1>12. ASSUME NEW p \in Pids, NEW d \in Ids, NEW cx \in YesNo, NEW q, DupStart(p, d, cx, q) PROVE RollbackKnown'
  BY <1>3, <1>12 DEF DupStart
<1>13. "no" \in YesNo
  BY DEF YesNo
<1> QED
  BY <1>4, <1>5, <1>6, <1>7, <1>8, <1>9, <1>10, <1>11, <1>12, <1>13 DEF IoFdNext

(* The invariant implies what the run checks.                              *)
LEMMA IoFdMeans ==
  ASSUME IoFdInv, RollbackKnown
  PROVE  IoFdTypeOK /\ Invariants /\ NoNumberClash /\ ConfirmTargetsValid
<1>1. /\ io \in IoServer /\ HandlesOwned(io) /\ TransfersKnown(io) /\ TablesLead(io) /\ NumbersApart(io)
      /\ EventsKnown /\ ConfirmReady /\ DupReady /\ Processes
  BY DEF IoFdInv, Sane
<1>2. IoFdTypeOK
  <2>1. NoDup \in [pid : Pids \cup {None}, file : Files \cup {None}, cloexec : YesNo, target : Pids \cup {None}]
    BY IdFacts DEF NoDup
  <2>2. dup \in [pid : Pids \cup {None}, file : Files \cup {None}, cloexec : YesNo, target : Pids \cup {None}]
    <3>1. CASE dup = NoDup
      BY <2>1, <3>1
    <3>2. CASE dup # NoDup
      BY <1>1, <3>2 DEF DupReady
    <3> QED
      BY <3>1, <3>2
  <2> QED
    BY <1>1, <2>2, ServerFields DEF IoFdTypeOK, Reasons, EventsKnown, LcEvent, ConfirmReady, RollbackKnown, Processes, Desc
<1>3. ConfirmTargetsValid
  BY <1>1, ServerFields DEF ConfirmTargetsValid, Reasons
<1>4. NoNumberClash
  BY <1>1 DEF NoNumberClash, NumbersApart, FreeIds
<1>5. ASSUME NEW d \in Ids
      PROVE  io.fds[d].transfer = "yes" <=> Cardinality({t \in io.xfer : t.fd = d}) = 1
  <2>1. CASE io.fds[d].transfer = "yes"
    <3>1. PICK u \in io.xfer : u.fd = d
      BY <1>1, <2>1 DEF TransfersKnown
    <3>2. {t \in io.xfer : t.fd = d} = {u}
      BY <1>1, <3>1 DEF TransfersKnown
    <3> QED
      BY <2>1, <3>2, FS_Singleton
  <2>2. CASE io.fds[d].transfer # "yes"
    <3>1. {t \in io.xfer : t.fd = d} = {}
      BY <1>1, <2>2 DEF TransfersKnown
    <3> QED
      BY <2>2, <3>1, FS_EmptySet
  <2> QED
    BY <2>1, <2>2
<1>6. transfer_hash_invariants(io)
  BY <1>1 DEF transfer_hash_invariants, TransfersKnown
<1>7. ASSUME NEW p \in io.clients PROVE fd_table_invariants(io, p)
  <2>1. p \in Pids /\ \A k \in Ids : io.table[p][k] > 0 => io.table[p][k] # 0
    BY <1>1, ServerFields
  <2> QED
    BY <1>1, <2>1 DEF fd_table_invariants, TablesLead
<1>8. invariants(io)
  BY <1>1, <1>5, <1>6, <1>7 DEF invariants, HandlesOwned, FreeIds
<1> QED
  BY <1>2, <1>3, <1>4, <1>8 DEF Invariants

(* The records of an I/O server agree with one another whatever its        *)
(* clients do: handles have an owner and a file, indirections lead to the  *)
(* copies that fork made, transfers are known, no number stands for two    *)
(* handles of a client, and confirm handlers find their descriptor.  This  *)
(* holds for any number of generations, and even after a failed reply has  *)
(* undone a call that was answered; descriptors are handed only to         *)
(* processes that no fork has made, as the system's own servers are.       *)
THEOREM DescriptorBooksAreKept ==
  ASSUME Receivers \subseteq InitLive
  PROVE  IoFdSpec => []IoFdBooks
<1>1. IoFdInit => IoFdInv /\ RollbackKnown
  BY IoFdStarts DEF IoFdInit, RollbackKnown, YesNo
<1>2. (IoFdInv /\ RollbackKnown) /\ [IoFdNext]_ioVars => (IoFdInv /\ RollbackKnown)'
  BY IoFdSteps, RollbackSteps
<1>3. IoFdInv /\ RollbackKnown => IoFdBooks
  BY IoFdMeans DEF IoFdBooks
<1> QED
  BY <1>1, <1>2, <1>3, PTL DEF IoFdSpec
=============================================================================
