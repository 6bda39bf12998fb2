----------------------------- MODULE UserProofs -----------------------------
(***************************************************************************)
(* Proofs about broadcasts (Sysmsg).                                       *)
(***************************************************************************)
EXTENDS Sysmsg, FiniteSetTheorems, SequenceTheorems, WellFoundedInduction, TLAPS

-----------------------------------------------------------------------------
(* The invariant. *)
Callers ==
  {CallerIdle} \cup [op : {"listen"}, bit : MsgBits, h : MsgHandlers]
    \cup [op : {"close"}, bit : MsgBits] \cup [op : {"broadcast"}]
Receivings == [bits : SUBSET MsgBits, i : Nat \ {0}, imm : BOOLEAN]
Entries == MsgHandlers \cup {Hole, "n"}
Heard == MsgTasks \X MsgBits \X Entries
Casts ==
  {NoCast} \cup [st : {"done"}, imm : BOOLEAN]
    \cup [st : {"sending"}, from : MsgTasks, maskp : SUBSET MsgBits, to : MsgTasks,
          todo : SUBSET MsgTasks, imm : BOOLEAN]

MsgTypes ==
  /\ msc \in MsgScenes
  /\ subs_mask \in [MsgTasks -> SUBSET MsgBits] /\ filter_mask \in [MsgTasks -> SUBSET MsgBits]
  /\ n_filters \in [MsgTasks -> Nat]
  /\ filter \in [MsgTasks -> {NoFilter} \cup [AllSlots -> 0..FilterMax]]
  /\ cast \in Casts
  /\ handlers \in [MsgTasks -> [MsgBits -> Seq(Entries)]]
  /\ caller \in [MsgTasks -> Callers] /\ receiver \in [MsgTasks -> Receivings]
  /\ called \in [MsgTasks -> BOOLEAN]
  /\ given \in [MsgTasks -> SUBSET MsgBits]
  /\ want \in [MsgTasks -> [MsgBits -> [Labels -> 0..WantMax]]]
  /\ due \subseteq Heard /\ heard \in Seq(Heard) /\ staged \in BOOLEAN

(* A handler is in the array of a bit once.                                *)
HandlesOnce ==
  \A t \in MsgTasks, b \in MsgBits : \A i, j \in 1..Len(handlers[t][b]) :
    handlers[t][b][i] = handlers[t][b][j] /\ handlers[t][b][i] # Hole => i = j

(* While a thread calls the server about a bit, its array is empty.        *)
CallsOnEmpty ==
  \A t \in MsgTasks : caller[t].op \in {"listen", "close"} => handlers[t][caller[t].bit] = <<>>

(* The mask has the bits with handlers, and the one being closed.          *)
MaskKnown ==
  ~msc.masks => \A t \in MsgTasks, b \in MsgBits :
    b \in subs_mask[t] <=> \/ handlers[t][b] # <<>>
                           \/ caller[t].op = "close" /\ caller[t].bit = b

(* Bits with a filter were given one and are subscribed to; where handlers *)
(* call setmask there are no filters.                                      *)
FilterMaskKnown ==
  \A t \in MsgTasks :
    /\ filter_mask[t] \subseteq given[t]
    /\ ~msc.masks => filter_mask[t] \subseteq subs_mask[t]
    /\ msc.masks => filter_mask[t] = {} /\ filter[t] = NoFilter

(* The labels added to the filter, and where they are counted.             *)
Adds(w) == {u \in (MsgBits \X Labels) \X (1..WantMax) : u[2] <= w[u[1][1]][u[1][2]]}
Uses(w, s) == {u \in ((MsgBits \X Labels) \X (1..WantMax)) \X (1..3) :
                u[1] \in Adds(w) /\ Slots(u[1][1][2], u[1][1][1])[u[2]] = s}

(* A slot has at least the count of what uses it, or is saturated.         *)
Enough(v, c) == v = FilterMax \/ v >= c
FilterOk(f, n, w) ==
  /\ n = Cardinality(Adds(w))
  /\ f = NoFilter <=> n = 0
  /\ f # NoFilter => \A s \in AllSlots : Enough(f[s], Cardinality(Uses(w, s)))
FilterCounts == \A t \in MsgTasks : FilterOk(filter[t], n_filters[t], want[t])

(* Who is being sent to, and who waits for the broadcast.                  *)
SendingKnown ==
  /\ cast.st = "sending" =>
       /\ caller[cast.from].op = "broadcast" /\ cast.to \notin cast.todo
       /\ \A x \in due : x[2] \in cast.maskp
  /\ \A t \in MsgTasks :
       receiver[t].bits # {} => called[t] \/ (cast.st = "sending" /\ cast.to = t)

(* Where a handler is in its array, and the times it heard the message.    *)
Places(x) == {i \in 1..Len(handlers[x[1]][x[2]]) : handlers[x[1]][x[2]][i] = x[3]}
Times(x) == {i \in 1..Len(heard) : heard[i] = x}

(* It was its turn.                                                        *)
Sent(x) ==
  cast.st = "sending" =>
    /\ x[1] \notin cast.todo
    /\ x[1] = cast.to /\ x[2] \in receiver[x[1]].bits =>
         x[2] = Min(receiver[x[1]].bits) /\ \A i \in Places(x) : i < receiver[x[1]].i

(* Who is due is listening, and has heard the message once if it was its   *)
(* turn, and not yet otherwise.                                            *)
DueHeard ==
  \A x \in due : ~called[x[1]] =>
    /\ x[3] # Hole /\ Places(x) # {}
    /\ Sent(x) => \E i \in 1..Len(heard) : Times(x) = {i}
    /\ ~Sent(x) => Times(x) = {}

(* The answers so far.                                                     *)
AnswersKnown ==
  (\A t \in MsgTasks : ~called[t]) =>
    /\ cast.st = "sending" => (staged <=> ~(cast.imm /\ receiver[cast.to].imm))
    /\ cast.st = "done" => (staged <=> ~cast.imm)

MsgInv ==
  /\ MsgTypes /\ HandlesOnce /\ CallsOnEmpty /\ MaskKnown /\ FilterMaskKnown
  /\ FilterCounts /\ SendingKnown /\ DueHeard /\ AnswersKnown

(* Handlers that call setmask have no filters: see NestedSetmask.          *)
NoMaskedFilters == \A sc \in MsgScenes : sc.masks => sc.filters = {}

-----------------------------------------------------------------------------
(* Numbers. *)
(* A set of numbers that is not empty has a least one.                     *)
LEMMA LeastNumber ==
  ASSUME NEW S \in SUBSET Nat, S # {}
  PROVE  \E k \in S : \A l \in S : k <= l
<1>1. \E k \in S : \A l \in S : <<l, k>> \notin OpToRel(<, Nat)
  BY NatLessThanWellFounded, WFMin
<1>2. \A k, l \in S : l < k => <<l, k>> \in OpToRel(<, Nat)
  BY DEF OpToRel
<1>3. \A k, l \in S : ~(l < k) => k <= l
  OBVIOUS
<1> QED
  BY <1>1, <1>2, <1>3

(* Min is that number.                                                     *)
LEMMA MinFacts ==
  ASSUME NEW S \in SUBSET Nat, S # {}
  PROVE  Min(S) \in S /\ Min(S) \in Nat /\ \A y \in S : Min(S) <= y
<1>1. \E k \in S : \A l \in S : k <= l
  BY LeastNumber
<1> QED
  BY <1>1 DEF Min

(* A bounded set of numbers has a greatest one, which is Max.              *)
LEMMA MaxFacts ==
  ASSUME NEW n \in Nat, NEW S \in SUBSET (0..n), S # {}
  PROVE  Max(S) \in S /\ \A y \in S : Max(S) >= y
<1> DEFINE T == {n - y : y \in S}
<1>1. T \in SUBSET Nat /\ T # {}
  <2>1. \A y \in S : n - y \in Nat
    OBVIOUS
  <2> QED
    BY <2>1
<1>2. PICK k \in T : \A l \in T : k <= l
  BY <1>1, LeastNumber
<1>3. PICK y \in S : k = n - y
  BY <1>2
<1>4. \A z \in S : n - y <= n - z
  BY <1>2, <1>3
<1>5. \A z \in S : y >= z
  BY <1>4
<1> QED
  BY <1>5 DEF Max

(* One element more, or none.                                              *)
LEMMA AddMaybe ==
  ASSUME NEW S, IsFiniteSet(S), NEW x, x \notin S, NEW P \in BOOLEAN
  PROVE  /\ IsFiniteSet(S \cup (IF P THEN {x} ELSE {}))
         /\ Cardinality(S) \in Nat
         /\ Cardinality(S \cup (IF P THEN {x} ELSE {})) = Cardinality(S) + (IF P THEN 1 ELSE 0)
<1>1. Cardinality(S) \in Nat
  BY FS_CardinalityType
<1>2. CASE P
  BY <1>1, <1>2, FS_AddElement
<1>3. CASE ~P
  <2>1. S \cup {} = S
    OBVIOUS
  <2> QED
    BY <1>1, <1>3, <2>1
<1> QED
  BY <1>2, <1>3

-----------------------------------------------------------------------------
(* Filters. *)
Wants == [MsgBits -> [Labels -> 0..WantMax]]
More(w, b, l) == [w EXCEPT ![b][l] = @ + 1]
At(x, s) == IF x = s THEN 1 ELSE 0
Slot(l, b, j, s) == At(Slots(l, b)[j], s)

(* The slots of a label are three of all slots.                            *)
LEMMA SlotFacts ==
  ASSUME NEW l \in Labels, NEW b \in MsgBits
  PROVE  /\ \A j \in 1..3 : Slots(l, b)[j] \in AllSlots
         /\ Range(Slots(l, b)) = {Slots(l, b)[j] : j \in 1..3}
         /\ AllSlots # {}
<1>1. Slots(l, b) \in Seq(Nat) /\ Len(Slots(l, b)) = 3
  BY MsgAssumption
<1>2. DOMAIN Slots(l, b) = 1..3
  BY <1>1
<1>3. Range(Slots(l, b)) = {Slots(l, b)[j] : j \in 1..3}
  BY <1>2 DEF Range
<1>4. \A j \in 1..3 : Slots(l, b)[j] \in AllSlots
  BY <1>3 DEF AllSlots
<1> QED
  BY <1>3, <1>4

(* What is counted is finite.                                              *)
LEMMA AddsFinite ==
  ASSUME NEW w
  PROVE  /\ IsFiniteSet(Adds(w)) /\ Cardinality(Adds(w)) \in Nat
         /\ \A s : IsFiniteSet(Uses(w, s)) /\ Cardinality(Uses(w, s)) \in Nat
<1> DEFINE A == (MsgBits \X Labels) \X (1..WantMax)
<1>1. IsFiniteSet(MsgBits \X Labels)
  BY MsgAssumption, FS_Product
<1>2. IsFiniteSet(1..WantMax) /\ IsFiniteSet(1..3)
  <2>1. WantMax \in Int /\ 1 \in Int /\ 3 \in Int
    BY MsgAssumption
  <2> QED
    BY <2>1, FS_Interval
<1>3. IsFiniteSet(A)
  BY <1>1, <1>2, FS_Product
<1>4. IsFiniteSet(A \X (1..3))
  BY <1>2, <1>3, FS_Product
<1>5. Adds(w) \subseteq A
  BY DEF Adds
<1>6. IsFiniteSet(Adds(w))
  BY <1>3, <1>5, FS_Subset
<1>7. ASSUME NEW s PROVE IsFiniteSet(Uses(w, s)) /\ Cardinality(Uses(w, s)) \in Nat
  <2>1. Uses(w, s) \subseteq A \X (1..3)
    BY DEF Uses
  <2>2. IsFiniteSet(Uses(w, s))
    BY <1>4, <2>1, FS_Subset
  <2> QED
    BY <2>2, FS_CardinalityType
<1>8. Cardinality(Adds(w)) \in Nat
  BY <1>6, FS_CardinalityType
<1> QED
  BY <1>6, <1>7, <1>8

(* One label more is one use more of each of its slots.                    *)
LEMMA UsesMore ==
  ASSUME NEW w \in Wants, NEW b \in MsgBits, NEW l \in Labels, w[b][l] < WantMax
  PROVE  /\ Cardinality(Adds(More(w, b, l))) = Cardinality(Adds(w)) + 1
         /\ \A s : Cardinality(Uses(More(w, b, l), s)) =
              Cardinality(Uses(w, s)) + Slot(l, b, 1, s) + Slot(l, b, 2, s) + Slot(l, b, 3, s)
<1> DEFINE k == w[b][l] + 1
           a == <<<<b, l>>, k>>
<1>0. k \in 1..WantMax /\ WantMax \in Nat /\ a \in (MsgBits \X Labels) \X (1..WantMax)
  BY MsgAssumption DEF Wants
<1>1. Adds(More(w, b, l)) = Adds(w) \cup {a}
  <2>1. ASSUME NEW u \in (MsgBits \X Labels) \X (1..WantMax)
        PROVE  u \in Adds(More(w, b, l)) <=> u \in Adds(w) \/ u = a
    <3>1. More(w, b, l)[u[1][1]][u[1][2]] =
            IF u[1][1] = b /\ u[1][2] = l THEN w[b][l] + 1 ELSE w[u[1][1]][u[1][2]]
      BY DEF More, Wants
    <3>2. u = a <=> u[1][1] = b /\ u[1][2] = l /\ u[2] = w[b][l] + 1
      OBVIOUS
    <3>3. w[b][l] \in Nat /\ u[2] \in Nat
      BY MsgAssumption DEF Wants
    <3> QED
      BY <3>1, <3>2, <3>3 DEF Adds
  <2> QED
    BY <2>1, <1>0 DEF Adds
<1>2. a \notin Adds(w)
  BY <1>0 DEF Adds, Wants
<1>3. Cardinality(Adds(More(w, b, l))) = Cardinality(Adds(w)) + 1
  BY <1>1, <1>2, AddsFinite, FS_AddElement
<1>4. ASSUME NEW s
      PROVE  Cardinality(Uses(More(w, b, l), s)) =
              Cardinality(Uses(w, s)) + Slot(l, b, 1, s) + Slot(l, b, 2, s) + Slot(l, b, 3, s)
  <2> DEFINE U0 == Uses(w, s)
             P(j) == Slots(l, b)[j] = s
             U1 == U0 \cup (IF P(1) THEN {<<a, 1>>} ELSE {})
             U2 == U1 \cup (IF P(2) THEN {<<a, 2>>} ELSE {})
             U3 == U2 \cup (IF P(3) THEN {<<a, 3>>} ELSE {})
  <2>1. \A j : <<a, j>> \notin U0
    BY <1>2 DEF Uses
  <2>2. /\ <<a, 1>> \notin U0 /\ <<a, 2>> \notin U1 /\ <<a, 3>> \notin U2
    BY <2>1
  <2>3. Uses(More(w, b, l), s) = U3
    <3>1. ASSUME NEW u \in ((MsgBits \X Labels) \X (1..WantMax)) \X (1..3)
          PROVE  u \in Uses(More(w, b, l), s) <=> u \in U3
      <4>1. u[1] \in Adds(More(w, b, l)) <=> u[1] \in Adds(w) \/ u[1] = a
        BY <1>1
      <4>2. u = <<u[1], u[2]>> /\ u[2] \in {1, 2, 3}
        OBVIOUS
      <4>3. u[1] = a => Slots(u[1][1][2], u[1][1][1])[u[2]] = Slots(l, b)[u[2]]
        OBVIOUS
      <4>4. u \in U3 <=> u \in Uses(w, s) \/ (u[1] = a /\ P(u[2]))
        BY <4>2
      <4> QED
        BY <4>1, <4>3, <4>4, <1>2 DEF Uses
    <3>2. U3 \subseteq ((MsgBits \X Labels) \X (1..WantMax)) \X (1..3)
      BY <1>0 DEF Uses
    <3>3. Uses(More(w, b, l), s) \subseteq ((MsgBits \X Labels) \X (1..WantMax)) \X (1..3)
      BY DEF Uses
    <3> QED
      BY <3>1, <3>2, <3>3
  <2> HIDE DEF U3, U2, U1, U0, P
  <2>4. /\ IsFiniteSet(U0) /\ Cardinality(U0) \in Nat /\ \A j : P(j) \in BOOLEAN
    BY AddsFinite DEF U0, P
  <2>5. /\ IsFiniteSet(U1) /\ Cardinality(U1) = Cardinality(U0) + IF P(1) THEN 1 ELSE 0
    BY <2>2, <2>4, AddMaybe DEF U1
  <2>6. /\ IsFiniteSet(U2) /\ Cardinality(U2) = Cardinality(U1) + IF P(2) THEN 1 ELSE 0
    BY <2>2, <2>4, <2>5, AddMaybe DEF U2
  <2>7. Cardinality(U3) = Cardinality(U2) + IF P(3) THEN 1 ELSE 0
    BY <2>2, <2>4, <2>6, AddMaybe DEF U3
  <2> QED
    BY <2>3, <2>4, <2>5, <2>6, <2>7 DEF P, U0, Slot, At
<1> QED
  BY <1>3, <1>4

(* Counting up and down once.                                              *)
Filters == [AllSlots -> 0..FilterMax]
LEMMA IncDec ==
  ASSUME NEW f \in Filters, NEW x \in AllSlots
  PROVE  /\ filter_inc(f, x) \in Filters /\ filter_dec(f, x) \in Filters
         /\ \A s \in AllSlots, c \in Nat :
              /\ Enough(f[s], c) => Enough(filter_inc(f, x)[s], c + At(x, s))
              /\ Enough(f[s], c + At(x, s)) => Enough(filter_dec(f, x)[s], c)
<1>0. FilterMax \in Nat /\ FilterMax > 0
  BY MsgAssumption
<1>1. filter_inc(f, x) \in Filters /\ filter_dec(f, x) \in Filters
  BY <1>0 DEF Filters, filter_inc, filter_dec
<1>2. ASSUME NEW s \in AllSlots, NEW c \in Nat, Enough(f[s], c)
      PROVE  Enough(filter_inc(f, x)[s], c + At(x, s))
  BY <1>0, <1>2 DEF Filters, filter_inc, Enough, At
<1>3. ASSUME NEW s \in AllSlots, NEW c \in Nat, Enough(f[s], c + At(x, s))
      PROVE  Enough(filter_dec(f, x)[s], c)
  BY <1>0, <1>3 DEF Filters, filter_dec, Enough, At
<1> QED
  BY <1>1, <1>2, <1>3

(* A use more or less is a number.                                         *)
LEMMA AtNat ==
  \A x, s : At(x, s) \in Nat
BY DEF At

(* Counting three slots up, and down.                                      *)
LEMMA ThreeUpDown ==
  ASSUME NEW f \in Filters, NEW x \in AllSlots, NEW y \in AllSlots, NEW z \in AllSlots
  PROVE  /\ filter_inc(filter_inc(filter_inc(f, x), y), z) \in Filters
         /\ filter_dec(filter_dec(filter_dec(f, x), y), z) \in Filters
         /\ \A s \in AllSlots, c \in Nat :
              /\ Enough(f[s], c) =>
                   Enough(filter_inc(filter_inc(filter_inc(f, x), y), z)[s], c + At(x, s) + At(y, s) + At(z, s))
              /\ Enough(f[s], c + At(x, s) + At(y, s) + At(z, s)) =>
                   Enough(filter_dec(filter_dec(filter_dec(f, x), y), z)[s], c)
<1>1. PICK f1 : f1 = filter_inc(f, x)
  OBVIOUS
<1>2. PICK f2 : f2 = filter_inc(f1, y)
  OBVIOUS
<1>3. PICK g1 : g1 = filter_dec(f, x)
  OBVIOUS
<1>4. PICK g2 : g2 = filter_dec(g1, y)
  OBVIOUS
<1>5. f1 \in Filters /\ g1 \in Filters
  BY <1>1, <1>3, IncDec
<1>6. f2 \in Filters /\ g2 \in Filters
  BY <1>2, <1>4, <1>5, IncDec
<1>7. filter_inc(f2, z) \in Filters /\ filter_dec(g2, z) \in Filters
  BY <1>6, IncDec
<1>8. ASSUME NEW s \in AllSlots, NEW c \in Nat, Enough(f[s], c)
      PROVE  Enough(filter_inc(f2, z)[s], c + At(x, s) + At(y, s) + At(z, s))
  <2>1. c + At(x, s) \in Nat /\ c + At(x, s) + At(y, s) \in Nat
    BY AtNat
  <2>2. Enough(f1[s], c + At(x, s))
    BY <1>1, <1>8, IncDec
  <2>3. Enough(f2[s], c + At(x, s) + At(y, s))
    BY <1>2, <1>5, <2>1, <2>2, IncDec
  <2> QED
    BY <1>6, <2>1, <2>3, IncDec
<1>9. ASSUME NEW s \in AllSlots, NEW c \in Nat, Enough(f[s], c + At(x, s) + At(y, s) + At(z, s))
      PROVE  Enough(filter_dec(g2, z)[s], c)
  <2>1. PICK k \in Nat : k = c + At(z, s) + At(y, s)
    BY AtNat
  <2>2. Enough(f[s], k + At(x, s))
    <3>1. At(x, s) \in Nat /\ At(y, s) \in Nat /\ At(z, s) \in Nat
      BY AtNat
    <3>2. FilterMax \in Nat /\ f[s] \in Nat
      BY MsgAssumption DEF Filters
    <3> QED
      BY <1>9, <2>1, <3>1, <3>2 DEF Enough
  <2>3. Enough(g1[s], k)
    BY <1>3, <2>2, IncDec
  <2>5. PICK m \in Nat : m = c + At(z, s)
    BY AtNat
  <2>6. Enough(g1[s], m + At(y, s))
    BY <2>1, <2>3, <2>5
  <2>4. Enough(g2[s], c + At(z, s))
    BY <1>4, <1>5, <2>5, <2>6, IncDec
  <2> QED
    BY <1>6, <2>4, IncDec
<1> QED
  BY <1>1, <1>2, <1>3, <1>4, <1>7, <1>8, <1>9

(* Counting all slots of a label up, and down.                             *)
LEMMA IncDecAll ==
  ASSUME NEW f \in Filters, NEW l \in Labels, NEW b \in MsgBits
  PROVE  /\ IncAll(f, Slots(l, b)) \in Filters /\ DecAll(f, Slots(l, b)) \in Filters
         /\ \A s \in AllSlots, c \in Nat :
              /\ Enough(f[s], c) =>
                   Enough(IncAll(f, Slots(l, b))[s], c + Slot(l, b, 1, s) + Slot(l, b, 2, s) + Slot(l, b, 3, s))
              /\ Enough(f[s], c + Slot(l, b, 1, s) + Slot(l, b, 2, s) + Slot(l, b, 3, s)) =>
                   Enough(DecAll(f, Slots(l, b))[s], c)
<1>1. Slots(l, b)[1] \in AllSlots /\ Slots(l, b)[2] \in AllSlots /\ Slots(l, b)[3] \in AllSlots
  BY SlotFacts
<1>2. PICK x \in AllSlots, y \in AllSlots, z \in AllSlots :
        x = Slots(l, b)[1] /\ y = Slots(l, b)[2] /\ z = Slots(l, b)[3]
  BY <1>1
<1>3. /\ IncAll(f, Slots(l, b)) = filter_inc(filter_inc(filter_inc(f, x), y), z)
      /\ DecAll(f, Slots(l, b)) = filter_dec(filter_dec(filter_dec(f, x), y), z)
  BY <1>2 DEF IncAll, DecAll
<1>4. \A s : Slot(l, b, 1, s) = At(x, s) /\ Slot(l, b, 2, s) = At(y, s) /\ Slot(l, b, 3, s) = At(z, s)
  BY <1>2 DEF Slot
<1>5. ASSUME NEW s \in AllSlots, NEW c \in Nat
      PROVE  /\ Enough(f[s], c) =>
                  Enough(IncAll(f, Slots(l, b))[s], c + Slot(l, b, 1, s) + Slot(l, b, 2, s) + Slot(l, b, 3, s))
             /\ Enough(f[s], c + Slot(l, b, 1, s) + Slot(l, b, 2, s) + Slot(l, b, 3, s)) =>
                  Enough(DecAll(f, Slots(l, b))[s], c)
  <2>1. /\ Enough(f[s], c) =>
             Enough(filter_inc(filter_inc(filter_inc(f, x), y), z)[s], c + At(x, s) + At(y, s) + At(z, s))
        /\ Enough(f[s], c + At(x, s) + At(y, s) + At(z, s)) =>
             Enough(filter_dec(filter_dec(filter_dec(f, x), y), z)[s], c)
    BY ThreeUpDown
  <2> QED
    BY <2>1, <1>3, <1>4, Zenon
<1>6. IncAll(f, Slots(l, b)) \in Filters /\ DecAll(f, Slots(l, b)) \in Filters
  BY <1>3, ThreeUpDown
<1> QED
  BY <1>5, <1>6

(* A filter is not the lack of one.                                        *)
LEMMA FilterThere ==
  ASSUME NEW f \in Filters, NEW l \in Labels, NEW b \in MsgBits
  PROVE  f # NoFilter
<1>1. AllSlots # {}
  BY SlotFacts
<1>2. DOMAIN f = AllSlots /\ DOMAIN NoFilter = {}
  BY DEF Filters, NoFilter
<1> QED
  BY <1>1, <1>2

(* A label more: add_filter().                                             *)
LEMMA AddOk ==
  ASSUME NEW f \in {NoFilter} \cup Filters, NEW n \in Nat, NEW w \in Wants,
         NEW b \in MsgBits, NEW l \in Labels, w[b][l] < WantMax, FilterOk(f, n, w)
  PROVE  LET g == IncAll(IF f = NoFilter THEN [s \in AllSlots |-> 0] ELSE f, Slots(l, b))
         IN  g \in Filters /\ FilterOk(g, n + 1, More(w, b, l))
<1>1. PICK h : h = IF f = NoFilter THEN [s \in AllSlots |-> 0] ELSE f
  OBVIOUS
<1>2. h \in Filters
  BY <1>1, MsgAssumption DEF Filters
<1>3. ASSUME NEW s \in AllSlots PROVE Enough(h[s], Cardinality(Uses(w, s)))
  <2>1. CASE f # NoFilter
    BY <1>1, <2>1 DEF FilterOk
  <2>2. CASE f = NoFilter
    <3>1. Cardinality(Adds(w)) = 0
      BY <2>2 DEF FilterOk
    <3>2. Adds(w) = {}
      BY <3>1, AddsFinite, FS_EmptySet
    <3>3. Uses(w, s) = {}
      BY <3>2 DEF Uses
    <3>4. Cardinality(Uses(w, s)) = 0
      BY <3>3, FS_EmptySet
    <3> QED
      BY <1>1, <2>2, <3>4 DEF Enough
  <2> QED
    BY <2>1, <2>2
<1>4. PICK g : g = IncAll(h, Slots(l, b))
  OBVIOUS
<1>5. g \in Filters /\ g # NoFilter
  BY <1>2, <1>4, IncDecAll, FilterThere
<1>6. ASSUME NEW s \in AllSlots PROVE Enough(g[s], Cardinality(Uses(More(w, b, l), s)))
  <2>1. PICK c \in Nat : c = Cardinality(Uses(w, s))
    BY AddsFinite
  <2>2. Enough(g[s], c + Slot(l, b, 1, s) + Slot(l, b, 2, s) + Slot(l, b, 3, s))
    BY <1>2, <1>3, <1>4, <2>1, IncDecAll
  <2>3. Cardinality(Uses(More(w, b, l), s)) = c + Slot(l, b, 1, s) + Slot(l, b, 2, s) + Slot(l, b, 3, s)
    BY <2>1, UsesMore
  <2> QED
    BY <2>2, <2>3, Zenon
<1>7. n + 1 = Cardinality(Adds(More(w, b, l))) /\ n + 1 # 0
  BY UsesMore DEF FilterOk
<1>8. FilterOk(g, n + 1, More(w, b, l))
  BY <1>5, <1>6, <1>7 DEF FilterOk
<1> QED
  BY <1>1, <1>4, <1>5, <1>8

Fewer(w, b, l) == [w EXCEPT ![b][l] = @ - 1]

(* A label less, and it again.                                             *)
LEMMA FewerFacts ==
  ASSUME NEW w \in Wants, NEW b \in MsgBits, NEW l \in Labels, w[b][l] > 0
  PROVE  Fewer(w, b, l) \in Wants /\ Fewer(w, b, l)[b][l] < WantMax /\ More(Fewer(w, b, l), b, l) = w
<1>1. WantMax \in Nat /\ w[b][l] \in 1..WantMax
  BY MsgAssumption DEF Wants
<1>2. Fewer(w, b, l)[b][l] = w[b][l] - 1
  BY DEF Fewer, Wants
<1>3. Fewer(w, b, l) \in Wants
  BY <1>1 DEF Fewer, Wants
<1>4. More(Fewer(w, b, l), b, l) = w
  <2>1. PICK v \in Wants : v = Fewer(w, b, l)
    BY <1>3
  <2>2. \A c \in MsgBits, k \in Labels : v[c][k] = IF c = b /\ k = l THEN w[b][l] - 1 ELSE w[c][k]
    BY <2>1 DEF Fewer, Wants
  <2>3. DOMAIN w = MsgBits /\ \A c \in MsgBits : w[c] \in [Labels -> 0..WantMax]
    BY DEF Wants
  <2>4. DOMAIN More(v, b, l) = MsgBits /\ \A c \in MsgBits : DOMAIN More(v, b, l)[c] = Labels
    BY DEF More, Wants
  <2>5. \A c \in MsgBits, k \in Labels : More(v, b, l)[c][k] = IF c = b /\ k = l THEN v[b][l] + 1 ELSE v[c][k]
    BY DEF More, Wants
  <2>6. \A c \in MsgBits, k \in Labels : More(v, b, l)[c][k] = w[c][k]
    BY <1>1, <2>2, <2>5
  <2>7. \A c \in MsgBits : More(v, b, l)[c] = w[c]
    <3>1. ASSUME NEW c \in MsgBits PROVE More(v, b, l)[c] = w[c]
      <4>1. More(v, b, l) \in [MsgBits -> [Labels -> Int]]
        BY MsgAssumption DEF More, Wants
      <4> QED
        BY <2>3, <2>6, <4>1
    <3> QED
      BY <3>1
  <2>8. More(v, b, l) \in [MsgBits -> [Labels -> Int]]
    BY MsgAssumption DEF More, Wants
  <2>9. More(v, b, l) = w
    <3>1. w \in [MsgBits -> [Labels -> 0..WantMax]]
      BY DEF Wants
    <3> HIDE DEF Wants
    <3> QED
      BY <2>7, <2>8, <3>1
  <2> QED
    BY <2>1, <2>9
<1> QED
  BY <1>1, <1>2, <1>3, <1>4

(* What was added is found: filter_query() has no false negatives.         *)
LEMMA QueryFinds ==
  ASSUME NEW f \in {NoFilter} \cup Filters, NEW n \in Nat, NEW w \in Wants,
         NEW b \in MsgBits, NEW l \in Labels, w[b][l] > 0, FilterOk(f, n, w)
  PROVE  f # NoFilter /\ n > 0 /\ filter_query(f, Slots(l, b))
<1>1. PICK v \in Wants : v[b][l] < WantMax /\ w = More(v, b, l) /\ v = Fewer(w, b, l)
  BY FewerFacts
<1>2. n = Cardinality(Adds(v)) + 1 /\ Cardinality(Adds(v)) \in Nat
  BY <1>1, UsesMore, AddsFinite DEF FilterOk
<1>3. n > 0 /\ f # NoFilter /\ f \in Filters
  BY <1>2 DEF FilterOk
<1>4. ASSUME NEW j \in 1..3 PROVE f[Slots(l, b)[j]] > 0
  <2>1. PICK s \in AllSlots : s = Slots(l, b)[j]
    BY SlotFacts
  <2>2. Slot(l, b, j, s) = 1
    BY <2>1 DEF Slot, At
  <2>3. PICK c \in Nat : c = Cardinality(Uses(v, s))
    BY AddsFinite
  <2>4. Cardinality(Uses(w, s)) = c + Slot(l, b, 1, s) + Slot(l, b, 2, s) + Slot(l, b, 3, s)
    BY <1>1, <2>3, UsesMore
  <2>5. Slot(l, b, 1, s) \in Nat /\ Slot(l, b, 2, s) \in Nat /\ Slot(l, b, 3, s) \in Nat
    BY AtNat DEF Slot
  <2>6. Cardinality(Uses(w, s)) > 0 /\ Cardinality(Uses(w, s)) \in Nat
    <3>1. j = 1 \/ j = 2 \/ j = 3
      OBVIOUS
    <3> QED
      BY <2>2, <2>4, <2>5, <3>1
  <2>7. Enough(f[s], Cardinality(Uses(w, s)))
    BY <1>3 DEF FilterOk
  <2>8. f[s] \in Nat /\ FilterMax \in Nat /\ FilterMax > 0
    BY <1>3, MsgAssumption DEF Filters
  <2> QED
    BY <2>1, <2>6, <2>7, <2>8 DEF Enough
<1>5. filter_query(f, Slots(l, b))
  BY <1>4, SlotFacts DEF filter_query
<1> QED
  BY <1>3, <1>5

(* A label less: rm_filter().                                              *)
LEMMA RmOk ==
  ASSUME NEW f \in {NoFilter} \cup Filters, NEW n \in Nat, NEW w \in Wants,
         NEW b \in MsgBits, NEW l \in Labels, w[b][l] > 0, FilterOk(f, n, w)
  PROVE  LET g == IF n = 1 THEN NoFilter ELSE DecAll(f, Slots(l, b))
         IN  g \in {NoFilter} \cup Filters /\ n - 1 \in Nat /\ FilterOk(g, n - 1, Fewer(w, b, l))
<1>1. PICK v \in Wants : v[b][l] < WantMax /\ w = More(v, b, l) /\ v = Fewer(w, b, l)
  BY FewerFacts
<1>2. n = Cardinality(Adds(v)) + 1 /\ Cardinality(Adds(v)) \in Nat
  BY <1>1, UsesMore, AddsFinite DEF FilterOk
<1>3. f \in Filters
  BY QueryFinds
<1>4. CASE n = 1
  BY <1>1, <1>2, <1>4 DEF FilterOk
<1>5. CASE n # 1
  <2>1. PICK g : g = DecAll(f, Slots(l, b))
    OBVIOUS
  <2>2. g \in Filters /\ g # NoFilter
    BY <1>3, <2>1, IncDecAll, FilterThere
  <2>3. ASSUME NEW s \in AllSlots PROVE Enough(g[s], Cardinality(Uses(v, s)))
    <3>1. PICK c \in Nat : c = Cardinality(Uses(v, s))
      BY AddsFinite
    <3>2. Cardinality(Uses(w, s)) = c + Slot(l, b, 1, s) + Slot(l, b, 2, s) + Slot(l, b, 3, s)
      BY <1>1, <3>1, UsesMore
    <3>3. Enough(f[s], Cardinality(Uses(w, s)))
      BY <1>3, FilterThere DEF FilterOk
    <3>4. Enough(f[s], c + Slot(l, b, 1, s) + Slot(l, b, 2, s) + Slot(l, b, 3, s))
      BY <3>2, <3>3, Zenon
    <3> QED
      BY <1>3, <2>1, <3>1, <3>4, IncDecAll
  <2>4. n - 1 = Cardinality(Adds(v)) /\ n - 1 # 0 /\ n - 1 \in Nat
    BY <1>2, <1>5
  <2>5. FilterOk(g, n - 1, v)
    BY <2>2, <2>3, <2>4 DEF FilterOk
  <2> QED
    BY <1>1, <1>5, <2>1, <2>2, <2>4, <2>5
<1> QED
  BY <1>4, <1>5

-----------------------------------------------------------------------------
(* Arrays of handlers. *)
(* A handler put at the end of an array it is not in.                      *)
LEMMA PushFacts ==
  ASSUME MsgTypes, HandlesOnce, NEW t \in MsgTasks, NEW b \in MsgBits, NEW h \in Entries,
         ~Handle(t, b, h), handlers' = Pushed(t, b, h)
  PROVE  /\ handlers' \in [MsgTasks -> [MsgBits -> Seq(Entries)]] /\ HandlesOnce'
         /\ \A u \in MsgTasks, c \in MsgBits : <<u, c>> # <<t, b>> => handlers'[u][c] = handlers[u][c]
         /\ handlers'[t][b] # <<>>
         /\ \A x \in Heard : Places(x) # {} => Places(x)' = Places(x)
<1>1. handlers \in [MsgTasks -> [MsgBits -> Seq(Entries)]]
  BY DEF MsgTypes
<1>2. /\ handlers' \in [MsgTasks -> [MsgBits -> Seq(Entries)]]
      /\ \A u \in MsgTasks, c \in MsgBits :
           handlers'[u][c] = IF u = t /\ c = b THEN Append(handlers[t][b], h) ELSE handlers[u][c]
  BY <1>1 DEF Pushed
<1>3. PICK q \in Seq(Entries) : q = handlers[t][b]
  BY <1>1
<1>4. /\ Len(Append(q, h)) = Len(q) + 1 /\ Len(q) \in Nat /\ Append(q, h) # <<>>
      /\ \A i \in 1..Len(q) : Append(q, h)[i] = q[i]
      /\ Append(q, h)[Len(q) + 1] = h
  OBVIOUS
<1>5. \A i \in 1..Len(q) : q[i] # h
  BY <1>3 DEF Handle
<1>6. HandlesOnce'
  <2>1. ASSUME NEW u \in MsgTasks, NEW c \in MsgBits,
               NEW i \in 1..Len(handlers'[u][c]), NEW j \in 1..Len(handlers'[u][c]),
               handlers'[u][c][i] = handlers'[u][c][j], handlers'[u][c][i] # Hole
        PROVE  i = j
    <3>1. CASE u = t /\ c = b
      <4>1. handlers'[u][c] = Append(q, h)
        BY <1>2, <1>3, <3>1
      <4>2. \A k \in 1..(Len(q) + 1) : k \in 1..Len(q) \/ k = Len(q) + 1
        BY <1>4
      <4>3. CASE i \in 1..Len(q) /\ j \in 1..Len(q)
        BY <1>3, <1>4, <2>1, <4>1, <4>3, <3>1 DEF HandlesOnce
      <4> QED
        BY <1>4, <1>5, <2>1, <4>1, <4>2, <4>3
    <3>2. CASE ~(u = t /\ c = b)
      <4>1. handlers'[u][c] = handlers[u][c]
        BY <1>2, <3>2
      <4> QED
        BY <2>1, <4>1 DEF HandlesOnce
    <3> QED
      BY <3>1, <3>2
  <2> QED
    BY <2>1 DEF HandlesOnce
<1>7. ASSUME NEW x \in Heard, Places(x) # {} PROVE Places(x)' = Places(x)
  <2>1. x[1] \in MsgTasks /\ x[2] \in MsgBits
    BY DEF Heard
  <2>2. CASE x[1] = t /\ x[2] = b
    <3>1. handlers[x[1]][x[2]] = q /\ handlers'[x[1]][x[2]] = Append(q, h)
      BY <1>2, <1>3, <2>2
    <3>2. x[3] # h
      BY <1>5, <1>7, <3>1 DEF Places
    <3>3. \A k \in 1..(Len(q) + 1) : k \in 1..Len(q) \/ k = Len(q) + 1
      BY <1>4
    <3> QED
      BY <1>4, <3>1, <3>2, <3>3 DEF Places
  <2>3. CASE ~(x[1] = t /\ x[2] = b)
    BY <1>2, <2>1, <2>3 DEF Places
  <2> QED
    BY <2>2, <2>3
<1>8. handlers'[t][b] # <<>>
  BY <1>2, <1>3, <1>4
<1> QED
  BY <1>2, <1>6, <1>7, <1>8

(* Holes at the end are cut off, and nothing else.                         *)
LEMMA TrimFacts ==
  ASSUME NEW q \in Seq(Entries)
  PROVE  /\ Trimmed(q) \in Seq(Entries) /\ Len(Trimmed(q)) \in 0..Len(q)
         /\ \A j \in 1..Len(Trimmed(q)) : Trimmed(q)[j] = q[j]
         /\ \A j \in 1..Len(q) : q[j] # Hole => j <= Len(Trimmed(q))
<1> DEFINE S == {0} \cup {i \in 1..Len(q) : q[i] # Hole}
<1>1. Len(q) \in Nat
  OBVIOUS
<1>2. S \in SUBSET (0..Len(q)) /\ S # {}
  BY <1>1
<1>3. PICK m : m = Max(S)
  OBVIOUS
<1>4. m \in 0..Len(q) /\ \A j \in S : m >= j
  <2> HIDE DEF S
  <2> QED
    BY <1>1, <1>2, <1>3, MaxFacts
<1>5. Trimmed(q) = SubSeq(q, 1, m)
  BY <1>3 DEF Trimmed
<1>6. Len(SubSeq(q, 1, m)) = m /\ \A j \in 1..m : SubSeq(q, 1, m)[j] = q[j]
  BY <1>4
<1>7. SubSeq(q, 1, m) \in Seq(Entries)
  BY <1>4
<1> QED
  BY <1>4, <1>5, <1>6, <1>7

Left(q, i) == Trimmed([q EXCEPT ![i] = Hole])
ArrayWith(t, b, p) == [handlers EXCEPT ![t][b] = p]

(* A handle closed.                                                        *)
LEMMA CloseFacts ==
  ASSUME MsgTypes, HandlesOnce, NEW t \in MsgTasks, NEW b \in MsgBits, NEW h \in MsgHandlers,
         NEW i \in 1..Len(handlers[t][b]), handlers[t][b][i] = h, h # Hole,
         NEW p, p = Left(handlers[t][b], i), handlers' = ArrayWith(t, b, p)
  PROVE  /\ handlers' \in [MsgTasks -> [MsgBits -> Seq(Entries)]] /\ HandlesOnce'
         /\ \A u \in MsgTasks, c \in MsgBits : <<u, c>> # <<t, b>> => handlers'[u][c] = handlers[u][c]
         /\ handlers'[t][b] = p
         /\ \A x \in Heard : x # <<t, b, h>> /\ x[3] # Hole => Places(x)' = Places(x)
<1>1. handlers \in [MsgTasks -> [MsgBits -> Seq(Entries)]] /\ Hole \in Entries
  BY DEF MsgTypes, Entries
<1>2. PICK q \in Seq(Entries) : q = handlers[t][b]
  BY <1>1
<1>3. PICK r : r = [q EXCEPT ![i] = Hole]
  OBVIOUS
<1>4. r \in Seq(Entries) /\ Len(r) = Len(q) /\ \A j \in 1..Len(q) : r[j] = IF j = i THEN Hole ELSE q[j]
  BY <1>1, <1>2, <1>3
<1>5. p = Trimmed(r)
  BY <1>2, <1>3 DEF Left
<1>6. /\ p \in Seq(Entries) /\ Len(p) \in 0..Len(q) /\ \A j \in 1..Len(p) : p[j] = r[j]
      /\ \A j \in 1..Len(q) : r[j] # Hole => j <= Len(p)
  <2>1. r \in Seq(Entries)
    BY <1>4
  <2>2. /\ Trimmed(r) \in Seq(Entries) /\ Len(Trimmed(r)) \in 0..Len(r)
        /\ \A j \in 1..Len(Trimmed(r)) : Trimmed(r)[j] = r[j]
        /\ \A j \in 1..Len(r) : r[j] # Hole => j <= Len(Trimmed(r))
    BY <2>1, TrimFacts, Zenon
  <2> QED
    BY <2>2, <1>4, <1>5
<1>7. /\ handlers' \in [MsgTasks -> [MsgBits -> Seq(Entries)]]
      /\ \A u \in MsgTasks, c \in MsgBits :
           handlers'[u][c] = IF u = t /\ c = b THEN p ELSE handlers[u][c]
  BY <1>1, <1>6 DEF ArrayWith
<1>8. HandlesOnce'
  <2>1. ASSUME NEW u \in MsgTasks, NEW c \in MsgBits,
               NEW k \in 1..Len(handlers'[u][c]), NEW j \in 1..Len(handlers'[u][c]),
               handlers'[u][c][k] = handlers'[u][c][j], handlers'[u][c][k] # Hole
        PROVE  k = j
    <3>1. CASE u = t /\ c = b
      <4>1. handlers'[u][c] = p
        BY <1>7, <3>1
      <4>2. k \in 1..Len(q) /\ j \in 1..Len(q)
        BY <1>6, <4>1
      <4>3. q[k] = q[j] /\ q[k] # Hole
        BY <1>4, <1>6, <2>1, <4>1, <4>2
      <4> QED
        BY <1>2, <4>2, <4>3 DEF HandlesOnce
    <3>2. CASE ~(u = t /\ c = b)
      <4>1. handlers'[u][c] = handlers[u][c]
        BY <1>7, <3>2
      <4> QED
        BY <2>1, <4>1 DEF HandlesOnce
    <3> QED
      BY <3>1, <3>2
  <2> QED
    BY <2>1 DEF HandlesOnce
<1>9. ASSUME NEW x \in Heard, x # <<t, b, h>>, x[3] # Hole PROVE Places(x)' = Places(x)
  <2>1. x[1] \in MsgTasks /\ x[2] \in MsgBits /\ x = <<x[1], x[2], x[3]>>
    BY DEF Heard
  <2>2. CASE x[1] = t /\ x[2] = b
    <3>1. handlers[x[1]][x[2]] = q /\ handlers'[x[1]][x[2]] = p
      BY <1>2, <1>7, <2>2
    <3>2. x[3] # h
      BY <1>9, <2>1, <2>2
    <3>3. \A j \in 1..Len(q) : q[j] = x[3] <=> r[j] = x[3]
      BY <1>2, <1>4, <1>9, <3>2
    <3>4. \A j : j \in 1..Len(p) /\ p[j] = x[3] <=> j \in 1..Len(q) /\ q[j] = x[3]
      <4>1. \A j \in 1..Len(p) : j \in 1..Len(q)
        BY <1>6
      <4>2. \A j \in 1..Len(q) : q[j] = x[3] => j \in 1..Len(p)
        <5>1. Len(p) \in Nat /\ Len(q) \in Nat
          BY <1>6
        <5>2. \A j \in 1..Len(q) : q[j] = x[3] => r[j] # Hole
          BY <1>9, <3>3
        <5>3. \A j \in 1..Len(q) : q[j] = x[3] => j <= Len(p)
          BY <1>6, <5>2
        <5> QED
          BY <5>1, <5>3
      <4> QED
        BY <1>6, <3>3, <4>1, <4>2
    <3> QED
      BY <3>1, <3>4 DEF Places
  <2>3. CASE ~(x[1] = t /\ x[2] = b)
    BY <1>7, <2>1, <2>3 DEF Places
  <2> QED
    BY <2>2, <2>3
<1>10. handlers'[t][b] = p
  BY <1>7
<1> QED
  BY <1>7, <1>8, <1>9, <1>10

(* Who is due stays so, while the places of handlers do not change.        *)
LEMMA DueKept ==
  ASSUME MsgTypes, DueHeard, due' \subseteq due, UNCHANGED <<cast, receiver, heard, called>>,
         \A x \in due' : x[3] # Hole /\ Places(x) # {} => Places(x)' = Places(x)
  PROVE  DueHeard'
<1>1. SUFFICES ASSUME NEW x \in due', ~called'[x[1]]
      PROVE  /\ x[3] # Hole /\ Places(x)' # {}
             /\ Sent(x)' => \E i \in 1..Len(heard') : Times(x)' = {i}
             /\ ~Sent(x)' => Times(x)' = {}
  BY DEF DueHeard
<1>2. /\ x[3] # Hole /\ Places(x) # {} /\ Places(x)' = Places(x)
      /\ Sent(x) => \E i \in 1..Len(heard) : Times(x) = {i}
      /\ ~Sent(x) => Times(x) = {}
  BY <1>1 DEF DueHeard
<1>3. Times(x)' = Times(x)
  BY DEF Times
<1>4. Sent(x)' <=> Sent(x)
  BY <1>2 DEF Sent
<1> QED
  BY <1>2, <1>3, <1>4

-----------------------------------------------------------------------------
(* The steps. *)
(* The bit of a call.                                                      *)
LEMMA CallerBit ==
  ASSUME MsgTypes, NEW u \in MsgTasks, caller[u].op \in {"listen", "close"}
  PROVE  caller[u].bit \in MsgBits
<1>1. caller[u] \in Callers
  BY DEF MsgTypes
<1>2. CASE caller[u] \in [op : {"listen"}, bit : MsgBits, h : MsgHandlers]
  BY <1>2
<1>3. CASE caller[u] \in [op : {"close"}, bit : MsgBits]
  BY <1>3
<1>4. CASE caller[u] \in [op : {"broadcast"}]
  BY <1>4
<1>5. CASE caller[u] = CallerIdle
  BY <1>5 DEF CallerIdle
<1> QED
  BY <1>1, <1>2, <1>3, <1>4, <1>5 DEF Callers

(* sysmsg_listen(), up to its call.                                        *)
LEMMA ListenKeeps ==
  ASSUME MsgInv, NEW t \in MsgTasks, NEW b \in MsgBits, NEW h \in MsgHandlers, Listen(t, b, h)
  PROVE  MsgInv'
<1>1. /\ MsgTypes /\ HandlesOnce /\ CallsOnEmpty /\ MaskKnown /\ FilterMaskKnown
      /\ FilterCounts /\ SendingKnown /\ DueHeard /\ AnswersKnown
  BY DEF MsgInv
<1>2. /\ caller[t] = CallerIdle /\ ~Handle(t, b, h)
      /\ UNCHANGED <<msc, subs_mask, filter_mask, filter, n_filters, cast, receiver, called, want, given, due, heard, staged>>
  BY DEF Listen, srvVars
<1>3. FilterCounts' /\ FilterMaskKnown' /\ AnswersKnown'
  BY <1>1, <1>2 DEF FilterCounts, FilterMaskKnown, AnswersKnown
<1>4. CASE handlers[t][b] = <<>>
  <2>1. caller' = [caller EXCEPT ![t] = [op |-> "listen", bit |-> b, h |-> h]] /\ handlers' = handlers
    BY <1>4 DEF Listen
  <2>2. MsgTypes'
    <3>1. caller' \in [MsgTasks -> Callers]
      <4>1. [op |-> "listen", bit |-> b, h |-> h] \in Callers
        BY DEF Callers
      <4> QED
        BY <1>1, <2>1, <4>1 DEF MsgTypes
    <3> QED
      BY <1>1, <1>2, <2>1, <3>1 DEF MsgTypes
  <2>3. HandlesOnce'
    BY <1>1, <2>1 DEF HandlesOnce
  <2>4. \A u \in MsgTasks : caller'[u] = IF u = t THEN [op |-> "listen", bit |-> b, h |-> h] ELSE caller[u]
    BY <1>1, <2>1 DEF MsgTypes
  <2>5. CallsOnEmpty'
    BY <1>1, <1>4, <2>1, <2>4 DEF CallsOnEmpty
  <2>6. MaskKnown'
    BY <1>1, <1>2, <2>1, <2>4 DEF MaskKnown, CallerIdle
  <2>7. SendingKnown'
    <3>1. cast.st = "sending" => cast.from \in MsgTasks
      BY <1>1 DEF MsgTypes, Casts, NoCast
    <3> QED
      BY <1>1, <1>2, <2>4, <3>1 DEF SendingKnown, CallerIdle
  <2>8. DueHeard'
    <3>1. \A x \in due' : Places(x)' = Places(x)
      BY <2>1 DEF Places
    <3> QED
      BY <1>1, <1>2, <3>1, DueKept
  <2> QED
    BY <1>3, <2>2, <2>3, <2>5, <2>6, <2>7, <2>8 DEF MsgInv
<1>5. CASE handlers[t][b] # <<>>
  <2>1. handlers' = Pushed(t, b, h) /\ caller' = caller /\ h \in Entries
    BY <1>5 DEF Listen, Entries
  <2>2. /\ handlers' \in [MsgTasks -> [MsgBits -> Seq(Entries)]] /\ HandlesOnce'
        /\ \A u \in MsgTasks, c \in MsgBits : <<u, c>> # <<t, b>> => handlers'[u][c] = handlers[u][c]
        /\ handlers'[t][b] # <<>>
        /\ \A x \in Heard : Places(x) # {} => Places(x)' = Places(x)
    BY <1>1, <1>2, <2>1, PushFacts
  <2>3. MsgTypes'
    BY <1>1, <1>2, <2>1, <2>2 DEF MsgTypes
  <2>4. CallsOnEmpty'
    <3>1. ASSUME NEW u \in MsgTasks, caller[u].op \in {"listen", "close"}
          PROVE  handlers'[u][caller[u].bit] = <<>>
      <4>1. u # t
        BY <1>2, <3>1 DEF CallerIdle
      <4>2. caller[u].bit \in MsgBits
        BY <1>1, <3>1, CallerBit
      <4> QED
        BY <1>1, <2>2, <3>1, <4>1, <4>2 DEF CallsOnEmpty
    <3> QED
      BY <2>1, <3>1 DEF CallsOnEmpty
  <2>5. MaskKnown'
    BY <1>1, <1>2, <1>5, <2>1, <2>2 DEF MaskKnown
  <2>6. SendingKnown'
    BY <1>1, <1>2, <2>1 DEF SendingKnown
  <2>7. DueHeard'
    <3>1. due \subseteq Heard
      BY <1>1 DEF MsgTypes
    <3> QED
      BY <1>1, <1>2, <2>2, <3>1, DueKept
  <2> QED
    BY <1>3, <2>2, <2>3, <2>4, <2>5, <2>6, <2>7 DEF MsgInv
<1> QED
  BY <1>4, <1>5

(* What setmask() does to the masks.                                       *)
LEMMA SetmaskFacts ==
  ASSUME MsgTypes, FilterMaskKnown, NEW t \in MsgTasks, NEW or \in SUBSET MsgBits, NEW and \in SUBSET MsgBits,
         setmask(t, or, and)
  PROVE  /\ subs_mask' \in [MsgTasks -> SUBSET MsgBits] /\ filter_mask' \in [MsgTasks -> SUBSET MsgBits]
         /\ \A u \in MsgTasks : u # t => subs_mask'[u] = subs_mask[u] /\ filter_mask'[u] = filter_mask[u]
         /\ subs_mask'[t] = (subs_mask[t] \cap and) \cup or
         /\ filter_mask'[t] \subseteq filter_mask[t]
         /\ ~msc.masks => filter_mask'[t] \subseteq subs_mask'[t] \cap subs_mask[t]
         /\ filter' = filter /\ n_filters' = n_filters
<1>1. /\ subs_mask \in [MsgTasks -> SUBSET MsgBits] /\ filter_mask \in [MsgTasks -> SUBSET MsgBits]
  BY DEF MsgTypes
<1>2. /\ subs_mask' = [subs_mask EXCEPT ![t] = (subs_mask[t] \cap and) \cup or]
      /\ filter_mask' = [filter_mask EXCEPT ![t] = @ \ (subs_mask[t] \ ((subs_mask[t] \cap and) \cup or))]
      /\ filter' = filter /\ n_filters' = n_filters
  BY DEF setmask, FilterMaskAfter
<1>3. filter_mask'[t] = filter_mask[t] \ (subs_mask[t] \ ((subs_mask[t] \cap and) \cup or))
  BY <1>1, <1>2
<1>4. subs_mask'[t] = (subs_mask[t] \cap and) \cup or
  BY <1>1, <1>2
<1>5. ~msc.masks => filter_mask[t] \subseteq subs_mask[t]
  BY DEF FilterMaskKnown
<1> QED
  BY <1>1, <1>2, <1>3, <1>4, <1>5

(* sysmsg_listen()'s call and what follows it.                             *)
LEMMA ListenCallKeeps ==
  ASSUME MsgInv, NEW t \in MsgTasks, ListenCall(t)
  PROVE  MsgInv'
<1>1. /\ MsgTypes /\ HandlesOnce /\ CallsOnEmpty /\ MaskKnown /\ FilterMaskKnown
      /\ FilterCounts /\ SendingKnown /\ DueHeard /\ AnswersKnown
  BY DEF MsgInv
<1>2. PICK b \in MsgBits, h \in MsgHandlers : caller[t] = [op |-> "listen", bit |-> b, h |-> h]
  BY <1>1 DEF ListenCall, MsgTypes, Callers, CallerIdle
<1>3. /\ setmask(t, {b}, MsgBits) /\ handlers' = Pushed(t, b, h)
      /\ caller' = [caller EXCEPT ![t] = CallerIdle] /\ cast.st # "sending"
      /\ UNCHANGED <<msc, cast, receiver, called, want, given, due, heard, staged>>
  BY <1>2 DEF ListenCall, ServerFree
<1>4. handlers[t][b] = <<>> /\ h \in Entries
  BY <1>1, <1>2 DEF CallsOnEmpty, Entries
<1>5. ~Handle(t, b, h)
  BY <1>4 DEF Handle
<1>6. /\ handlers' \in [MsgTasks -> [MsgBits -> Seq(Entries)]] /\ HandlesOnce'
      /\ \A u \in MsgTasks, c \in MsgBits : <<u, c>> # <<t, b>> => handlers'[u][c] = handlers[u][c]
      /\ handlers'[t][b] # <<>>
      /\ \A x \in Heard : Places(x) # {} => Places(x)' = Places(x)
  BY <1>1, <1>3, <1>4, <1>5, PushFacts
<1>7. /\ subs_mask' \in [MsgTasks -> SUBSET MsgBits] /\ filter_mask' \in [MsgTasks -> SUBSET MsgBits]
      /\ \A u \in MsgTasks : u # t => subs_mask'[u] = subs_mask[u] /\ filter_mask'[u] = filter_mask[u]
      /\ subs_mask'[t] = (subs_mask[t] \cap MsgBits) \cup {b}
      /\ filter_mask'[t] \subseteq filter_mask[t]
      /\ ~msc.masks => filter_mask'[t] \subseteq subs_mask'[t] \cap subs_mask[t]
      /\ filter' = filter /\ n_filters' = n_filters
  BY <1>1, <1>3, SetmaskFacts
<1>8. /\ \A u \in MsgTasks : caller'[u] = IF u = t THEN CallerIdle ELSE caller[u]
      /\ caller' \in [MsgTasks -> Callers]
  BY <1>1, <1>3 DEF MsgTypes, Callers
<1>9. MsgTypes'
  BY <1>1, <1>3, <1>6, <1>7, <1>8 DEF MsgTypes
<1>10. CallsOnEmpty'
  <2>1. ASSUME NEW u \in MsgTasks, caller'[u].op \in {"listen", "close"}
        PROVE  handlers'[u][caller'[u].bit] = <<>>
    <3>1. u # t /\ caller'[u] = caller[u] /\ caller[u].bit \in MsgBits
      BY <1>1, <1>8, <2>1 DEF CallerIdle, MsgTypes, Callers
    <3> QED
      BY <1>1, <1>6, <2>1, <3>1 DEF CallsOnEmpty
  <2> QED
    BY <2>1 DEF CallsOnEmpty
<1>11. MaskKnown'
  <2>1. ASSUME ~msc.masks, NEW u \in MsgTasks, NEW c \in MsgBits
        PROVE  c \in subs_mask'[u] <=> handlers'[u][c] # <<>> \/ (caller'[u].op = "close" /\ caller'[u].bit = c)
    <3>1. c \in subs_mask[u] <=> handlers[u][c] # <<>> \/ (caller[u].op = "close" /\ caller[u].bit = c)
      BY <1>1, <2>1 DEF MaskKnown
    <3>2. CASE u = t
      BY <1>2, <1>6, <1>7, <1>8, <3>1, <3>2 DEF CallerIdle
    <3>3. CASE u # t
      BY <1>6, <1>7, <1>8, <3>1, <3>3
    <3> QED
      BY <3>2, <3>3
  <2> QED
    BY <1>3, <2>1 DEF MaskKnown
<1>12. FilterMaskKnown'
  BY <1>1, <1>3, <1>7 DEF FilterMaskKnown
<1>13. FilterCounts' /\ AnswersKnown'
  BY <1>1, <1>3, <1>7 DEF FilterCounts, AnswersKnown
<1>14. SendingKnown'
  BY <1>1, <1>3 DEF SendingKnown
<1>15. DueHeard'
  <2>1. due \subseteq Heard
    BY <1>1 DEF MsgTypes
  <2> QED
    BY <1>1, <1>3, <1>6, <2>1, DueKept
<1> QED
  BY <1>6, <1>9, <1>10, <1>11, <1>12, <1>13, <1>14, <1>15 DEF MsgInv

(* sysmsg_close(), up to its call.                                         *)
LEMMA CloseHandleKeeps ==
  ASSUME MsgInv, NEW t \in MsgTasks, NEW b \in MsgBits, NEW h \in MsgHandlers, CloseHandle(t, b, h)
  PROVE  MsgInv'
<1>1. /\ MsgTypes /\ HandlesOnce /\ CallsOnEmpty /\ MaskKnown /\ FilterMaskKnown
      /\ FilterCounts /\ SendingKnown /\ DueHeard /\ AnswersKnown
  BY DEF MsgInv
<1>2. /\ caller[t] = CallerIdle /\ due' = due \ {<<t, b, h>>}
      /\ UNCHANGED <<msc, subs_mask, filter_mask, filter, n_filters, cast, receiver, called, want, given, heard, staged>>
  BY DEF CloseHandle, srvVars
<1>3. PICK i \in 1..Len(handlers[t][b]) :
        /\ handlers[t][b][i] = h /\ h # Hole
        /\ LET left == Trimmed([handlers[t][b] EXCEPT ![i] = Hole])
           IN  /\ handlers' = [handlers EXCEPT ![t][b] = left]
               /\ caller' = IF left = <<>> THEN [caller EXCEPT ![t] = [op |-> "close", bit |-> b]] ELSE caller
  BY DEF CloseHandle
<1>4. PICK p : p = Left(handlers[t][b], i)
  OBVIOUS
<1>5. /\ handlers' = ArrayWith(t, b, p)
      /\ caller' = IF p = <<>> THEN [caller EXCEPT ![t] = [op |-> "close", bit |-> b]] ELSE caller
  BY <1>3, <1>4 DEF Left, ArrayWith
<1>6. /\ handlers' \in [MsgTasks -> [MsgBits -> Seq(Entries)]] /\ HandlesOnce'
      /\ \A u \in MsgTasks, c \in MsgBits : <<u, c>> # <<t, b>> => handlers'[u][c] = handlers[u][c]
      /\ handlers'[t][b] = p
      /\ \A x \in Heard : x # <<t, b, h>> /\ x[3] # Hole => Places(x)' = Places(x)
  <2>1. handlers[t][b][i] = h /\ h # Hole /\ MsgTypes /\ HandlesOnce
    BY <1>1, <1>3
  <2>2. handlers' = ArrayWith(t, b, p)
    BY <1>5
  <2> QED
    BY <1>4, <2>1, <2>2, CloseFacts
<1>7. handlers[t][b] # <<>>
  <2>1. ASSUME handlers[t][b] = <<>> PROVE FALSE
    <3>1. i \in 1..0
      BY <2>1
    <3> QED
      BY <3>1
  <2> QED
    BY <2>1
<1>8. FilterCounts' /\ FilterMaskKnown' /\ AnswersKnown'
  BY <1>1, <1>2 DEF FilterCounts, FilterMaskKnown, AnswersKnown
<1>9. DueHeard'
  <2>1. due \subseteq Heard
    BY <1>1 DEF MsgTypes
  <2>2. \A x \in due' : x[3] # Hole /\ Places(x) # {} => Places(x)' = Places(x)
    BY <1>2, <1>6, <2>1
  <2> QED
    BY <1>1, <1>2, <2>2, DueKept
<1>10. caller' \in [MsgTasks -> Callers]
  <2>1. [op |-> "close", bit |-> b] \in Callers
    BY DEF Callers
  <2> QED
    BY <1>1, <1>5, <2>1 DEF MsgTypes
<1>11. MsgTypes'
  <2>1. due' \subseteq Heard
    BY <1>1, <1>2 DEF MsgTypes
  <2> QED
    BY <1>1, <1>2, <1>6, <1>10, <2>1 DEF MsgTypes
<1>12. \A u \in MsgTasks : u # t => caller'[u] = caller[u]
  BY <1>1, <1>5 DEF MsgTypes
<1>13. caller'[t] = IF p = <<>> THEN [op |-> "close", bit |-> b] ELSE CallerIdle
  BY <1>1, <1>2, <1>5 DEF MsgTypes
<1>14. CallsOnEmpty'
  <2>1. ASSUME NEW u \in MsgTasks, caller'[u].op \in {"listen", "close"}
        PROVE  handlers'[u][caller'[u].bit] = <<>>
    <3>1. CASE u = t
      <4>1. p = <<>> /\ caller'[u].bit = b
        BY <1>13, <2>1, <3>1 DEF CallerIdle
      <4> QED
        BY <1>6, <3>1, <4>1
    <3>2. CASE u # t
      <4>1. caller'[u] = caller[u]
        BY <1>12, <3>2
      <4>2. caller[u].bit \in MsgBits
        BY <1>1, <2>1, <4>1, CallerBit
      <4> QED
        BY <1>1, <1>6, <2>1, <3>2, <4>1, <4>2 DEF CallsOnEmpty
    <3> QED
      BY <3>1, <3>2
  <2> QED
    BY <2>1 DEF CallsOnEmpty
<1>15. MaskKnown'
  <2>1. ASSUME ~msc.masks, NEW u \in MsgTasks, NEW c \in MsgBits
        PROVE  c \in subs_mask[u] <=> handlers'[u][c] # <<>> \/ (caller'[u].op = "close" /\ caller'[u].bit = c)
    <3>1. c \in subs_mask[u] <=> handlers[u][c] # <<>> \/ (caller[u].op = "close" /\ caller[u].bit = c)
      BY <1>1, <2>1 DEF MaskKnown
    <3>2. CASE u = t
      BY <1>2, <1>6, <1>7, <1>13, <3>1, <3>2 DEF CallerIdle
    <3>3. CASE u # t
      BY <1>6, <1>12, <3>1, <3>3
    <3> QED
      BY <3>2, <3>3
  <2> QED
    BY <1>2, <2>1 DEF MaskKnown
<1>16. SendingKnown'
  <2>1. cast.st = "sending" => cast.from \in MsgTasks
    BY <1>1 DEF MsgTypes, Casts, NoCast
  <2>2. cast.st = "sending" => cast.from # t
    BY <1>1, <1>2 DEF SendingKnown, CallerIdle
  <2> QED
    BY <1>1, <1>2, <1>12, <2>1, <2>2 DEF SendingKnown
<1> QED
  BY <1>6, <1>8, <1>9, <1>11, <1>14, <1>15, <1>16 DEF MsgInv

(* sysmsg_close()'s call.                                                  *)
LEMMA CloseCallKeeps ==
  ASSUME MsgInv, NEW t \in MsgTasks, CloseCall(t)
  PROVE  MsgInv'
<1>1. /\ MsgTypes /\ HandlesOnce /\ CallsOnEmpty /\ MaskKnown /\ FilterMaskKnown
      /\ FilterCounts /\ SendingKnown /\ DueHeard /\ AnswersKnown
  BY DEF MsgInv
<1>2. PICK b \in MsgBits : caller[t] = [op |-> "close", bit |-> b]
  BY <1>1 DEF CloseCall, MsgTypes, Callers, CallerIdle
<1>3. /\ setmask(t, {}, MsgBits \ {b})
      /\ given' = [given EXCEPT ![t] = @ \ {b}]
      /\ caller' = [caller EXCEPT ![t] = CallerIdle] /\ cast.st # "sending"
      /\ UNCHANGED <<msc, cast, handlers, receiver, called, want, due, heard, staged>>
  BY <1>2 DEF CloseCall, ServerFree, KeepOthers
<1>4. handlers[t][b] = <<>>
  BY <1>1, <1>2 DEF CallsOnEmpty
<1>5. /\ subs_mask' \in [MsgTasks -> SUBSET MsgBits] /\ filter_mask' \in [MsgTasks -> SUBSET MsgBits]
      /\ \A u \in MsgTasks : u # t => subs_mask'[u] = subs_mask[u] /\ filter_mask'[u] = filter_mask[u]
      /\ subs_mask'[t] = (subs_mask[t] \cap (MsgBits \ {b})) \cup {}
      /\ filter_mask'[t] \subseteq filter_mask[t]
      /\ ~msc.masks => filter_mask'[t] \subseteq subs_mask'[t] \cap subs_mask[t]
      /\ filter' = filter /\ n_filters' = n_filters
  BY <1>1, <1>3, SetmaskFacts
<1>6. /\ \A u \in MsgTasks : caller'[u] = IF u = t THEN CallerIdle ELSE caller[u]
      /\ caller' \in [MsgTasks -> Callers]
  BY <1>1, <1>3 DEF MsgTypes, Callers
<1>7. /\ given' \in [MsgTasks -> SUBSET MsgBits]
      /\ \A u \in MsgTasks : given'[u] = IF u = t THEN given[t] \ {b} ELSE given[u]
  BY <1>1, <1>3 DEF MsgTypes
<1>8. MsgTypes' /\ HandlesOnce'
  BY <1>1, <1>3, <1>5, <1>6, <1>7 DEF MsgTypes, HandlesOnce
<1>9. CallsOnEmpty'
  BY <1>1, <1>3, <1>6 DEF CallsOnEmpty, CallerIdle
<1>10. MaskKnown'
  <2>1. ASSUME ~msc.masks, NEW u \in MsgTasks, NEW c \in MsgBits
        PROVE  c \in subs_mask'[u] <=> handlers[u][c] # <<>> \/ (caller'[u].op = "close" /\ caller'[u].bit = c)
    <3>1. c \in subs_mask[u] <=> handlers[u][c] # <<>> \/ (caller[u].op = "close" /\ caller[u].bit = c)
      BY <1>1, <2>1 DEF MaskKnown
    <3>2. CASE u = t
      BY <1>2, <1>4, <1>5, <1>6, <3>1, <3>2 DEF CallerIdle
    <3>3. CASE u # t
      BY <1>5, <1>6, <3>1, <3>3
    <3> QED
      BY <3>2, <3>3
  <2> QED
    BY <1>3, <2>1 DEF MaskKnown
<1>11. FilterMaskKnown'
  <2>1. b \notin subs_mask'[t]
    BY <1>5
  <2>2. msc.masks \in BOOLEAN
    BY <1>1, MsgAssumption DEF MsgTypes
  <2> QED
    BY <1>1, <1>3, <1>5, <1>7, <2>1, <2>2 DEF FilterMaskKnown
<1>12. FilterCounts' /\ AnswersKnown'
  BY <1>1, <1>3, <1>5 DEF FilterCounts, AnswersKnown
<1>13. SendingKnown'
  BY <1>1, <1>3 DEF SendingKnown
<1>14. DueHeard'
  <2>1. \A x \in due' : Places(x)' = Places(x)
    BY <1>3 DEF Places
  <2> QED
    BY <1>1, <1>3, <2>1, DueKept
<1> QED
  BY <1>8, <1>9, <1>10, <1>11, <1>12, <1>13, <1>14 DEF MsgInv

(* add_filter() and rm_filter().                                           *)
LEMMA FilterCallKeeps ==
  ASSUME MsgInv, NoMaskedFilters, NEW t \in MsgTasks, NEW b \in MsgBits, NEW l \in Labels, FilterCall(t, b, l)
  PROVE  MsgInv'
<1>1. /\ MsgTypes /\ HandlesOnce /\ CallsOnEmpty /\ MaskKnown /\ FilterMaskKnown
      /\ FilterCounts /\ SendingKnown /\ DueHeard /\ AnswersKnown
  BY DEF MsgInv
<1>2. /\ handlers[t][b] # <<>> /\ <<t, b, l>> \in msc.filters
      /\ UNCHANGED <<msc, cast, handlers, caller, receiver, called, due, heard, staged>>
  BY DEF FilterCall
<1>3. ~msc.masks
  BY <1>1, <1>2 DEF NoMaskedFilters, MsgTypes
<1>4. b \in subs_mask[t]
  BY <1>1, <1>2, <1>3 DEF MaskKnown
<1>5. /\ want \in [MsgTasks -> Wants] /\ want[t] \in Wants /\ n_filters \in [MsgTasks -> Nat] /\ n_filters[t] \in Nat
      /\ filter \in [MsgTasks -> {NoFilter} \cup Filters] /\ filter[t] \in {NoFilter} \cup Filters
      /\ filter_mask \in [MsgTasks -> SUBSET MsgBits] /\ given \in [MsgTasks -> SUBSET MsgBits]
      /\ FilterOk(filter[t], n_filters[t], want[t])
  BY <1>1 DEF MsgTypes, Wants, Filters, FilterCounts
<1>6. /\ want' \in [MsgTasks -> Wants] /\ n_filters' \in [MsgTasks -> Nat]
      /\ filter' \in [MsgTasks -> {NoFilter} \cup Filters]
      /\ filter_mask' \in [MsgTasks -> SUBSET MsgBits] /\ given' \in [MsgTasks -> SUBSET MsgBits]
      /\ subs_mask' = subs_mask
      /\ \A u \in MsgTasks : /\ filter_mask'[u] \subseteq given'[u] /\ filter_mask'[u] \subseteq subs_mask[u]
                             /\ FilterOk(filter'[u], n_filters'[u], want'[u])
  <2>1. CASE /\ want[t][b][l] < WantMax /\ add_filter(t, b, l)
             /\ want' = [want EXCEPT ![t][b][l] = @ + 1] /\ given' = [given EXCEPT ![t] = @ \cup {b}]
    <3>1. PICK f, g : /\ f = IF filter[t] = NoFilter THEN [s \in AllSlots |-> 0] ELSE filter[t]
                      /\ g = IncAll(f, Slots(l, b))
      OBVIOUS
    <3>2. /\ filter' = [filter EXCEPT ![t] = g]
          /\ filter_mask' = [filter_mask EXCEPT ![t] = @ \cup {b}]
          /\ n_filters' = [n_filters EXCEPT ![t] = @ + 1] /\ subs_mask' = subs_mask
      BY <2>1, <3>1 DEF add_filter
    <3>3. g \in Filters /\ FilterOk(g, n_filters[t] + 1, More(want[t], b, l))
      BY <1>5, <2>1, <3>1, AddOk
    <3>4. want' = [want EXCEPT ![t] = More(want[t], b, l)]
      BY <2>1, <1>5 DEF More
    <3>5. More(want[t], b, l) \in Wants
      <4>1. WantMax \in Nat /\ want[t][b][l] + 1 \in 0..WantMax
        BY <1>5, <2>1, MsgAssumption DEF Wants
      <4> QED
        BY <1>5, <4>1 DEF More, Wants
    <3>6. /\ \A u \in MsgTasks : u # t => /\ filter'[u] = filter[u] /\ n_filters'[u] = n_filters[u] /\ want'[u] = want[u]
                                          /\ filter_mask'[u] = filter_mask[u] /\ given'[u] = given[u]
          /\ filter'[t] = g /\ n_filters'[t] = n_filters[t] + 1 /\ want'[t] = More(want[t], b, l)
          /\ filter_mask'[t] = filter_mask[t] \cup {b} /\ given'[t] = given[t] \cup {b}
      BY <1>5, <2>1, <3>2, <3>4
    <3>7. /\ want' \in [MsgTasks -> Wants] /\ n_filters' \in [MsgTasks -> Nat]
          /\ filter' \in [MsgTasks -> {NoFilter} \cup Filters]
          /\ filter_mask' \in [MsgTasks -> SUBSET MsgBits] /\ given' \in [MsgTasks -> SUBSET MsgBits]
      <4>1. want' \in [MsgTasks -> Wants]
        BY <1>5, <3>4, <3>5
      <4>2. n_filters' \in [MsgTasks -> Nat]
        BY <1>5, <3>2
      <4>3. filter' \in [MsgTasks -> {NoFilter} \cup Filters]
        BY <1>5, <3>2, <3>3
      <4>4. filter_mask' \in [MsgTasks -> SUBSET MsgBits] /\ given' \in [MsgTasks -> SUBSET MsgBits]
        BY <1>5, <2>1, <3>2
      <4> QED
        BY <4>1, <4>2, <4>3, <4>4
    <3>8. ASSUME NEW u \in MsgTasks
          PROVE  /\ filter_mask'[u] \subseteq given'[u] /\ filter_mask'[u] \subseteq subs_mask[u]
                 /\ FilterOk(filter'[u], n_filters'[u], want'[u])
      <4>1. /\ filter_mask[u] \subseteq given[u] /\ filter_mask[u] \subseteq subs_mask[u]
            /\ FilterOk(filter[u], n_filters[u], want[u])
        BY <1>1, <1>3 DEF FilterMaskKnown, FilterCounts
      <4>2. CASE u = t
        BY <1>4, <3>3, <3>6, <4>1, <4>2
      <4>3. CASE u # t
        BY <3>6, <4>1, <4>3
      <4> QED
        BY <4>2, <4>3
    <3> QED
      BY <3>2, <3>7, <3>8
  <2>2. CASE /\ want[t][b][l] > 0 /\ rm_filter(t, b, l)
             /\ want' = [want EXCEPT ![t][b][l] = @ - 1] /\ UNCHANGED given
    <3>1. filter[t] # NoFilter /\ filter_query(filter[t], Slots(l, b))
      BY <1>5, <2>2, QueryFinds
    <3>2. PICK g : g = IF n_filters[t] = 1 THEN NoFilter ELSE DecAll(filter[t], Slots(l, b))
      OBVIOUS
    <3>3. /\ filter' = [filter EXCEPT ![t] = g]
          /\ n_filters' = [n_filters EXCEPT ![t] = @ - 1] /\ subs_mask' = subs_mask /\ filter_mask' = filter_mask
      <4>1. /\ n_filters' = [n_filters EXCEPT ![t] = @ - 1]
            /\ filter' = [filter EXCEPT ![t] = IF LastOne(t) THEN NoFilter ELSE DecAll(@, Slots(l, b))]
            /\ subs_mask' = subs_mask /\ filter_mask' = filter_mask
        BY <2>2, <3>1 DEF rm_filter
      <4> QED
        BY <3>2, <4>1 DEF LastOne
    <3>4. g \in {NoFilter} \cup Filters /\ n_filters[t] - 1 \in Nat /\ FilterOk(g, n_filters[t] - 1, Fewer(want[t], b, l))
      BY <1>5, <2>2, <3>2, RmOk
    <3>5. want' = [want EXCEPT ![t] = Fewer(want[t], b, l)] /\ Fewer(want[t], b, l) \in Wants
      BY <2>2, <1>5, FewerFacts DEF Fewer
    <3>6. /\ \A u \in MsgTasks : u # t => /\ filter'[u] = filter[u] /\ n_filters'[u] = n_filters[u] /\ want'[u] = want[u]
          /\ filter'[t] = g /\ n_filters'[t] = n_filters[t] - 1 /\ want'[t] = Fewer(want[t], b, l)
      BY <1>5, <3>3, <3>5
    <3>7. /\ want' \in [MsgTasks -> Wants] /\ n_filters' \in [MsgTasks -> Nat]
          /\ filter' \in [MsgTasks -> {NoFilter} \cup Filters]
      BY <1>5, <3>3, <3>4, <3>5
    <3>8. ASSUME NEW u \in MsgTasks
          PROVE  /\ filter_mask'[u] \subseteq given'[u] /\ filter_mask'[u] \subseteq subs_mask[u]
                 /\ FilterOk(filter'[u], n_filters'[u], want'[u])
      <4>1. /\ filter_mask[u] \subseteq given[u] /\ filter_mask[u] \subseteq subs_mask[u]
            /\ FilterOk(filter[u], n_filters[u], want[u])
        BY <1>1, <1>3 DEF FilterMaskKnown, FilterCounts
      <4>2. CASE u = t
        BY <2>2, <3>3, <3>4, <3>6, <4>1, <4>2
      <4>3. CASE u # t
        BY <2>2, <3>3, <3>6, <4>1, <4>3
      <4> QED
        BY <4>2, <4>3
    <3> QED
      BY <1>5, <2>2, <3>3, <3>7, <3>8
  <2> QED
    BY <2>1, <2>2 DEF FilterCall
<1>7. MsgTypes'
  BY <1>1, <1>2, <1>6 DEF MsgTypes, Wants, Filters
<1>8. HandlesOnce' /\ CallsOnEmpty' /\ MaskKnown'
  BY <1>1, <1>2, <1>6 DEF HandlesOnce, CallsOnEmpty, MaskKnown
<1>9. FilterMaskKnown' /\ FilterCounts'
  BY <1>2, <1>3, <1>6 DEF FilterMaskKnown, FilterCounts
<1>10. SendingKnown' /\ AnswersKnown'
  BY <1>1, <1>2 DEF SendingKnown, AnswersKnown
<1>11. DueHeard'
  <2>1. \A x \in due' : Places(x)' = Places(x)
    BY <1>2 DEF Places
  <2> QED
    BY <1>1, <1>2, <2>1, DueKept
<1> QED
  BY <1>7, <1>8, <1>9, <1>10, <1>11 DEF MsgInv

(* setmask() as a handler's call of it is decoded.                         *)
LEMMA NestedSetmaskKeeps ==
  ASSUME MsgInv, NEW t \in MsgTasks, NEW b \in MsgBits, NestedSetmask(t, b)
  PROVE  MsgInv'
<1>1. /\ MsgTypes /\ HandlesOnce /\ CallsOnEmpty /\ MaskKnown /\ FilterMaskKnown
      /\ FilterCounts /\ SendingKnown /\ DueHeard /\ AnswersKnown
  BY DEF MsgInv
<1>2. /\ msc.masks /\ caller[t] = CallerIdle /\ handlers[t][b] = <<>>
      /\ setmask(t, {0}, {b}) /\ handlers' = Pushed(t, b, "n")
      /\ UNCHANGED <<msc, cast, caller, receiver, called, want, given, due, heard, staged>>
  BY DEF NestedSetmask
<1>3. "n" \in Entries /\ ~Handle(t, b, "n") /\ 0 \in MsgBits
  BY <1>1, <1>2, MsgAssumption DEF Entries, Handle, MsgTypes
<1>4. /\ handlers' \in [MsgTasks -> [MsgBits -> Seq(Entries)]] /\ HandlesOnce'
      /\ \A u \in MsgTasks, c \in MsgBits : <<u, c>> # <<t, b>> => handlers'[u][c] = handlers[u][c]
      /\ \A x \in Heard : Places(x) # {} => Places(x)' = Places(x)
  BY <1>1, <1>2, <1>3, PushFacts
<1>5. /\ subs_mask' \in [MsgTasks -> SUBSET MsgBits] /\ filter_mask' \in [MsgTasks -> SUBSET MsgBits]
      /\ \A u \in MsgTasks : u # t => subs_mask'[u] = subs_mask[u] /\ filter_mask'[u] = filter_mask[u]
      /\ filter_mask'[t] \subseteq filter_mask[t]
      /\ filter' = filter /\ n_filters' = n_filters
  <2>1. {0} \in SUBSET MsgBits /\ {b} \in SUBSET MsgBits
    BY <1>3
  <2> QED
    BY <1>1, <1>2, <2>1, SetmaskFacts
<1>6. MsgTypes'
  BY <1>1, <1>2, <1>4, <1>5 DEF MsgTypes
<1>7. CallsOnEmpty'
  <2>1. ASSUME NEW u \in MsgTasks, caller[u].op \in {"listen", "close"}
        PROVE  handlers'[u][caller[u].bit] = <<>>
    <3>1. u # t
      BY <1>2, <2>1 DEF CallerIdle
    <3>2. caller[u].bit \in MsgBits
      BY <1>1, <2>1, CallerBit
    <3> QED
      BY <1>1, <1>4, <2>1, <3>1, <3>2 DEF CallsOnEmpty
  <2> QED
    BY <1>2, <2>1 DEF CallsOnEmpty
<1>8. MaskKnown'
  BY <1>2 DEF MaskKnown
<1>9. FilterMaskKnown'
  BY <1>1, <1>2, <1>5 DEF FilterMaskKnown
<1>10. FilterCounts' /\ SendingKnown' /\ AnswersKnown'
  BY <1>1, <1>2, <1>5 DEF FilterCounts, SendingKnown, AnswersKnown
<1>11. DueHeard'
  <2>1. due \subseteq Heard
    BY <1>1 DEF MsgTypes
  <2> QED
    BY <1>1, <1>2, <1>4, <2>1, DueKept
<1> QED
  BY <1>4, <1>6, <1>7, <1>8, <1>9, <1>10, <1>11 DEF MsgInv

-----------------------------------------------------------------------------
(* The server goes on to the next recipient, or is done.                   *)
LEMMA SendToFacts ==
  ASSUME MsgTypes, NEW from \in MsgTasks, NEW maskp \in SUBSET MsgBits, NEW todo \in SUBSET MsgTasks,
         NEW imm \in BOOLEAN, SendTo(from, maskp, todo, imm)
  PROVE  /\ cast' \in Casts /\ caller' \in [MsgTasks -> Callers] /\ receiver' \in [MsgTasks -> Receivings]
         /\ \A u \in MsgTasks : u # from => caller'[u] = caller[u]
         /\ caller'[from].op \in {"none", "broadcast"}
         /\ todo = {} => cast'.st = "done" /\ (cast'.imm <=> imm) /\ receiver' = receiver
         /\ todo # {} => /\ cast'.st = "sending" /\ cast'.from = from /\ cast'.maskp = maskp
                         /\ cast'.to = Min(todo) /\ cast'.todo = todo \ {Min(todo)} /\ (cast'.imm <=> imm)
                         /\ caller'[from].op = "broadcast" /\ Min(todo) \in todo
                         /\ receiver'[Min(todo)] = [bits |-> maskp, i |-> 1, imm |-> TRUE]
                         /\ \A u \in MsgTasks : u # Min(todo) => receiver'[u] = receiver[u]
<1>1. caller \in [MsgTasks -> Callers] /\ receiver \in [MsgTasks -> Receivings] /\ CallerIdle \in Callers
  BY DEF MsgTypes, Callers
<1>2. [op |-> "broadcast"] \in Callers /\ CallerIdle.op = "none"
  BY DEF Callers, CallerIdle
<1>3. CASE todo = {}
  <2>1. /\ cast' = [st |-> "done", imm |-> imm]
        /\ caller' = [caller EXCEPT ![from] = CallerIdle] /\ receiver' = receiver
    BY <1>3 DEF SendTo
  <2>2. cast' \in Casts
    BY <2>1 DEF Casts
  <2> QED
    BY <1>1, <1>2, <1>3, <2>1, <2>2
<1>4. CASE todo # {}
  <2>1. PICK m \in todo : m = Min(todo)
    BY <1>4, MinFacts, MsgAssumption
  <2>2. /\ cast' = [st |-> "sending", from |-> from, maskp |-> maskp, to |-> m, todo |-> todo \ {m}, imm |-> imm]
        /\ caller' = [caller EXCEPT ![from] = [op |-> "broadcast"]]
        /\ receiver' = [receiver EXCEPT ![m] = [bits |-> maskp, i |-> 1, imm |-> TRUE]]
    BY <1>4, <2>1 DEF SendTo
  <2>3. cast' \in Casts
    <3>1. m \in MsgTasks /\ todo \ {m} \in SUBSET MsgTasks
      OBVIOUS
    <3> QED
      BY <2>2, <3>1 DEF Casts
  <2>4. [bits |-> maskp, i |-> 1, imm |-> TRUE] \in Receivings
    BY DEF Receivings
  <2>5. /\ caller' \in [MsgTasks -> Callers] /\ caller'[from].op = "broadcast"
        /\ \A u \in MsgTasks : u # from => caller'[u] = caller[u]
    BY <1>1, <1>2, <2>2
  <2>6. /\ receiver' \in [MsgTasks -> Receivings]
        /\ receiver'[m] = [bits |-> maskp, i |-> 1, imm |-> TRUE]
        /\ \A u \in MsgTasks : u # m => receiver'[u] = receiver[u]
    BY <1>1, <2>2, <2>4
  <2>7. /\ cast'.st = "sending" /\ cast'.from = from /\ cast'.maskp = maskp
        /\ cast'.to = m /\ cast'.todo = todo \ {m} /\ cast'.imm = imm
    BY <2>2
  <2> QED
    BY <1>4, <2>1, <2>3, <2>5, <2>6, <2>7
<1> QED
  BY <1>3, <1>4

(* Nothing else of a broadcaster's call matters to its arrays and mask.    *)
LEMMA BroadcasterFrame ==
  ASSUME MsgTypes, CallsOnEmpty, MaskKnown, NEW from \in MsgTasks, caller[from].op \in {"none", "broadcast"},
         caller'[from].op \in {"none", "broadcast"},
         \A u \in MsgTasks : u # from => caller'[u] = caller[u],
         UNCHANGED <<msc, subs_mask, handlers>>
  PROVE  CallsOnEmpty' /\ MaskKnown'
<1>1. CallsOnEmpty'
  <2>1. ASSUME NEW u \in MsgTasks, caller'[u].op \in {"listen", "close"}
        PROVE  handlers'[u][caller'[u].bit] = <<>>
    <3>1. u # from
      BY <2>1
    <3> QED
      BY <2>1, <3>1 DEF CallsOnEmpty
  <2> QED
    BY <2>1 DEF CallsOnEmpty
<1>2. MaskKnown'
  <2>1. ASSUME ~msc.masks, NEW u \in MsgTasks, NEW c \in MsgBits
        PROVE  c \in subs_mask[u] <=> handlers[u][c] # <<>> \/ (caller'[u].op = "close" /\ caller'[u].bit = c)
    <3>1. c \in subs_mask[u] <=> handlers[u][c] # <<>> \/ (caller[u].op = "close" /\ caller[u].bit = c)
      BY <2>1 DEF MaskKnown
    <3>2. CASE u = from
      BY <3>1, <3>2
    <3>3. CASE u # from
      BY <3>1, <3>3
    <3> QED
      BY <3>2, <3>3
  <2> QED
    BY <2>1 DEF MaskKnown
<1> QED
  BY <1>1, <1>2

(* Who is due a broadcast is not filtered out: the bit was given no filter *)
(* or the label is found in it.                                            *)
LEMMA DueNotFiltered ==
  ASSUME MsgInv, NEW t \in MsgTasks, NEW b \in MsgBits, NEW maskp \in SUBSET MsgBits, b \in maskp,
         NEW l \in Labels, Accepts(t, b, l)
  PROVE  ~Filtered(t, maskp, l)
<1>1. filter_mask[t] \subseteq given[t] /\ FilterOk(filter[t], n_filters[t], want[t])
  BY DEF MsgInv, FilterMaskKnown, FilterCounts
<1>2. /\ filter[t] \in {NoFilter} \cup Filters /\ n_filters[t] \in Nat /\ want[t] \in Wants
      /\ want[t][b][l] \in Nat
  BY MsgAssumption DEF MsgInv, MsgTypes, Filters, Wants
<1>3. CASE want[t][b][l] > 0
  <2>1. filter[t] # NoFilter /\ filter_query(filter[t], Slots(l, b))
    BY <1>1, <1>2, <1>3, QueryFinds
  <2>2. maskp \subseteq filter_mask[t] => b \in maskp \cap filter_mask[t]
    OBVIOUS
  <2> QED
    BY <2>1, <2>2 DEF Filtered, filter_pass
<1>4. CASE b \notin given[t]
  BY <1>1, <1>4 DEF Filtered
<1> QED
  BY <1>3, <1>4 DEF Accepts

(* sysmsg_broadcast().                                                     *)
LEMMA BroadcastKeeps ==
  ASSUME MsgInv, NEW c \in msc.casts, Broadcast(c)
  PROVE  MsgInv'
<1>1. /\ MsgTypes /\ HandlesOnce /\ CallsOnEmpty /\ MaskKnown /\ FilterMaskKnown
      /\ FilterCounts /\ SendingKnown /\ DueHeard /\ AnswersKnown
  BY DEF MsgInv
<1>2. /\ c.from \in MsgTasks /\ c.maskp \in SUBSET MsgBits /\ c.label \in Labels
  BY <1>1, MsgAssumption DEF MsgTypes
<1>3. PICK from \in MsgTasks, maskp \in SUBSET MsgBits, l \in Labels :
        from = c.from /\ maskp = c.maskp /\ l = c.label
  BY <1>2
<1>4. PICK todo \in SUBSET MsgTasks :
        todo = {t \in Recipients(maskp, c.maskn) : ~called[t] /\ ~Filtered(t, maskp, l)}
  BY DEF Recipients
<1>5. /\ cast.st # "sending" /\ caller[from] = CallerIdle /\ SendTo(from, maskp, todo, TRUE)
      /\ due' = Due(maskp, c.maskn, l) /\ heard' = <<>> /\ staged' = FALSE
      /\ UNCHANGED <<msc, subs_mask, filter_mask, filter, n_filters, handlers, called, want, given>>
  BY <1>3, <1>4 DEF Broadcast, ServerFree, srvVars
<1>6. /\ cast' \in Casts /\ caller' \in [MsgTasks -> Callers] /\ receiver' \in [MsgTasks -> Receivings]
      /\ \A u \in MsgTasks : u # from => caller'[u] = caller[u]
      /\ caller'[from].op \in {"none", "broadcast"}
      /\ todo = {} => cast'.st = "done" /\ (cast'.imm <=> TRUE) /\ receiver' = receiver
      /\ todo # {} => /\ cast'.st = "sending" /\ cast'.from = from /\ cast'.maskp = maskp
                      /\ cast'.to = Min(todo) /\ cast'.todo = todo \ {Min(todo)} /\ (cast'.imm <=> TRUE)
                      /\ caller'[from].op = "broadcast" /\ Min(todo) \in todo
                      /\ receiver'[Min(todo)] = [bits |-> maskp, i |-> 1, imm |-> TRUE]
                      /\ \A u \in MsgTasks : u # Min(todo) => receiver'[u] = receiver[u]
  <2>1. TRUE \in BOOLEAN
    OBVIOUS
  <2> QED
    BY <1>1, <1>5, <2>1, SendToFacts
<1>7. \A x \in due' : /\ x \in Heard /\ x[1] \in MsgTasks /\ x[2] \in maskp /\ x[3] # Hole
                      /\ Places(x) # {} /\ (~called[x[1]] => x[1] \in todo)
  <2>1. SUFFICES ASSUME NEW x \in Due(maskp, c.maskn, l)
        PROVE  /\ x \in Heard /\ x[1] \in MsgTasks /\ x[2] \in maskp /\ x[3] # Hole
               /\ Places(x) # {} /\ (~called[x[1]] => x[1] \in todo)
    BY <1>5
  <2>2. PICK t \in Recipients(maskp, c.maskn), b \in maskp :
          \E i \in 1..Len(handlers[t][b]) : x = <<t, b, handlers[t][b][i]>>
    BY DEF Due
  <2>3. PICK i \in 1..Len(handlers[t][b]) : x = <<t, b, handlers[t][b][i]>>
    BY <2>2
  <2>4. t \in MsgTasks /\ b \in MsgBits /\ x[3] # Hole /\ Accepts(x[1], x[2], l)
    BY DEF Due, Recipients
  <2>5. x[1] = t /\ x[2] = b /\ x[3] = handlers[t][b][i] /\ x[3] \in Entries
    <3>1. handlers[t][b] \in Seq(Entries)
      BY <1>1, <2>4 DEF MsgTypes
    <3>2. handlers[t][b][i] \in Entries
      BY <3>1
    <3> QED
      BY <2>3, <3>2
  <2>6. x \in Heard
    BY <2>3, <2>4, <2>5 DEF Heard
  <2>7. i \in Places(x)
    BY <2>3, <2>5 DEF Places
  <2>8. ~Filtered(t, maskp, l)
    BY <2>4, <2>5, DueNotFiltered
  <2> QED
    BY <1>4, <2>4, <2>5, <2>6, <2>7, <2>8
<1>8. MsgTypes'
  <2>1. heard' \in Seq(Heard) /\ due' \subseteq Heard /\ staged' \in BOOLEAN
    <3>1. <<>> \in Seq(Heard)
      OBVIOUS
    <3>2. due' \subseteq Heard
      BY <1>7
    <3> QED
      BY <1>5, <3>1, <3>2
  <2> QED
    BY <1>1, <1>5, <1>6, <2>1 DEF MsgTypes
<1>9. HandlesOnce' /\ FilterMaskKnown' /\ FilterCounts'
  BY <1>1, <1>5 DEF HandlesOnce, FilterMaskKnown, FilterCounts
<1>10. CallsOnEmpty' /\ MaskKnown'
  <2>1. caller[from].op \in {"none", "broadcast"}
    BY <1>5 DEF CallerIdle
  <2> QED
    BY <1>1, <1>5, <1>6, <2>1, BroadcasterFrame
<1>11. SendingKnown'
  <2>1. \A u \in MsgTasks : receiver[u].bits # {} => called[u]
    BY <1>1, <1>5 DEF SendingKnown
  <2>2. CASE todo = {}
    BY <1>5, <1>6, <2>1, <2>2 DEF SendingKnown
  <2>3. CASE todo # {}
    BY <1>5, <1>6, <1>7, <2>1, <2>3 DEF SendingKnown
  <2> QED
    BY <2>2, <2>3
<1>12. AnswersKnown'
  <2>1. CASE todo = {}
    BY <1>5, <1>6, <2>1 DEF AnswersKnown
  <2>2. CASE todo # {}
    <3>1. cast'.st = "sending" /\ (cast'.imm <=> TRUE) /\ (receiver'[cast'.to].imm <=> TRUE)
      BY <1>6, <2>2
    <3> QED
      BY <1>5, <3>1 DEF AnswersKnown
  <2> QED
    BY <2>1, <2>2
<1>13. DueHeard'
  <2>1. SUFFICES ASSUME NEW x \in due', ~called'[x[1]]
        PROVE  x[3] # Hole /\ Places(x)' # {} /\ ~Sent(x)' /\ Times(x)' = {}
    BY DEF DueHeard
  <2>2. /\ x[1] \in MsgTasks /\ x[2] \in maskp /\ x[3] # Hole /\ Places(x) # {} /\ x[1] \in todo
    BY <1>5, <1>7, <2>1
  <2>3. Places(x)' = Places(x)
    BY <1>5 DEF Places
  <2>4. Times(x)' = {}
    <3>1. Len(heard') = 0
      BY <1>5
    <3> QED
      BY <3>1 DEF Times
  <2>5. ~Sent(x)'
    <3>1. CASE x[1] # Min(todo)
      BY <1>6, <2>2, <3>1 DEF Sent
    <3>2. CASE x[1] = Min(todo)
      <4>1. receiver'[x[1]].bits = maskp /\ receiver'[x[1]].i = 1 /\ x[1] = cast'.to /\ cast'.st = "sending"
        BY <1>6, <2>2, <3>2
      <4>2. PICK i \in Places(x)' : TRUE
        BY <2>2, <2>3
      <4>3. ~(i < 1)
        BY <4>2 DEF Places
      <4> QED
        BY <2>2, <4>1, <4>2, <4>3 DEF Sent
    <3> QED
      BY <3>1, <3>2
  <2> QED
    BY <2>2, <2>3, <2>4, <2>5
<1> QED
  BY <1>8, <1>9, <1>10, <1>11, <1>12, <1>13 DEF MsgInv

(* What a receiver's step leaves alone.                                    *)
LEMMA InvokeFrame ==
  ASSUME MsgInv, UNCHANGED <<msc, subs_mask, filter_mask, filter, n_filters, cast, handlers, caller, want, given, due>>
  PROVE  HandlesOnce' /\ CallsOnEmpty' /\ MaskKnown' /\ FilterMaskKnown' /\ FilterCounts'
BY DEF MsgInv, HandlesOnce, CallsOnEmpty, MaskKnown, FilterMaskKnown, FilterCounts

(* invoke_handlers().                                                      *)
LEMMA InvokeKeeps ==
  ASSUME MsgInv, NEW t \in MsgTasks, Invoke(t)
  PROVE  MsgInv'
<1>1. /\ MsgTypes /\ HandlesOnce /\ SendingKnown /\ DueHeard /\ AnswersKnown
  BY DEF MsgInv
<1>2. /\ receiver[t].bits # {} /\ ~called[t]
      /\ UNCHANGED <<msc, subs_mask, filter_mask, filter, n_filters, cast, handlers, caller, want, given, due>>
  BY DEF Invoke, srvVars
<1>3. HandlesOnce' /\ CallsOnEmpty' /\ MaskKnown' /\ FilterMaskKnown' /\ FilterCounts'
  BY <1>2, InvokeFrame
<1>4. cast.st = "sending" /\ cast.to = t /\ t \notin cast.todo
  BY <1>1, <1>2 DEF SendingKnown
<1>5. /\ receiver \in [MsgTasks -> Receivings] /\ receiver[t] \in Receivings
      /\ receiver[t].bits \in SUBSET MsgBits /\ receiver[t].i \in Nat \ {0} /\ receiver[t].imm \in BOOLEAN
  BY <1>1 DEF MsgTypes, Receivings
<1>6. PICK b \in receiver[t].bits : b = Min(receiver[t].bits)
  BY <1>2, <1>5, MinFacts, MsgAssumption
<1>7. PICK k \in Nat \ {0}, q \in Seq(Entries) : k = receiver[t].i /\ q = handlers[t][b]
  <2>1. b \in MsgBits
    BY <1>5, <1>6
  <2>2. handlers[t][b] \in Seq(Entries)
    BY <1>1, <2>1 DEF MsgTypes
  <2> QED
    BY <1>5, <2>2
<1>a. PICK B \in SUBSET MsgBits, m \in BOOLEAN : receiver[t] = [bits |-> B, i |-> k, imm |-> m]
  BY <1>5, <1>7 DEF Receivings
<1>8. \A x : Places(x)' = Places(x)
  BY <1>2 DEF Places
<1>9. \A x \in due : x[1] \in MsgTasks /\ x[2] \in MsgBits /\ x \in Heard /\ x = <<x[1], x[2], x[3]>>
  BY <1>1 DEF MsgTypes, Heard
<1>10. CASE k > Len(q)
  <2>1. receiver' = [receiver EXCEPT ![t] = NextBit(receiver[t])] /\ UNCHANGED <<heard, staged, called>>
    BY <1>6, <1>7, <1>10 DEF Invoke
  <2>2. PICK r : r = NextBit(receiver[t])
    OBVIOUS
  <2>3. r \in Receivings /\ r.bits = receiver[t].bits \ {b} /\ r.i = 1 /\ r.imm = receiver[t].imm
    <3>1. receiver[t].bits = B
      BY <1>a
    <3>2. r = [bits |-> B \ {b}, i |-> 1, imm |-> m]
      BY <1>a, <1>6, <2>2, <3>1 DEF NextBit
    <3>3. B \ {b} \in SUBSET MsgBits /\ 1 \in Nat \ {0}
      OBVIOUS
    <3>4. [bits |-> B \ {b}, i |-> 1, imm |-> m] \in Receivings
      BY <3>3 DEF Receivings
    <3> QED
      BY <1>a, <3>1, <3>2, <3>4
  <2>4. receiver' \in [MsgTasks -> Receivings] /\ receiver'[t] = r /\ \A u \in MsgTasks : u # t => receiver'[u] = receiver[u]
    BY <1>5, <2>1, <2>2, <2>3
  <2>5. MsgTypes'
    BY <1>1, <1>2, <2>1, <2>4 DEF MsgTypes
  <2>6. SendingKnown'
    BY <1>1, <1>2, <1>4, <2>1, <2>4 DEF SendingKnown
  <2>7. AnswersKnown'
    BY <1>1, <1>2, <1>4, <2>1, <2>3, <2>4 DEF AnswersKnown
  <2>8. DueHeard'
    <3>1. SUFFICES ASSUME NEW x \in due, ~called[x[1]]
          PROVE  /\ x[3] # Hole /\ Places(x)' # {}
                 /\ Sent(x)' => \E i \in 1..Len(heard') : Times(x)' = {i}
                 /\ ~Sent(x)' => Times(x)' = {}
      BY <1>2, <2>1 DEF DueHeard
    <3>2. /\ x[3] # Hole /\ Places(x) # {}
          /\ Sent(x) => \E i \in 1..Len(heard) : Times(x) = {i}
          /\ ~Sent(x) => Times(x) = {}
      BY <1>1, <3>1 DEF DueHeard
    <3>3. Times(x)' = Times(x)
      BY <2>1 DEF Times
    <3>4. Sent(x)' <=> Sent(x)
      <4>1. CASE x[1] # t
        BY <1>2, <1>4, <4>1 DEF Sent
      <4>2. CASE x[1] = t /\ x[2] = b
        <5>1. \A i \in Places(x) : i < k
          BY <1>7, <1>10, <4>2 DEF Places
        <5>2. Sent(x)
          BY <1>4, <1>6, <1>7, <4>2, <5>1 DEF Sent
        <5>3. Sent(x)'
          BY <1>2, <1>4, <2>3, <2>4, <4>2 DEF Sent
        <5> QED
          BY <5>2, <5>3
      <4>3. CASE x[1] = t /\ x[2] # b /\ x[2] \in receiver[t].bits
        <5>1. ~Sent(x)
          BY <1>4, <1>6, <4>3 DEF Sent
        <5>2. PICK i \in Places(x)' : TRUE
          BY <1>8, <3>2
        <5>3. ~(i < 1)
          BY <5>2 DEF Places
        <5>4. ~Sent(x)'
          BY <1>2, <1>4, <2>3, <2>4, <4>3, <5>2, <5>3 DEF Sent
        <5> QED
          BY <5>1, <5>4
      <4>4. CASE x[1] = t /\ x[2] \notin receiver[t].bits
        BY <1>2, <1>4, <2>3, <2>4, <4>4 DEF Sent
      <4> QED
        BY <4>1, <4>2, <4>3, <4>4
    <3> QED
      BY <1>8, <2>1, <3>2, <3>3, <3>4
  <2> QED
    BY <1>3, <2>5, <2>6, <2>7, <2>8 DEF MsgInv
<1>11. CASE k <= Len(q) /\ q[k] = Hole
  <2>1. called' = [called EXCEPT ![t] = TRUE] /\ UNCHANGED <<receiver, heard, staged>>
    BY <1>6, <1>7, <1>11 DEF Invoke
  <2>2. called' \in [MsgTasks -> BOOLEAN] /\ called'[t] /\ \A u \in MsgTasks : u # t => called'[u] = called[u]
    BY <1>1, <2>1 DEF MsgTypes
  <2>3. MsgTypes'
    BY <1>1, <1>2, <2>1, <2>2 DEF MsgTypes
  <2>4. SendingKnown'
    BY <1>1, <1>2, <1>4, <2>1, <2>2 DEF SendingKnown
  <2>5. AnswersKnown'
    BY <2>2 DEF AnswersKnown
  <2>6. DueHeard'
    <3>1. SUFFICES ASSUME NEW x \in due, ~called'[x[1]]
          PROVE  /\ x[3] # Hole /\ Places(x)' # {}
                 /\ Sent(x)' => \E i \in 1..Len(heard') : Times(x)' = {i}
                 /\ ~Sent(x)' => Times(x)' = {}
      BY <1>2, <2>1 DEF DueHeard
    <3>2. ~called[x[1]]
      BY <1>9, <2>2, <3>1
    <3>3. /\ x[3] # Hole /\ Places(x) # {}
          /\ Sent(x) => \E i \in 1..Len(heard) : Times(x) = {i}
          /\ ~Sent(x) => Times(x) = {}
      BY <1>1, <3>2 DEF DueHeard
    <3>4. Times(x)' = Times(x) /\ (Sent(x)' <=> Sent(x))
      BY <1>2, <1>8, <2>1 DEF Times, Sent
    <3> QED
      BY <1>8, <2>1, <3>3, <3>4
  <2> QED
    BY <1>3, <2>3, <2>4, <2>5, <2>6 DEF MsgInv
<1>12. CASE k <= Len(q) /\ q[k] # Hole
  <2>1. PICK immediate \in BOOLEAN :
          /\ receiver' = [receiver EXCEPT ![t] = [bits |-> receiver[t].bits, i |-> receiver[t].i + 1,
                                                 imm |-> receiver[t].imm /\ immediate]]
          /\ heard' = Append(heard, <<t, b, q[k]>>)
          /\ staged' = (staged \/ ~immediate) /\ called' = called
    <3>1. /\ ~(receiver[t].i > Len(handlers[t][Min(receiver[t].bits)]))
          /\ handlers[t][Min(receiver[t].bits)][receiver[t].i] # Hole
      BY <1>6, <1>7, <1>12
    <3>2. \E immediate \in BOOLEAN :
            /\ receiver' = [receiver EXCEPT ![t] = [bits |-> receiver[t].bits, i |-> receiver[t].i + 1,
                                                   imm |-> receiver[t].imm /\ immediate]]
            /\ heard' = Append(heard, <<t, Min(receiver[t].bits), handlers[t][Min(receiver[t].bits)][receiver[t].i]>>)
            /\ staged' = (staged \/ ~immediate) /\ called' = called
      BY <3>1, Zenon DEF Invoke
    <3> QED
      BY <1>6, <1>7, <3>2, Zenon
  <2>2. PICK y : y = <<t, b, q[k]>>
    OBVIOUS
  <2>3. k \in 1..Len(q) /\ y \in Heard /\ y[1] = t /\ y[2] = b /\ y[3] = q[k]
    <3>1. k \in 1..Len(q)
      BY <1>7, <1>12
    <3>2. q[k] \in Entries
      BY <1>7, <3>1
    <3> QED
      BY <1>5, <1>6, <2>2, <3>1, <3>2 DEF Heard
  <2>4. /\ receiver' \in [MsgTasks -> Receivings] /\ \A u \in MsgTasks : u # t => receiver'[u] = receiver[u]
        /\ receiver'[t].bits = receiver[t].bits /\ receiver'[t].i = k + 1
        /\ (receiver'[t].imm <=> receiver[t].imm /\ immediate)
    <3>1. PICK r : r = [bits |-> receiver[t].bits, i |-> receiver[t].i + 1, imm |-> receiver[t].imm /\ immediate]
      OBVIOUS
    <3>2. r \in Receivings /\ r.bits = receiver[t].bits /\ r.i = k + 1 /\ (r.imm <=> receiver[t].imm /\ immediate)
      <4>1. r = [bits |-> B, i |-> k + 1, imm |-> m /\ immediate]
        BY <1>a, <3>1
      <4>2. k + 1 \in Nat \ {0} /\ (m /\ immediate) \in BOOLEAN
        OBVIOUS
      <4>3. [bits |-> B, i |-> k + 1, imm |-> m /\ immediate] \in Receivings
        BY <4>2 DEF Receivings
      <4> QED
        BY <1>a, <4>1, <4>3
    <3>3. receiver' = [receiver EXCEPT ![t] = r]
      BY <1>5, <2>1, <3>1
    <3> QED
      BY <1>5, <3>2, <3>3
  <2>5. heard \in Seq(Heard) /\ heard' = Append(heard, y)
    BY <1>1, <2>1, <2>2 DEF MsgTypes
  <2>6. /\ heard' \in Seq(Heard) /\ Len(heard') = Len(heard) + 1 /\ Len(heard) \in Nat
        /\ \A i \in 1..Len(heard) : heard'[i] = heard[i]
        /\ heard'[Len(heard) + 1] = y
    BY <2>3, <2>5
  <2>7. MsgTypes'
    <3>1. staged' \in BOOLEAN
      BY <1>1, <2>1 DEF MsgTypes
    <3> QED
      BY <1>1, <1>2, <2>1, <2>4, <2>6, <3>1 DEF MsgTypes
  <2>8. SendingKnown'
    BY <1>1, <1>2, <1>4, <2>1, <2>4 DEF SendingKnown
  <2>9. AnswersKnown'
    BY <1>1, <1>2, <1>4, <2>1, <2>4 DEF AnswersKnown
  <2>10. DueHeard'
    <3>1. SUFFICES ASSUME NEW x \in due, ~called[x[1]]
          PROVE  /\ x[3] # Hole /\ Places(x)' # {}
                 /\ Sent(x)' => \E i \in 1..Len(heard') : Times(x)' = {i}
                 /\ ~Sent(x)' => Times(x)' = {}
      BY <1>2, <2>1 DEF DueHeard
    <3>2. /\ x[3] # Hole /\ Places(x) # {}
          /\ Sent(x) => \E i \in 1..Len(heard) : Times(x) = {i}
          /\ ~Sent(x) => Times(x) = {}
      BY <1>1, <3>1 DEF DueHeard
    <3>3. CASE x = y
      <4>1. k \in Places(x)
        BY <1>7, <2>3, <3>3 DEF Places
      <4>2. ~Sent(x)
        <5>1. ~(k < k)
          OBVIOUS
        <5> QED
          BY <1>4, <1>6, <1>7, <2>3, <3>3, <4>1, <5>1 DEF Sent
      <4>3. Times(x)' = {Len(heard) + 1}
        <5>1. \A i \in 1..Len(heard) : heard[i] # x
          BY <3>2, <4>2 DEF Times
        <5>2. \A i \in 1..(Len(heard) + 1) : i \in 1..Len(heard) \/ i = Len(heard) + 1
          BY <2>6
        <5> QED
          BY <2>6, <3>3, <5>1, <5>2 DEF Times
      <4>4. \A i \in Places(x) : i = k
        <5>1. \A i \in 1..Len(q) : q[i] = q[k] /\ q[i] # Hole => i = k
          BY <1>1, <1>5, <1>6, <1>7, <2>3 DEF HandlesOnce
        <5> QED
          BY <1>7, <1>12, <2>3, <3>3, <5>1 DEF Places
      <4>5. Sent(x)'
        <5>1. \A i \in Places(x)' : i < k + 1
          BY <1>8, <4>4
        <5> QED
          BY <1>2, <1>4, <1>6, <2>3, <2>4, <3>3, <5>1 DEF Sent
      <4>6. Len(heard) + 1 \in 1..Len(heard')
        BY <2>6
      <4> QED
        BY <1>8, <3>2, <4>3, <4>5, <4>6
    <3>4. CASE x # y
      <4>1. Times(x)' = Times(x)
        <5>1. \A i \in 1..(Len(heard) + 1) : i \in 1..Len(heard) \/ i = Len(heard) + 1
          BY <2>6
        <5> QED
          BY <2>6, <3>4, <5>1 DEF Times
      <4>2. Sent(x)' <=> Sent(x)
        <5>1. CASE x[1] # t
          BY <1>2, <1>4, <5>1 DEF Sent
        <5>2. CASE x[1] = t /\ x[2] # b
          BY <1>2, <1>4, <1>6, <2>4, <5>2 DEF Sent
        <5>3. CASE x[1] = t /\ x[2] = b
          <6>1. x[3] # q[k]
            BY <1>9, <2>2, <3>4, <5>3
          <6>2. \A i \in Places(x) : i # k /\ i \in Nat
            BY <1>7, <5>3, <6>1 DEF Places
          <6>3. \A i \in Places(x) : i < k + 1 <=> i < k
            BY <6>2
          <6>4. Sent(x) <=> \A i \in Places(x) : i < k
            BY <1>4, <1>6, <1>7, <5>3 DEF Sent
          <6>5. Sent(x)' <=> \A i \in Places(x)' : i < k + 1
            BY <1>2, <1>4, <1>6, <2>4, <5>3 DEF Sent
          <6> QED
            BY <1>8, <6>3, <6>4, <6>5
        <5> QED
          BY <5>1, <5>2, <5>3
      <4>3. \A i \in 1..Len(heard) : i \in 1..Len(heard')
        BY <2>6
      <4> QED
        BY <1>8, <3>2, <4>1, <4>2, <4>3
    <3> QED
      BY <3>3, <3>4
  <2> QED
    BY <1>3, <2>7, <2>8, <2>9, <2>10 DEF MsgInv
<1>13. k > Len(q) \/ k <= Len(q)
  BY <1>7
<1> QED
  BY <1>10, <1>11, <1>12, <1>13

(* The server has its answer.                                              *)
LEMMA SendNextKeeps ==
  ASSUME MsgInv, SendNext
  PROVE  MsgInv'
<1>1. /\ MsgTypes /\ HandlesOnce /\ CallsOnEmpty /\ MaskKnown /\ FilterMaskKnown
      /\ FilterCounts /\ SendingKnown /\ DueHeard /\ AnswersKnown
  BY DEF MsgInv
<1>2. /\ cast.st = "sending" /\ Answered(cast.to)
      /\ UNCHANGED <<msc, subs_mask, filter_mask, filter, n_filters, handlers, called, want, given, due, heard, staged>>
  BY DEF SendNext, srvVars
<1>3. /\ cast.from \in MsgTasks /\ cast.maskp \in SUBSET MsgBits /\ cast.to \in MsgTasks
      /\ cast.todo \in SUBSET MsgTasks /\ cast.imm \in BOOLEAN
  <2>1. cast \in [st : {"sending"}, from : MsgTasks, maskp : SUBSET MsgBits, to : MsgTasks,
                  todo : SUBSET MsgTasks, imm : BOOLEAN]
    BY <1>1, <1>2 DEF MsgTypes, Casts, NoCast
  <2> QED
    BY <2>1
<1>4. /\ caller[cast.from].op = "broadcast" /\ cast.to \notin cast.todo
      /\ \A x \in due : x[2] \in cast.maskp
      /\ \A u \in MsgTasks : receiver[u].bits # {} => called[u] \/ cast.to = u
  BY <1>1, <1>2 DEF SendingKnown
<1>5. receiver[cast.to].imm \in BOOLEAN /\ called[cast.to] \in BOOLEAN
  BY <1>1, <1>3 DEF MsgTypes, Receivings
<1>6. PICK from \in MsgTasks, maskp \in SUBSET MsgBits, to \in MsgTasks, todo \in SUBSET MsgTasks :
        from = cast.from /\ maskp = cast.maskp /\ to = cast.to /\ todo = cast.todo
  BY <1>3
<1>7. PICK imm \in BOOLEAN : imm = IF called[to] THEN cast.imm ELSE WithAnswer(cast.imm, receiver[to].imm)
  BY <1>3, <1>5, <1>6 DEF WithAnswer
<1>8. SendTo(from, maskp, todo, imm)
  BY <1>6, <1>7 DEF SendNext
<1>9. /\ cast' \in Casts /\ caller' \in [MsgTasks -> Callers] /\ receiver' \in [MsgTasks -> Receivings]
      /\ \A u \in MsgTasks : u # from => caller'[u] = caller[u]
      /\ caller'[from].op \in {"none", "broadcast"}
      /\ todo = {} => cast'.st = "done" /\ (cast'.imm <=> imm) /\ receiver' = receiver
      /\ todo # {} => /\ cast'.st = "sending" /\ cast'.from = from /\ cast'.maskp = maskp
                      /\ cast'.to = Min(todo) /\ cast'.todo = todo \ {Min(todo)} /\ (cast'.imm <=> imm)
                      /\ caller'[from].op = "broadcast" /\ Min(todo) \in todo
                      /\ receiver'[Min(todo)] = [bits |-> maskp, i |-> 1, imm |-> TRUE]
                      /\ \A u \in MsgTasks : u # Min(todo) => receiver'[u] = receiver[u]
  BY <1>1, <1>8, SendToFacts
<1>10. MsgTypes'
  BY <1>1, <1>2, <1>9 DEF MsgTypes
<1>11. HandlesOnce' /\ FilterMaskKnown' /\ FilterCounts'
  BY <1>1, <1>2 DEF HandlesOnce, FilterMaskKnown, FilterCounts
<1>12. CallsOnEmpty' /\ MaskKnown'
  <2>1. caller[from].op \in {"none", "broadcast"}
    BY <1>4, <1>6
  <2> QED
    BY <1>1, <1>2, <1>9, <2>1, BroadcasterFrame
<1>13. \A u \in MsgTasks : receiver[u].bits # {} => called[u]
  BY <1>2, <1>4 DEF Answered
<1>14. SendingKnown'
  <2>1. CASE todo = {}
    BY <1>2, <1>9, <1>13, <2>1 DEF SendingKnown
  <2>2. CASE todo # {}
    BY <1>2, <1>4, <1>6, <1>9, <1>13, <2>2 DEF SendingKnown
  <2> QED
    BY <2>1, <2>2
<1>15. AnswersKnown'
  <2>1. SUFFICES ASSUME \A u \in MsgTasks : ~called[u]
        PROVE  /\ cast'.st = "sending" => (staged <=> ~(cast'.imm /\ receiver'[cast'.to].imm))
               /\ cast'.st = "done" => (staged <=> ~cast'.imm)
    BY <1>2 DEF AnswersKnown
  <2>2. staged <=> ~(cast.imm /\ receiver[to].imm)
    BY <1>1, <1>2, <1>6, <2>1 DEF AnswersKnown
  <2>3. imm <=> cast.imm /\ receiver[to].imm
    BY <1>7, <2>1 DEF WithAnswer
  <2>4. CASE todo = {}
    BY <1>9, <2>2, <2>3, <2>4
  <2>5. CASE todo # {}
    <3>1. cast'.st = "sending" /\ (cast'.imm <=> imm) /\ (receiver'[cast'.to].imm <=> TRUE)
      BY <1>9, <2>5
    <3> QED
      BY <2>2, <2>3, <3>1
  <2> QED
    BY <2>4, <2>5
<1>16. DueHeard'
  <2>1. SUFFICES ASSUME NEW x \in due, ~called[x[1]]
        PROVE  /\ x[3] # Hole /\ Places(x)' # {}
               /\ Sent(x)' => \E i \in 1..Len(heard) : Times(x)' = {i}
               /\ ~Sent(x)' => Times(x)' = {}
    BY <1>2 DEF DueHeard
  <2>2. /\ x[3] # Hole /\ Places(x) # {}
        /\ Sent(x) => \E i \in 1..Len(heard) : Times(x) = {i}
        /\ ~Sent(x) => Times(x) = {}
    BY <1>1, <2>1 DEF DueHeard
  <2>3. Times(x)' = Times(x) /\ Places(x)' = Places(x)
    BY <1>2 DEF Times, Places
  <2>4. x[1] \in MsgTasks /\ receiver[x[1]].bits = {}
    BY <1>1, <1>13, <2>1 DEF MsgTypes, Heard
  <2>5. Sent(x) <=> x[1] \notin todo
    BY <1>2, <1>6, <2>4 DEF Sent
  <2>6. Sent(x)' <=> x[1] \notin todo
    <3>1. CASE todo = {}
      BY <1>9, <3>1 DEF Sent
    <3>2. CASE todo # {} /\ x[1] = Min(todo)
      <4>1. receiver'[x[1]].bits = maskp /\ receiver'[x[1]].i = 1 /\ x[1] = cast'.to /\ cast'.st = "sending"
        BY <1>9, <3>2
      <4>2. PICK i \in Places(x)' : TRUE
        BY <2>2, <2>3
      <4>3. ~(i < 1)
        BY <4>2 DEF Places
      <4>4. x[2] \in maskp /\ x[1] \in todo
        BY <1>4, <1>6, <1>9, <3>2
      <4> QED
        BY <4>1, <4>2, <4>3, <4>4 DEF Sent
    <3>3. CASE todo # {} /\ x[1] # Min(todo)
      BY <1>9, <3>3 DEF Sent
    <3> QED
      BY <3>1, <3>2, <3>3
  <2> QED
    BY <2>2, <2>3, <2>5, <2>6
<1> QED
  BY <1>10, <1>11, <1>12, <1>14, <1>15, <1>16 DEF MsgInv

-----------------------------------------------------------------------------
(* At the start nobody listens.                                            *)
LEMMA MsgStart == MsgInit => MsgInv
<1>1. SUFFICES ASSUME MsgInit PROVE MsgInv
  OBVIOUS
<1>2. MsgTypes
  <2>1. ReceiverIdle \in Receivings /\ CallerIdle \in Callers /\ NoCast \in Casts
    BY DEF ReceiverIdle, Receivings, Callers, Casts
  <2>2. <<>> \in Seq(Entries) /\ <<>> \in Seq(Heard) /\ 0 \in 0..WantMax
    BY MsgAssumption
  <2>3. /\ handlers \in [MsgTasks -> [MsgBits -> Seq(Entries)]]
        /\ want \in [MsgTasks -> [MsgBits -> [Labels -> 0..WantMax]]]
    BY <1>1, <2>2 DEF MsgInit
  <2> QED
    BY <1>1, <2>1, <2>2, <2>3 DEF MsgInit, MsgTypes
<1>3. HandlesOnce /\ CallsOnEmpty /\ MaskKnown /\ FilterMaskKnown
  BY <1>1 DEF MsgInit, HandlesOnce, CallsOnEmpty, MaskKnown, FilterMaskKnown, CallerIdle
<1>4. FilterCounts
  <2>1. SUFFICES ASSUME NEW t \in MsgTasks PROVE FilterOk(NoFilter, 0, want[t])
    BY <1>1 DEF MsgInit, FilterCounts
  <2>2. \A b \in MsgBits, l \in Labels : want[t][b][l] = 0
    BY <1>1 DEF MsgInit
  <2>3. Adds(want[t]) = {}
    <3>1. ASSUME NEW u \in (MsgBits \X Labels) \X (1..WantMax) PROVE ~(u[2] <= want[t][u[1][1]][u[1][2]])
      <4>1. want[t][u[1][1]][u[1][2]] = 0 /\ u[2] \in 1..WantMax
        BY <2>2
      <4> QED
        BY <4>1, MsgAssumption
    <3> QED
      BY <3>1 DEF Adds
  <2>4. Cardinality(Adds(want[t])) = 0
    BY <2>3, FS_EmptySet
  <2> QED
    BY <2>4 DEF FilterOk
<1>5. SendingKnown /\ DueHeard /\ AnswersKnown
  BY <1>1 DEF MsgInit, SendingKnown, DueHeard, AnswersKnown, NoCast, ReceiverIdle
<1> QED
  BY <1>2, <1>3, <1>4, <1>5 DEF MsgInv

(* Every step keeps the invariant.                                         *)
LEMMA MsgStep ==
  ASSUME NoMaskedFilters, MsgInv, [MsgNext]_msgVars
  PROVE  MsgInv'
<1>1. CASE SendNext
  BY <1>1, SendNextKeeps
<1>2. ASSUME NEW t \in MsgTasks, Invoke(t) \/ ListenCall(t) \/ CloseCall(t) PROVE MsgInv'
  BY <1>2, InvokeKeeps, ListenCallKeeps, CloseCallKeeps
<1>3. ASSUME NEW c \in msc.casts, Broadcast(c) PROVE MsgInv'
  BY <1>3, BroadcastKeeps
<1>4. ASSUME NEW t \in MsgTasks, NEW b \in MsgBits, NestedSetmask(t, b) PROVE MsgInv'
  BY <1>4, NestedSetmaskKeeps
<1>5. ASSUME NEW t \in MsgTasks, NEW b \in MsgBits, NEW h \in MsgHandlers,
             Listen(t, b, h) \/ CloseHandle(t, b, h) PROVE MsgInv'
  BY <1>5, ListenKeeps, CloseHandleKeeps
<1>6. ASSUME NEW t \in MsgTasks, NEW b \in MsgBits, NEW l \in Labels, FilterCall(t, b, l) PROVE MsgInv'
  BY <1>6, FilterCallKeeps
<1>7. CASE UNCHANGED msgVars
  <2>1. /\ MsgTypes /\ DueHeard /\ AnswersKnown /\ SendingKnown
        /\ UNCHANGED <<msc, subs_mask, filter_mask, filter, n_filters, cast, handlers, caller, want, given, due>>
        /\ UNCHANGED <<receiver, called, heard, staged>>
    BY <1>7 DEF MsgInv, msgVars, srvVars
  <2>2. HandlesOnce' /\ CallsOnEmpty' /\ MaskKnown' /\ FilterMaskKnown' /\ FilterCounts'
    BY <2>1, InvokeFrame
  <2>3. MsgTypes'
    BY <2>1 DEF MsgTypes
  <2>4. SendingKnown' /\ AnswersKnown'
    BY <2>1 DEF SendingKnown, AnswersKnown
  <2>5. DueHeard'
    <3>1. \A x \in due' : Places(x)' = Places(x)
      BY <2>1 DEF Places
    <3> QED
      BY <2>1, <3>1, DueKept
  <2> QED
    BY <2>2, <2>3, <2>4, <2>5 DEF MsgInv
<1> QED
  BY <1>1, <1>2, <1>3, <1>4, <1>5, <1>6, <1>7 DEF MsgNext, MsgServing

(* The invariant says what the runs check.                                 *)
LEMMA MsgInvExact == MsgInv => BroadcastExact
<1>1. SUFFICES ASSUME MsgInv PROVE BroadcastExact
  OBVIOUS
<1>2. /\ MsgTypes /\ CallsOnEmpty /\ MaskKnown /\ FilterCounts /\ DueHeard /\ AnswersKnown
  BY <1>1 DEF MsgInv
<1>3. MsgTypeOK
  <2>1. cast.st \in {"none", "sending", "done"}
    BY <1>2 DEF MsgTypes, Casts, NoCast
  <2> QED
    BY <1>2, <2>1 DEF MsgTypeOK, MsgTypes
<1>4. HeardByAll
  <2>1. ASSUME cast.st = "done", NEW x \in due, ~called[x[1]]
        PROVE  Cardinality({i \in 1..Len(heard) : heard[i] = x}) = 1
    <3>1. Sent(x)
      BY <2>1 DEF Sent
    <3>2. PICK i \in 1..Len(heard) : Times(x) = {i}
      BY <1>2, <2>1, <3>1 DEF DueHeard
    <3>3. Cardinality({i}) = 1
      BY FS_Singleton
    <3> QED
      BY <3>2, <3>3 DEF Times
  <2> QED
    BY <2>1 DEF HeardByAll
<1>5. AnswerIsAll
  <2>1. SUFFICES ASSUME cast.st = "done", \A t \in MsgTasks : ~called[t] PROVE cast.imm = ~staged
    BY DEF AnswerIsAll
  <2>2. cast.imm \in BOOLEAN /\ staged \in BOOLEAN
    <3>1. cast \in [st : {"done"}, imm : BOOLEAN]
      BY <1>2, <2>1 DEF MsgTypes, Casts, NoCast
    <3> QED
      BY <1>2, <3>1 DEF MsgTypes
  <2>3. staged <=> ~cast.imm
    BY <1>2, <2>1 DEF AnswersKnown
  <2> QED
    BY <2>2, <2>3
<1>6. MasksAgree
  <2>1. ASSUME ~msc.masks, NEW t \in MsgTasks, caller[t].op \in {"none", "broadcast"}
        PROVE  subs_mask[t] = {b \in MsgBits : handlers[t][b] # <<>>}
    <3>1. subs_mask[t] \subseteq MsgBits
      BY <1>2 DEF MsgTypes
    <3>2. \A b \in MsgBits : b \in subs_mask[t] <=> handlers[t][b] # <<>>
      BY <1>2, <2>1 DEF MaskKnown
    <3> QED
      BY <3>1, <3>2
  <2> QED
    BY <2>1 DEF MasksAgree
<1>7. FilterCounted
  BY <1>2 DEF FilterCounts, FilterOk, FilterCounted
<1> QED
  BY <1>3, <1>4, <1>5, <1>6, <1>7 DEF BroadcastExact

(* A broadcast that has been answered was heard, exactly once, by every    *)
(* handler that was listening and did not filter it out; its answer is     *)
(* that of all of them; and masks and filters are what the tasks asked     *)
(* for: in every order in which the tasks listen, close, filter, broadcast *)
(* and answer, where no handler that calls setmask meets a filter.         *)
THEOREM BroadcastsAreExact ==
  ASSUME NoMaskedFilters
  PROVE  MsgSpec => []BroadcastExact
<1>1. MsgInit => MsgInv
  BY MsgStart
<1>2. MsgInv /\ [MsgNext]_msgVars => MsgInv'
  BY MsgStep
<1>3. MsgInv => BroadcastExact
  BY MsgInvExact
<1> QED
  BY <1>1, <1>2, <1>3, PTL DEF MsgSpec
=============================================================================
