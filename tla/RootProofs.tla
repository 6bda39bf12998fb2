----------------------------- MODULE RootProofs -----------------------------
(***************************************************************************)
(* Proofs about the root task's books, for any number of processes: the    *)
(* user IDs of module Creds, the deaths and waits of module Proc, and the  *)
(* tasks and threads of module RootTask.                                   *)
(*                                                                         *)
(* Proc's handlers rebuild one record of tables, so the second part first  *)
(* says what each part of a handler does to each table, then that each     *)
(* keeps the books PInv of any state, and last that every action is one of *)
(* these.  The third part goes the same way: the fields each helper        *)
(* changes, the books through one thread more or less and through the end  *)
(* of a task, what a call for one task leaves to the others, the calls.    *)
(***************************************************************************)
EXTENDS Creds, Proc, RootTask, FiniteSetTheorems, SequenceTheorems, WellFoundedInduction, TLAPS

(* The IDs of a process, as root has them and as the process believes.     *)
IdSets == [r : CrUids \cup {Same}, e : CrUids \cup {Same}, s : CrUids \cup {Same}]
CrTypeOK == ids \in [CrPids -> IdSets] /\ cc \in [CrPids -> IdSets]
CrInv == CrTypeOK /\ CredsExact

(* What an answer of uapi_setresugid() makes of a process' IDs is a set of *)
(* IDs again, and of the process' own ones if it is not root's.            *)
LEMMA AssignedIds ==
  ASSUME NEW x \in IdSets, NEW y \in IdSets
  PROVE  /\ Assign(x, y) \in IdSets
         /\ IdsOf(y) \ {Same} \subseteq IdsOf(x) =>
              IdsOf(Assign(x, y)) \subseteq IdsOf(x)
BY DEF IdSets, Assign, KeptId, IdsOf

(* setuid() and setresuid() put one such answer in place.                  *)
LEMMA SetStep ==
  ASSUME CrInv, NEW p \in CrPids, NEW y \in IdSets, Set(p, {y})
  PROVE  /\ ids' = [ids EXCEPT ![p] = Assign(ids[p], y)]
         /\ CrInv'
<1>1. ids[p] \in IdSets /\ Assign(ids[p], y) \in IdSets
  BY AssignedIds DEF CrInv, CrTypeOK
<1>2. (CHOOSE z \in {y} : TRUE) = y
  OBVIOUS
<1>3. ids' = [ids EXCEPT ![p] = Assign(ids[p], y)]
  BY <1>2 DEF Set
<1>4. cc' = [cc EXCEPT ![p] = Assign(ids[p], y)]
  BY <1>3 DEF Set, reload_cc, CrInv, CrTypeOK
<1> QED
  BY <1>1, <1>3, <1>4 DEF CrInv, CrTypeOK, CredsExact

(* The answers of the two modes, where they are not EPERM.                 *)
LEMMA OneIdAnswer ==
  ASSUME NEW x \in IdSets, NEW u \in CrUids, OneId(x, u) # {}
  PROVE  \E y \in IdSets : /\ OneId(x, u) = {y}
                           /\ x.e # 0 => IdsOf(y) \ {Same} \subseteq IdsOf(x)
<1>1. CASE x.e = 0
  <2>1. OneId(x, u) = {[r |-> u, e |-> u, s |-> u]}
    BY <1>1 DEF OneId
  <2>2. [r |-> u, e |-> u, s |-> u] \in IdSets
    BY DEF IdSets
  <2> QED
    BY <1>1, <2>1, <2>2
<1>2. CASE x.e # 0
  <2> DEFINE y == [r |-> Same, e |-> u, s |-> Same]
  <2>1. u \in {x.e, x.s} /\ OneId(x, u) = {y} /\ y \in IdSets
    BY <1>2 DEF OneId, IdSets
  <2>2. IdsOf(y) \ {Same} \subseteq IdsOf(x)
    BY <2>1 DEF IdsOf
  <2> QED
    BY <2>1, <2>2
<1> QED
  BY <1>1, <1>2

LEMMA ThreeIdsAnswer ==
  ASSUME NEW x \in IdSets, NEW r \in CrArgs, NEW e \in CrArgs, NEW v \in CrArgs,
         ThreeIds(x, r, e, v) # {}
  PROVE  \E y \in IdSets : /\ ThreeIds(x, r, e, v) = {y}
                           /\ x.e # 0 => IdsOf(y) \ {Same} \subseteq IdsOf(x)
<1> DEFINE y == [r |-> r, e |-> e, s |-> v]
<1>1. ThreeIds(x, r, e, v) = {y} /\ y \in IdSets
  BY DEF ThreeIds, IdSets, CrArgs
<1>2. IdsOf(y) = {r, e, v}
  BY DEF IdsOf
<1>3. x.e # 0 => {r, e, v} \ {Same} \subseteq IdsOf(x)
  BY DEF ThreeIds
<1> QED
  BY <1>1, <1>2, <1>3

(* The action of the property IdsOnlyOwn.                                  *)
OnlyOwn ==
  \A p \in CrPids :
    Alive(p) /\ Alive(p)' /\ ids[p].e # 0 => IdsOf(ids[p]') \subseteq IdsOf(ids[p])

LEMMA InitCrInv == CrInit => CrInv
<1> SUFFICES ASSUME CrInit PROVE CrInv
  OBVIOUS
<1>1. PICK u \in CrUids : ids = [p \in CrPids |-> IF p = 1 THEN [r |-> u, e |-> u, s |-> u] ELSE NoIds]
  BY DEF CrInit
<1>2. ids \in [CrPids -> IdSets]
  BY <1>1 DEF IdSets, NoIds
<1> QED
  BY <1>2 DEF CrInit, CrInv, CrTypeOK, CredsExact

(* Every call keeps the invariant, and gives nobody an ID of others.       *)
LEMMA NextCrInv == CrInv /\ [CrNext]_crvars => CrInv' /\ OnlyOwn
<1> SUFFICES ASSUME CrInv, [CrNext]_crvars PROVE CrInv' /\ OnlyOwn
  OBVIOUS
<1>a. ids \in [CrPids -> IdSets] /\ cc \in [CrPids -> IdSets]
  BY DEF CrInv, CrTypeOK
<1>b. ASSUME NEW p \in CrPids, NEW y \in IdSets, Set(p, {y}),
             ids[p].e # 0 => IdsOf(y) \ {Same} \subseteq IdsOf(ids[p])
      PROVE  CrInv' /\ OnlyOwn
  <2>1. ids' = [ids EXCEPT ![p] = Assign(ids[p], y)] /\ CrInv'
    BY <1>b, SetStep
  <2>2. ids[p].e # 0 => IdsOf(Assign(ids[p], y)) \subseteq IdsOf(ids[p])
    BY <1>a, <1>b, AssignedIds
  <2>3. ASSUME NEW q \in CrPids, ids[q].e # 0
        PROVE  IdsOf(ids'[q]) \subseteq IdsOf(ids[q])
    <3>1. CASE q = p
      BY <1>a, <2>1, <2>2, <2>3, <3>1
    <3>2. CASE q # p
      BY <1>a, <2>1, <3>2
    <3> QED
      BY <3>1, <3>2
  <2> QED
    BY <2>1, <2>3 DEF OnlyOwn
<1>1. ASSUME NEW p \in CrPids, NEW u \in CrUids, setuid(p, u)
      PROVE  CrInv' /\ OnlyOwn
  <2>1. ids[p] \in IdSets /\ OneId(ids[p], u) # {} /\ Set(p, OneId(ids[p], u))
    BY <1>1, <1>a DEF setuid, Set
  <2>2. PICK y \in IdSets :
          /\ OneId(ids[p], u) = {y}
          /\ ids[p].e # 0 => IdsOf(y) \ {Same} \subseteq IdsOf(ids[p])
    BY <2>1, OneIdAnswer
  <2> QED
    BY <1>b, <2>1, <2>2
<1>2. ASSUME NEW p \in CrPids, NEW r \in CrArgs, NEW e \in CrArgs,
             NEW v \in CrArgs, setresuid(p, r, e, v)
      PROVE  CrInv' /\ OnlyOwn
  <2> DEFINE new == ThreeIds(ids[p], r, e, v)
  <2>1. ids[p] \in IdSets /\ new # {} /\ Set(p, new)
    BY <1>2, <1>a DEF setresuid, Set
  <2>2. PICK y \in IdSets :
          /\ new = {y}
          /\ ids[p].e # 0 => IdsOf(y) \ {Same} \subseteq IdsOf(ids[p])
    BY <2>1, ThreeIdsAnswer
  <2> HIDE DEF new
  <2> QED
    BY <1>b, <2>1, <2>2
<1>3. ASSUME NEW p \in CrPids, NEW q \in CrPids, fork(p, q)
      PROVE  CrInv' /\ OnlyOwn
  <2>1. CrInv'
    BY <1>3, <1>a DEF fork, CrInv, CrTypeOK, CredsExact
  <2>2. OnlyOwn
    BY <1>3, <1>a DEF fork, OnlyOwn, Alive
  <2> QED
    BY <2>1, <2>2
<1>4. ASSUME NEW p \in CrPids, exec(p) PROVE CrInv' /\ OnlyOwn
  <2>1. [r |-> ids[p].r, e |-> ids[p].e, s |-> ids[p].r] \in IdSets
    BY <1>a DEF IdSets
  <2> QED
    BY <1>4, <1>a, <2>1 DEF exec, CrInv, CrTypeOK, CredsExact, OnlyOwn
<1>5. ASSUME NEW p \in CrPids, die(p) PROVE CrInv' /\ OnlyOwn
  <2>1. NoIds \in IdSets
    BY DEF NoIds, IdSets
  <2>2. CrInv'
    BY <1>5, <1>a, <2>1 DEF die, CrInv, CrTypeOK, CredsExact
  <2>3. OnlyOwn
    BY <1>5, <1>a DEF die, OnlyOwn, Alive
  <2> QED
    BY <2>2, <2>3
<1>6. ASSUME UNCHANGED <<ids, cc>> PROVE CrInv' /\ OnlyOwn
  BY <1>6 DEF CrInv, CrTypeOK, CredsExact, OnlyOwn
<1>7. ASSUME NEW p \in CrPids, NEW cur \in CrLimits, NEW max \in CrLimits,
             setrlimit(p, cur, max)
      PROVE  CrInv' /\ OnlyOwn
  BY <1>6, <1>7 DEF setrlimit
<1>8. ASSUME NEW p \in CrPids, NEW new, refused(p, new) PROVE CrInv' /\ OnlyOwn
  BY <1>6, <1>8 DEF refused, crvars
<1>9. CASE UNCHANGED crvars
  BY <1>6, <1>9 DEF crvars
<1> QED
  BY <1>1, <1>2, <1>3, <1>4, <1>5, <1>7, <1>8, <1>9 DEF CrNext

(***************************************************************************)
(* What getuid() and geteuid() answer from the copy in the process is what *)
(* the root task has, for any number of processes and IDs.                 *)
(***************************************************************************)
THEOREM CopyIsExact == CrSpec => []CredsExact
<1>1. CrInv => CredsExact
  BY DEF CrInv
<1> QED
  BY <1>1, InitCrInv, NextCrInv, PTL DEF CrSpec

(***************************************************************************)
(* No call gives a process that is not root's an ID it did not have        *)
(* (uapi_setresugid()).                                                    *)
(***************************************************************************)
THEOREM NoForeignIds == CrSpec => IdsOnlyOwn
<1>1. CrInv /\ [CrNext]_crvars => [OnlyOwn]_crvars
  BY NextCrInv
<1> QED
  BY <1>1, InitCrInv, NextCrInv, PTL DEF CrSpec, IdsOnlyOwn, OnlyOwn

-----------------------------------------------------------------------------
(* The books of module Proc as an invariant of any state x of the tables,  *)
(* with the zombie cf that waits for its confirm, the next PID nx and the  *)
(* statuses dd; handlers begin by turning <<s, confirm>> into              *)
(* <<Synced, None>>.  The parts that are not properties of Proc:           *)
(*                                                                         *)
(* nothing is known of PIDs not given out yet;                             *)
Unborn(x, nx, dd) ==
  \A p \in Pid : p >= nx => x.st[p] = "free" /\ x.dead[p] = <<>> /\ dd[p] = "none"

(* a process has a thread while it lives, and a parent other than itself,  *)
(* which alone can be noted as waiting for it; init lives;                 *)
LivingOnes(x, dd) ==
  /\ x.st[1] = "live"
  /\ \A p \in Pid : x.st[p] = "live" <=> x.th[p].pc # "gone"
  /\ \A p \in Pid : x.st[p] = "live" =>
       dd[p] = "none" /\ x.ppid[p] # p /\ x.wait[p] \in {None, x.ppid[p]}

(* a zombie has the status it died with, and only a zombie is confirmed;   *)
DeadOnes(x, cf, dd) ==
  /\ \A p \in Pid : x.st[p] = "zombie" => x.code[p] = dd[p]
  /\ cf # None => x.st[cf] = "zombie"

(* children in the hash exist, but for those that have lost that parent.   *)
KidsExist(x) ==
  \A p, c \in Pid : <<p, c>> \in x.kids /\ x.ppid[c] = p => x.st[c] # "free"

ProcTyped(x, cf, nx, dd) ==
  x \in State /\ nx \in 2..(MaxPid + 1) /\ cf \in PidOrNone /\ dd \in [Pid -> Code]

(* DeathReportedOnce, ZombieListed and WaitNotMissed, of any state.        *)
ReportedOnce(x, cf, nx, dd) ==
  \A p \in Pid :
    /\ Len(x.reports[p]) = IF (p < nx /\ x.st[p] = "free") \/ cf = p THEN 1 ELSE 0
    /\ \A k \in DOMAIN x.reports[p] :
         x.reports[p][k].to = x.ppid[p] /\ x.reports[p][k].code = dd[p]

Listed(x) ==
  \A p \in Pid :
    /\ IsInjective(x.dead[p])
    /\ \A z \in ToSet(x.dead[p]) : x.st[z] = "zombie" /\ x.ppid[z] = p
    /\ x.st[p] = "zombie" => x.ppid[p] # 0 /\ p \in ToSet(x.dead[x.ppid[p]])

AnyAwaits(x, cf) ==
  \A p \in Pid : x.th[p].pc = "any" =>
    /\ p \in x.anyFlag /\ x.anyHash[p] > 0
    /\ \A z \in ToSet(x.dead[p]) : z = cf \/ x.wait[z] \notin {None, p}
    /\ \E c \in Pid : x.ppid[c] = p /\ x.st[c] = "live"

ChildAwaits(x) ==
  \A p \in Pid : x.th[p].pc = "pid" =>
    LET c == x.th[p].child
    IN c \in Pid /\ x.st[c] = "live" /\ x.ppid[c] = p /\ x.wait[c] = p

PInv(x, cf, nx, dd) ==
  /\ ProcTyped(x, cf, nx, dd)
  /\ Unborn(x, nx, dd) /\ LivingOnes(x, dd) /\ DeadOnes(x, cf, dd) /\ KidsExist(x)
  /\ ReportedOnce(x, cf, nx, dd) /\ Listed(x) /\ AnyAwaits(x, cf) /\ ChildAwaits(x)

ProcInv == PInv(s, confirm, next, died)

-----------------------------------------------------------------------------
(* Lists of processes without repetitions: a new one at the end, one taken *)
(* out, and the first one.                                                 *)
LEMMA ListAdd ==
  ASSUME NEW d \in Seq(Pid), IsInjective(d), NEW p \in Pid, p \notin ToSet(d)
  PROVE  /\ Append(d, p) \in Seq(Pid) /\ IsInjective(Append(d, p))
         /\ ToSet(Append(d, p)) = ToSet(d) \cup {p}
<1>1. /\ Append(d, p) \in Seq(Pid) /\ Len(Append(d, p)) = Len(d) + 1
      /\ DOMAIN Append(d, p) = 1..(Len(d) + 1) /\ DOMAIN d = 1..Len(d)
      /\ Len(d) \in Nat
      /\ \A k \in 1..Len(d) : Append(d, p)[k] = d[k]
      /\ Append(d, p)[Len(d) + 1] = p
  OBVIOUS
<1>2. IsInjective(Append(d, p))
  BY <1>1 DEF IsInjective, ToSet
<1>3. ToSet(Append(d, p)) = ToSet(d) \cup {p}
  BY <1>1 DEF ToSet
<1> QED
  BY <1>1, <1>2, <1>3

LEMMA ListDel ==
  ASSUME NEW d \in Seq(Pid), IsInjective(d), NEW p \in Pid
  PROVE  /\ RemoveFirst(d, p) \in Seq(Pid) /\ IsInjective(RemoveFirst(d, p))
         /\ ToSet(RemoveFirst(d, p)) = ToSet(d) \ {p}
<1>1. DOMAIN d = 1..Len(d) /\ Len(d) \in Nat
  OBVIOUS
<1>2. CASE ~ \E k \in 1..Len(d) : d[k] = p
  BY <1>1, <1>2 DEF RemoveFirst, ToSet
<1>3. CASE \E k \in 1..Len(d) : d[k] = p
  <2>1. PICK k \in 1..Len(d) : d[k] = p
    BY <1>3
  <2> DEFINE a == SubSeq(d, 1, k - 1)
             b == SubSeq(d, k + 1, Len(d))
             rest == a \o b
  <2>2. {j \in 1..Len(d) : d[j] = p} = {k}
    BY <1>1, <2>1 DEF IsInjective
  <2>3. Min({k}) = k
    BY DEF Min
  <2>4. SelectInSeq(d, LAMBDA v : v = p) = k
    BY <2>2, <2>3 DEF SelectInSeq
  <2>5. RemoveFirst(d, p) = rest
    BY <1>3, <2>4 DEF RemoveFirst, RemoveAt
  <2>6. /\ a \in Seq(Pid) /\ Len(a) = k - 1
        /\ \A j \in 1..(k - 1) : a[j] = d[j]
    OBVIOUS
  <2>7. /\ b \in Seq(Pid) /\ Len(b) = Len(d) - k
        /\ \A j \in 1..(Len(d) - k) : b[j] = d[j + k]
    OBVIOUS
  <2> HIDE DEF a, b
  <2>8. /\ rest \in Seq(Pid) /\ Len(rest) = (k - 1) + (Len(d) - k)
        /\ \A j \in 1..((k - 1) + (Len(d) - k)) :
             rest[j] = IF j <= k - 1 THEN a[j] ELSE b[j - (k - 1)]
    <3>1. a \in Seq(Pid) /\ b \in Seq(Pid)
      BY <2>6, <2>7
    <3>2. /\ rest \in Seq(Pid) /\ Len(rest) = Len(a) + Len(b)
          /\ \A j \in 1..(Len(a) + Len(b)) :
               rest[j] = IF j <= Len(a) THEN a[j] ELSE b[j - Len(a)]
      BY <3>1, ConcatProperties, Zenon
    <3> QED
      BY <2>6, <2>7, <3>2, Zenon
  <2> HIDE DEF rest
  <2>9. /\ Len(rest) = Len(d) - 1 /\ DOMAIN rest = 1..(Len(d) - 1)
        /\ \A j \in 1..(Len(d) - 1) : rest[j] = IF j < k THEN d[j] ELSE d[j + 1]
    <3>1. (k - 1) + (Len(d) - k) = Len(d) - 1
      BY <1>1
    <3>2. Len(rest) = Len(d) - 1 /\ DOMAIN rest = 1..(Len(d) - 1)
      BY <2>8, <3>1, LenProperties
    <3>3. ASSUME NEW j \in 1..(Len(d) - 1), j < k
          PROVE  rest[j] = d[j]
      BY <1>1, <2>6, <2>8, <3>1, <3>3
    <3>4. ASSUME NEW j \in 1..(Len(d) - 1), ~(j < k)
          PROVE  rest[j] = d[j + 1]
      <4>1. j - (k - 1) \in 1..(Len(d) - k) /\ (j - (k - 1)) + k = j + 1 /\ ~(j <= k - 1)
        BY <1>1, <3>4
      <4>2. b[j - (k - 1)] = d[j + 1]
        BY <2>7, <4>1
      <4> QED
        BY <2>8, <3>1, <4>1, <4>2
    <3> QED
      BY <3>2, <3>3, <3>4
  <2>10. IsInjective(rest)
    <3> SUFFICES ASSUME NEW j \in 1..(Len(d) - 1), NEW h \in 1..(Len(d) - 1),
                        rest[j] = rest[h]
                 PROVE  j = h
      BY <2>9 DEF IsInjective
    <3> DEFINE at(n) == IF n < k THEN n ELSE n + 1
    <3>1. at(j) \in 1..Len(d) /\ at(h) \in 1..Len(d) /\ d[at(j)] = d[at(h)]
      BY <1>1, <2>9
    <3>2. at(j) = at(h)
      BY <1>1, <3>1 DEF IsInjective
    <3> QED
      BY <1>1, <3>2
  <2>11. ToSet(rest) \subseteq ToSet(d) \ {p}
    BY <1>1, <2>1, <2>9 DEF IsInjective, ToSet
  <2>12. ToSet(d) \ {p} \subseteq ToSet(rest)
    <3> SUFFICES ASSUME NEW j \in 1..Len(d), d[j] # p
                 PROVE  \E h \in 1..(Len(d) - 1) : rest[h] = d[j]
      BY <1>1, <2>8 DEF ToSet
    <3>1. CASE j < k
      BY <1>1, <2>1, <2>9, <3>1
    <3>2. CASE j > k
      <4>1. j - 1 \in 1..(Len(d) - 1) /\ rest[j - 1] = d[j]
        BY <1>1, <2>1, <2>9, <3>2
      <4> QED
        BY <4>1
    <3> QED
      BY <2>1, <3>1, <3>2
  <2> QED
    BY <2>5, <2>8, <2>10, <2>11, <2>12
<1> QED
  BY <1>2, <1>3

LEMMA ListFirst ==
  ASSUME NEW d \in Seq(Pid), d # <<>>
  PROVE  Head(d) \in Pid /\ Head(d) \in ToSet(d)
BY DEF ToSet

LEMMA ListEmpty == IsInjective(<<>>) /\ ToSet(<<>>) = {}
BY DEF IsInjective, ToSet

-----------------------------------------------------------------------------
(* The fields of the tables have their types, and are all there is.        *)
LEMMA ProcFields ==
  ASSUME NEW x \in State
  PROVE  /\ x.st \in [Pid -> {"free", "live", "zombie"}]
         /\ x.ppid \in [Pid -> 0..MaxPid] /\ x.wait \in [Pid -> PidOrNone]
         /\ x.code \in [Pid -> Code] /\ x.dead \in [Pid -> Seq(Pid)]
         /\ x.kids \in SUBSET (Pid \X Pid) /\ x.anyFlag \in SUBSET Pid
         /\ x.anyHash \in [Pid -> 0..MaxEntries] /\ x.th \in [Pid -> Thread]
         /\ x.reports \in [Pid -> Seq(Report)]
BY DEF State

LEMMA PidFacts ==
  /\ 1 \in Pid /\ None \notin Pid /\ 0 \notin Pid /\ MaxPid \in Nat
  /\ \A p \in Pid : p \in Nat /\ p <= MaxPid
  /\ \A n \in 0..MaxPid : n # 0 => n \in Pid
  /\ \A q \in PidOrNone : q # None => q \in Pid
  /\ Running \in Thread /\ Gone \in Thread
BY ProcAssumption DEF Pid, PidOrNone, Running, Gone, Thread

(* sync_confirm(): the zombie whose report was confirmed goes.             *)
LEMMA ConfirmKeeps ==
  ASSUME NEW x, NEW cf, NEW nx, NEW dd, PInv(x, cf, nx, dd), cf # None,
         NEW y, y = call_destroy_process(x, cf)
  PROVE  /\ PInv(y, None, nx, dd) /\ y.th = x.th
         /\ \A p \in Pid : x.st[p] = "live" => y.st[p] = "live"
<1> DEFINE q == x.ppid[cf]
<1>1. /\ x \in State /\ cf \in PidOrNone /\ nx \in 2..(MaxPid + 1) /\ dd \in [Pid -> Code]
      /\ x.st[cf] = "zombie" /\ cf \in Pid
  BY PidFacts DEF PInv, ProcTyped, DeadOnes
<1>0. /\ Unborn(x, nx, dd) /\ LivingOnes(x, dd) /\ DeadOnes(x, cf, dd) /\ KidsExist(x)
      /\ ReportedOnce(x, cf, nx, dd) /\ Listed(x) /\ AnyAwaits(x, cf) /\ ChildAwaits(x)
  BY DEF PInv
<1>2. q \in Pid /\ cf \in ToSet(x.dead[q])
  <2>1. q \in 0..MaxPid
    BY <1>1, ProcFields
  <2> QED
    BY <1>1, <1>0, <2>1, PidFacts DEF Listed
<1>3. /\ RemoveFirst(x.dead[q], cf) \in Seq(Pid)
      /\ IsInjective(RemoveFirst(x.dead[q], cf))
      /\ ToSet(RemoveFirst(x.dead[q], cf)) = ToSet(x.dead[q]) \ {cf}
  <2>1. x.dead[q] \in Seq(Pid) /\ IsInjective(x.dead[q])
    BY <1>1, <1>2, <1>0, ProcFields DEF Listed
  <2> QED
    BY <1>1, <2>1, ListDel
<1>4. /\ y \in State
      /\ y.st = [x.st EXCEPT ![cf] = "free"]
      /\ y.dead = [x.dead EXCEPT ![q] = RemoveFirst(x.dead[q], cf)]
      /\ y.kids = x.kids \ {<<q, cf>>}
      /\ y.ppid = x.ppid /\ y.wait = x.wait /\ y.code = x.code /\ y.anyFlag = x.anyFlag
      /\ y.anyHash = x.anyHash /\ y.th = x.th /\ y.reports = x.reports
  BY <1>1, <1>2, <1>3 DEF call_destroy_process, destroy_process, State
<1> HIDE DEF q
<1>5. \A p \in Pid : y.st[p] = IF p = cf THEN "free" ELSE x.st[p]
  BY <1>1, <1>4, ProcFields
<1>6. \A p \in Pid : /\ ToSet(y.dead[p]) = ToSet(x.dead[p]) \ {cf}
                     /\ IsInjective(y.dead[p]) /\ ToSet(x.dead[p]) \subseteq Pid
                     /\ p # q => y.dead[p] = x.dead[p]
  <2> SUFFICES ASSUME NEW p \in Pid
               PROVE  /\ ToSet(y.dead[p]) = ToSet(x.dead[p]) \ {cf}
                      /\ IsInjective(y.dead[p]) /\ ToSet(x.dead[p]) \subseteq Pid
                      /\ p # q => y.dead[p] = x.dead[p]
    OBVIOUS
  <2>1. x.dead \in [Pid -> Seq(Pid)]
    BY <1>1, ProcFields
  <2>2. ToSet(x.dead[p]) \subseteq Pid
    BY <2>1 DEF ToSet
  <2>3. CASE p = q
    BY <1>3, <1>4, <2>1, <2>2, <2>3
  <2>4. CASE p # q
    <3>1. y.dead[p] = x.dead[p]
      BY <1>4, <2>1, <2>4
    <3>2. cf \notin ToSet(x.dead[p])
      BY <1>0, <2>4 DEF Listed, q
    <3> QED
      BY <1>0, <2>2, <2>4, <3>1, <3>2 DEF Listed
  <2> QED
    BY <2>3, <2>4
<1>7. ProcTyped(y, None, nx, dd)
  BY <1>1, <1>4 DEF ProcTyped, PidOrNone
<1>8. Unborn(y, nx, dd)
  <2> SUFFICES ASSUME NEW p \in Pid, p >= nx
               PROVE  y.st[p] = "free" /\ y.dead[p] = <<>> /\ dd[p] = "none"
    BY DEF Unborn
  <2>1. x.st[p] = "free" /\ x.dead[p] = <<>> /\ dd[p] = "none"
    BY <1>0 DEF Unborn
  <2>2. p # q
    BY <1>2, <2>1, ListEmpty
  <2> QED
    BY <1>5, <1>6, <2>1, <2>2
<1>9. LivingOnes(y, dd) /\ \A p \in Pid : x.st[p] = "live" => y.st[p] = "live"
  BY <1>1, <1>4, <1>5, <1>0, PidFacts DEF LivingOnes
<1>10. DeadOnes(y, None, dd)
  BY <1>4, <1>5, <1>0 DEF DeadOnes
<1>11. KidsExist(y)
  BY <1>4, <1>5, <1>0 DEF KidsExist, q
<1>12. ReportedOnce(y, None, nx, dd)
  <2>1. cf < nx
    BY <1>1, <1>0, PidFacts DEF Unborn
  <2>2. None \notin Pid
    BY PidFacts
  <2> QED
    BY <1>1, <1>4, <1>5, <1>0, <2>1, <2>2 DEF ReportedOnce
<1>13. Listed(y)
  <2>1. \A p \in Pid : \A z \in ToSet(y.dead[p]) : y.st[z] = "zombie" /\ y.ppid[z] = p
    BY <1>4, <1>5, <1>6, <1>0 DEF Listed
  <2>2. ASSUME NEW p \in Pid, y.st[p] = "zombie"
        PROVE  y.ppid[p] # 0 /\ p \in ToSet(y.dead[y.ppid[p]])
    <3>1. p # cf /\ x.st[p] = "zombie"
      BY <1>5, <2>2
    <3>2. x.ppid[p] # 0 /\ p \in ToSet(x.dead[x.ppid[p]])
      BY <1>0, <3>1 DEF Listed
    <3>3. x.ppid[p] \in Pid
      BY SMTT(40), <1>1, <3>2, ProcFields, PidFacts
    <3> QED
      BY <1>4, <1>6, <3>1, <3>2, <3>3
  <2> QED
    BY <1>6, <2>1, <2>2 DEF Listed
<1>14. AnyAwaits(y, None)
  <2> SUFFICES ASSUME NEW p \in Pid, x.th[p].pc = "any"
               PROVE  /\ p \in y.anyFlag /\ y.anyHash[p] > 0
                      /\ \A z \in ToSet(y.dead[p]) : z = None \/ y.wait[z] \notin {None, p}
                      /\ \E c \in Pid : y.ppid[c] = p /\ y.st[c] = "live"
    BY <1>4 DEF AnyAwaits
  <2>1. /\ p \in x.anyFlag /\ x.anyHash[p] > 0
        /\ \A z \in ToSet(x.dead[p]) : z = cf \/ x.wait[z] \notin {None, p}
        /\ \E c \in Pid : x.ppid[c] = p /\ x.st[c] = "live"
    BY <1>0 DEF AnyAwaits
  <2>2. \A z \in ToSet(y.dead[p]) : y.wait[z] \notin {None, p}
    BY <1>4, <1>6, <2>1
  <2> QED
    BY <1>4, <1>9, <2>1, <2>2
<1>15. ChildAwaits(y)
  BY <1>4, <1>9, <1>0 DEF ChildAwaits
<1> QED
  BY <1>4, <1>7, <1>8, <1>9, <1>10, <1>11, <1>12, <1>13, <1>14, <1>15 DEF PInv

-----------------------------------------------------------------------------
(* What the parts of zombify() and uapi_wait() do to the tables, field by  *)
(* field.                                                                  *)
Destroyed(x, y, c) ==
  /\ y \in State
  /\ y.st = [x.st EXCEPT ![c] = "free"] /\ y.kids = x.kids \ {<<x.ppid[c], c>>}
  /\ y.ppid = x.ppid /\ y.wait = x.wait /\ y.code = x.code /\ y.dead = x.dead
  /\ y.anyFlag = x.anyFlag /\ y.anyHash = x.anyHash /\ y.th = x.th
  /\ y.reports = x.reports

LEMMA DestroyFields ==
  ASSUME NEW x \in State, NEW c \in Pid
  PROVE  Destroyed(x, destroy_process(x, c), c)
BY DEF Destroyed, destroy_process, State

Enlist(x, a, c) == [x EXCEPT !.dead[a] = Append(@, c)]

Enlisted(x, y, a, c) ==
  /\ y \in State
  /\ y.dead = [x.dead EXCEPT ![a] = Append(x.dead[a], c)]
  /\ y.st = x.st /\ y.ppid = x.ppid /\ y.wait = x.wait /\ y.code = x.code
  /\ y.kids = x.kids /\ y.anyFlag = x.anyFlag /\ y.anyHash = x.anyHash
  /\ y.th = x.th /\ y.reports = x.reports

LEMMA EnlistFields ==
  ASSUME NEW x \in State, NEW a \in Pid, NEW c \in Pid
  PROVE  Enlisted(x, Enlist(x, a, c), a, c)
<1>1. Append(x.dead[a], c) \in Seq(Pid)
  BY ProcFields
<1> QED
  BY <1>1 DEF Enlist, Enlisted, State

SetThread(x, q, t) == [x EXCEPT !.th[q] = t]

ThreadSet(x, y, q, t) ==
  /\ y \in State
  /\ y.th = [x.th EXCEPT ![q] = t]
  /\ y.st = x.st /\ y.ppid = x.ppid /\ y.wait = x.wait /\ y.code = x.code
  /\ y.dead = x.dead /\ y.kids = x.kids /\ y.anyFlag = x.anyFlag
  /\ y.anyHash = x.anyHash /\ y.reports = x.reports

LEMMA ThreadFields ==
  ASSUME NEW x \in State, NEW q \in Pid, NEW t \in Thread
  PROVE  ThreadSet(x, SetThread(x, q, t), q, t)
BY DEF SetThread, ThreadSet, State

Kill(x, c, code) ==
  [x EXCEPT !.st[c] = "zombie", !.th[c] = Gone, !.code[c] = code, !.ppid[c] = Adopter(x, c)]

Killed(x, y, c, code) ==
  /\ y \in State
  /\ y.st = [x.st EXCEPT ![c] = "zombie"] /\ y.th = [x.th EXCEPT ![c] = Gone]
  /\ y.code = [x.code EXCEPT ![c] = code]
  /\ y.ppid = [x.ppid EXCEPT ![c] = Adopter(x, c)]
  /\ y.wait = x.wait /\ y.dead = x.dead /\ y.kids = x.kids
  /\ y.anyFlag = x.anyFlag /\ y.anyHash = x.anyHash /\ y.reports = x.reports

LEMMA KillFields ==
  ASSUME NEW x \in State, NEW c \in Pid, NEW code \in Code, Adopter(x, c) \in 0..MaxPid
  PROVE  Killed(x, Kill(x, c, code), c, code)
BY PidFacts DEF Kill, Killed, State

LEMMA ReplyTyped ==
  ASSUME NEW x \in State, NEW q \in Pid, NEW p \in Pid
  PROVE  Append(x.reports[p], [to |-> q, code |-> x.code[p], call |-> x.th[q]])
           \in Seq(Report)
<1>1. x.code[p] \in Code /\ x.th[q] \in Thread /\ x.reports[p] \in Seq(Report)
  BY ProcFields
<1>2. [to |-> q, code |-> x.code[p], call |-> x.th[q]] \in Report
  BY <1>1 DEF Report
<1> QED
  BY <1>1, <1>2

HasTold(x, y, q, p) ==
  /\ y \in State
  /\ y.reports = [x.reports EXCEPT ![p] =
       Append(x.reports[p], [to |-> q, code |-> x.code[p], call |-> x.th[q]])]
  /\ y.th = [x.th EXCEPT ![q] = Running]
  /\ y.st = x.st /\ y.ppid = x.ppid /\ y.wait = x.wait /\ y.code = x.code
  /\ y.dead = x.dead /\ y.kids = x.kids /\ y.anyFlag = x.anyFlag
  /\ y.anyHash = x.anyHash

LEMMA ToldFields ==
  ASSUME NEW x \in State, NEW q \in Pid, NEW p \in Pid
  PROVE  HasTold(x, Told(x, q, p), q, p)
<1>1. /\ Append(x.reports[p], [to |-> q, code |-> x.code[p], call |-> x.th[q]])
           \in Seq(Report)
      /\ Running \in Thread
  BY ReplyTyped, PidFacts
<1> QED
  BY <1>1 DEF Told, HasTold, State

Dequeued(x, y, c, a) ==
  /\ y \in State
  /\ y.st = x.st /\ y.ppid = x.ppid /\ y.wait = x.wait /\ y.code = x.code
  /\ y.dead = x.dead /\ y.kids = x.kids /\ y.th = x.th /\ y.reports = x.reports
  /\ x.wait[c] # None => y.anyFlag = x.anyFlag /\ y.anyHash = x.anyHash
  /\ \A p \in Pid : p # a => /\ p \in y.anyFlag <=> p \in x.anyFlag
                             /\ y.anyHash[p] = x.anyHash[p]

LEMMA DequeueFields ==
  ASSUME NEW x \in State, NEW c \in Pid, NEW a \in Pid, x.ppid[c] = a
  PROVE  Dequeued(x, Dequeue(x, c), c, a)
<1> DEFINE y == Dequeue(x, c)
<1>1. CASE x.wait[c] # None \/ a \notin x.anyFlag
  BY <1>1 DEF Dequeue, Dequeued
<1>2. CASE ~(x.wait[c] # None \/ a \notin x.anyFlag)
  <2> DEFINE left == IF x.anyHash[a] > 0 THEN x.anyHash[a] - 1 ELSE 0
             flag == IF left = 0 THEN x.anyFlag \ {a} ELSE x.anyFlag
  <2>1. left \in 0..MaxEntries
    <3>1. x.anyHash[a] \in 0..MaxEntries
      BY ProcFields
    <3> QED
      BY <3>1, ProcAssumption
  <2>2. flag \in SUBSET Pid /\ \A p \in Pid : p # a => (p \in flag <=> p \in x.anyFlag)
    BY ProcFields
  <2>3. /\ y \in State
        /\ y.anyHash = [x.anyHash EXCEPT ![a] = left] /\ y.anyFlag = flag
        /\ y.st = x.st /\ y.ppid = x.ppid /\ y.wait = x.wait /\ y.code = x.code
        /\ y.dead = x.dead /\ y.kids = x.kids /\ y.th = x.th /\ y.reports = x.reports
    BY <1>2, <2>1, <2>2 DEF Dequeue, State
  <2> HIDE DEF left, flag, y
  <2>4. \A p \in Pid : p # a => y.anyHash[p] = x.anyHash[p]
    BY <2>3, ProcFields
  <2>5. Dequeued(x, y, c, a)
    BY <1>2, <2>2, <2>3, <2>4 DEF Dequeued
  <2> QED
    BY <2>5 DEF y
<1> QED
  BY <1>1, <1>2

(* The thread zombify() finds to tell of c's death, and whether it sleeps. *)
Heir(x, c) ==
  IF x.wait[c] # None THEN x.wait[c]
  ELSE IF Adopter(x, c) \in x.anyFlag /\ x.anyHash[Adopter(x, c)] > 0 THEN Adopter(x, c)
  ELSE None

Hears(x, c) == Heir(x, c) # None /\ Listening(x, Heir(x, c))

(* zombify() as a whole: whom it wakes, and what it leaves of c, which is  *)
(* gone if the waiter is told.                                             *)
Zombified(x, y, c, code, told, a, q) ==
  /\ y \in State /\ a \in Pid /\ a # c /\ q # c /\ q \in PidOrNone
  /\ y.ppid = [x.ppid EXCEPT ![c] = a]
  /\ y.wait = x.wait
  /\ y.code = [x.code EXCEPT ![c] = code]
  /\ x.wait[c] # None => y.anyFlag = x.anyFlag /\ y.anyHash = x.anyHash
  /\ \A p \in Pid : p # a => /\ p \in y.anyFlag <=> p \in x.anyFlag
                             /\ y.anyHash[p] = x.anyHash[p]
  /\ y.th[c] = Gone
  /\ \A p \in Pid : p # c =>
       y.th[p] = IF p = q /\ Listening(x, p) THEN Running ELSE x.th[p]
  /\ told => /\ y.st = [x.st EXCEPT ![c] = "free"]
             /\ y.dead = x.dead
             /\ y.kids = x.kids \ {<<a, c>>}
             /\ y.reports = [x.reports EXCEPT ![c] =
                  Append(x.reports[c], [to |-> q, code |-> code, call |-> x.th[q]])]
  /\ ~told => /\ y.st = [x.st EXCEPT ![c] = "zombie"]
              /\ y.dead = [x.dead EXCEPT ![a] = Append(x.dead[a], c)]
              /\ y.kids = x.kids
              /\ y.reports = x.reports

LEMMA ZombifyFields ==
  ASSUME NEW x \in State, NEW c \in Pid, c # 1, x.ppid[c] # c, x.wait[c] # c,
         NEW code \in Code, NEW intr \in {FALSE, TRUE},
         intr => MayBeInterrupted(x, c)
  PROVE  Zombified(x, zombify(x, c, code, intr), c, code,
                   Hears(x, c) /\ ~intr, Adopter(x, c), Heir(x, c))
<1> DEFINE a == Adopter(x, c)
           q == Heir(x, c)
           y == zombify(x, c, code, intr)
           x1 == Kill(x, c, code)
           y1 == Dequeue(x1, c)
           z1 == IF intr THEN SetThread(y1, q, Running) ELSE y1
<1>1. a \in Pid /\ a # c
  <2>1. x.ppid[c] \in 0..MaxPid
    BY ProcFields
  <2> QED
    BY <2>1, PidFacts DEF Adopter
<1>2. q \in PidOrNone /\ q # c /\ (q # None => q \in Pid)
  <2>1. x.wait[c] \in PidOrNone
    BY ProcFields
  <2>2. None \notin Pid
    BY PidFacts
  <2> QED
    BY <1>1, <2>1, <2>2 DEF PidOrNone, Heir
<1>3. Killed(x, x1, c, code)
  <2>1. a \in 0..MaxPid
    BY <1>1 DEF Pid
  <2> QED
    BY <2>1, KillFields
<1> HIDE DEF a, q, x1
<1>4. Waiter(x1, c) = q /\ x1.ppid[c] = a /\ x1.code[c] = code
  <2>1. x1.ppid[c] = a /\ x1.code[c] = code
    BY <1>3, ProcFields DEF Killed, a
  <2>2. x1.wait = x.wait /\ x1.anyFlag = x.anyFlag /\ x1.anyHash = x.anyHash
    BY <1>3 DEF Killed
  <2> QED
    BY <2>1, <2>2 DEF Waiter, Heir, a, q
<1>5. intr => Hears(x, c)
  <2> DEFINE w == [x EXCEPT !.ppid[c] = Adopter(x, c)]
  <2>1. w.wait = x.wait /\ w.anyFlag = x.anyFlag /\ w.anyHash = x.anyHash
        /\ w.ppid[c] = Adopter(x, c)
    BY ProcFields DEF State
  <2> HIDE DEF w
  <2>2. Waiter(w, c) = Heir(x, c)
    BY <2>1 DEF Waiter, Heir
  <2>3. Waiter([x EXCEPT !.ppid[c] = Adopter(x, c)], c) = Heir(x, c)
    BY <2>2 DEF w
  <2> QED
    BY <2>3 DEF MayBeInterrupted, Hears
<1>6. Dequeued(x1, y1, c, a)
  <2>1. x1 \in State
    BY <1>3 DEF Killed
  <2> QED
    BY <1>1, <1>4, <2>1, DequeueFields
<1>7. y = IF q # None /\ Listening(z1, q)
          THEN destroy_process(Told(z1, q, c), c) ELSE Enlist(z1, a, c)
  <2>1. y = LET q0 == Waiter(x1, c)
                y0 == Dequeue(x1, c)
                z0 == IF intr THEN SetThread(y0, q0, Running) ELSE y0
            IN IF q0 # None /\ Listening(z0, q0)
               THEN destroy_process(Told(z0, q0, c), c)
               ELSE Enlist(z0, x1.ppid[c], c)
    BY DEF zombify, Kill, Enlist, SetThread, x1
  <2> QED
    BY <1>4, <2>1
<1> HIDE DEF y1
<1>8. /\ z1 \in State
      /\ z1.st = x1.st /\ z1.ppid = x1.ppid /\ z1.wait = x1.wait /\ z1.code = x1.code
      /\ z1.dead = x1.dead /\ z1.kids = x1.kids /\ z1.reports = x1.reports
      /\ z1.anyFlag = y1.anyFlag /\ z1.anyHash = y1.anyHash
      /\ z1.th = IF intr THEN [x1.th EXCEPT ![q] = Running] ELSE x1.th
  <2>1. CASE intr
    <3>1. y1 \in State /\ Running \in Thread /\ q \in Pid
      BY <1>2, <1>5, <1>6, <2>1, PidFacts DEF Dequeued, Hears, q
    <3>2. ThreadSet(y1, z1, q, Running)
      BY <2>1, <3>1, ThreadFields
    <3> QED
      BY <1>6, <2>1, <3>2 DEF ThreadSet, Dequeued
  <2>2. CASE ~intr
    BY <1>6, <2>2 DEF Dequeued
  <2> QED
    BY <2>1, <2>2
<1> HIDE DEF z1, y
<1>9. /\ x1.th[c] = Gone
      /\ \A p \in Pid : p # c => x1.th[p] = x.th[p]
      /\ x1.th \in [Pid -> Thread]
  <2>1. x.th \in [Pid -> Thread] /\ x1.th = [x.th EXCEPT ![c] = Gone] /\ Gone \in Thread
    BY <1>3, ProcFields, PidFacts DEF Killed
  <2> QED
    BY <2>1
<1>10. q # None => z1.th[q] = IF intr THEN Running ELSE x.th[q]
  BY <1>2, <1>8, <1>9
<1>11. /\ x.wait[c] # None => y1.anyFlag = x.anyFlag /\ y1.anyHash = x.anyHash
       /\ \A p \in Pid : p # a => /\ p \in y1.anyFlag <=> p \in x.anyFlag
                                  /\ y1.anyHash[p] = x.anyHash[p]
  BY <1>3, <1>6 DEF Killed, Dequeued
<1>12. CASE Hears(x, c) /\ ~intr
  <2> DEFINE t == Told(z1, q, c)
  <2>1. q \in Pid /\ z1.th = x1.th /\ z1.th[q] = x.th[q] /\ Listening(x, q) /\ q # None
    BY <1>2, <1>8, <1>10, <1>12 DEF Hears, q
  <2>2. y = destroy_process(t, c)
    BY <1>7, <2>1 DEF Listening
  <2>3. HasTold(z1, t, q, c)
    BY <1>8, <2>1, ToldFields
  <2> HIDE DEF t
  <2>4. Destroyed(t, y, c)
    <3>1. t \in State
      BY <2>3 DEF HasTold
    <3> QED
      BY <2>2, <3>1, DestroyFields
  <2>5. y.st = [x.st EXCEPT ![c] = "free"]
    <3>1. y.st = [[x.st EXCEPT ![c] = "zombie"] EXCEPT ![c] = "free"]
      BY <1>3, <1>8, <2>3, <2>4 DEF Killed, HasTold, Destroyed
    <3>2. x.st \in [Pid -> {"free", "live", "zombie"}]
      BY ProcFields
    <3> QED
      BY <3>1, <3>2
  <2>6. /\ y.th[c] = Gone
        /\ \A p \in Pid : p # c =>
             y.th[p] = IF p = q /\ Listening(x, p) THEN Running ELSE x.th[p]
    <3>1. y.th = [x1.th EXCEPT ![q] = Running]
      BY <2>1, <2>3, <2>4 DEF HasTold, Destroyed
    <3> QED
      BY <1>2, <1>9, <2>1, <3>1
  <2>7. y.reports = [x.reports EXCEPT ![c] =
          Append(x.reports[c], [to |-> q, code |-> code, call |-> x.th[q]])]
    BY <1>3, <1>4, <1>8, <2>1, <2>3, <2>4 DEF Killed, HasTold, Destroyed
  <2>8. y.kids = x.kids \ {<<a, c>>} /\ y.dead = x.dead /\ y.wait = x.wait
    BY <1>3, <1>4, <1>8, <2>3, <2>4 DEF Killed, HasTold, Destroyed
  <2>9. /\ y.ppid = [x.ppid EXCEPT ![c] = a] /\ y.code = [x.code EXCEPT ![c] = code]
        /\ y \in State /\ y.anyFlag = y1.anyFlag /\ y.anyHash = y1.anyHash
    BY <1>3, <1>8, <2>3, <2>4 DEF Killed, HasTold, Destroyed, a
  <2>10. Zombified(x, y, c, code, Hears(x, c) /\ ~intr, a, q)
    BY <1>1, <1>2, <1>11, <1>12, <2>5, <2>6, <2>7, <2>8, <2>9 DEF Zombified
  <2> QED
    BY <2>10 DEF a, q, y
<1>13. CASE ~(Hears(x, c) /\ ~intr)
  <2>1. y = Enlist(z1, a, c)
    <3>1. ~(q # None /\ Listening(z1, q))
      BY <1>5, <1>10, <1>13 DEF Hears, Listening, Running, q
    <3> QED
      BY <1>7, <3>1
  <2>2. Enlisted(z1, y, a, c)
    BY <1>1, <1>8, <2>1, EnlistFields
  <2>3. /\ y.th[c] = Gone
        /\ \A p \in Pid : p # c =>
             y.th[p] = IF p = q /\ Listening(x, p) THEN Running ELSE x.th[p]
    <3>0. y.th = z1.th
      BY <2>2 DEF Enlisted
    <3>1. CASE intr
      <4>1. q \in Pid /\ Listening(x, q) /\ y.th = [x1.th EXCEPT ![q] = Running]
        BY <1>2, <1>5, <1>8, <3>0, <3>1 DEF Hears, q
      <4> QED
        BY <1>2, <1>9, <4>1
    <3>2. CASE ~intr
      <4>1. y.th = x1.th /\ ~(q # None /\ Listening(x, q))
        BY <1>8, <1>13, <3>0, <3>2 DEF Hears, q
      <4>2. None \notin Pid
        BY PidFacts
      <4> QED
        BY <1>9, <4>1, <4>2
    <3> QED
      BY <3>1, <3>2
  <2>4. /\ y.st = [x.st EXCEPT ![c] = "zombie"] /\ y.kids = x.kids
        /\ y.dead = [x.dead EXCEPT ![a] = Append(x.dead[a], c)]
        /\ y.reports = x.reports /\ y.ppid = [x.ppid EXCEPT ![c] = a]
        /\ y.code = [x.code EXCEPT ![c] = code] /\ y.wait = x.wait
        /\ y \in State /\ y.anyFlag = y1.anyFlag /\ y.anyHash = y1.anyHash
    BY <1>3, <1>8, <2>2 DEF Killed, Enlisted, a
  <2>5. Zombified(x, y, c, code, Hears(x, c) /\ ~intr, a, q)
    BY <1>1, <1>2, <1>11, <1>13, <2>3, <2>4 DEF Zombified
  <2> QED
    BY <2>5 DEF a, q, y
<1> QED
  BY <1>12, <1>13

-----------------------------------------------------------------------------
(* A death keeps the books.  A waiter that is told is the adopter; a       *)
(* sleeper in P_ALL that c leaves asleep has another child, and finds c in *)
(* its list only where c's wait_tid is another's.                          *)
LEMMA ZombifyKeeps ==
  ASSUME NEW x, NEW nx, NEW dd, PInv(x, None, nx, dd),
         NEW c \in Pid, c # 1, x.st[c] = "live", NEW code \in Code,
         NEW intr \in {FALSE, TRUE}, intr => MayBeInterrupted(x, c)
  PROVE  PInv(zombify(x, c, code, intr), None, nx,
              [dd EXCEPT ![c] = IF dd[c] = "none" THEN code ELSE dd[c]])
<1> DEFINE y == zombify(x, c, code, intr)
           a == Adopter(x, c)
           q == Heir(x, c)
           told == Hears(x, c) /\ ~intr
           de == [dd EXCEPT ![c] = IF dd[c] = "none" THEN code ELSE dd[c]]
<1>1. x \in State /\ nx \in 2..(MaxPid + 1) /\ dd \in [Pid -> Code]
  BY DEF PInv, ProcTyped
<1>0. /\ Unborn(x, nx, dd) /\ LivingOnes(x, dd) /\ DeadOnes(x, None, dd) /\ KidsExist(x)
      /\ ReportedOnce(x, None, nx, dd) /\ Listed(x) /\ AnyAwaits(x, None) /\ ChildAwaits(x)
  BY DEF PInv
<1>2. /\ dd[c] = "none" /\ x.ppid[c] # c /\ x.wait[c] \in {None, x.ppid[c]}
      /\ None \notin Pid /\ 1 \in Pid
  BY <1>0, PidFacts DEF LivingOnes
<1>3. Zombified(x, y, c, code, told, a, q)
  <2>1. x.wait[c] # c
    BY <1>2
  <2> QED
    BY <1>1, <1>2, <2>1, ZombifyFields
<1>4. de \in [Pid -> Code] /\ de[c] = code /\ \A p \in Pid : p # c => de[p] = dd[p]
  BY <1>1, <1>2
<1>5. /\ a = 1 \/ x.st[a] # "free"
      /\ x.ppid[c] \in Pid /\ x.st[x.ppid[c]] # "free" => a = x.ppid[c]
  <2>1. 0 \notin Pid
    BY PidFacts
  <2> QED
    BY <2>1 DEF Adopter, Exists
<1>6. ASSUME NEW p \in Pid, p = q, Listening(x, p)
      PROVE  p = a /\ x.st[p] = "live"
  <2>1. x.st[p] = "live"
    BY <1>0, <1>6 DEF LivingOnes, Listening
  <2>2. CASE x.wait[c] # None
    <3>1. x.ppid[c] = p
      BY <1>2, <1>6, <2>2 DEF Heir
    <3> QED
      BY <1>5, <2>1, <3>1
  <2>3. CASE x.wait[c] = None
    BY <1>2, <1>6, <2>1, <2>3 DEF Heir
  <2> QED
    BY <2>1, <2>2, <2>3
<1>7. /\ y \in State /\ a \in Pid /\ a # c /\ q # c /\ y.wait = x.wait
      /\ y.ppid[c] = a /\ \A p \in Pid : p # c => y.ppid[p] = x.ppid[p]
      /\ y.code[c] = code /\ \A p \in Pid : p # c => y.code[p] = x.code[p]
      /\ y.st[c] = IF told THEN "free" ELSE "zombie"
      /\ \A p \in Pid : p # c => y.st[p] = x.st[p]
  <2>1. /\ x.st \in [Pid -> {"free", "live", "zombie"}]
        /\ x.ppid \in [Pid -> 0..MaxPid] /\ x.code \in [Pid -> Code]
    BY <1>1, ProcFields
  <2>2. /\ y \in State /\ a \in Pid /\ a # c /\ q # c /\ y.wait = x.wait
        /\ y.ppid = [x.ppid EXCEPT ![c] = a] /\ y.code = [x.code EXCEPT ![c] = code]
        /\ told => y.st = [x.st EXCEPT ![c] = "free"]
        /\ ~told => y.st = [x.st EXCEPT ![c] = "zombie"]
    BY <1>3 DEF Zombified
  <2> HIDE DEF y, a, q, told
  <2> QED
    BY <2>1, <2>2
<1>8. /\ y.th[c] = Gone
      /\ \A p \in Pid : p # c =>
           y.th[p] = IF p = q /\ Listening(x, p) THEN Running ELSE x.th[p]
      /\ x.wait[c] # None => y.anyFlag = x.anyFlag /\ y.anyHash = x.anyHash
      /\ \A p \in Pid : p # a => /\ p \in y.anyFlag <=> p \in x.anyFlag
                                 /\ y.anyHash[p] = x.anyHash[p]
  BY <1>3 DEF Zombified
<1>9. /\ told => /\ y.dead = x.dead /\ y.kids = x.kids \ {<<a, c>>}
                 /\ y.reports = [x.reports EXCEPT ![c] =
                      Append(x.reports[c], [to |-> q, code |-> code, call |-> x.th[q]])]
      /\ ~told => /\ y.dead = [x.dead EXCEPT ![a] = Append(x.dead[a], c)]
                  /\ y.kids = x.kids /\ y.reports = x.reports
  BY <1>3 DEF Zombified
<1>10. told => q = a
  BY <1>6, <1>3, PidFacts DEF Hears, Zombified
<1>11. q = IF x.wait[c] # None THEN x.wait[c]
           ELSE IF a \in x.anyFlag /\ x.anyHash[a] > 0 THEN a ELSE None
  BY DEF Heir
<1> HIDE DEF y, a, q, told, de
<1>12. \A p \in Pid : /\ c \notin ToSet(x.dead[p]) /\ ToSet(x.dead[p]) \subseteq Pid
                      /\ x.dead[p] \in Seq(Pid) /\ IsInjective(x.dead[p])
  <2>1. x.dead \in [Pid -> Seq(Pid)]
    BY <1>1, ProcFields
  <2> SUFFICES ASSUME NEW p \in Pid
               PROVE  /\ c \notin ToSet(x.dead[p]) /\ ToSet(x.dead[p]) \subseteq Pid
                      /\ x.dead[p] \in Seq(Pid) /\ IsInjective(x.dead[p])
    OBVIOUS
  <2>2. x.dead[p] \in Seq(Pid)
    BY <2>1
  <2>3. ToSet(x.dead[p]) \subseteq Pid
    BY <2>2 DEF ToSet
  <2> QED
    BY <1>0, <2>2, <2>3 DEF Listed
<1>13. \A p \in Pid :
         /\ IsInjective(y.dead[p])
         /\ p # a => y.dead[p] = x.dead[p]
         /\ ToSet(y.dead[p]) = IF ~told /\ p = a THEN ToSet(x.dead[p]) \cup {c}
                               ELSE ToSet(x.dead[p])
  <2> SUFFICES ASSUME NEW p \in Pid
               PROVE  /\ IsInjective(y.dead[p])
                      /\ p # a => y.dead[p] = x.dead[p]
                      /\ ToSet(y.dead[p]) = IF ~told /\ p = a THEN ToSet(x.dead[p]) \cup {c}
                                            ELSE ToSet(x.dead[p])
    OBVIOUS
  <2>1. CASE told
    BY <1>9, <1>12, <2>1
  <2>2. CASE ~told
    <3>1. x.dead \in [Pid -> Seq(Pid)] /\ y.dead = [x.dead EXCEPT ![a] = Append(x.dead[a], c)]
      BY <1>1, <1>9, <2>2, ProcFields
    <3>2. CASE p = a
      <4>1. y.dead[p] = Append(x.dead[p], c)
        BY <3>1, <3>2
      <4>2. /\ IsInjective(Append(x.dead[p], c))
            /\ ToSet(Append(x.dead[p], c)) = ToSet(x.dead[p]) \cup {c}
        BY <1>12, ListAdd
      <4> QED
        BY <2>2, <3>2, <4>1, <4>2
    <3>3. CASE p # a
      <4>1. y.dead[p] = x.dead[p]
        BY <3>1, <3>3
      <4> QED
        BY <1>12, <3>3, <4>1
    <3> QED
      BY <3>2, <3>3
  <2> QED
    BY <2>1, <2>2
<1>14. c < nx /\ ~(c >= nx)
  <2>1. ~(c >= nx)
    BY <1>0 DEF Unborn
  <2> QED
    BY <1>1, <2>1, PidFacts
<1>15. ProcTyped(y, None, nx, de)
  BY <1>1, <1>4, <1>7 DEF ProcTyped, PidOrNone
<1>16. Unborn(y, nx, de)
  <2> SUFFICES ASSUME NEW p \in Pid, p >= nx
               PROVE  y.st[p] = "free" /\ y.dead[p] = <<>> /\ de[p] = "none"
    BY DEF Unborn
  <2>1. x.st[p] = "free" /\ x.dead[p] = <<>> /\ dd[p] = "none"
    BY <1>0 DEF Unborn
  <2>2. p # c
    BY <1>14
  <2>3. p # a
    BY <1>0, <1>5, <2>1 DEF LivingOnes
  <2> QED
    BY <1>4, <1>7, <1>13, <2>1, <2>2, <2>3
<1>17. LivingOnes(y, de)
  <2>1. y.st[1] = "live"
    BY <1>0, <1>2, <1>7 DEF LivingOnes
  <2>2. ASSUME NEW p \in Pid
        PROVE  y.st[p] = "live" <=> y.th[p].pc # "gone"
    <3>1. CASE p = c
      BY <1>7, <1>8, <3>1 DEF Gone
    <3>2. CASE p # c /\ p = q /\ Listening(x, p)
      <4>1. x.st[p] = "live"
        BY <1>6, <3>2
      <4> QED
        BY <1>7, <1>8, <3>2, <4>1 DEF Running
    <3>3. CASE p # c /\ ~(p = q /\ Listening(x, p))
      BY <1>0, <1>7, <1>8, <3>3 DEF LivingOnes
    <3> QED
      BY <3>1, <3>2, <3>3
  <2>3. ASSUME NEW p \in Pid, y.st[p] = "live"
        PROVE  de[p] = "none" /\ y.ppid[p] # p /\ y.wait[p] \in {None, y.ppid[p]}
    <3>1. p # c
      BY <1>7, <2>3
    <3> QED
      BY <1>0, <1>4, <1>7, <2>3, <3>1 DEF LivingOnes
  <2> QED
    BY <2>1, <2>2, <2>3 DEF LivingOnes
<1>18. DeadOnes(y, None, de)
  BY <1>0, <1>4, <1>7 DEF DeadOnes
<1>19. KidsExist(y)
  <2> SUFFICES ASSUME NEW p \in Pid, NEW ch \in Pid, <<p, ch>> \in y.kids, y.ppid[ch] = p
               PROVE  y.st[ch] # "free"
    BY DEF KidsExist
  <2>1. CASE ch = c
    <3>1. p = a
      BY <1>7, <2>1
    <3>2. ~told
      BY <1>9, <2>1, <3>1
    <3> QED
      BY <1>7, <2>1, <3>2
  <2>2. CASE ch # c
    <3>1. <<p, ch>> \in x.kids
      BY <1>9
    <3> QED
      BY <1>0, <1>7, <2>2, <3>1 DEF KidsExist
  <2> QED
    BY <2>1, <2>2
<1>20. ReportedOnce(y, None, nx, de)
  <2> SUFFICES ASSUME NEW p \in Pid
               PROVE  /\ Len(y.reports[p]) = IF p < nx /\ y.st[p] = "free" THEN 1 ELSE 0
                      /\ \A k \in DOMAIN y.reports[p] :
                           y.reports[p][k].to = y.ppid[p] /\ y.reports[p][k].code = de[p]
    BY <1>2 DEF ReportedOnce
  <2>1. /\ Len(x.reports[p]) = IF p < nx /\ x.st[p] = "free" THEN 1 ELSE 0
        /\ \A k \in DOMAIN x.reports[p] :
             x.reports[p][k].to = x.ppid[p] /\ x.reports[p][k].code = dd[p]
    BY <1>0, <1>2 DEF ReportedOnce
  <2>2. x.reports \in [Pid -> Seq(Report)]
    BY <1>1, ProcFields
  <2>3. CASE p # c
    <3>1. y.reports[p] = x.reports[p]
      BY <1>9, <2>2, <2>3
    <3> QED
      BY <1>4, <1>7, <2>1, <2>3, <3>1
  <2>4. CASE p = c /\ ~told
    <3>1. y.reports[p] = x.reports[p] /\ Len(x.reports[p]) = 0
      BY <1>9, <2>1, <2>4
    <3>2. x.reports[p] \in Seq(Report)
      BY <2>2
    <3>3. DOMAIN x.reports[p] = {}
      BY <3>1, <3>2
    <3> QED
      BY <1>7, <2>4, <3>1, <3>3
  <2>5. CASE p = c /\ told
    <3> DEFINE r == [to |-> q, code |-> code, call |-> x.th[q]]
    <3>1. y.reports[p] = Append(x.reports[p], r) /\ Len(x.reports[p]) = 0
      BY <1>9, <2>1, <2>2, <2>5
    <3>2. r.to = a /\ r.code = code
      BY <1>10, <2>5
    <3> HIDE DEF r
    <3>3. x.reports[p] \in Seq(Report)
      BY <2>2
    <3>4. /\ Len(y.reports[p]) = 1 /\ DOMAIN y.reports[p] = {1} /\ y.reports[p][1] = r
      BY <3>1, <3>3
    <3> QED
      BY <1>4, <1>7, <1>14, <2>5, <3>2, <3>4
  <2> QED
    BY <2>3, <2>4, <2>5
<1>21. Listed(y)
  <2>1. ASSUME NEW p \in Pid, NEW z \in ToSet(y.dead[p])
        PROVE  y.st[z] = "zombie" /\ y.ppid[z] = p
    <3>1. CASE z = c
      <4>1. ~told /\ p = a
        BY <1>12, <1>13, <2>1, <3>1
      <4> QED
        BY <1>7, <3>1, <4>1
    <3>2. CASE z # c
      <4>1. z \in ToSet(x.dead[p]) /\ z \in Pid
        BY <1>12, <1>13, <2>1, <3>2
      <4> QED
        BY <1>0, <1>7, <3>2, <4>1 DEF Listed
    <3> QED
      BY <3>1, <3>2
  <2>2. ASSUME NEW p \in Pid, y.st[p] = "zombie"
        PROVE  y.ppid[p] # 0 /\ p \in ToSet(y.dead[y.ppid[p]])
    <3>1. CASE p = c
      <4>1. ~told /\ y.ppid[p] = a /\ a # 0
        BY <1>7, <2>2, <3>1, PidFacts
      <4> QED
        BY <1>7, <1>13, <3>1, <4>1
    <3>2. CASE p # c
      <4>1. x.ppid[p] # 0 /\ p \in ToSet(x.dead[x.ppid[p]]) /\ y.ppid[p] = x.ppid[p]
        BY <1>0, <1>7, <2>2, <3>2 DEF Listed
      <4>2. x.ppid[p] \in Pid
        BY <1>1, <4>1, ProcFields, PidFacts
      <4> QED
        BY <1>13, <4>1, <4>2
    <3> QED
      BY <3>1, <3>2
  <2> QED
    BY <1>13, <2>1, <2>2 DEF Listed
<1>22. AnyAwaits(y, None)
  <2> SUFFICES ASSUME NEW p \in Pid, y.th[p].pc = "any"
               PROVE  /\ p \in y.anyFlag /\ y.anyHash[p] > 0
                      /\ \A z \in ToSet(y.dead[p]) : y.wait[z] \notin {None, p}
                      /\ \E ch \in Pid : y.ppid[ch] = p /\ y.st[ch] = "live"
    BY DEF AnyAwaits
  <2>1. p # c /\ ~(p = q /\ Listening(x, p)) /\ x.th[p].pc = "any"
    BY <1>8 DEF Gone, Running
  <2>2. p # q /\ x.st[p] = "live"
    BY <1>0, <2>1 DEF Listening, LivingOnes
  <2>3. /\ p \in x.anyFlag /\ x.anyHash[p] > 0
        /\ \A z \in ToSet(x.dead[p]) : z = None \/ x.wait[z] \notin {None, p}
        /\ \E ch \in Pid : x.ppid[ch] = p /\ x.st[ch] = "live"
    BY <1>0, <2>1 DEF AnyAwaits
  <2>4. x.ppid[c] # p
    <3>1. SUFFICES ASSUME x.ppid[c] = p PROVE FALSE
      OBVIOUS
    <3>2. a = p
      BY <1>5, <2>2, <3>1
    <3> QED
      BY <1>2, <1>11, <2>2, <2>3, <3>1, <3>2
  <2>5. \E ch \in Pid : y.ppid[ch] = p /\ y.st[ch] = "live"
    BY <1>7, <2>3, <2>4
  <2>6. p = a => x.wait[c] \notin {None, p}
    BY <1>11, <2>2, <2>3
  <2>7. p \in y.anyFlag /\ y.anyHash[p] > 0
    BY <1>8, <2>3, <2>6
  <2>8. ASSUME NEW z \in ToSet(y.dead[p])
        PROVE  y.wait[z] \notin {None, p}
    <3>1. CASE z \in ToSet(x.dead[p])
      <4>1. z # None
        BY <1>2, <1>12, <3>1
      <4> QED
        BY <1>7, <2>3, <3>1, <4>1
    <3>2. CASE z \notin ToSet(x.dead[p])
      <4>1. p = a /\ z = c
        BY <1>13, <2>8, <3>2
      <4> QED
        BY <1>7, <2>6, <4>1
    <3> QED
      BY <3>1, <3>2
  <2> QED
    BY <2>5, <2>7, <2>8
<1>23. ChildAwaits(y)
  <2> SUFFICES ASSUME NEW p \in Pid, y.th[p].pc = "pid"
               PROVE  LET ch == y.th[p].child
                      IN ch \in Pid /\ y.st[ch] = "live" /\ y.ppid[ch] = p /\ y.wait[ch] = p
    BY DEF ChildAwaits
  <2> DEFINE ch == x.th[p].child
  <2>1. p # c /\ ~(p = q /\ Listening(x, p)) /\ y.th[p] = x.th[p]
    BY <1>8 DEF Gone, Running
  <2>2. x.th[p].pc = "pid"
    BY <2>1
  <2>3. ch \in Pid /\ x.st[ch] = "live" /\ x.ppid[ch] = p /\ x.wait[ch] = p
    BY <1>0, <2>2 DEF ChildAwaits
  <2>4. p # q
    BY <2>1, <2>2 DEF Listening
  <2>5. ch # c
    BY <1>2, <1>11, <2>3, <2>4
  <2> QED
    BY <1>7, <2>1, <2>3, <2>5
<1>24. PInv(y, None, nx, de)
  BY <1>15, <1>16, <1>17, <1>18, <1>19, <1>20, <1>21, <1>22, <1>23 DEF PInv
<1> QED
  BY <1>24 DEF y, de

-----------------------------------------------------------------------------
(* A zombie is reported to its parent and waits for the confirm.           *)
LEMMA ReapKeeps ==
  ASSUME NEW x, NEW nx, NEW dd, PInv(x, None, nx, dd),
         NEW p \in Pid, x.st[p] = "live", NEW z \in Pid, x.st[z] = "zombie", x.ppid[z] = p,
         NEW call \in Thread
  PROVE  PInv(Told(SetThread(x, p, call), p, z), z, nx, dd)
<1> DEFINE w == SetThread(x, p, call)
           y == Told(w, p, z)
<1>1. x \in State /\ nx \in 2..(MaxPid + 1) /\ dd \in [Pid -> Code]
  BY DEF PInv, ProcTyped
<1>0. /\ Unborn(x, nx, dd) /\ LivingOnes(x, dd) /\ DeadOnes(x, None, dd) /\ KidsExist(x)
      /\ ReportedOnce(x, None, nx, dd) /\ Listed(x) /\ AnyAwaits(x, None) /\ ChildAwaits(x)
      /\ None \notin Pid
  BY PidFacts DEF PInv
<1>2. ThreadSet(x, w, p, call)
  BY <1>1, ThreadFields
<1> HIDE DEF w
<1>3. HasTold(w, y, p, z)
  BY <1>2, ToldFields DEF ThreadSet
<1> HIDE DEF y
<1>4. /\ y \in State
      /\ y.st = x.st /\ y.ppid = x.ppid /\ y.wait = x.wait /\ y.code = x.code
      /\ y.dead = x.dead /\ y.kids = x.kids /\ y.anyFlag = x.anyFlag
      /\ y.anyHash = x.anyHash
  BY <1>2, <1>3 DEF ThreadSet, HasTold
<1>5. \A r \in Pid : y.th[r] = IF r = p THEN Running ELSE x.th[r]
  <2>1. /\ y.th = [[x.th EXCEPT ![p] = call] EXCEPT ![p] = Running]
        /\ x.th \in [Pid -> Thread]
    BY <1>1, <1>2, <1>3, ProcFields DEF ThreadSet, HasTold
  <2> QED
    BY <2>1
<1>6. ProcTyped(y, z, nx, dd) /\ Unborn(y, nx, dd)
  BY <1>0, <1>1, <1>4 DEF ProcTyped, Unborn, PidOrNone
<1>7. LivingOnes(y, dd)
  BY <1>0, <1>4, <1>5 DEF LivingOnes, Running
<1>8. DeadOnes(y, z, dd) /\ KidsExist(y) /\ Listed(y)
  BY <1>0, <1>4 DEF DeadOnes, KidsExist, Listed
<1>9. ReportedOnce(y, z, nx, dd)
  <2> SUFFICES ASSUME NEW r \in Pid
               PROVE  /\ Len(y.reports[r]) =
                           IF (r < nx /\ y.st[r] = "free") \/ z = r THEN 1 ELSE 0
                      /\ \A k \in DOMAIN y.reports[r] :
                           y.reports[r][k].to = y.ppid[r] /\ y.reports[r][k].code = dd[r]
    BY DEF ReportedOnce
  <2>1. /\ Len(x.reports[r]) = IF r < nx /\ x.st[r] = "free" THEN 1 ELSE 0
        /\ \A k \in DOMAIN x.reports[r] :
             x.reports[r][k].to = x.ppid[r] /\ x.reports[r][k].code = dd[r]
    BY <1>0 DEF ReportedOnce
  <2> DEFINE rep == [to |-> p, code |-> w.code[z], call |-> w.th[p]]
  <2>2. /\ x.reports \in [Pid -> Seq(Report)]
        /\ y.reports = [x.reports EXCEPT ![z] = Append(x.reports[z], rep)]
    BY <1>1, <1>2, <1>3, ProcFields DEF ThreadSet, HasTold
  <2>3. rep.to = p /\ rep.code = dd[z]
    BY <1>0, <1>2 DEF DeadOnes, ThreadSet
  <2> HIDE DEF rep
  <2>4. CASE r # z
    <3>1. y.reports[r] = x.reports[r]
      BY <2>2, <2>4
    <3> QED
      BY <1>4, <2>1, <2>4, <3>1
  <2>5. CASE r = z
    <3>1. y.reports[r] = Append(x.reports[r], rep) /\ Len(x.reports[r]) = 0
      BY <2>1, <2>2, <2>5
    <3>2. x.reports[r] \in Seq(Report)
      BY <2>2
    <3>3. Len(y.reports[r]) = 1 /\ DOMAIN y.reports[r] = {1} /\ y.reports[r][1] = rep
      BY <3>1, <3>2
    <3> QED
      BY <1>4, <2>3, <2>5, <3>3
  <2> QED
    BY <2>4, <2>5
<1>10. AnyAwaits(y, z)
  <2> SUFFICES ASSUME NEW r \in Pid, y.th[r].pc = "any"
               PROVE  /\ r \in y.anyFlag /\ y.anyHash[r] > 0
                      /\ \A d \in ToSet(y.dead[r]) : d = z \/ y.wait[d] \notin {None, r}
                      /\ \E c \in Pid : y.ppid[c] = r /\ y.st[c] = "live"
    BY DEF AnyAwaits
  <2>1. x.th[r].pc = "any"
    BY <1>5 DEF Running
  <2>2. \A d \in ToSet(x.dead[r]) : d \in Pid
    <3>1. x.dead[r] \in Seq(Pid)
      BY <1>1, ProcFields
    <3> QED
      BY <3>1 DEF ToSet
  <2> QED
    BY <1>0, <1>4, <2>1, <2>2 DEF AnyAwaits
<1>11. ChildAwaits(y)
  <2>1. \A r \in Pid : y.th[r].pc = "pid" => y.th[r] = x.th[r]
    BY <1>5 DEF Running
  <2> QED
    BY <1>0, <1>4, <2>1 DEF ChildAwaits
<1>12. PInv(y, z, nx, dd)
  BY <1>6, <1>7, <1>8, <1>9, <1>10, <1>11 DEF PInv
<1> QED
  BY <1>12 DEF y, w

(* A thread runs, or sleeps in sigsuspend().                               *)
LEMMA ThreadKeeps ==
  ASSUME NEW x, NEW cf, NEW nx, NEW dd, PInv(x, cf, nx, dd),
         NEW p \in Pid, x.st[p] = "live", NEW t \in Thread, t.pc \in {"run", "suspend"}
  PROVE  PInv(SetThread(x, p, t), cf, nx, dd)
<1> DEFINE y == SetThread(x, p, t)
<1>1. x \in State /\ ProcTyped(x, cf, nx, dd)
  BY DEF PInv, ProcTyped
<1>0. /\ Unborn(x, nx, dd) /\ LivingOnes(x, dd) /\ DeadOnes(x, cf, dd) /\ KidsExist(x)
      /\ ReportedOnce(x, cf, nx, dd) /\ Listed(x) /\ AnyAwaits(x, cf) /\ ChildAwaits(x)
  BY DEF PInv
<1>2. ThreadSet(x, y, p, t)
  BY <1>1, ThreadFields
<1> HIDE DEF y
<1>3. /\ y \in State
      /\ y.st = x.st /\ y.ppid = x.ppid /\ y.wait = x.wait /\ y.code = x.code
      /\ y.dead = x.dead /\ y.kids = x.kids /\ y.anyFlag = x.anyFlag
      /\ y.anyHash = x.anyHash /\ y.reports = x.reports
  BY <1>2 DEF ThreadSet
<1>4. \A r \in Pid : y.th[r] = IF r = p THEN t ELSE x.th[r]
  BY <1>1, <1>2, ProcFields DEF ThreadSet
<1>5. ProcTyped(y, cf, nx, dd) /\ Unborn(y, nx, dd)
  BY <1>0, <1>1, <1>3 DEF ProcTyped, Unborn
<1>6. LivingOnes(y, dd)
  BY <1>0, <1>3, <1>4 DEF LivingOnes
<1>7. DeadOnes(y, cf, dd) /\ KidsExist(y) /\ Listed(y)
  BY <1>0, <1>3 DEF DeadOnes, KidsExist, Listed
<1>8. ReportedOnce(y, cf, nx, dd)
  BY <1>0, <1>3 DEF ReportedOnce
<1>9. AnyAwaits(y, cf) /\ ChildAwaits(y)
  <2>1. \A r \in Pid : y.th[r].pc \in {"any", "pid"} => y.th[r] = x.th[r]
    BY <1>4
  <2> QED
    BY <1>0, <1>3, <2>1 DEF AnyAwaits, ChildAwaits
<1>10. PInv(y, cf, nx, dd)
  BY <1>5, <1>6, <1>7, <1>8, <1>9 DEF PInv
<1> QED
  BY <1>10 DEF y

(* A thread goes to sleep in P_PID for a child that lives.                 *)
SleepForChild(x, p, c) == [x EXCEPT !.wait[c] = p, !.th[p] = [pc |-> "pid", child |-> c]]

LEMMA ChildSleepKeeps ==
  ASSUME NEW x, NEW nx, NEW dd, PInv(x, None, nx, dd),
         NEW p \in Pid, x.st[p] = "live", NEW c \in Pid, x.st[c] = "live", x.ppid[c] = p
  PROVE  PInv(SleepForChild(x, p, c), None, nx, dd)
<1> DEFINE y == SleepForChild(x, p, c)
           t == [pc |-> "pid", child |-> c]
<1>1. x \in State /\ ProcTyped(x, None, nx, dd)
  BY DEF PInv, ProcTyped
<1>0. /\ Unborn(x, nx, dd) /\ LivingOnes(x, dd) /\ DeadOnes(x, None, dd) /\ KidsExist(x)
      /\ ReportedOnce(x, None, nx, dd) /\ Listed(x) /\ AnyAwaits(x, None) /\ ChildAwaits(x)
  BY DEF PInv
<1>2. /\ y \in State
      /\ y.wait = [x.wait EXCEPT ![c] = p] /\ y.th = [x.th EXCEPT ![p] = t]
      /\ y.st = x.st /\ y.ppid = x.ppid /\ y.code = x.code
      /\ y.dead = x.dead /\ y.kids = x.kids /\ y.anyFlag = x.anyFlag
      /\ y.anyHash = x.anyHash /\ y.reports = x.reports
  <2>1. t \in Thread /\ p \in PidOrNone
    BY DEF Thread, PidOrNone
  <2> QED
    BY <1>1, <2>1 DEF SleepForChild, State
<1>3. t.pc = "pid" /\ t.child = c
  OBVIOUS
<1> HIDE DEF y, t
<1>4. /\ \A r \in Pid : y.th[r] = IF r = p THEN t ELSE x.th[r]
      /\ \A r \in Pid : y.wait[r] = IF r = c THEN p ELSE x.wait[r]
  <2>1. x.th \in [Pid -> Thread] /\ x.wait \in [Pid -> PidOrNone]
    BY <1>1, ProcFields
  <2> QED
    BY <1>2, <2>1
<1>5. ProcTyped(y, None, nx, dd) /\ Unborn(y, nx, dd)
  BY <1>0, <1>1, <1>2 DEF ProcTyped, Unborn
<1>6. LivingOnes(y, dd)
  BY <1>0, <1>2, <1>3, <1>4 DEF LivingOnes
<1>7. DeadOnes(y, None, dd) /\ KidsExist(y) /\ Listed(y)
  BY <1>0, <1>2 DEF DeadOnes, KidsExist, Listed
<1>8. ReportedOnce(y, None, nx, dd)
  BY <1>0, <1>2 DEF ReportedOnce
<1>9. AnyAwaits(y, None)
  <2> SUFFICES ASSUME NEW r \in Pid, y.th[r].pc = "any"
               PROVE  /\ r \in y.anyFlag /\ y.anyHash[r] > 0
                      /\ \A z \in ToSet(y.dead[r]) : z = None \/ y.wait[z] \notin {None, r}
                      /\ \E ch \in Pid : y.ppid[ch] = r /\ y.st[ch] = "live"
    BY DEF AnyAwaits
  <2>1. x.th[r].pc = "any"
    BY <1>3, <1>4
  <2>2. \A z \in ToSet(x.dead[r]) : z \in Pid /\ z # c
    <3>1. x.dead[r] \in Seq(Pid)
      BY <1>1, ProcFields
    <3>2. ToSet(x.dead[r]) \subseteq Pid
      BY <3>1 DEF ToSet
    <3> QED
      BY <1>0, <3>2 DEF Listed
  <2> QED
    BY <1>0, <1>2, <1>4, <2>1, <2>2 DEF AnyAwaits
<1>10. ChildAwaits(y)
  BY <1>0, <1>2, <1>3, <1>4 DEF ChildAwaits
<1>11. PInv(y, None, nx, dd)
  BY <1>5, <1>6, <1>7, <1>8, <1>9, <1>10 DEF PInv
<1> QED
  BY <1>11 DEF y

(* A thread goes to sleep in P_ALL: its children are all alive.            *)
SleepForAny(x, p) ==
  [x EXCEPT !.anyFlag = @ \cup {p}, !.anyHash[p] = @ + 1,
            !.th[p] = [pc |-> "any", child |-> None]]

LEMMA AnySleepKeeps ==
  ASSUME NEW x, NEW nx, NEW dd, PInv(x, None, nx, dd),
         NEW p \in Pid, x.st[p] = "live", x.dead[p] = <<>>, has_children(x, p),
         x.anyHash[p] < MaxEntries
  PROVE  PInv(SleepForAny(x, p), None, nx, dd)
<1> DEFINE y == SleepForAny(x, p)
           t == [pc |-> "any", child |-> None]
<1>1. x \in State /\ ProcTyped(x, None, nx, dd)
  BY DEF PInv, ProcTyped
<1>0. /\ Unborn(x, nx, dd) /\ LivingOnes(x, dd) /\ DeadOnes(x, None, dd) /\ KidsExist(x)
      /\ ReportedOnce(x, None, nx, dd) /\ Listed(x) /\ AnyAwaits(x, None) /\ ChildAwaits(x)
  BY DEF PInv
<1>2. x.anyHash[p] \in Nat /\ x.anyHash[p] + 1 \in 0..MaxEntries
  <2>1. x.anyHash[p] \in 0..MaxEntries
    BY <1>1, ProcFields
  <2> QED
    BY <2>1, ProcAssumption
<1>3. /\ y \in State
      /\ y.anyFlag = x.anyFlag \cup {p} /\ y.th = [x.th EXCEPT ![p] = t]
      /\ y.anyHash = [x.anyHash EXCEPT ![p] = x.anyHash[p] + 1]
      /\ y.st = x.st /\ y.ppid = x.ppid /\ y.wait = x.wait /\ y.code = x.code
      /\ y.dead = x.dead /\ y.kids = x.kids /\ y.reports = x.reports
  <2>1. t \in Thread
    BY DEF Thread, PidOrNone
  <2> QED
    BY <1>1, <1>2, <2>1 DEF SleepForAny, State
<1>4. t.pc = "any"
  OBVIOUS
<1> HIDE DEF y, t
<1>5. /\ \A r \in Pid : y.th[r] = IF r = p THEN t ELSE x.th[r]
      /\ \A r \in Pid : y.anyHash[r] = IF r = p THEN x.anyHash[p] + 1 ELSE x.anyHash[r]
  <2>1. x.th \in [Pid -> Thread] /\ x.anyHash \in [Pid -> 0..MaxEntries]
    BY <1>1, ProcFields
  <2> QED
    BY <1>3, <2>1
<1>6. \E c \in Pid : x.ppid[c] = p /\ x.st[c] = "live"
  <2>1. PICK e \in x.kids : e[1] = p /\ x.ppid[e[2]] = p
    BY DEF has_children
  <2>2. e[2] \in Pid /\ e = <<p, e[2]>> /\ x.st[e[2]] \in {"free", "live", "zombie"}
    BY <1>1, <2>1, ProcFields
  <2>3. x.st[e[2]] # "free"
    BY <1>0, <2>1, <2>2 DEF KidsExist
  <2>4. x.st[e[2]] # "zombie"
    BY <1>0, <2>1, <2>2, ListEmpty DEF Listed
  <2> QED
    BY <2>1, <2>2, <2>3, <2>4
<1>7. ProcTyped(y, None, nx, dd) /\ Unborn(y, nx, dd)
  BY <1>0, <1>1, <1>3 DEF ProcTyped, Unborn
<1>8. LivingOnes(y, dd)
  BY <1>0, <1>3, <1>4, <1>5 DEF LivingOnes
<1>9. DeadOnes(y, None, dd) /\ KidsExist(y) /\ Listed(y)
  BY <1>0, <1>3 DEF DeadOnes, KidsExist, Listed
<1>10. ReportedOnce(y, None, nx, dd)
  BY <1>0, <1>3 DEF ReportedOnce
<1>11. AnyAwaits(y, None)
  <2> SUFFICES ASSUME NEW r \in Pid, y.th[r].pc = "any"
               PROVE  /\ r \in y.anyFlag /\ y.anyHash[r] > 0
                      /\ \A z \in ToSet(y.dead[r]) : z = None \/ y.wait[z] \notin {None, r}
                      /\ \E c \in Pid : y.ppid[c] = r /\ y.st[c] = "live"
    BY DEF AnyAwaits
  <2>1. CASE r = p
    BY <1>2, <1>3, <1>5, <1>6, <2>1, ListEmpty
  <2>2. CASE r # p
    BY <1>0, <1>3, <1>5, <2>2 DEF AnyAwaits
  <2> QED
    BY <2>1, <2>2
<1>12. ChildAwaits(y)
  BY <1>0, <1>3, <1>4, <1>5 DEF ChildAwaits
<1>13. PInv(y, None, nx, dd)
  BY <1>7, <1>8, <1>9, <1>10, <1>11, <1>12 DEF PInv
<1> QED
  BY <1>13 DEF y

(* A fork: nothing was known of the child's PID.                           *)
Forked(x, p, n) ==
  [x EXCEPT !.st[n] = "live", !.ppid[n] = p, !.wait[n] = None, !.dead[n] = <<>>,
            !.kids = @ \cup {<<p, n>>}, !.th[n] = Running]

LEMMA ForkKeeps ==
  ASSUME NEW x, NEW n, NEW dd, PInv(x, None, n, dd), n <= MaxPid,
         NEW p \in Pid, x.st[p] = "live"
  PROVE  PInv(Forked(x, p, n), None, n + 1, dd)
<1> DEFINE y == Forked(x, p, n)
<1>1. x \in State /\ n \in 2..(MaxPid + 1) /\ dd \in [Pid -> Code]
  BY DEF PInv, ProcTyped
<1>0. /\ Unborn(x, n, dd) /\ LivingOnes(x, dd) /\ DeadOnes(x, None, dd) /\ KidsExist(x)
      /\ ReportedOnce(x, None, n, dd) /\ Listed(x) /\ AnyAwaits(x, None) /\ ChildAwaits(x)
      /\ None \notin Pid
  BY PidFacts DEF PInv
<1>2. n \in Pid /\ n \in Nat /\ n + 1 \in 2..(MaxPid + 1) /\ n >= n
  BY <1>1, ProcAssumption DEF Pid
<1>3. x.st[n] = "free" /\ x.dead[n] = <<>> /\ dd[n] = "none" /\ n # p /\ n # 1
  BY <1>0, <1>1, <1>2 DEF Unborn
<1>4. /\ y \in State
      /\ y.st = [x.st EXCEPT ![n] = "live"] /\ y.ppid = [x.ppid EXCEPT ![n] = p]
      /\ y.wait = [x.wait EXCEPT ![n] = None] /\ y.dead = [x.dead EXCEPT ![n] = <<>>]
      /\ y.kids = x.kids \cup {<<p, n>>} /\ y.th = [x.th EXCEPT ![n] = Running]
      /\ y.code = x.code /\ y.anyFlag = x.anyFlag /\ y.anyHash = x.anyHash
      /\ y.reports = x.reports
  <2>1. p \in 0..MaxPid /\ None \in PidOrNone /\ <<>> \in Seq(Pid) /\ Running \in Thread
    BY PidFacts DEF Pid, PidOrNone
  <2>2. x.kids \cup {<<p, n>>} \in SUBSET (Pid \X Pid)
    BY <1>1, <1>2, ProcFields
  <2> QED
    BY <1>1, <1>2, <2>1, <2>2 DEF Forked, State
<1> HIDE DEF y
<1>5. \A r \in Pid : /\ y.st[r] = IF r = n THEN "live" ELSE x.st[r]
                     /\ y.ppid[r] = IF r = n THEN p ELSE x.ppid[r]
                     /\ y.wait[r] = IF r = n THEN None ELSE x.wait[r]
                     /\ y.th[r] = IF r = n THEN Running ELSE x.th[r]
                     /\ y.dead[r] = x.dead[r]
  <2>1. /\ x.st \in [Pid -> {"free", "live", "zombie"}]
        /\ x.ppid \in [Pid -> 0..MaxPid] /\ x.wait \in [Pid -> PidOrNone]
        /\ x.th \in [Pid -> Thread] /\ x.dead \in [Pid -> Seq(Pid)]
    BY <1>1, ProcFields
  <2> QED
    BY <1>3, <1>4, <2>1
<1>6. \A r \in Pid : \A z \in ToSet(x.dead[r]) : z \in Pid /\ z # n
  <2> SUFFICES ASSUME NEW r \in Pid PROVE \A z \in ToSet(x.dead[r]) : z \in Pid /\ z # n
    OBVIOUS
  <2>1. x.dead[r] \in Seq(Pid)
    BY <1>1, ProcFields
  <2>2. ToSet(x.dead[r]) \subseteq Pid
    BY <2>1 DEF ToSet
  <2> QED
    BY <1>0, <1>3, <2>2 DEF Listed
<1>7. ProcTyped(y, None, n + 1, dd)
  BY <1>1, <1>2, <1>4 DEF ProcTyped, PidOrNone
<1>8. Unborn(y, n + 1, dd)
  <2> SUFFICES ASSUME NEW r \in Pid, r >= n + 1
               PROVE  y.st[r] = "free" /\ y.dead[r] = <<>> /\ dd[r] = "none"
    BY DEF Unborn
  <2>1. r >= n /\ r # n
    BY <1>2, PidFacts
  <2> QED
    BY <1>0, <1>5, <2>1 DEF Unborn
<1>9. LivingOnes(y, dd)
  <2>1. y.st[1] = "live"
    BY <1>0, <1>3, <1>5, PidFacts DEF LivingOnes
  <2>2. \A r \in Pid : y.st[r] = "live" <=> y.th[r].pc # "gone"
    BY <1>0, <1>5 DEF LivingOnes, Running
  <2>3. \A r \in Pid : y.st[r] = "live" =>
          dd[r] = "none" /\ y.ppid[r] # r /\ y.wait[r] \in {None, y.ppid[r]}
    BY <1>0, <1>3, <1>5 DEF LivingOnes
  <2> QED
    BY <2>1, <2>2, <2>3 DEF LivingOnes
<1>10. DeadOnes(y, None, dd)
  BY <1>0, <1>4, <1>5 DEF DeadOnes
<1>11. KidsExist(y)
  BY <1>0, <1>4, <1>5 DEF KidsExist
<1>12. ReportedOnce(y, None, n + 1, dd)
  <2> SUFFICES ASSUME NEW r \in Pid
               PROVE  /\ Len(y.reports[r]) = IF r < n + 1 /\ y.st[r] = "free" THEN 1 ELSE 0
                      /\ \A k \in DOMAIN y.reports[r] :
                           y.reports[r][k].to = y.ppid[r] /\ y.reports[r][k].code = dd[r]
    BY <1>0 DEF ReportedOnce
  <2>1. /\ Len(x.reports[r]) = IF r < n /\ x.st[r] = "free" THEN 1 ELSE 0
        /\ \A k \in DOMAIN x.reports[r] :
             x.reports[r][k].to = x.ppid[r] /\ x.reports[r][k].code = dd[r]
    BY <1>0 DEF ReportedOnce
  <2>2. CASE r = n
    <3>1. Len(x.reports[r]) = 0 /\ x.reports[r] \in Seq(Report)
      BY <1>1, <1>2, <2>1, <2>2, ProcFields
    <3>2. DOMAIN x.reports[r] = {}
      BY <3>1
    <3> QED
      BY <1>4, <1>5, <2>2, <3>1, <3>2
  <2>3. CASE r # n
    <3>0. r \in Nat /\ n \in Nat
      BY <1>2, PidFacts
    <3>1. r < n + 1 <=> r < n
      BY <2>3, <3>0
    <3> QED
      BY <1>4, <1>5, <2>1, <2>3, <3>1
  <2> QED
    BY <2>2, <2>3
<1>13. Listed(y)
  <2>1. ASSUME NEW r \in Pid, y.st[r] = "zombie"
        PROVE  y.ppid[r] # 0 /\ r \in ToSet(y.dead[y.ppid[r]])
    <3>1. r # n /\ x.st[r] = "zombie" /\ y.ppid[r] = x.ppid[r]
      BY <1>5, <2>1
    <3>2. x.ppid[r] # 0 /\ r \in ToSet(x.dead[x.ppid[r]])
      BY <1>0, <3>1 DEF Listed
    <3>3. x.ppid[r] \in 0..MaxPid
      BY <1>1, ProcFields
    <3>4. x.ppid[r] \in Pid
      BY <3>2, <3>3, PidFacts
    <3> QED
      BY <1>5, <3>1, <3>2, <3>4
  <2>2. \A r \in Pid : /\ IsInjective(y.dead[r])
                       /\ \A z \in ToSet(y.dead[r]) : y.st[z] = "zombie" /\ y.ppid[z] = r
    BY <1>0, <1>5, <1>6 DEF Listed
  <2> QED
    BY <2>1, <2>2 DEF Listed
<1>14. AnyAwaits(y, None)
  <2> SUFFICES ASSUME NEW r \in Pid, y.th[r].pc = "any"
               PROVE  /\ r \in y.anyFlag /\ y.anyHash[r] > 0
                      /\ \A z \in ToSet(y.dead[r]) : z = None \/ y.wait[z] \notin {None, r}
                      /\ \E c \in Pid : y.ppid[c] = r /\ y.st[c] = "live"
    BY DEF AnyAwaits
  <2>1. x.th[r].pc = "any"
    BY <1>5 DEF Running
  <2>2. /\ r \in x.anyFlag /\ x.anyHash[r] > 0
        /\ \A z \in ToSet(x.dead[r]) : z = None \/ x.wait[z] \notin {None, r}
        /\ \E c \in Pid : x.ppid[c] = r /\ x.st[c] = "live"
    BY <1>0, <2>1 DEF AnyAwaits
  <2>3. \A z \in ToSet(y.dead[r]) : z = None \/ y.wait[z] \notin {None, r}
    BY <1>5, <1>6, <2>2
  <2>4. \E c \in Pid : y.ppid[c] = r /\ y.st[c] = "live"
    BY <1>3, <1>5, <2>2
  <2> QED
    BY <1>4, <2>2, <2>3, <2>4
<1>15. ChildAwaits(y)
  BY <1>0, <1>3, <1>5 DEF ChildAwaits, Running
<1>16. PInv(y, None, n + 1, dd)
  BY <1>7, <1>8, <1>9, <1>10, <1>11, <1>12, <1>13, <1>14, <1>15 DEF PInv
<1> QED
  BY <1>16 DEF y

-----------------------------------------------------------------------------
LEMMA ProcStarts == ProcInit => ProcInv
<1> SUFFICES ASSUME ProcInit PROVE ProcInv
  OBVIOUS
<1>1. /\ s.st = [p \in Pid |-> IF p = 1 THEN "live" ELSE "free"]
      /\ s.ppid = [p \in Pid |-> 0] /\ s.wait = [p \in Pid |-> None]
      /\ s.dead = [p \in Pid |-> <<>>] /\ s.kids = {} /\ s.anyFlag = {}
      /\ s.th = [p \in Pid |-> IF p = 1 THEN Running ELSE Gone]
      /\ s.reports = [p \in Pid |-> <<>>]
      /\ next = 2 /\ confirm = None /\ died = [p \in Pid |-> "none"]
  BY DEF ProcInit
<1>2. ProcTyped(s, confirm, next, died)
  <2>1. /\ 0 \in 0..MaxPid /\ 0 \in 0..MaxEntries /\ None \in PidOrNone /\ "none" \in Code
        /\ Running \in Thread /\ Gone \in Thread /\ 2 \in 2..(MaxPid + 1)
        /\ <<>> \in Seq(Pid) /\ <<>> \in Seq(Report)
    BY PidFacts, ProcAssumption DEF PidOrNone, Code
  <2>2. s \in State
    BY <2>1 DEF ProcInit, State
  <2> QED
    BY <1>1, <2>1, <2>2 DEF ProcTyped
<1>3. Unborn(s, next, died) /\ DeadOnes(s, confirm, died) /\ KidsExist(s)
  BY <1>1, PidFacts DEF Unborn, DeadOnes, KidsExist
<1>4. LivingOnes(s, died)
  BY <1>1, PidFacts DEF LivingOnes, Running, Gone
<1>5. ReportedOnce(s, confirm, next, died)
  <2>1. None \notin Pid /\ \A p \in Pid : p < 2 => p = 1
    BY PidFacts DEF Pid
  <2> QED
    BY <1>1, <2>1 DEF ReportedOnce
<1>6. Listed(s)
  BY <1>1, ListEmpty DEF Listed
<1>7. AnyAwaits(s, confirm) /\ ChildAwaits(s)
  BY <1>1 DEF AnyAwaits, ChildAwaits, Running, Gone
<1> QED
  BY <1>2, <1>3, <1>4, <1>5, <1>6, <1>7 DEF ProcInv, PInv

(* A handler begins with the tables in order and nothing to confirm.       *)
LEMMA SyncedKeeps ==
  ASSUME ProcInv
  PROVE  /\ PInv(Synced, None, next, died) /\ Synced.th = s.th
         /\ \A p \in Pid : s.st[p] = "live" => Synced.st[p] = "live"
<1>1. CASE confirm = None
  BY <1>1 DEF ProcInv, Synced
<1>2. CASE confirm # None
  <2>1. Synced = call_destroy_process(s, confirm) /\ PInv(s, confirm, next, died)
    BY <1>2 DEF ProcInv, Synced
  <2> QED
    BY <1>2, <2>1, ConfirmKeeps
<1> QED
  BY <1>1, <1>2

LEMMA ReapStep ==
  ASSUME ProcInv, NEW p \in Pid, Synced.st[p] = "live", NEW z \in Pid,
         Synced.st[z] = "zombie", Synced.ppid[z] = p, NEW call \in Thread,
         Reap(p, z, call), UNCHANGED <<next, died>>
  PROVE  ProcInv'
<1>1. PInv(Synced, None, next, died)
  BY SyncedKeeps
<1>2. CASE s' = Told([Synced EXCEPT !.th[p] = call], p, z) /\ confirm' = z
  <2>1. s' = Told(SetThread(Synced, p, call), p, z)
    BY <1>2 DEF SetThread
  <2>2. PInv(Told(SetThread(Synced, p, call), p, z), z, next, died)
    BY <1>1, ReapKeeps
  <2> QED
    BY <1>2, <2>1, <2>2 DEF ProcInv
<1>3. CASE s' = Synced /\ confirm' = None
  BY <1>1, <1>3 DEF ProcInv
<1> QED
  BY <1>2, <1>3 DEF Reap

LEMMA DieStep ==
  ASSUME ProcInv, NEW c \in Pid, c # 1, Synced.st[c] = "live", NEW code \in Code,
         Die(c, code)
  PROVE  ProcInv'
<1>1. PInv(Synced, None, next, died)
  BY SyncedKeeps
<1>2. PICK intr \in {FALSE, TRUE} :
        (intr => MayBeInterrupted(Synced, c)) /\ s' = zombify(Synced, c, code, intr)
  BY DEF Die
<1>3. /\ confirm' = None /\ next' = next
      /\ died' = [died EXCEPT ![c] = IF died[c] = "none" THEN code ELSE died[c]]
  BY DEF Die
<1>4. PInv(zombify(Synced, c, code, intr), None, next,
           [died EXCEPT ![c] = IF died[c] = "none" THEN code ELSE died[c]])
  BY <1>1, <1>2, ZombifyKeeps
<1> QED
  BY <1>2, <1>3, <1>4 DEF ProcInv

LEMMA ProcSteps ==
  ASSUME ZombieTargets = {}, ProcInv, [ProcNext]_procVars
  PROVE  ProcInv'
<1>0. /\ PInv(Synced, None, next, died) /\ Synced.th = s.th
      /\ \A p \in Pid : s.st[p] = "live" => Synced.st[p] = "live"
  BY SyncedKeeps
<1>a. Synced \in State /\ s \in State
  BY <1>0 DEF PInv, ProcTyped, ProcInv
<1>1. ASSUME NEW p \in Pid, NEW code \in Codes, uapi_exit(p, code)
      PROVE  ProcInv'
  <2>1. code \in Code
    BY DEF Code
  <2> QED
    BY <1>0, <1>1, <2>1, DieStep DEF uapi_exit, Caller
<1>2. ASSUME NEW p \in Pid, NEW q \in Pid, root_uapi_kill(p, q)
      PROVE  ProcInv'
  <2>1. q # 1 /\ "killed" \in Code
    BY <1>2, ProcAssumption DEF root_uapi_kill, Code
  <2>2. Synced.st[q] \in {"free", "live", "zombie"}
    BY <1>a, ProcFields
  <2>3. Synced.st[q] = "live" /\ Die(q, "killed")
    BY <1>2, <2>2 DEF root_uapi_kill, Exists
  <2> QED
    BY <2>1, <2>3, DieStep
<1>3. ASSUME NEW p \in Pid, uapi_fork(p)
      PROVE  ProcInv'
  <2>1. /\ s' = Forked(Synced, p, next) /\ confirm' = None /\ died' = died
        /\ next' = next + 1 /\ next <= MaxPid /\ Synced.st[p] = "live"
    BY <1>0, <1>3 DEF uapi_fork, alloc_process, Forked, Caller
  <2>2. PInv(Forked(Synced, p, next), None, next + 1, died)
    BY <1>0, <2>1, ForkKeeps
  <2> QED
    BY <2>1, <2>2 DEF ProcInv
<1>4. ASSUME NEW p \in Pid, NEW c \in Pid, NEW nohang \in {FALSE, TRUE}, WaitPid(p, c, nohang)
      PROVE  ProcInv'
  <2>1. Synced.st[p] = "live" /\ next' = next /\ died' = died
    BY <1>0, <1>4 DEF WaitPid, Caller
  <2>2. CASE Return
    BY <1>0, <2>1, <2>2 DEF Return, ProcInv
  <2>3. CASE ~Return
    <3>1. Exists(Synced, c) /\ Synced.ppid[c] = p
      BY <1>4, <2>3 DEF WaitPid
    <3>2. CASE Synced.st[c] = "zombie"
      <4>1. Reap(p, c, [pc |-> "pid", child |-> c])
        BY <1>4, <3>1, <3>2 DEF WaitPid
      <4>2. [pc |-> "pid", child |-> c] \in Thread
        BY DEF Thread, PidOrNone
      <4> QED
        BY <2>1, <3>1, <3>2, <4>1, <4>2, ReapStep
    <3>3. CASE Synced.st[c] # "zombie"
      <4>1. /\ s' = SleepForChild(Synced, p, c)
            /\ confirm' = None
        BY <1>4, <2>3, <3>1, <3>3 DEF WaitPid, SleepForChild
      <4>2. Synced.st[c] = "live"
        BY <1>a, <3>1, <3>3, ProcFields DEF Exists
      <4>3. PInv(SleepForChild(Synced, p, c), None, next, died)
        BY <1>0, <2>1, <3>1, <4>2, ChildSleepKeeps
      <4> QED
        BY <2>1, <4>1, <4>3 DEF ProcInv
    <3> QED
      BY <3>2, <3>3
  <2> QED
    BY <2>2, <2>3
<1>5. ASSUME NEW p \in Pid, NEW nohang \in {FALSE, TRUE}, WaitAny(p, nohang)
      PROVE  ProcInv'
  <2>1. Synced.st[p] = "live" /\ next' = next /\ died' = died
    BY <1>0, <1>5 DEF WaitAny, Caller
  <2>2. CASE Return
    BY <1>0, <2>1, <2>2 DEF Return, ProcInv
  <2>3. CASE Synced.dead[p] # <<>>
    <3> DEFINE z == Head(Synced.dead[p])
               call == [pc |-> "any", child |-> None]
    <3>1. Synced.dead[p] \in Seq(Pid)
      BY <1>a, ProcFields
    <3>2. z \in Pid /\ z \in ToSet(Synced.dead[p])
      BY <2>3, <3>1, ListFirst
    <3>3. Synced.st[z] = "zombie" /\ Synced.ppid[z] = p
      BY <1>0, <3>2 DEF PInv, Listed
    <3>4. call \in Thread
      BY DEF Thread, PidOrNone
    <3>5. Reap(p, z, call)
      BY <1>5, <2>3 DEF WaitAny
    <3> HIDE DEF z, call
    <3> QED
      BY <2>1, <3>2, <3>3, <3>4, <3>5, ReapStep
  <2>4. CASE Synced.dead[p] = <<>> /\ ~Return
    <3>1. /\ s' = SleepForAny(Synced, p) /\ confirm' = None
          /\ has_children(Synced, p) /\ Synced.anyHash[p] < MaxEntries
      BY <1>5, <2>4 DEF WaitAny, SleepForAny
    <3>2. PInv(SleepForAny(Synced, p), None, next, died)
      BY <1>0, <2>1, <2>4, <3>1, AnySleepKeeps
    <3> QED
      BY <2>1, <3>1, <3>2 DEF ProcInv
  <2> QED
    BY <2>2, <2>3, <2>4
<1>6. ASSUME NEW p \in Pid, root_uapi_sigsuspend(p)
      PROVE  ProcInv'
  <2> DEFINE t == [pc |-> "suspend", child |-> None]
  <2>1. t \in Thread /\ t.pc = "suspend"
    BY DEF Thread, PidOrNone
  <2>2. /\ s' = SetThread(Synced, p, t) /\ confirm' = None /\ next' = next /\ died' = died
        /\ Synced.st[p] = "live"
    BY <1>0, <1>6 DEF root_uapi_sigsuspend, SetThread, Caller
  <2> HIDE DEF t
  <2>3. PInv(SetThread(Synced, p, t), None, next, died)
    BY <1>0, <2>1, <2>2, ThreadKeeps
  <2> QED
    BY <2>2, <2>3 DEF ProcInv
<1>7. ASSUME NEW p \in Pid, Interrupt(p)
      PROVE  ProcInv'
  <2>1. /\ s' = SetThread(s, p, Running) /\ confirm' = confirm /\ next' = next
        /\ died' = died
    BY <1>7 DEF Interrupt, SetThread
  <2>2. s.st[p] = "live"
    BY <1>7 DEF Interrupt, Listening, ProcInv, PInv, LivingOnes
  <2>3. Running \in Thread /\ Running.pc = "run"
    BY PidFacts DEF Running
  <2>4. PInv(SetThread(s, p, Running), confirm, next, died)
    BY <2>2, <2>3, ThreadKeeps DEF ProcInv
  <2> QED
    BY <2>1, <2>4 DEF ProcInv
<1>8. CASE UNCHANGED procVars
  BY <1>8 DEF procVars, ProcInv
<1> QED
  BY <1>1, <1>2, <1>3, <1>4, <1>5, <1>6, <1>7, <1>8 DEF ProcNext

(* What a run checks follows from the books.                               *)
LEMMA ProcMeans == ASSUME ProcInv PROVE ProcBooks /\ WaitNotMissed
<1>1. /\ ProcTyped(s, confirm, next, died) /\ ReportedOnce(s, confirm, next, died)
      /\ Listed(s) /\ AnyAwaits(s, confirm) /\ ChildAwaits(s)
  BY DEF ProcInv, PInv
<1>2. ProcTypeOK /\ ZombieListed
  BY <1>1 DEF ProcTyped, ProcTypeOK, Listed, ZombieListed
<1>3. DeathReportedOnce
  BY <1>1 DEF ReportedOnce, DeathReportedOnce
<1>4. WaitNotMissed
  BY <1>1 DEF AnyAwaits, ChildAwaits, WaitNotMissed
<1> QED
  BY <1>2, <1>3, <1>4 DEF ProcBooks

(* Every death is reported to the parent at the time, once and with the    *)
(* right status, and a zombie stays in its parent's dead_list until then:  *)
(* for any number of processes and PIDs, whoever is interrupted when, as   *)
(* long as no zombie is sent a fatal signal (root/sig.c does not spare it).*)
THEOREM DeathsAreReported ==
  ASSUME ZombieTargets = {}
  PROVE  ProcSpec => []ProcBooks
<1>1. ProcInit => ProcInv
  BY ProcStarts
<1>2. ProcInv /\ [ProcNext]_procVars => ProcInv'
  BY ProcSteps
<1>3. ProcInv => ProcBooks
  BY ProcMeans
<1> QED
  BY <1>1, <1>2, <1>3, PTL DEF ProcSpec

(* No thread sleeps in waitid() beside what it waits for, under the same   *)
(* assumption: uapi_wait() and zombify() leave no window between the look  *)
(* at the children and the note that zombify() looks for.                  *)
THEOREM WaitersAreFound ==
  ASSUME ZombieTargets = {}
  PROVE  ProcSpec => []WaitNotMissed
<1>1. ProcInit => ProcInv
  BY ProcStarts
<1>2. ProcInv /\ [ProcNext]_procVars => ProcInv'
  BY ProcSteps
<1>3. ProcInv => WaitNotMissed
  BY ProcMeans
<1> QED
  BY <1>1, <1>2, <1>3, PTL DEF ProcSpec

-----------------------------------------------------------------------------
(* Tasks and threads: the books are of a state r of module RootTask.       *)
Tids == Maps \X Bits \X Tasks
Kerns == [tid : Tids, slot : Slots]
TaskRecs == [on : BOOLEAN, threads : Seq(Tids), utcb_free : SUBSET Slots]
ProcRecs == [st : {"none", "live", "zombie"}, ppid : RtUsers \cup {0}, helper : Tids \cup {NoTid}, hslot : Slots \cup {0}]
RtStates ==
  [free : [Maps -> SUBSET Bits], count : [Maps -> Nat], task : [Tasks -> TaskRecs], proc : [RtUsers -> ProcRecs],
   kern : SUBSET Kerns, space : SUBSET RtUsers, next_user_pid : Nat, half : SUBSET RtUsers, bad : SUBSET Asserts]

(* A number is free, burnt or of one thread; a place is of one thread.     *)
Taken(K, m, b) == \E k \in K : k.tid[1] = m /\ k.tid[2] = b
NumbersOk(r) ==
  \A m \in Maps :
    /\ r.count[m] = Cardinality(r.free[m])
    /\ \A b \in Bits : /\ b \in r.free[m] <=> ~Taken(r.kern, m, b) /\ ~(m = 0 /\ b \in Burnt)
                       /\ m = 0 /\ b \in Burnt => ~Taken(r.kern, m, b)
KernOnce(K) ==
  \A k, l \in K : /\ k.tid[1] = l.tid[1] /\ k.tid[2] = l.tid[2] => k = l
                  /\ k.tid[3] = l.tid[3] /\ k.slot = l.slot => k = l

(* A task's list has the kernel's threads, once, and its map their places. *)
TidsOf(K, p) == {k.tid : k \in {l \in K : l.tid[3] = p}}
SlotsOf(K, p) == {k.slot : k \in {l \in K : l.tid[3] = p}}
Once(sl) == \A i, j \in 1..Len(sl) : sl[i] = sl[j] => i = j
ListOk(x, K, p) ==
  /\ ToSet(x.threads) = TidsOf(K, p) /\ Once(x.threads)
  /\ x.threads # <<>> => x.on /\ x.utcb_free = Slots \ SlotsOf(K, p)
ListsOk(r) == \A p \in Tasks : ListOk(r.task[p], r.kern, p)

Books(r) == r \in RtStates /\ NumbersOk(r) /\ KernOnce(r.kern) /\ ListsOk(r)

(* A helper is a thread beside others, and a zombie has no threads.        *)
ProcOk(r, p) ==
  /\ r.proc[p].helper # NoTid =>
       /\ [tid |-> r.proc[p].helper, slot |-> r.proc[p].hslot] \in r.kern /\ r.proc[p].helper[3] = p
       /\ \E t \in ToSet(r.task[p].threads) : t # r.proc[p].helper
  /\ r.proc[p].st = "zombie" => r.task[p].threads = <<>>
  /\ r.proc[p].ppid # p
  /\ p >= r.next_user_pid =>
       r.task[p].threads = <<>> /\ p \notin r.space /\ p \notin r.half /\ r.proc[p].helper = NoTid
SpaceOk(r, p) == p \in r.half \/ (p \in r.space <=> r.task[p].threads # <<>>)

RtInv(r) == Books(r) /\ r.bad = {} /\ \A p \in RtUsers : ProcOk(r, p) /\ SpaceOk(r, p)

-----------------------------------------------------------------------------
(* The least number of a set.                                              *)
LEMMA LowestFacts ==
  ASSUME NEW S \in SUBSET Nat, S # {}
  PROVE  Lowest(S) \in S
<1>1. PICK k \in S : \A l \in S : <<l, k>> \notin OpToRel(<, Nat)
  BY NatLessThanWellFounded, WFMin
<1>2. \A l \in S : l < k => <<l, k>> \in OpToRel(<, Nat)
  BY DEF OpToRel
<1>3. \A l \in S : ~(l < k) => k <= l
  OBVIOUS
<1>4. \A l \in S : k <= l
  BY <1>1, <1>2, <1>3
<1> QED
  BY <1>4 DEF Lowest

(* The parts of a state.                                                   *)
LEMMA StateParts ==
  ASSUME NEW r \in RtStates
  PROVE  /\ r.free \in [Maps -> SUBSET Bits] /\ r.count \in [Maps -> Nat] /\ r.task \in [Tasks -> TaskRecs]
         /\ r.proc \in [RtUsers -> ProcRecs] /\ r.kern \in SUBSET Kerns /\ r.space \in SUBSET RtUsers
         /\ r.next_user_pid \in Nat /\ r.half \in SUBSET RtUsers /\ r.bad \in SUBSET Asserts
         /\ r = [free |-> r.free, count |-> r.count, task |-> r.task, proc |-> r.proc, kern |-> r.kern,
                 space |-> r.space, next_user_pid |-> r.next_user_pid, half |-> r.half, bad |-> r.bad]
BY DEF RtStates

(* A record of these parts is a state.                                     *)
AllParts(d) ==
  d = [free |-> d.free, count |-> d.count, task |-> d.task, proc |-> d.proc, kern |-> d.kern,
       space |-> d.space, next_user_pid |-> d.next_user_pid, half |-> d.half, bad |-> d.bad]
LEMMA IsState ==
  ASSUME NEW d, AllParts(d),
         d.free \in [Maps -> SUBSET Bits], d.count \in [Maps -> Nat], d.task \in [Tasks -> TaskRecs],
         d.proc \in [RtUsers -> ProcRecs], d.kern \in SUBSET Kerns, d.space \in SUBSET RtUsers,
         d.next_user_pid \in Nat, d.half \in SUBSET RtUsers, d.bad \in SUBSET Asserts
  PROVE  d \in RtStates
BY DEF RtStates, AllParts

LEMMA TaskParts ==
  ASSUME NEW x \in TaskRecs
  PROVE  /\ x.on \in BOOLEAN /\ x.threads \in Seq(Tids) /\ x.utcb_free \in SUBSET Slots
         /\ x = [on |-> x.on, threads |-> x.threads, utcb_free |-> x.utcb_free]
BY DEF TaskRecs

(* free_threadno().                                                        *)
LEMMA FreeFields ==
  ASSUME NEW r \in RtStates, NEW tid \in Tids
  PROVE  LET d == free_threadno(r, tid)
         IN  /\ d.free = [r.free EXCEPT ![tid[1]] = @ \cup {tid[2]}]
             /\ d.count = [r.count EXCEPT ![tid[1]] = @ + 1]
             /\ d.task = r.task /\ d.proc = r.proc /\ d.kern = r.kern /\ d.space = r.space
             /\ d.next_user_pid = r.next_user_pid /\ d.half = r.half
             /\ d.bad = r.bad \cup Unless(tid[2] \notin r.free[tid[1]], "number")
             /\ d \in RtStates
<1>1. PICK d : d = free_threadno(r, tid)
  OBVIOUS
<1>2. tid[1] \in Maps /\ tid[2] \in Bits
  BY DEF Tids
<1>3. /\ d.free = [r.free EXCEPT ![tid[1]] = @ \cup {tid[2]}]
      /\ d.count = [r.count EXCEPT ![tid[1]] = @ + 1]
      /\ d.task = r.task /\ d.proc = r.proc /\ d.kern = r.kern /\ d.space = r.space
      /\ d.next_user_pid = r.next_user_pid /\ d.half = r.half
  BY <1>1, StateParts DEF free_threadno
<1>4. d.bad = r.bad \cup Unless(tid[2] \notin r.free[tid[1]], "number")
  BY <1>1, StateParts DEF free_threadno
<1>5. AllParts(d)
  BY <1>1, StateParts DEF AllParts, free_threadno
<1>6. d \in RtStates
  <2>1. d.bad \in SUBSET Asserts
    BY <1>4, StateParts DEF Unless, Asserts
  <2>2. d.free \in [Maps -> SUBSET Bits] /\ d.count \in [Maps -> Nat]
    BY <1>2, <1>3, StateParts
  <2> QED
    BY <1>3, <1>5, <2>1, <2>2, StateParts, IsState
<1> QED
  BY <1>1, <1>3, <1>4, <1>6

(* L4_ThreadControl.                                                       *)
LEMMA CreateFields ==
  ASSUME NEW r \in RtStates, NEW tid \in Tids, NEW slot \in Slots
  PROVE  LET d == Create(r, tid, slot)
         IN  /\ d.free = r.free /\ d.count = r.count
             /\ d.task = r.task /\ d.proc = r.proc /\ d.kern = r.kern \cup {[tid |-> tid, slot |-> slot]} /\ d.space = r.space
             /\ d.next_user_pid = r.next_user_pid /\ d.half = r.half
             /\ d.bad = r.bad \cup Unless(Fits(r, tid, slot), "created")
             /\ d \in RtStates
<1>1. PICK d : d = Create(r, tid, slot)
  OBVIOUS
<1>3. /\ d.free = r.free /\ d.count = r.count
      /\ d.task = r.task /\ d.proc = r.proc /\ d.kern = r.kern \cup {[tid |-> tid, slot |-> slot]} /\ d.space = r.space
      /\ d.next_user_pid = r.next_user_pid /\ d.half = r.half
  BY <1>1, StateParts DEF Create
<1>4. d.bad = r.bad \cup Unless(Fits(r, tid, slot), "created")
  BY <1>1, StateParts DEF Create
<1>5. AllParts(d)
  BY <1>1, StateParts DEF AllParts, Create
<1>6. d \in RtStates
  <2>1. d.bad \in SUBSET Asserts
    BY <1>4, StateParts DEF Unless, Asserts
  <2>2. d.kern \in SUBSET Kerns
    BY <1>3, StateParts DEF Kerns
  <2> QED
    BY <1>3, <1>5, <2>1, <2>2, StateParts, IsState
<1> QED
  BY <1>1, <1>3, <1>4, <1>6

DeleteParts(d, r, tid) ==
  /\ d.free = r.free /\ d.count = r.count
  /\ d.task = r.task /\ d.proc = r.proc /\ d.kern = {k \in r.kern : k.tid # tid} /\ d.space = r.space
  /\ d.next_user_pid = r.next_user_pid /\ d.half = r.half
  /\ d.bad = r.bad \cup Unless(\E k \in r.kern : k.tid = tid, "deleted")
  /\ d \in RtStates
LEMMA DeleteFields ==
  ASSUME NEW r \in RtStates, NEW tid \in Tids, NEW d, d = Delete(r, tid)
  PROVE  DeleteParts(d, r, tid)
<1>1. d = Delete(r, tid)
  OBVIOUS
<1>3. /\ d.free = r.free /\ d.count = r.count
      /\ d.task = r.task /\ d.proc = r.proc /\ d.kern = {k \in r.kern : k.tid # tid} /\ d.space = r.space
      /\ d.next_user_pid = r.next_user_pid /\ d.half = r.half
  BY <1>1, StateParts DEF Delete
<1>4. d.bad = r.bad \cup Unless(\E k \in r.kern : k.tid = tid, "deleted")
  BY <1>1, StateParts DEF Delete
<1>5. AllParts(d)
  BY <1>1, StateParts DEF AllParts, Delete
<1>6. d \in RtStates
  <2>1. d.bad \in SUBSET Asserts
    BY <1>4, StateParts DEF Unless, Asserts
  <2>2. d.kern \in SUBSET Kerns
    BY <1>3, StateParts
  <2> QED
    BY <1>3, <1>5, <2>1, <2>2, StateParts, IsState
<1> QED
  BY <1>3, <1>4, <1>6 DEF DeleteParts

-----------------------------------------------------------------------------
(* Tasks and their lists. *)
(* What is left alone by all that follows, but for bad.                    *)
SameRest(d, r) == d.proc = r.proc /\ d.next_user_pid = r.next_user_pid /\ d.half = r.half
OthersSame(d, r, p) == \A u \in Tasks : u # p => d.task[u] = r.task[u]

Fresh == [on |-> TRUE, threads |-> <<>>, utcb_free |-> Slots]

(* task_common_ctor().                                                     *)
LEMMA CtorFields ==
  ASSUME NEW r \in RtStates, NEW p \in Tasks
  PROVE  LET d == task_common_ctor(r, p)
         IN  /\ d \in RtStates /\ SameRest(d, r) /\ OthersSame(d, r, p) /\ d.task[p] = Fresh
             /\ d.free = r.free /\ d.count = r.count /\ d.kern = r.kern /\ d.space = r.space /\ d.bad = r.bad
<1>1. PICK d : d = task_common_ctor(r, p)
  OBVIOUS
<1>2. /\ d.free = r.free /\ d.count = r.count /\ d.proc = r.proc /\ d.kern = r.kern /\ d.space = r.space
      /\ d.next_user_pid = r.next_user_pid /\ d.half = r.half /\ d.bad = r.bad
      /\ d.task = [r.task EXCEPT ![p] = Fresh]
  BY <1>1, StateParts DEF task_common_ctor, Fresh
<1>3. AllParts(d)
  BY <1>1, StateParts DEF AllParts, task_common_ctor
<1>4. Fresh \in TaskRecs
  BY DEF Fresh, TaskRecs
<1>5. d.task \in [Tasks -> TaskRecs] /\ d.task[p] = Fresh /\ \A u \in Tasks : u # p => d.task[u] = r.task[u]
  BY <1>2, <1>4, StateParts
<1>6. d \in RtStates
  BY <1>2, <1>3, <1>5, StateParts, IsState
<1> QED
  BY <1>1, <1>2, <1>5, <1>6 DEF SameRest, OthersSame

(* tidlist_remove_from(): the last takes the place of the one found.       *)
LEMMA WithoutFacts ==
  ASSUME NEW ts \in Seq(Tids), NEW tid \in ToSet(ts), Once(ts)
  PROVE  LET q == tidlist_remove_from(ts, tid)
         IN  q \in Seq(Tids) /\ Once(q) /\ ToSet(q) = ToSet(ts) \ {tid} /\ Len(q) = Len(ts) - 1
<1>1. PICK n \in Nat : n = Len(ts)
  OBVIOUS
<1>2. ToSet(ts) = {ts[j] : j \in 1..n}
  BY <1>1 DEF ToSet
<1>3. PICK i : i = CHOOSE i1 \in 1 .. Len(ts) : ts[i1] = tid
  OBVIOUS
<1>4. i \in 1..n /\ ts[i] = tid
  BY <1>1, <1>2, <1>3
<1>5. n - 1 \in Nat /\ n \in 1..n
  BY <1>4
<1>6. PICK q : q = tidlist_remove_from(ts, tid)
  OBVIOUS
<1>7. q = [j \in 1 .. n - 1 |-> IF j = i THEN ts[n] ELSE ts[j]]
  BY <1>1, <1>3, <1>6 DEF tidlist_remove_from, Last
<1>8. \A j \in 1..n : ts[j] \in Tids
  BY <1>1
<1>9. \A j \in 1..(n - 1) : q[j] = IF j = i THEN ts[n] ELSE ts[j]
  BY <1>7
<1>10. q \in Seq(Tids) /\ Len(q) = n - 1
  <2>1. \A j \in 1..(n - 1) : j \in 1..n
    BY <1>5
  <2>2. q \in [1..(n - 1) -> Tids]
    BY <1>4, <1>5, <1>7, <1>8, <2>1
  <2> QED
    BY <1>5, <2>2
<1>11. \A j, k \in 1..n : ts[j] = ts[k] => j = k
  BY <1>1 DEF Once
<1>12. ASSUME NEW j \in 1..(n - 1), NEW k \in 1..(n - 1), q[j] = q[k] PROVE j = k
  <2>1. j \in 1..n /\ k \in 1..n /\ j # n /\ k # n
    BY <1>5
  <2>2. CASE j = i /\ k = i
    BY <2>2
  <2>3. CASE j = i /\ k # i
    BY <1>5, <1>9, <1>11, <1>12, <2>1, <2>3
  <2>4. CASE j # i /\ k = i
    BY <1>5, <1>9, <1>11, <1>12, <2>1, <2>4
  <2>5. CASE j # i /\ k # i
    BY <1>9, <1>11, <1>12, <2>1, <2>5
  <2> QED
    BY <2>2, <2>3, <2>4, <2>5
<1>13. Once(q)
  BY <1>10, <1>12 DEF Once
<1>14. ToSet(q) = {q[j] : j \in 1..(n - 1)}
  BY <1>10 DEF ToSet
<1>15. ASSUME NEW j \in 1..(n - 1) PROVE q[j] \in ToSet(ts) /\ q[j] # tid
  <2>1. j \in 1..n /\ j # n
    BY <1>5
  <2>2. CASE j = i
    <3>1. q[j] = ts[n] /\ n # i
      BY <1>9, <2>1, <2>2
    <3> QED
      BY <1>2, <1>4, <1>5, <1>11, <3>1
  <2>3. CASE j # i
    <3>1. q[j] = ts[j]
      BY <1>9, <2>3
    <3> QED
      BY <1>2, <1>4, <1>11, <2>1, <2>3, <3>1
  <2> QED
    BY <2>2, <2>3
<1>16. ASSUME NEW j \in 1..n, ts[j] # tid PROVE ts[j] \in ToSet(q)
  <2>0. j # i
    BY <1>4, <1>16
  <2>1. CASE j # n
    <3>1. j \in 1..(n - 1)
      BY <2>1
    <3>2. q[j] = ts[j]
      BY <1>9, <2>0, <3>1
    <3> QED
      BY <1>14, <3>1, <3>2
  <2>2. CASE j = n
    <3>1. i \in 1..(n - 1)
      BY <1>4, <2>0, <2>2
    <3>2. q[i] = ts[j]
      BY <1>9, <2>2, <3>1
    <3> QED
      BY <1>14, <3>1, <3>2
  <2> QED
    BY <2>1, <2>2
<1>17. ToSet(q) = ToSet(ts) \ {tid}
  BY <1>2, <1>14, <1>15, <1>16
<1> QED
  BY <1>1, <1>6, <1>10, <1>13, <1>17

(* free_thread().                                                          *)
LEMMA FreeThreadFields ==
  ASSUME NEW r \in RtStates, NEW p \in Tasks, NEW tid \in ToSet(r.task[p].threads), NEW slot \in Slots,
         Once(r.task[p].threads)
  PROVE  LET d == free_thread(r, p, tid, slot)
         IN  /\ d \in RtStates /\ SameRest(d, r) /\ OthersSame(d, r, p)
             /\ d.task[p].on = r.task[p].on /\ d.task[p].threads = tidlist_remove_from(r.task[p].threads, tid)
             /\ d.task[p].utcb_free = r.task[p].utcb_free \cup {slot}
             /\ d.free = r.free /\ d.count = r.count /\ d.kern = r.kern /\ d.space = r.space
             /\ d.bad = r.bad \cup Unless(slot \notin r.task[p].utcb_free, "place")
<1>1. PICK x \in TaskRecs : x = r.task[p]
  BY StateParts
<1>2. PICK q \in Seq(Tids) : q = tidlist_remove_from(x.threads, tid)
  BY <1>1, TaskParts, WithoutFacts
<1>3. PICK z : z = [on |-> x.on, threads |-> q, utcb_free |-> x.utcb_free \cup {slot}]
  OBVIOUS
<1>4. z \in TaskRecs
  BY <1>3, TaskParts DEF TaskRecs
<1>5. z.on = x.on /\ z.threads = q /\ z.utcb_free = x.utcb_free \cup {slot}
  BY <1>3
<1>6. PICK B : B = Unless(slot \notin x.utcb_free, "place")
  OBVIOUS
<1>7. B \subseteq Asserts
  BY <1>6 DEF Unless, Asserts
<1>8. PICK d : d = free_thread(r, p, tid, slot)
  OBVIOUS
<1>9. d = [r EXCEPT !.task[p] = z, !.bad = @ \cup B]
  BY <1>1, <1>2, <1>3, <1>6, <1>8 DEF free_thread
<1>10. /\ d.free = r.free /\ d.count = r.count /\ d.proc = r.proc /\ d.kern = r.kern /\ d.space = r.space
       /\ d.next_user_pid = r.next_user_pid /\ d.half = r.half /\ d.bad = r.bad \cup B
       /\ d.task = [r.task EXCEPT ![p] = z] /\ AllParts(d)
  <2>1. /\ d.free = r.free /\ d.count = r.count /\ d.proc = r.proc /\ d.kern = r.kern /\ d.space = r.space
        /\ d.next_user_pid = r.next_user_pid /\ d.half = r.half
    BY <1>9, StateParts
  <2>2. d.bad = r.bad \cup B
    BY <1>9, StateParts
  <2>3. d.task = [r.task EXCEPT ![p] = z]
    BY <1>9, StateParts
  <2>4. AllParts(d)
    BY <1>9, StateParts DEF AllParts
  <2> QED
    BY <2>1, <2>2, <2>3, <2>4
<1>11. d.task \in [Tasks -> TaskRecs] /\ d.task[p] = z /\ \A u \in Tasks : u # p => d.task[u] = r.task[u]
  BY <1>4, <1>10, StateParts
<1>12. d \in RtStates
  <2>1. d.bad \in SUBSET Asserts
    BY <1>7, <1>10, StateParts
  <2> QED
    BY <1>10, <1>11, <2>1, StateParts, IsState
<1> QED
  BY <1>1, <1>2, <1>5, <1>6, <1>8, <1>10, <1>11, <1>12 DEF SameRest, OthersSame

-----------------------------------------------------------------------------
(* One thread more, one thread less. *)
LEMMA KernParts ==
  ASSUME NEW k \in Kerns
  PROVE  /\ k.tid \in Tids /\ k.slot \in Slots /\ k = [tid |-> k.tid, slot |-> k.slot]
         /\ k.tid[1] \in Maps /\ k.tid[2] \in Bits /\ k.tid[3] \in Tasks
         /\ k.tid = <<k.tid[1], k.tid[2], k.tid[3]>> /\ k.tid # NoTid
<1>1. k.tid \in Tids /\ k.slot \in Slots /\ k = [tid |-> k.tid, slot |-> k.slot]
  BY DEF Kerns
<1>2. PICK m \in Maps, b \in Bits, u \in Tasks : k.tid = <<m, b, u>>
  BY <1>1 DEF Tids
<1> QED
  BY <1>1, <1>2 DEF NoTid

(* L4_ThreadControl makes a thread.                                        *)
KernAdded(L, K, k) ==
  /\ KernOnce(L) /\ L \in SUBSET Kerns
  /\ \A m, b : Taken(L, m, b) <=> Taken(K, m, b) \/ (m = k.tid[1] /\ b = k.tid[2])
  /\ \A u : u # k.tid[3] => TidsOf(L, u) = TidsOf(K, u) /\ SlotsOf(L, u) = SlotsOf(K, u)
  /\ TidsOf(L, k.tid[3]) = TidsOf(K, k.tid[3]) \cup {k.tid}
  /\ SlotsOf(L, k.tid[3]) = SlotsOf(K, k.tid[3]) \cup {k.slot}
  /\ k.tid \notin TidsOf(K, k.tid[3])
LEMMA KernAdd ==
  ASSUME NEW K \in SUBSET Kerns, NEW k \in Kerns, KernOnce(K),
         ~Taken(K, k.tid[1], k.tid[2]), k.slot \notin SlotsOf(K, k.tid[3]), NEW L, L = K \cup {k}
  PROVE  KernAdded(L, K, k)
<1>1. \A l \in K : ~(l.tid[1] = k.tid[1] /\ l.tid[2] = k.tid[2]) /\ ~(l.tid[3] = k.tid[3] /\ l.slot = k.slot)
  BY DEF Taken, SlotsOf
<1>2. KernOnce(L)
  BY <1>1 DEF KernOnce
<1>3. \A m, b : Taken(L, m, b) <=> Taken(K, m, b) \/ (m = k.tid[1] /\ b = k.tid[2])
  BY DEF Taken
<1>4. ASSUME NEW u, u # k.tid[3] PROVE TidsOf(L, u) = TidsOf(K, u) /\ SlotsOf(L, u) = SlotsOf(K, u)
  <2>1. {l \in L : l.tid[3] = u} = {l \in K : l.tid[3] = u}
    BY <1>4
  <2> QED
    BY <2>1 DEF TidsOf, SlotsOf
<1>5. {l \in L : l.tid[3] = k.tid[3]} = {l \in K : l.tid[3] = k.tid[3]} \cup {k}
  OBVIOUS
<1>6. TidsOf(L, k.tid[3]) = TidsOf(K, k.tid[3]) \cup {k.tid} /\ SlotsOf(L, k.tid[3]) = SlotsOf(K, k.tid[3]) \cup {k.slot}
  BY <1>5 DEF TidsOf, SlotsOf
<1>7. k.tid \notin TidsOf(K, k.tid[3])
  BY <1>1 DEF TidsOf
<1> QED
  BY <1>2, <1>3, <1>4, <1>6, <1>7 DEF KernAdded

(* L4_ThreadControl deletes one.                                           *)
KernDropped(L, K, k) ==
  /\ KernOnce(L) /\ L \in SUBSET Kerns /\ L = K \ {k}
  /\ \A m, b : Taken(L, m, b) <=> Taken(K, m, b) /\ ~(m = k.tid[1] /\ b = k.tid[2])
  /\ \A u : u # k.tid[3] => TidsOf(L, u) = TidsOf(K, u) /\ SlotsOf(L, u) = SlotsOf(K, u)
  /\ TidsOf(L, k.tid[3]) = TidsOf(K, k.tid[3]) \ {k.tid}
  /\ SlotsOf(L, k.tid[3]) = SlotsOf(K, k.tid[3]) \ {k.slot}
  /\ k.slot \in SlotsOf(K, k.tid[3]) /\ k.tid \in TidsOf(K, k.tid[3])
LEMMA KernDrop ==
  ASSUME NEW K \in SUBSET Kerns, NEW k \in K, KernOnce(K), NEW L, L = {l \in K : l.tid # k.tid}
  PROVE  KernDropped(L, K, k)
<1>1. \A l \in K : l # k => ~(l.tid[1] = k.tid[1] /\ l.tid[2] = k.tid[2]) /\ ~(l.tid[3] = k.tid[3] /\ l.slot = k.slot)
  BY DEF KernOnce
<1>2. \A l \in K : l # k => l.tid # k.tid
  BY <1>1
<1>3. L = K \ {k}
  BY <1>2
<1>4. KernOnce(L)
  BY <1>3 DEF KernOnce
<1>5. \A m, b : Taken(L, m, b) <=> Taken(K, m, b) /\ ~(m = k.tid[1] /\ b = k.tid[2])
  BY <1>1, <1>3 DEF Taken
<1>6. ASSUME NEW u, u # k.tid[3] PROVE TidsOf(L, u) = TidsOf(K, u) /\ SlotsOf(L, u) = SlotsOf(K, u)
  <2>1. {l \in L : l.tid[3] = u} = {l \in K : l.tid[3] = u}
    BY <1>3, <1>6
  <2> QED
    BY <2>1 DEF TidsOf, SlotsOf
<1>7. {l \in L : l.tid[3] = k.tid[3]} = {l \in K : l.tid[3] = k.tid[3]} \ {k}
  BY <1>3
<1>8. TidsOf(L, k.tid[3]) = TidsOf(K, k.tid[3]) \ {k.tid}
  BY <1>1, <1>2, <1>3, <1>7 DEF TidsOf
<1>9. SlotsOf(L, k.tid[3]) = SlotsOf(K, k.tid[3]) \ {k.slot}
  BY <1>1, <1>3, <1>7 DEF SlotsOf
<1>10. k.slot \in SlotsOf(K, k.tid[3]) /\ k.tid \in TidsOf(K, k.tid[3])
  BY DEF SlotsOf, TidsOf
<1> QED
  BY <1>3, <1>4, <1>5, <1>6, <1>8, <1>9, <1>10 DEF KernDropped

(* Sets of thread numbers are finite.                                      *)
LEMMA FreeFinite ==
  ASSUME NEW S \in SUBSET Bits
  PROVE  IsFiniteSet(S) /\ Cardinality(S) \in Nat
BY RtAssumption, FS_Subset, FS_CardinalityType
(* A number taken out, a number put back.                                  *)
LEMMA FreeCount ==
  ASSUME NEW S \in SUBSET Bits, NEW b \in Bits
  PROVE  /\ b \in S => Cardinality(S \ {b}) = Cardinality(S) - 1
         /\ b \notin S => Cardinality(S \cup {b}) = Cardinality(S) + 1
         /\ Cardinality(S) > 0 <=> S # {}
<1>1. IsFiniteSet(S) /\ Cardinality(S) \in Nat
  BY FreeFinite
<1>2. b \in S => Cardinality(S \ {b}) = Cardinality(S) - 1
  BY <1>1, FS_RemoveElement
<1>3. b \notin S => Cardinality(S \cup {b}) = Cardinality(S) + 1
  BY <1>1, FS_AddElement
<1>4. Cardinality(S) = 0 <=> S = {}
  BY <1>1, FS_EmptySet
<1> QED
  BY <1>1, <1>2, <1>3, <1>4

-----------------------------------------------------------------------------
(* The books through one thread more, one thread less. *)
OtherMaps(d, r, m) == \A x \in Maps : x # m => d.free[x] = r.free[x] /\ d.count[x] = r.count[x]

LEMMA NumbersTake ==
  ASSUME NEW r \in RtStates, NEW d \in RtStates, NumbersOk(r), NEW m \in Maps, NEW b \in r.free[m],
         OtherMaps(d, r, m), d.free[m] = r.free[m] \ {b}, d.count[m] = r.count[m] - 1,
         \A x, y : Taken(d.kern, x, y) <=> Taken(r.kern, x, y) \/ (x = m /\ y = b)
  PROVE  NumbersOk(d)
<1>1. r.free[m] \in SUBSET Bits /\ b \in Bits
  BY StateParts
<1>2. d.count[m] = Cardinality(d.free[m])
  <2>1. PICK F \in SUBSET Bits : F = r.free[m]
    BY <1>1
  <2>2. Cardinality(F \ {b}) = Cardinality(F) - 1
    BY <1>1, <2>1, FreeCount
  <2>3. r.count[m] = Cardinality(F)
    BY <2>1 DEF NumbersOk
  <2> QED
    BY <2>1, <2>2, <2>3
<1>3. ASSUME NEW x \in Maps
      PROVE  /\ d.count[x] = Cardinality(d.free[x])
             /\ \A y \in Bits : /\ y \in d.free[x] <=> ~Taken(d.kern, x, y) /\ ~(x = 0 /\ y \in Burnt)
                                /\ x = 0 /\ y \in Burnt => ~Taken(d.kern, x, y)
  <2>1. CASE x = m
    BY <1>1, <1>2, <2>1 DEF NumbersOk
  <2>2. CASE x # m
    BY <2>2 DEF NumbersOk, OtherMaps
  <2> QED
    BY <2>1, <2>2
<1> QED
  BY <1>3 DEF NumbersOk

LEMMA NumbersGive ==
  ASSUME NEW r \in RtStates, NEW d \in RtStates, NumbersOk(r), NEW m \in Maps, NEW b \in Bits, Taken(r.kern, m, b),
         OtherMaps(d, r, m), d.free[m] = r.free[m] \cup {b}, d.count[m] = r.count[m] + 1,
         \A x, y : Taken(d.kern, x, y) <=> Taken(r.kern, x, y) /\ ~(x = m /\ y = b)
  PROVE  NumbersOk(d) /\ b \notin r.free[m]
<1>1. r.free[m] \in SUBSET Bits /\ b \notin r.free[m] /\ ~(m = 0 /\ b \in Burnt)
  BY StateParts DEF NumbersOk
<1>2. d.count[m] = Cardinality(d.free[m])
  <2>1. PICK F \in SUBSET Bits : F = r.free[m]
    BY <1>1
  <2>2. Cardinality(F \cup {b}) = Cardinality(F) + 1
    BY <1>1, <2>1, FreeCount
  <2>3. r.count[m] = Cardinality(F)
    BY <2>1 DEF NumbersOk
  <2> QED
    BY <2>1, <2>2, <2>3
<1>3. ASSUME NEW x \in Maps
      PROVE  /\ d.count[x] = Cardinality(d.free[x])
             /\ \A y \in Bits : /\ y \in d.free[x] <=> ~Taken(d.kern, x, y) /\ ~(x = 0 /\ y \in Burnt)
                                /\ x = 0 /\ y \in Burnt => ~Taken(d.kern, x, y)
  <2>1. CASE x = m
    BY <1>1, <1>2, <2>1 DEF NumbersOk
  <2>2. CASE x # m
    BY <2>2 DEF NumbersOk, OtherMaps
  <2> QED
    BY <2>1, <2>2
<1> QED
  BY <1>1, <1>3 DEF NumbersOk

(* The parts of the books. *)
LEMMA BooksParts ==
  ASSUME NEW r, Books(r)
  PROVE  /\ r \in RtStates /\ NumbersOk(r) /\ KernOnce(r.kern) /\ ListsOk(r) /\ r.kern \in SUBSET Kerns
         /\ \A p \in Tasks : /\ r.task[p] \in TaskRecs /\ r.task[p].threads \in Seq(Tids) /\ Once(r.task[p].threads)
                             /\ ToSet(r.task[p].threads) = TidsOf(r.kern, p) /\ r.task[p].utcb_free \in SUBSET Slots
                             /\ r.task[p].threads # <<>> => r.task[p].on /\ r.task[p].utcb_free = Slots \ SlotsOf(r.kern, p)
                             /\ r.task[p].threads = <<>> <=> TidsOf(r.kern, p) = {}
                             /\ TidsOf(r.kern, p) = {} => SlotsOf(r.kern, p) = {}
<1>1. r \in RtStates /\ NumbersOk(r) /\ KernOnce(r.kern) /\ ListsOk(r) /\ r.kern \in SUBSET Kerns
  BY StateParts DEF Books
<1>2. ASSUME NEW p \in Tasks
      PROVE  /\ r.task[p] \in TaskRecs /\ r.task[p].threads \in Seq(Tids) /\ Once(r.task[p].threads)
             /\ ToSet(r.task[p].threads) = TidsOf(r.kern, p) /\ r.task[p].utcb_free \in SUBSET Slots
             /\ r.task[p].threads # <<>> => r.task[p].on /\ r.task[p].utcb_free = Slots \ SlotsOf(r.kern, p)
  <2>1. r.task[p] \in TaskRecs
    BY <1>1, StateParts
  <2> QED
    BY <1>1, <2>1, TaskParts DEF ListsOk, ListOk
<1>3. ASSUME NEW p \in Tasks
      PROVE  r.task[p].threads = <<>> <=> TidsOf(r.kern, p) = {}
  <2>1. PICK sl \in Seq(Tids) : sl = r.task[p].threads
    BY <1>2
  <2>2. ToSet(sl) = {sl[i] : i \in 1..Len(sl)}
    BY DEF ToSet
  <2>3. sl = <<>> => ToSet(sl) = {}
    BY <2>2
  <2>4. sl # <<>> => ToSet(sl) # {}
    <3>1. sl # <<>> => 1 \in 1..Len(sl)
      OBVIOUS
    <3> QED
      BY <2>2, <3>1
  <2> QED
    BY <1>2, <2>1, <2>3, <2>4
<1>4. \A p \in Tasks : TidsOf(r.kern, p) = {} => SlotsOf(r.kern, p) = {}
  BY DEF TidsOf, SlotsOf
<1> QED
  BY <1>1, <1>2, <1>3, <1>4

(* task_common_ctor() of a task without threads.                           *)
LEMMA CtorBooks ==
  ASSUME NEW r, Books(r), NEW p \in Tasks, r.task[p].threads = <<>>, NEW d, d = task_common_ctor(r, p)
  PROVE  /\ Books(d) /\ SameRest(d, r) /\ OthersSame(d, r, p) /\ d.kern = r.kern /\ d.space = r.space /\ d.bad = r.bad
         /\ d.free = r.free /\ d.count = r.count /\ d.task[p] = Fresh
         /\ d.task[p].on /\ d.task[p].threads = <<>> /\ d.task[p].utcb_free = Slots \ SlotsOf(d.kern, p)
<1>1. r \in RtStates
  BY BooksParts
<1>2. /\ d \in RtStates /\ SameRest(d, r) /\ OthersSame(d, r, p) /\ d.task[p] = Fresh
      /\ d.free = r.free /\ d.count = r.count /\ d.kern = r.kern /\ d.space = r.space /\ d.bad = r.bad
  BY <1>1, CtorFields
<1>3. d.task[p].on /\ d.task[p].threads = <<>> /\ d.task[p].utcb_free = Slots
  BY <1>2 DEF Fresh
<1>4. TidsOf(d.kern, p) = {} /\ SlotsOf(d.kern, p) = {} /\ NumbersOk(r) /\ KernOnce(r.kern) /\ ListsOk(r)
  BY <1>2, BooksParts
<1>5. NumbersOk(d) /\ KernOnce(d.kern)
  BY <1>2, <1>4 DEF NumbersOk
<1>6. ListOk(d.task[p], d.kern, p)
  <2>1. ToSet(<<>>) = {} /\ Once(<<>>)
    BY DEF ToSet, Once
  <2> QED
    BY <1>3, <1>4, <2>1 DEF ListOk
<1>7. ListsOk(d)
  BY <1>2, <1>4, <1>6 DEF ListsOk, OthersSame
<1> QED
  BY <1>2, <1>3, <1>4, <1>5, <1>7 DEF Books

-----------------------------------------------------------------------------
(* allocate_thread() and the thread made of it. *)
(* The map it takes a number from has one.                                 *)
LEMMA MapForFacts ==
  ASSUME NEW r, Books(r), NEW p \in Tasks, MapFor(r, p) # {}
  PROVE  LET m == Lowest(MapFor(r, p)) IN m \in Maps /\ r.free[m] # {} /\ Lowest(r.free[m]) \in r.free[m]
<1>1. r \in RtStates /\ NumbersOk(r)
  BY BooksParts
<1>2. \A m \in Maps : r.free[m] \in SUBSET Bits /\ (r.count[m] > 0 <=> r.free[m] # {})
  <2>1. ASSUME NEW m \in Maps PROVE r.free[m] \in SUBSET Bits /\ (r.count[m] > 0 <=> r.free[m] # {})
    <3>1. PICK F \in SUBSET Bits : F = r.free[m]
      BY <1>1, StateParts
    <3>2. r.count[m] = Cardinality(F)
      BY <1>1, <3>1 DEF NumbersOk
    <3>3. PICK b : b \in Bits
      <4>1. Bits \ Burnt # {}
        BY RtAssumption, FS_EmptySet
      <4> QED
        BY <4>1
    <3> QED
      BY <3>1, <3>2, <3>3, FreeCount
  <2> QED
    BY <2>1
<1>3. \A m \in MapFor(r, p) : m \in Maps /\ r.count[m] > 0
  <2>1. CASE p \in RtUsers
    BY <2>1, RtAssumption DEF MapFor
  <2>2. CASE p \notin RtUsers
    <3>1. PICK S : S = {m \in Maps : r.count[m] > 0}
      OBVIOUS
    <3>2. S \in SUBSET Nat
      BY <3>1, RtAssumption
    <3>3. MapFor(r, p) = IF S = {} THEN {} ELSE {Lowest(S)}
      BY <2>2, <3>1 DEF MapFor
    <3>4. S # {}
      BY <3>3
    <3>5. Lowest(S) \in S
      BY <3>2, <3>4, LowestFacts
    <3> QED
      BY <3>1, <3>3, <3>4, <3>5
  <2> QED
    BY <2>1, <2>2
<1>4. PICK m : m = Lowest(MapFor(r, p))
  OBVIOUS
<1>5. m \in Maps /\ r.free[m] # {}
  <2>1. MapFor(r, p) \in SUBSET Nat
    BY <1>3, RtAssumption
  <2>2. m \in MapFor(r, p)
    BY <1>4, <2>1, LowestFacts
  <2> QED
    BY <1>2, <1>3, <2>2
<1>6. r.free[m] \in SUBSET Nat
  BY <1>2, <1>5, RtAssumption
<1>7. Lowest(r.free[m]) \in r.free[m]
  BY <1>5, <1>6, LowestFacts
<1> QED
  BY <1>4, <1>5, <1>7

(* What allocate_thread() does to the books.                               *)
Allocated(d, r, p, m, b, sl) ==
  /\ d \in RtStates /\ SameRest(d, r) /\ OthersSame(d, r, p) /\ d.kern = r.kern /\ d.space = r.space /\ d.bad = r.bad
  /\ OtherMaps(d, r, m) /\ d.free[m] = r.free[m] \ {b} /\ d.count[m] = r.count[m] - 1
  /\ d.task[p].on = r.task[p].on /\ d.task[p].threads = Append(r.task[p].threads, Tid(m, b, p))
  /\ d.task[p].utcb_free = r.task[p].utcb_free \ {sl}
LEMMA AllocateFields ==
  ASSUME NEW r, Books(r), NEW p \in Tasks, NEW a, a = allocate_thread(r, p)
  PROVE  /\ a.tid = NoTid => a.r = r
         /\ a.tid # NoTid => /\ r.task[p].on
                             /\ \E m \in Maps : \E b \in r.free[m] :
                                  /\ a.tid = Tid(m, b, p) /\ a.slot \in r.task[p].utcb_free
                                  /\ Allocated(a.r, r, p, m, b, a.slot)
         /\ r.task[p].on /\ r.task[p].utcb_free # {} /\ MapFor(r, p) # {} => a.tid # NoTid
         /\ a = [r |-> a.r, tid |-> a.tid, slot |-> a.slot]
<1>1. r \in RtStates /\ NumbersOk(r)
  BY BooksParts
<1>2. PICK x \in TaskRecs : x = r.task[p]
  BY <1>1, StateParts
<1>3. CASE MapFor(r, p) = {} \/ ~r.task[p].on \/ r.task[p].utcb_free = {}
  <2>1. a = [r |-> r, tid |-> NoTid, slot |-> 0]
    BY <1>3 DEF allocate_thread, get_task, NoSlot
  <2> QED
    BY <1>3, <2>1
<1>4. CASE MapFor(r, p) # {} /\ r.task[p].on /\ r.task[p].utcb_free # {}
  <2>1. PICK m : m = Lowest(MapFor(r, p))
    OBVIOUS
  <2>2. m \in Maps /\ r.free[m] # {}
    BY <1>4, <2>1, MapForFacts
  <2>3. PICK b \in r.free[m] : b = Lowest(r.free[m])
    BY <1>4, <2>1, MapForFacts
  <2>4. b \in Bits /\ r.free[m] \in SUBSET Bits /\ r.count[m] \in Nat
    BY <1>1, <2>2, <2>3, StateParts
  <2>5. PICK sl \in x.utcb_free : sl = Lowest(x.utcb_free)
    <3>1. x.utcb_free \in SUBSET Nat
      BY <1>2, TaskParts, RtAssumption
    <3> QED
      BY <1>2, <1>4, <3>1, LowestFacts
  <2>6. PICK tid : tid = Tid(m, b, p)
    OBVIOUS
  <2>7. tid \in Tids /\ tid # NoTid
    BY <2>2, <2>4, <2>6 DEF Tid, Tids, NoTid
  <2>8. PICK z : z = [on |-> x.on, threads |-> Append(x.threads, tid), utcb_free |-> x.utcb_free \ {sl}]
    OBVIOUS
  <2>9. z \in TaskRecs
    BY <2>7, <2>8, TaskParts DEF TaskRecs
  <2>10. PICK d : d = [r EXCEPT !.free[m] = @ \ {b}, !.count[m] = @ - 1, !.task[p] = z]
    OBVIOUS
  <2>11. a = [r |-> d, tid |-> tid, slot |-> sl]
    BY <1>2, <1>4, <2>1, <2>3, <2>5, <2>6, <2>8, <2>10 DEF allocate_thread, get_task
  <2>12. /\ d.proc = r.proc /\ d.kern = r.kern /\ d.space = r.space
         /\ d.next_user_pid = r.next_user_pid /\ d.half = r.half /\ d.bad = r.bad
    BY <1>1, <2>10, StateParts
  <2>13. d.free = [r.free EXCEPT ![m] = @ \ {b}] /\ d.count = [r.count EXCEPT ![m] = @ - 1]
    BY <1>1, <2>10, StateParts
  <2>14. d.task = [r.task EXCEPT ![p] = z]
    BY <1>1, <2>10, StateParts
  <2>15. AllParts(d)
    BY <1>1, <2>10, StateParts DEF AllParts
  <2>16. d.task \in [Tasks -> TaskRecs] /\ d.task[p] = z /\ \A u \in Tasks : u # p => d.task[u] = r.task[u]
    BY <1>1, <2>9, <2>14, StateParts
  <2>17. d.free[m] = r.free[m] \ {b} /\ d.count[m] = r.count[m] - 1 /\ OtherMaps(d, r, m)
    BY <1>1, <2>2, <2>13, StateParts DEF OtherMaps
  <2>18. d.free \in [Maps -> SUBSET Bits]
    BY <1>1, <2>2, <2>13, StateParts
  <2>19. d.count \in [Maps -> Nat]
    <3>1. r.count[m] > 0
      <4>1. PICK F \in SUBSET Bits : F = r.free[m]
        BY <2>4
      <4>2. r.count[m] = Cardinality(F)
        BY <1>1, <2>2, <4>1 DEF NumbersOk
      <4> QED
        BY <2>4, <2>2, <4>1, <4>2, FreeCount
    <3>2. r.count[m] - 1 \in Nat
      BY <2>4, <3>1
    <3> QED
      BY <1>1, <2>2, <2>13, <3>2, StateParts
  <2>20. d \in RtStates
    BY <1>1, <2>12, <2>15, <2>16, <2>18, <2>19, StateParts, IsState
  <2>21. Allocated(d, r, p, m, b, sl)
    BY <1>2, <2>6, <2>8, <2>12, <2>16, <2>17, <2>20 DEF Allocated, SameRest, OthersSame
  <2> QED
    BY <1>2, <1>4, <2>2, <2>5, <2>6, <2>7, <2>11, <2>21
<1> QED
  BY <1>3, <1>4

(* A thread made with the number and the place allocate_thread() found.    *)
Launched(d, r, p, tid, slot) ==
  /\ Books(d) /\ SameRest(d, r) /\ OthersSame(d, r, p) /\ d.space = r.space /\ d.bad = r.bad
  /\ tid \in Tids /\ tid[3] = p /\ slot \in Slots /\ d.kern = r.kern \cup {[tid |-> tid, slot |-> slot]}
  /\ d.task[p].on /\ d.task[p].threads # <<>> /\ ToSet(d.task[p].threads) = ToSet(r.task[p].threads) \cup {tid}
  /\ tid \notin ToSet(r.task[p].threads)
  /\ OtherMaps(d, r, tid[1]) /\ d.count[tid[1]] = r.count[tid[1]] - 1
LEMMA LaunchBooks ==
  ASSUME NEW r, Books(r), NEW p \in Tasks, r.task[p].utcb_free = Slots \ SlotsOf(r.kern, p),
         NEW a, a = allocate_thread(r, p), a.tid # NoTid, NEW d, d = Create(a.r, a.tid, a.slot)
  PROVE  Launched(d, r, p, a.tid, a.slot)
<1>1. /\ r \in RtStates /\ NumbersOk(r) /\ KernOnce(r.kern) /\ ListsOk(r) /\ r.kern \in SUBSET Kerns
      /\ r.task[p].threads \in Seq(Tids) /\ Once(r.task[p].threads) /\ ToSet(r.task[p].threads) = TidsOf(r.kern, p)
  BY BooksParts
<1>0. PICK m \in Maps : \E b \in r.free[m] :
        /\ a.tid = Tid(m, b, p) /\ a.slot \in r.task[p].utcb_free /\ Allocated(a.r, r, p, m, b, a.slot)
  BY AllocateFields
<1>2. PICK b \in r.free[m] :
        /\ a.tid = Tid(m, b, p) /\ a.slot \in r.task[p].utcb_free /\ Allocated(a.r, r, p, m, b, a.slot)
  BY <1>0
<1>3. r.task[p].on
  BY AllocateFields
<1>4. PICK c : c = a.r
  OBVIOUS
<1>5. PICK sl \in Slots : sl = a.slot
  BY <1>2
<1>6. PICK tid \in Tids : tid = a.tid /\ tid[1] = m /\ tid[2] = b /\ tid[3] = p /\ tid = Tid(m, b, p)
  <2>1. b \in Bits
    BY <1>1, StateParts
  <2> QED
    BY <1>2, <2>1 DEF Tid, Tids
<1>7. Allocated(c, r, p, m, b, sl)
  BY <1>2, <1>4, <1>5
<1>8. c \in RtStates /\ c.kern = r.kern
  BY <1>7 DEF Allocated
<1>9. d = Create(c, tid, sl)
  BY <1>4, <1>5, <1>6
<1>10. /\ d.free = c.free /\ d.count = c.count /\ d.task = c.task /\ d.proc = c.proc
       /\ d.kern = c.kern \cup {[tid |-> tid, slot |-> sl]} /\ d.space = c.space
       /\ d.next_user_pid = c.next_user_pid /\ d.half = c.half
       /\ d.bad = c.bad \cup Unless(Fits(c, tid, sl), "created") /\ d \in RtStates
  BY <1>8, <1>9, CreateFields
<1>11. PICK k \in Kerns : k = [tid |-> tid, slot |-> sl]
  BY DEF Kerns
<1>12. k.tid = tid /\ k.slot = sl
  BY <1>11
<1>13. ~Taken(r.kern, m, b) /\ sl \notin SlotsOf(r.kern, p)
  <2>1. b \in Bits
    BY <1>1, StateParts
  <2> QED
    BY <1>1, <1>2, <1>5, <2>1 DEF NumbersOk
<1>14. Fits(c, tid, sl)
  BY <1>6, <1>8, <1>13 DEF Fits, Taken, SlotsOf
<1>15. d.bad = r.bad
  BY <1>7, <1>10, <1>14 DEF Allocated, Unless
<1>16. PICK K \in SUBSET Kerns : K = r.kern
  BY <1>1
<1>17. PICK L : L = K \cup {k} /\ L = d.kern
  BY <1>8, <1>10, <1>11, <1>16
<1>18. ~Taken(K, k.tid[1], k.tid[2]) /\ k.slot \notin SlotsOf(K, k.tid[3]) /\ KernOnce(K)
  BY <1>1, <1>6, <1>12, <1>13, <1>16
<1>19. KernAdded(L, K, k)
  BY <1>17, <1>18, KernAdd
<1>20. /\ \A x, y : Taken(d.kern, x, y) <=> Taken(r.kern, x, y) \/ (x = m /\ y = b)
       /\ \A u : u # p => TidsOf(d.kern, u) = TidsOf(r.kern, u) /\ SlotsOf(d.kern, u) = SlotsOf(r.kern, u)
       /\ TidsOf(d.kern, p) = TidsOf(r.kern, p) \cup {tid}
       /\ SlotsOf(d.kern, p) = SlotsOf(r.kern, p) \cup {sl} /\ tid \notin TidsOf(r.kern, p)
  <2>1. k.tid[1] = m /\ k.tid[2] = b /\ k.tid[3] = p /\ k.tid = tid /\ k.slot = sl /\ d.kern = L /\ r.kern = K
    BY <1>6, <1>12, <1>16, <1>17
  <2>2. \A x, y : Taken(L, x, y) <=> Taken(K, x, y) \/ (x = m /\ y = b)
    BY <1>19, <2>1 DEF KernAdded
  <2>3. \A u : u # p => TidsOf(L, u) = TidsOf(K, u) /\ SlotsOf(L, u) = SlotsOf(K, u)
    BY <1>19, <2>1 DEF KernAdded
  <2>4. TidsOf(L, p) = TidsOf(K, p) \cup {tid} /\ SlotsOf(L, p) = SlotsOf(K, p) \cup {sl} /\ tid \notin TidsOf(K, p)
    BY <1>19, <2>1 DEF KernAdded
  <2> QED
    BY <2>1, <2>2, <2>3, <2>4
<1>21. OtherMaps(d, r, m) /\ d.free[m] = r.free[m] \ {b} /\ d.count[m] = r.count[m] - 1
  BY <1>7, <1>10 DEF Allocated, OtherMaps
<1>22. NumbersOk(d)
  BY <1>1, <1>10, <1>20, <1>21, NumbersTake
<1>23. OthersSame(d, r, p) /\ SameRest(d, r) /\ d.space = r.space
  BY <1>7, <1>10 DEF Allocated, OthersSame, SameRest
<1>24. /\ d.task[p].on /\ d.task[p].utcb_free = r.task[p].utcb_free \ {sl}
       /\ d.task[p].threads = Append(r.task[p].threads, tid)
  BY <1>3, <1>6, <1>7, <1>10 DEF Allocated
<1>25. PICK ts \in Seq(Tids) : ts = r.task[p].threads
  BY <1>1
<1>26. PICK q : q = Append(ts, tid)
  OBVIOUS
<1>27. q \in Seq(Tids) /\ Len(q) = Len(ts) + 1 /\ Len(ts) \in Nat /\ (\A i \in 1..Len(ts) : q[i] = ts[i]) /\ q[Len(ts) + 1] = tid
  BY <1>26
<1>28. ToSet(q) = ToSet(ts) \cup {tid} /\ q # <<>>
  <2>1. ToSet(q) = {q[i] : i \in 1..Len(q)} /\ ToSet(ts) = {ts[i] : i \in 1..Len(ts)}
    BY DEF ToSet
  <2>2. \A i \in 1..Len(q) : i \in 1..Len(ts) \/ i = Len(ts) + 1
    BY <1>27
  <2>3. \A i \in 1..Len(ts) : i \in 1..Len(q)
    BY <1>27
  <2>4. Len(ts) + 1 \in 1..Len(q)
    BY <1>27
  <2> QED
    BY <1>27, <2>1, <2>2, <2>3, <2>4
<1>29. Once(q)
  <2>1. tid \notin ToSet(ts) /\ Once(ts)
    BY <1>1, <1>20, <1>25
  <2>2. \A i \in 1..Len(ts) : ts[i] # tid
    BY <2>1 DEF ToSet
  <2> QED
    BY <1>27, <2>1, <2>2 DEF Once
<1>30. ListOk(d.task[p], d.kern, p)
  BY <1>1, <1>5, <1>20, <1>24, <1>25, <1>26, <1>28, <1>29 DEF ListOk
<1>31. ListsOk(d)
  <2>1. ASSUME NEW u \in Tasks, u # p PROVE ListOk(d.task[u], d.kern, u)
    <3>1. d.task[u] = r.task[u] /\ TidsOf(d.kern, u) = TidsOf(r.kern, u) /\ SlotsOf(d.kern, u) = SlotsOf(r.kern, u)
      BY <1>20, <1>23, <2>1 DEF OthersSame
    <3>2. ListOk(r.task[u], r.kern, u)
      BY <1>1 DEF ListsOk
    <3> QED
      BY <3>1, <3>2 DEF ListOk
  <2> QED
    BY <1>30, <2>1 DEF ListsOk
<1>32. Books(d)
  BY <1>10, <1>17, <1>19, <1>22, <1>31 DEF Books, KernAdded
<1>33. d.kern = r.kern \cup {[tid |-> tid, slot |-> sl]} /\ tid \notin ToSet(r.task[p].threads)
       /\ d.task[p].threads # <<>> /\ ToSet(d.task[p].threads) = ToSet(r.task[p].threads) \cup {tid}
  BY <1>1, <1>8, <1>10, <1>20, <1>24, <1>25, <1>26, <1>28
<1>34. Launched(d, r, p, tid, sl)
  BY <1>6, <1>15, <1>21, <1>23, <1>24, <1>32, <1>33 DEF Launched
<1> QED
  BY <1>5, <1>6, <1>34

-----------------------------------------------------------------------------
(* A thread goes: its number, its place, its entry in the list. *)
Removed(d, r, k) ==
  /\ Books(d) /\ SameRest(d, r) /\ OthersSame(d, r, k.tid[3]) /\ d.space = r.space /\ d.bad = r.bad
  /\ d.kern = r.kern \ {k} /\ d.task[k.tid[3]].on = r.task[k.tid[3]].on
  /\ ToSet(d.task[k.tid[3]].threads) = ToSet(r.task[k.tid[3]].threads) \ {k.tid}
LEMMA NoThreads ==
  ASSUME NEW r, Books(r), NEW p \in Tasks
  PROVE  r.task[p].threads = <<>> <=> TidsOf(r.kern, p) = {}
BY BooksParts
(* What the steps that take thread k from task p leave of r. *)
Cleared(d, r, k, p, m) ==
  /\ d \in RtStates /\ d.kern = {l \in r.kern : l.tid # k.tid} /\ OtherMaps(d, r, m)
  /\ d.free[m] = r.free[m] \cup {k.tid[2]} /\ d.count[m] = r.count[m] + 1
  /\ SameRest(d, r) /\ OthersSame(d, r, p) /\ d.space = r.space /\ d.bad = r.bad /\ d.task[p].on = r.task[p].on
  /\ d.task[p].threads = tidlist_remove_from(r.task[p].threads, k.tid)
  /\ d.task[p].utcb_free = r.task[p].utcb_free \cup {k.slot}
LEMMA RemoveBooks ==
  ASSUME NEW r, Books(r), NEW k \in r.kern, NEW p \in Tasks, p = k.tid[3], NEW m \in Maps, m = k.tid[1],
         NEW d, Cleared(d, r, k, p, m)
  PROVE  Removed(d, r, k)
<1>1. r \in RtStates /\ NumbersOk(r) /\ KernOnce(r.kern) /\ ListsOk(r) /\ r.kern \in SUBSET Kerns
  BY BooksParts
<1>2. /\ r.task[p].threads \in Seq(Tids) /\ Once(r.task[p].threads) /\ ToSet(r.task[p].threads) = TidsOf(r.kern, p)
      /\ r.task[p].threads # <<>> => r.task[p].on /\ r.task[p].utcb_free = Slots \ SlotsOf(r.kern, p)
  BY BooksParts
<1>3. r.task[p].threads = <<>> <=> TidsOf(r.kern, p) = {}
  BY NoThreads
<1>4. d \in RtStates
  BY DEF Cleared
<1>5. PICK K \in SUBSET Kerns : K = r.kern
  BY <1>1
<1>6. PICK L : L = d.kern
  OBVIOUS
<1>7. L = {l \in K : l.tid # k.tid} /\ KernOnce(K) /\ k \in K
  BY <1>1, <1>5, <1>6 DEF Cleared
<1>8. KernDropped(L, K, k)
  BY <1>7, KernDrop
<1>9. PICK b \in Bits : b = k.tid[2]
  BY <1>1, KernParts
<1>10. k.slot \in Slots /\ k.tid \in Tids
  BY <1>1, KernParts
<1>11. NumbersOk(d)
  <2>1. Taken(r.kern, m, b)
    BY <1>9 DEF Taken
  <2>2. OtherMaps(d, r, m) /\ d.free[m] = r.free[m] \cup {b} /\ d.count[m] = r.count[m] + 1
    BY <1>9 DEF Cleared
  <2>3. \A x, y : Taken(d.kern, x, y) <=> Taken(r.kern, x, y) /\ ~(x = m /\ y = b)
    BY <1>5, <1>6, <1>8, <1>9 DEF KernDropped
  <2> QED
    BY <1>1, <1>4, <2>1, <2>2, <2>3, NumbersGive
<1>12. \A u : u # p => TidsOf(d.kern, u) = TidsOf(r.kern, u) /\ SlotsOf(d.kern, u) = SlotsOf(r.kern, u)
  BY <1>5, <1>6, <1>8 DEF KernDropped
<1>13. /\ TidsOf(d.kern, p) = TidsOf(r.kern, p) \ {k.tid} /\ SlotsOf(d.kern, p) = SlotsOf(r.kern, p) \ {k.slot}
       /\ k.slot \in SlotsOf(r.kern, p) /\ k.tid \in TidsOf(r.kern, p)
  BY <1>5, <1>6, <1>8 DEF KernDropped
<1>14. d.kern = r.kern \ {k} /\ KernOnce(d.kern)
  BY <1>5, <1>6, <1>8 DEF KernDropped
<1>15. PICK ts \in Seq(Tids) : ts = r.task[p].threads
  BY <1>2
<1>16. PICK tid \in ToSet(ts) : tid = k.tid
  BY <1>2, <1>13, <1>15
<1>17. PICK q : q = tidlist_remove_from(ts, tid)
  OBVIOUS
<1>18. Once(q) /\ ToSet(q) = ToSet(ts) \ {tid}
  <2>1. Once(ts)
    BY <1>2, <1>15
  <2> QED
    BY <1>17, <2>1, WithoutFacts
<1>19. d.task[p].threads = q
  BY <1>15, <1>16, <1>17 DEF Cleared
<1>20. r.task[p].on /\ r.task[p].utcb_free = Slots \ SlotsOf(r.kern, p)
  BY <1>2, <1>3, <1>13
<1>21. d.task[p].on /\ d.task[p].utcb_free = Slots \ SlotsOf(d.kern, p)
  BY <1>10, <1>13, <1>20 DEF Cleared
<1>22. ToSet(d.task[p].threads) = ToSet(r.task[p].threads) \ {k.tid}
  BY <1>15, <1>16, <1>18, <1>19
<1>23. ListOk(d.task[p], d.kern, p)
  <2>1. Once(d.task[p].threads)
    BY <1>18, <1>19
  <2>2. ToSet(d.task[p].threads) = TidsOf(d.kern, p)
    BY <1>2, <1>13, <1>22
  <2> QED
    BY <1>21, <2>1, <2>2 DEF ListOk
<1>24. ListsOk(d)
  <2>1. ASSUME NEW u \in Tasks, u # p PROVE ListOk(d.task[u], d.kern, u)
    <3>1. d.task[u] = r.task[u]
      BY <2>1 DEF OthersSame, Cleared
    <3>2. TidsOf(d.kern, u) = TidsOf(r.kern, u) /\ SlotsOf(d.kern, u) = SlotsOf(r.kern, u)
      BY <1>12, <2>1
    <3>3. ListOk(r.task[u], r.kern, u)
      BY <1>1 DEF ListsOk
    <3> QED
      BY <3>1, <3>2, <3>3 DEF ListOk
  <2> QED
    BY <1>23, <2>1 DEF ListsOk
<1>25. Books(d)
  BY <1>4, <1>11, <1>14, <1>24 DEF Books
<1> QED
  BY <1>14, <1>22, <1>25 DEF Removed, Cleared

(* What a thread has is not free.                                          *)
LEMMA ThreadHas ==
  ASSUME NEW r, Books(r), NEW k \in r.kern
  PROVE  /\ k.tid \in Tids /\ k.slot \in Slots /\ k.tid[1] \in Maps /\ k.tid[2] \in Bits /\ k.tid[3] \in Tasks
         /\ k.tid \in ToSet(r.task[k.tid[3]].threads) /\ r.task[k.tid[3]].threads # <<>>
         /\ k.tid[2] \notin r.free[k.tid[1]] /\ k.slot \notin r.task[k.tid[3]].utcb_free
         /\ SlotOf(r, k.tid) = k.slot
<1>1. r \in RtStates /\ NumbersOk(r) /\ KernOnce(r.kern) /\ r.kern \in SUBSET Kerns
  BY BooksParts
<1>2. k.tid \in Tids /\ k.slot \in Slots /\ k.tid[1] \in Maps /\ k.tid[2] \in Bits
  BY <1>1, KernParts
<1>3. PICK p \in Tasks : p = k.tid[3]
  BY <1>1, KernParts
<1>4. k.tid \in TidsOf(r.kern, p) /\ k.slot \in SlotsOf(r.kern, p)
  BY <1>3 DEF TidsOf, SlotsOf
<1>5. /\ ToSet(r.task[p].threads) = TidsOf(r.kern, p) /\ r.task[p].threads # <<>>
      /\ r.task[p].utcb_free = Slots \ SlotsOf(r.kern, p)
  BY <1>4, BooksParts
<1>6. k.tid[2] \notin r.free[k.tid[1]]
  BY <1>1, <1>2 DEF NumbersOk, Taken
<1>7. SlotOf(r, k.tid) = k.slot
  <2>1. PICK l : l = CHOOSE l1 \in r.kern : l1.tid = k.tid
    OBVIOUS
  <2>2. l \in r.kern /\ l.tid = k.tid
    BY <2>1
  <2>3. l = k
    BY <1>1, <2>2 DEF KernOnce
  <2> QED
    BY <2>1, <2>3 DEF SlotOf
<1> QED
  BY <1>2, <1>3, <1>4, <1>5, <1>6, <1>7

(* free_thread() and free_threadno() of a thread that is in the list.      *)
FreedParts(d, r, p, tid, slot) ==
  /\ d \in RtStates /\ SameRest(d, r) /\ OthersSame(d, r, p) /\ d.kern = r.kern /\ d.space = r.space /\ d.bad = r.bad
  /\ d.task[p].on = r.task[p].on /\ d.task[p].threads = tidlist_remove_from(r.task[p].threads, tid)
  /\ d.task[p].utcb_free = r.task[p].utcb_free \cup {slot}
  /\ d.free[tid[1]] = r.free[tid[1]] \cup {tid[2]} /\ d.count[tid[1]] = r.count[tid[1]] + 1 /\ OtherMaps(d, r, tid[1])
LEMMA FreedFields ==
  ASSUME NEW r \in RtStates, NEW tid \in Tids, NEW p \in Tasks, NEW slot \in Slots,
         tid \in ToSet(r.task[p].threads), Once(r.task[p].threads),
         tid[2] \notin r.free[tid[1]], slot \notin r.task[p].utcb_free,
         NEW d, d = free_threadno(free_thread(r, p, tid, slot), tid)
  PROVE  FreedParts(d, r, p, tid, slot)
<1>1. PICK c : c = free_thread(r, p, tid, slot)
  OBVIOUS
<1>2. /\ c \in RtStates /\ SameRest(c, r) /\ OthersSame(c, r, p)
      /\ c.task[p].on = r.task[p].on /\ c.task[p].threads = tidlist_remove_from(r.task[p].threads, tid)
      /\ c.task[p].utcb_free = r.task[p].utcb_free \cup {slot}
      /\ c.free = r.free /\ c.count = r.count /\ c.kern = r.kern /\ c.space = r.space
      /\ c.bad = r.bad \cup Unless(slot \notin r.task[p].utcb_free, "place")
  BY <1>1, FreeThreadFields
<1>3. /\ d.free = [c.free EXCEPT ![tid[1]] = @ \cup {tid[2]}]
      /\ d.count = [c.count EXCEPT ![tid[1]] = @ + 1]
      /\ d.task = c.task /\ d.proc = c.proc /\ d.kern = c.kern /\ d.space = c.space
      /\ d.next_user_pid = c.next_user_pid /\ d.half = c.half
      /\ d.bad = c.bad \cup Unless(tid[2] \notin c.free[tid[1]], "number")
      /\ d \in RtStates
  BY <1>1, <1>2, FreeFields
<1>4. d.bad = r.bad
  BY <1>2, <1>3 DEF Unless
<1>5. tid[1] \in Maps
  BY DEF Tids
<1>6. d.free[tid[1]] = r.free[tid[1]] \cup {tid[2]} /\ d.count[tid[1]] = r.count[tid[1]] + 1 /\ OtherMaps(d, r, tid[1])
  BY <1>2, <1>3, <1>5, StateParts DEF OtherMaps
<1>7. SameRest(d, r) /\ OthersSame(d, r, p)
  BY <1>2, <1>3 DEF SameRest, OthersSame
<1>8. /\ d.kern = r.kern /\ d.space = r.space
      /\ d.task[p].on = r.task[p].on /\ d.task[p].threads = tidlist_remove_from(r.task[p].threads, tid)
      /\ d.task[p].utcb_free = r.task[p].utcb_free \cup {slot}
  BY <1>2, <1>3
<1> QED
  BY <1>3, <1>4, <1>6, <1>7, <1>8 DEF FreedParts

(* sig_remove_helper(), the thread's part of it.                           *)
LEMMA HelperBooks ==
  ASSUME NEW r, Books(r), NEW k \in r.kern, NEW p \in Tasks, p = k.tid[3],
         NEW d, d = free_threadno(free_thread(Delete(r, k.tid), p, k.tid, k.slot), k.tid)
  PROVE  Removed(d, r, k)
<1>1. r \in RtStates /\ Once(r.task[p].threads)
  BY BooksParts
<1>2. /\ k.tid \in Tids /\ k.slot \in Slots /\ k.tid[1] \in Maps /\ k.tid \in ToSet(r.task[p].threads)
      /\ k.tid[2] \notin r.free[k.tid[1]] /\ k.slot \notin r.task[p].utcb_free
  BY ThreadHas
<1>3. PICK tid \in Tids : tid = k.tid
  BY <1>2
<1>4. PICK sl \in Slots : sl = k.slot
  BY <1>2
<1>5. PICK c : c = Delete(r, tid)
  OBVIOUS
<1>6. DeleteParts(c, r, tid)
  BY <1>1, <1>5, DeleteFields
<1>7. c \in RtStates
  BY <1>6 DEF DeleteParts
<1>8. c.bad = r.bad
  BY <1>3, <1>6 DEF Unless, DeleteParts
<1>9. /\ tid \in ToSet(c.task[p].threads) /\ Once(c.task[p].threads)
      /\ tid[2] \notin c.free[tid[1]] /\ sl \notin c.task[p].utcb_free
  BY <1>1, <1>2, <1>3, <1>4, <1>6 DEF DeleteParts
<1>10. d = free_threadno(free_thread(c, p, tid, sl), tid)
  BY <1>3, <1>4, <1>5
<1>11. FreedParts(d, c, p, tid, sl)
  BY <1>7, <1>9, <1>10, FreedFields
<1>12. PICK m \in Maps : m = k.tid[1]
  BY <1>2
<1>13. SameRest(d, r) /\ OthersSame(d, r, p) /\ OtherMaps(d, r, m)
  <2>1. /\ c.free = r.free /\ c.count = r.count /\ c.task = r.task /\ c.proc = r.proc
        /\ c.next_user_pid = r.next_user_pid /\ c.half = r.half
    BY <1>6 DEF DeleteParts
  <2>2. SameRest(d, c) /\ OthersSame(d, c, p) /\ OtherMaps(d, c, m)
    BY <1>3, <1>11, <1>12 DEF FreedParts
  <2>3. SameRest(d, r)
    BY <2>1, <2>2 DEF SameRest
  <2>4. OthersSame(d, r, p)
    BY <2>1, <2>2 DEF OthersSame
  <2>5. OtherMaps(d, r, m)
    BY <2>1, <2>2 DEF OtherMaps
  <2> QED
    BY <2>3, <2>4, <2>5
<1>14. d \in RtStates /\ d.kern = {l \in r.kern : l.tid # k.tid} /\ d.space = r.space /\ d.bad = r.bad
  BY <1>3, <1>6, <1>8, <1>11 DEF DeleteParts, FreedParts
<1>15. /\ d.task[p].on = r.task[p].on /\ d.task[p].threads = tidlist_remove_from(r.task[p].threads, k.tid)
       /\ d.task[p].utcb_free = r.task[p].utcb_free \cup {k.slot}
  BY <1>3, <1>4, <1>6, <1>11 DEF DeleteParts, FreedParts
<1>16. d.free[m] = r.free[m] \cup {k.tid[2]} /\ d.count[m] = r.count[m] + 1
  BY <1>3, <1>6, <1>11, <1>12 DEF DeleteParts, FreedParts
<1>17. Cleared(d, r, k, p, m)
  BY <1>13, <1>14, <1>15, <1>16 DEF Cleared
<1> QED
  BY <1>12, <1>17, RemoveBooks

(* uapi_remove_thread(), which deletes the thread last.                    *)
LEMMA ThreadBooks ==
  ASSUME NEW r, Books(r), NEW k \in r.kern, NEW p \in Tasks, p = k.tid[3],
         NEW d, d = Delete(free_threadno(free_thread(r, p, k.tid, SlotOf(r, k.tid)), k.tid), k.tid)
  PROVE  Removed(d, r, k)
<1>1. r \in RtStates /\ Once(r.task[p].threads)
  BY BooksParts
<1>2. /\ k.tid \in Tids /\ k.slot \in Slots /\ k.tid[1] \in Maps /\ k.tid \in ToSet(r.task[p].threads)
      /\ k.tid[2] \notin r.free[k.tid[1]] /\ k.slot \notin r.task[p].utcb_free /\ SlotOf(r, k.tid) = k.slot
  BY ThreadHas
<1>3. PICK tid \in Tids : tid = k.tid
  BY <1>2
<1>4. PICK sl \in Slots : sl = k.slot
  BY <1>2
<1>5. PICK c : c = free_threadno(free_thread(r, p, tid, sl), tid)
  OBVIOUS
<1>6. /\ tid \in ToSet(r.task[p].threads) /\ tid[2] \notin r.free[tid[1]] /\ sl \notin r.task[p].utcb_free
  BY <1>2, <1>3, <1>4
<1>7. d = Delete(c, tid)
  BY <1>2, <1>3, <1>4, <1>5
<1>8. FreedParts(c, r, p, tid, sl)
  BY <1>1, <1>5, <1>6, FreedFields
<1>9. c \in RtStates
  BY <1>8 DEF FreedParts
<1>10. DeleteParts(d, c, tid)
  BY <1>7, <1>9, DeleteFields
<1>11. d.bad = r.bad
  <2>1. c.bad = r.bad /\ c.kern = r.kern
    BY <1>8 DEF FreedParts
  <2> QED
    BY <1>3, <1>10, <2>1 DEF Unless, DeleteParts
<1>12. PICK m \in Maps : m = k.tid[1]
  BY <1>2
<1>13. SameRest(d, r) /\ OthersSame(d, r, p) /\ OtherMaps(d, r, m)
  <2>1. /\ d.free = c.free /\ d.count = c.count /\ d.task = c.task /\ d.proc = c.proc
        /\ d.next_user_pid = c.next_user_pid /\ d.half = c.half
    BY <1>10 DEF DeleteParts
  <2>2. SameRest(c, r) /\ OthersSame(c, r, p) /\ OtherMaps(c, r, m)
    BY <1>3, <1>8, <1>12 DEF FreedParts
  <2>3. SameRest(d, r)
    BY <2>1, <2>2 DEF SameRest
  <2>4. OthersSame(d, r, p)
    BY <2>1, <2>2 DEF OthersSame
  <2>5. OtherMaps(d, r, m)
    BY <2>1, <2>2 DEF OtherMaps
  <2> QED
    BY <2>3, <2>4, <2>5
<1>14. d \in RtStates /\ d.kern = {l \in r.kern : l.tid # k.tid} /\ d.space = r.space
  BY <1>3, <1>8, <1>10 DEF DeleteParts, FreedParts
<1>15. /\ d.task[p].on = r.task[p].on /\ d.task[p].threads = tidlist_remove_from(r.task[p].threads, k.tid)
       /\ d.task[p].utcb_free = r.task[p].utcb_free \cup {k.slot}
  BY <1>3, <1>4, <1>8, <1>10 DEF DeleteParts, FreedParts
<1>16. d.free[m] = r.free[m] \cup {k.tid[2]} /\ d.count[m] = r.count[m] + 1
  BY <1>3, <1>8, <1>10, <1>12 DEF DeleteParts, FreedParts
<1>17. Cleared(d, r, k, p, m)
  BY <1>11, <1>13, <1>14, <1>15, <1>16 DEF Cleared
<1> QED
  BY <1>12, <1>17, RemoveBooks

-----------------------------------------------------------------------------
(* task_common_dtor(): all of a task's threads go. *)
Nos(S, m) == {tid[2] : tid \in {u \in S : u[1] = m}}
Emptied(on) == [on |-> on, threads |-> <<>>, utcb_free |-> {}]
DtorParts(d, r, p, S) ==
  /\ SameRest(d, r) /\ OthersSame(d, r, p) /\ d.space = r.space /\ d.kern = {k \in r.kern : k.tid \notin S}
  /\ d.task[p].on = r.task[p].on /\ d.task[p].threads = <<>> /\ d.task[p].utcb_free = {}
  /\ \A m \in Maps : d.free[m] = r.free[m] \cup Nos(S, m) /\ d.count[m] = r.count[m] + Cardinality(Nos(S, m))
  /\ d.bad = r.bad \cup Unless(AllThere(r, p), "list") /\ d \in RtStates
LEMMA DtorFields ==
  ASSUME NEW r \in RtStates, NEW p \in Tasks, NEW d, d = task_common_dtor(r, p), NEW S, S = ToSet(r.task[p].threads)
  PROVE  DtorParts(d, r, p, S)
<1>1. PICK x \in TaskRecs : x = r.task[p]
  BY StateParts
<1>2. S \in SUBSET Tids
  BY <1>1, TaskParts DEF ToSet
<1>3. PICK B : B = Unless(AllThere(r, p), "list")
  OBVIOUS
<1>4. B \subseteq Asserts
  BY <1>3 DEF Unless, Asserts
<1>5. PICK z : z = Emptied(x.on)
  OBVIOUS
<1>6. z \in TaskRecs /\ z.on = x.on /\ z.threads = <<>> /\ z.utcb_free = {}
  BY <1>5, TaskParts DEF TaskRecs, Emptied
<1>7. PICK F : F = [m \in Maps |-> r.free[m] \cup Nos(S, m)]
  OBVIOUS
<1>8. PICK C : C = [m \in Maps |-> r.count[m] + Cardinality(Nos(S, m))]
  OBVIOUS
<1>9. \A m \in Maps : Nos(S, m) \in SUBSET Bits
  BY <1>2 DEF Nos, Tids
<1>10. F \in [Maps -> SUBSET Bits]
  BY <1>7, <1>9, StateParts
<1>11. C \in [Maps -> Nat]
  BY <1>8, <1>9, FreeFinite, StateParts
<1>12. PICK L : L = {k \in r.kern : k.tid \notin S}
  OBVIOUS
<1>13. d = [r EXCEPT !.kern = L, !.free = F, !.count = C, !.task[p] = z, !.bad = @ \cup B]
  BY <1>1, <1>3, <1>5, <1>7, <1>8, <1>12, StateParts DEF task_common_dtor, Nos, Emptied
<1>14. /\ d.proc = r.proc /\ d.kern = L /\ d.space = r.space /\ d.free = F /\ d.count = C
       /\ d.next_user_pid = r.next_user_pid /\ d.half = r.half
  BY <1>13, StateParts
<1>15. d.bad = r.bad \cup B
  BY <1>13, StateParts
<1>16. d.task = [r.task EXCEPT ![p] = z]
  BY <1>13, StateParts
<1>17. AllParts(d)
  BY <1>13, StateParts DEF AllParts
<1>18. d.task \in [Tasks -> TaskRecs] /\ d.task[p] = z /\ \A u \in Tasks : u # p => d.task[u] = r.task[u]
  BY <1>6, <1>16, StateParts
<1>19. d \in RtStates
  <2>1. d.bad \in SUBSET Asserts
    BY <1>4, <1>15, StateParts
  <2>2. L \in SUBSET Kerns
    BY <1>12, StateParts
  <2> QED
    BY <1>10, <1>11, <1>14, <1>17, <1>18, <2>1, <2>2, StateParts, IsState
<1>20. d.task[p].on = r.task[p].on /\ d.task[p].threads = <<>> /\ d.task[p].utcb_free = {}
  BY <1>1, <1>6, <1>18
<1>21. \A m \in Maps : d.free[m] = r.free[m] \cup Nos(S, m) /\ d.count[m] = r.count[m] + Cardinality(Nos(S, m))
  BY <1>7, <1>8, <1>14
<1> QED
  BY <1>3, <1>12, <1>14, <1>15, <1>18, <1>19, <1>20, <1>21 DEF SameRest, OthersSame, DtorParts

(* All its threads are gone, and nobody else's.                            *)
Dropped(d, r, p) ==
  /\ Books(d) /\ SameRest(d, r) /\ OthersSame(d, r, p) /\ d.space = r.space /\ d.bad = r.bad
  /\ d.task[p].threads = <<>> /\ d.task[p].on = r.task[p].on /\ d.kern = {k \in r.kern : k.tid[3] # p}
KernsDropped(L, K, p, S) ==
  /\ L = {k \in K : k.tid[3] # p} /\ KernOnce(L)
  /\ TidsOf(L, p) = {} /\ SlotsOf(L, p) = {}
  /\ \A u : u # p => TidsOf(L, u) = TidsOf(K, u) /\ SlotsOf(L, u) = SlotsOf(K, u)
  /\ \A m, b : Taken(L, m, b) <=> Taken(K, m, b) /\ b \notin Nos(S, m)
  /\ \A m, b : b \in Nos(S, m) => Taken(K, m, b)
LEMMA DropKerns ==
  ASSUME NEW K \in SUBSET Kerns, KernOnce(K), NEW p \in Tasks, NEW S, S = TidsOf(K, p), NEW L, L = {k \in K : k.tid \notin S}
  PROVE  KernsDropped(L, K, p, S)
<1>1. \A k \in K : k.tid \in S <=> k.tid[3] = p
  BY DEF TidsOf
<1>2. L = {k \in K : k.tid[3] # p}
  BY <1>1
<1>3. KernOnce(L)
  BY DEF KernOnce
<1>4. TidsOf(L, p) = {} /\ SlotsOf(L, p) = {}
  BY <1>2 DEF TidsOf, SlotsOf
<1>5. ASSUME NEW u, u # p PROVE TidsOf(L, u) = TidsOf(K, u) /\ SlotsOf(L, u) = SlotsOf(K, u)
  <2>1. {l \in L : l.tid[3] = u} = {l \in K : l.tid[3] = u}
    BY <1>2, <1>5
  <2> QED
    BY <2>1 DEF TidsOf, SlotsOf
<1>6. \A m, b : b \in Nos(S, m) <=> \E k \in K : k.tid[3] = p /\ k.tid[1] = m /\ k.tid[2] = b
  BY DEF Nos, TidsOf
<1>7. ASSUME NEW m, NEW b PROVE Taken(L, m, b) <=> Taken(K, m, b) /\ b \notin Nos(S, m)
  <2>1. ASSUME Taken(L, m, b) PROVE Taken(K, m, b) /\ b \notin Nos(S, m)
    <3>1. PICK k \in L : k.tid[1] = m /\ k.tid[2] = b
      BY <2>1 DEF Taken
    <3>2. k \in K /\ k.tid[3] # p
      BY <1>2
    <3>3. \A l \in K : l.tid[1] = m /\ l.tid[2] = b => l = k
      BY <3>1, <3>2 DEF KernOnce
    <3> QED
      BY <1>6, <3>1, <3>2, <3>3 DEF Taken
  <2>2. ASSUME Taken(K, m, b), b \notin Nos(S, m) PROVE Taken(L, m, b)
    <3>1. PICK k \in K : k.tid[1] = m /\ k.tid[2] = b
      BY <2>2 DEF Taken
    <3>2. k \in L
      BY <1>2, <1>6, <2>2, <3>1
    <3> QED
      BY <3>1, <3>2 DEF Taken
  <2> QED
    BY <2>1, <2>2
<1>8. \A m, b : b \in Nos(S, m) => Taken(K, m, b)
  BY <1>6 DEF Taken
<1> QED
  BY <1>2, <1>3, <1>4, <1>5, <1>7, <1>8 DEF KernsDropped

(* Every thread of a task's list is the kernel's, and its number taken.    *)
LEMMA ListIsThere ==
  ASSUME NEW r, Books(r), NEW p \in Tasks, r.task[p].on
  PROVE  AllThere(r, p)
<1>1. /\ r \in RtStates /\ NumbersOk(r) /\ KernOnce(r.kern) /\ r.kern \in SUBSET Kerns
      /\ r.task[p].threads \in Seq(Tids) /\ Once(r.task[p].threads) /\ ToSet(r.task[p].threads) = TidsOf(r.kern, p)
  BY BooksParts
<1>2. PICK ts \in Seq(Tids) : ts = r.task[p].threads
  BY <1>1
<1>3. \A i \in 1..Len(ts) : \E k \in r.kern : k.tid = ts[i]
  <2>1. \A i \in 1..Len(ts) : ts[i] \in ToSet(ts)
    BY DEF ToSet
  <2> QED
    BY <1>1, <1>2, <2>1 DEF TidsOf
<1>4. \A k \in r.kern : k.tid[2] \notin r.free[k.tid[1]]
  BY ThreadHas
<1>5. ASSUME NEW i \in 1..Len(ts), NEW j \in 1..Len(ts), i # j PROVE <<ts[i][1], ts[i][2]>> # <<ts[j][1], ts[j][2]>>
  <2>1. PICK k \in r.kern : k.tid = ts[i]
    BY <1>3
  <2>2. PICK l \in r.kern : l.tid = ts[j]
    BY <1>3
  <2>3. ts[i] # ts[j]
    BY <1>1, <1>2, <1>5 DEF Once
  <2> QED
    BY <1>1, <2>1, <2>2, <2>3 DEF KernOnce
<1>6. \A i \in 1..Len(ts) : ts[i][2] \notin r.free[ts[i][1]]
  BY <1>3, <1>4
<1> QED
  BY <1>2, <1>3, <1>5, <1>6 DEF AllThere

LEMMA DropBooks ==
  ASSUME NEW r, Books(r), NEW p \in Tasks, r.task[p].on, NEW d, d = task_common_dtor(r, p)
  PROVE  Dropped(d, r, p)
<1>1. /\ r \in RtStates /\ NumbersOk(r) /\ KernOnce(r.kern) /\ r.kern \in SUBSET Kerns /\ ListsOk(r)
      /\ ToSet(r.task[p].threads) = TidsOf(r.kern, p)
  BY BooksParts
<1>2. PICK S : S = ToSet(r.task[p].threads)
  OBVIOUS
<1>3. DtorParts(d, r, p, S)
  BY <1>1, <1>2, DtorFields
<1>4. AllThere(r, p)
  BY ListIsThere
<1>5. d.bad = r.bad /\ d \in RtStates
  BY <1>3, <1>4 DEF DtorParts, Unless
<1>6. PICK K \in SUBSET Kerns : K = r.kern
  BY <1>1
<1>7. PICK L : L = {k \in K : k.tid \notin S}
  OBVIOUS
<1>8. d.kern = L /\ S = TidsOf(K, p) /\ KernOnce(K)
  BY <1>1, <1>2, <1>3, <1>6, <1>7 DEF DtorParts
<1>9. /\ L = {k \in K : k.tid[3] # p} /\ KernOnce(L)
      /\ TidsOf(L, p) = {} /\ SlotsOf(L, p) = {}
      /\ \A u : u # p => TidsOf(L, u) = TidsOf(K, u) /\ SlotsOf(L, u) = SlotsOf(K, u)
      /\ \A m, b : Taken(L, m, b) <=> Taken(K, m, b) /\ b \notin Nos(S, m)
      /\ \A m, b : b \in Nos(S, m) => Taken(K, m, b)
  <2>1. KernsDropped(L, K, p, S)
    BY <1>7, <1>8, DropKerns
  <2> QED
    BY <2>1 DEF KernsDropped
<1>10. ASSUME NEW m \in Maps
       PROVE  /\ d.count[m] = Cardinality(d.free[m])
              /\ \A b \in Bits : /\ b \in d.free[m] <=> ~Taken(d.kern, m, b) /\ ~(m = 0 /\ b \in Burnt)
                                 /\ m = 0 /\ b \in Burnt => ~Taken(d.kern, m, b)
  <2>1. PICK F \in SUBSET Bits : F = r.free[m]
    BY <1>1, StateParts
  <2>2. PICK N \in SUBSET Bits : N = Nos(S, m)
    <3>1. \A k \in K : k.tid[2] \in Bits
      BY KernParts
    <3>2. \A b : b \in Nos(S, m) => b \in Bits
      BY <1>9, <3>1 DEF Taken
    <3> QED
      BY <3>2
  <2>3. d.free[m] = F \cup N /\ d.count[m] = r.count[m] + Cardinality(N)
    BY <1>3, <2>1, <2>2 DEF DtorParts
  <2>4. /\ r.count[m] = Cardinality(F)
        /\ \A b \in Bits : /\ b \in F <=> ~Taken(K, m, b) /\ ~(m = 0 /\ b \in Burnt)
                           /\ m = 0 /\ b \in Burnt => ~Taken(K, m, b)
    BY <1>1, <1>6, <2>1 DEF NumbersOk
  <2>5. \A b \in N : Taken(K, m, b)
    BY <1>9, <2>2
  <2>6. F \cap N = {}
    BY <2>4, <2>5
  <2>7. Cardinality(F \cup N) = Cardinality(F) + Cardinality(N)
    <3>1. IsFiniteSet(F) /\ IsFiniteSet(N) /\ Cardinality(F) \in Nat /\ Cardinality(N) \in Nat
      BY FreeFinite
    <3>2. Cardinality(F \cup N) = Cardinality(F) + Cardinality(N) - Cardinality(F \cap N)
      BY <3>1, FS_Union
    <3>3. Cardinality(F \cap N) = 0
      BY <2>6, FS_EmptySet
    <3> QED
      BY <3>1, <3>2, <3>3
  <2>8. \A b : Taken(d.kern, m, b) <=> Taken(K, m, b) /\ b \notin N
    BY <1>8, <1>9, <2>2
  <2> QED
    BY <2>3, <2>4, <2>5, <2>7, <2>8
<1>11. NumbersOk(d)
  BY <1>10 DEF NumbersOk
<1>12. OthersSame(d, r, p) /\ d.task[p].threads = <<>> /\ d.task[p].on = r.task[p].on
  BY <1>3 DEF DtorParts
<1>13. ListOk(d.task[p], d.kern, p)
  <2>1. ToSet(<<>>) = {} /\ Once(<<>>)
    BY DEF ToSet, Once
  <2> QED
    BY <1>8, <1>9, <1>12, <2>1 DEF ListOk
<1>14. ListsOk(d)
  <2>1. ASSUME NEW u \in Tasks, u # p PROVE ListOk(d.task[u], d.kern, u)
    <3>1. d.task[u] = r.task[u] /\ TidsOf(d.kern, u) = TidsOf(r.kern, u) /\ SlotsOf(d.kern, u) = SlotsOf(r.kern, u)
      BY <1>6, <1>8, <1>9, <1>12, <2>1 DEF OthersSame
    <3>2. ListOk(r.task[u], r.kern, u)
      BY <1>1 DEF ListsOk
    <3> QED
      BY <3>1, <3>2 DEF ListOk
  <2> QED
    BY <1>13, <2>1 DEF ListsOk
<1>15. Books(d)
  BY <1>5, <1>8, <1>9, <1>11, <1>14 DEF Books
<1>16. d.kern = {k \in r.kern : k.tid[3] # p}
  BY <1>6, <1>8, <1>9
<1> QED
  BY <1>3, <1>5, <1>12, <1>15, <1>16 DEF Dropped, DtorParts

-----------------------------------------------------------------------------
(* What a call for one task leaves to the others. *)
Kept(d, r, u) ==
  /\ d.proc[u] = r.proc[u] /\ d.task[u] = r.task[u] /\ \A k \in r.kern : k.tid[3] = u => k \in d.kern
  /\ u \in d.space <=> u \in r.space
  /\ u \in d.half <=> u \in r.half
Moved(d, r, p) ==
  /\ Books(d) /\ d.bad = r.bad /\ d.next_user_pid >= r.next_user_pid /\ d.next_user_pid \in Nat
  /\ \A u \in RtUsers : u # p => Kept(d, r, u)
LEMMA MovedOn ==
  ASSUME NEW r, NEW c, NEW d, NEW p, r.next_user_pid \in Nat, Moved(c, r, p), Moved(d, c, p)
  PROVE  Moved(d, r, p)
<1>1. \A u \in RtUsers : u # p => Kept(d, r, u)
  BY DEF Moved, Kept
<1> QED
  BY <1>1 DEF Moved

(* If the others are left alone, only the one matters.                     *)
LEMMA MovedInv ==
  ASSUME NEW r, RtInv(r), NEW d, NEW p, Moved(d, r, p), p \in RtUsers => ProcOk(d, p) /\ SpaceOk(d, p)
  PROVE  RtInv(d)
<1>1. Books(d) /\ d.bad = {}
  BY DEF Moved, RtInv
<1>2. ASSUME NEW u \in RtUsers, u # p PROVE ProcOk(d, u) /\ SpaceOk(d, u)
  <2>1. Kept(d, r, u) /\ ProcOk(r, u) /\ SpaceOk(r, u)
    BY <1>2 DEF Moved, RtInv
  <2>2. /\ d.proc[u] = r.proc[u] /\ d.task[u] = r.task[u] /\ \A k \in r.kern : k.tid[3] = u => k \in d.kern
        /\ u \in d.space <=> u \in r.space
        /\ u \in d.half <=> u \in r.half
    BY <2>1 DEF Kept
  <2>3. r.next_user_pid \in Nat /\ u \in Nat /\ d.next_user_pid \in Nat /\ d.next_user_pid >= r.next_user_pid
    BY RtAssumption, BooksParts, StateParts DEF RtInv, Moved
  <2>4. u >= d.next_user_pid => u >= r.next_user_pid
    BY <2>3
  <2>5. r.proc[u].helper # NoTid => [tid |-> r.proc[u].helper, slot |-> r.proc[u].hslot] \in d.kern
    <3>1. PICK k : k = [tid |-> r.proc[u].helper, slot |-> r.proc[u].hslot]
      OBVIOUS
    <3>2. k.tid = r.proc[u].helper
      BY <3>1
    <3> QED
      BY <2>1, <2>2, <3>1, <3>2 DEF ProcOk
  <2>6. ProcOk(d, u)
    BY <2>1, <2>2, <2>4, <2>5 DEF ProcOk
  <2> QED
    BY <2>1, <2>2, <2>6 DEF SpaceOk
<1> QED
  BY <1>1, <1>2 DEF RtInv

LEMMA StartMoved ==
  ASSUME NEW r, Books(r), NEW p
  PROVE  Moved(r, r, p) /\ r.next_user_pid \in Nat /\ r \in RtStates
<1>1. r \in RtStates /\ r.next_user_pid \in Nat
  BY BooksParts, StateParts
<1> QED
  BY <1>1 DEF Moved, Kept

LEMMA LaunchMoved ==
  ASSUME NEW r, Books(r), NEW d, NEW p \in Tasks, NEW tid, NEW slot, Launched(d, r, p, tid, slot)
  PROVE  Moved(d, r, p)
<1>1. r.next_user_pid \in Nat
  BY BooksParts, StateParts
<1>2. \A k \in r.kern : k \in d.kern
  BY DEF Launched
<1>3. RtUsers \subseteq Tasks
  BY DEF Tasks
<1>4. \A u \in RtUsers : u # p => Kept(d, r, u)
  BY <1>2, <1>3 DEF Launched, SameRest, OthersSame, Kept
<1> QED
  BY <1>1, <1>4 DEF Moved, Launched, SameRest

LEMMA RemoveMoved ==
  ASSUME NEW r, Books(r), NEW d, NEW k, Removed(d, r, k)
  PROVE  Moved(d, r, k.tid[3])
<1>1. r.next_user_pid \in Nat
  BY BooksParts, StateParts
<1>2. \A l \in r.kern : l # k => l \in d.kern
  BY DEF Removed
<1>3. RtUsers \subseteq Tasks
  BY DEF Tasks
<1>4. \A u \in RtUsers : u # k.tid[3] => Kept(d, r, u)
  BY <1>2, <1>3 DEF Removed, SameRest, OthersSame, Kept
<1> QED
  BY <1>1, <1>4 DEF Moved, Removed, SameRest

LEMMA DropMoved ==
  ASSUME NEW r, Books(r), NEW d, NEW p \in Tasks, Dropped(d, r, p)
  PROVE  Moved(d, r, p)
<1>1. r.next_user_pid \in Nat
  BY BooksParts, StateParts
<1>2. \A l \in r.kern : l.tid[3] # p => l \in d.kern
  BY DEF Dropped
<1>3. RtUsers \subseteq Tasks
  BY DEF Tasks
<1>4. \A u \in RtUsers : u # p => Kept(d, r, u)
  BY <1>2, <1>3 DEF Dropped, SameRest, OthersSame, Kept
<1> QED
  BY <1>1, <1>4 DEF Moved, Dropped, SameRest

LEMMA CtorMoved ==
  ASSUME NEW r, Books(r), NEW p \in Tasks, r.task[p].threads = <<>>, NEW d, d = task_common_ctor(r, p)
  PROVE  Moved(d, r, p)
<1>1. r.next_user_pid \in Nat
  BY BooksParts, StateParts
<1>2. Books(d) /\ SameRest(d, r) /\ OthersSame(d, r, p) /\ d.kern = r.kern /\ d.space = r.space /\ d.bad = r.bad
  BY CtorBooks
<1>3. RtUsers \subseteq Tasks
  BY DEF Tasks
<1>4. \A u \in RtUsers : u # p => Kept(d, r, u)
  BY <1>2, <1>3 DEF SameRest, OthersSame, Kept
<1> QED
  BY <1>1, <1>2, <1>4 DEF Moved, SameRest

(* Changes of what is not in the books.                                    *)
Edited(d, r, p) ==
  /\ AllParts(d) /\ d.free = r.free /\ d.count = r.count /\ d.kern = r.kern /\ d.bad = r.bad
  /\ d.task \in [Tasks -> TaskRecs] /\ d.proc \in [RtUsers -> ProcRecs] /\ d.space \in SUBSET RtUsers
  /\ d.next_user_pid \in Nat /\ d.half \in SUBSET RtUsers /\ d.next_user_pid >= r.next_user_pid
  /\ OthersSame(d, r, p) /\ (d.task[p] = r.task[p] \/ (d.task[p].threads = <<>> /\ r.task[p].threads = <<>>))
  /\ \A u \in RtUsers : u # p => /\ d.proc[u] = r.proc[u]
                                 /\ u \in d.space <=> u \in r.space
                                 /\ u \in d.half <=> u \in r.half
LEMMA EditMoved ==
  ASSUME NEW r, Books(r), NEW d, NEW p \in Tasks, Edited(d, r, p)
  PROVE  Moved(d, r, p)
<1>1. r \in RtStates /\ NumbersOk(r) /\ KernOnce(r.kern) /\ ListsOk(r)
  BY BooksParts
<1>2. d \in RtStates
  BY <1>1, IsState, StateParts DEF Edited
<1>3. NumbersOk(d) /\ KernOnce(d.kern)
  BY <1>1 DEF NumbersOk, Edited
<1>4. ListsOk(d)
  BY <1>1 DEF ListsOk, ListOk, Edited, OthersSame
<1>5. Books(d)
  BY <1>2, <1>3, <1>4 DEF Books
<1>6. RtUsers \subseteq Tasks
  BY DEF Tasks
<1>7. \A u \in RtUsers : u # p => Kept(d, r, u)
  BY <1>6 DEF Edited, OthersSame, Kept
<1> QED
  BY <1>5, <1>7 DEF Moved, Edited

-----------------------------------------------------------------------------
(* Processes. *)
LEMMA InvParts ==
  ASSUME NEW r, RtInv(r), NEW p \in RtUsers
  PROVE  /\ Books(r) /\ r \in RtStates /\ r.bad = {} /\ ProcOk(r, p) /\ SpaceOk(r, p) /\ p \in Tasks /\ p \in Nat
         /\ r.proc[p] \in ProcRecs /\ r.next_user_pid \in Nat
<1>1. Books(r) /\ r.bad = {} /\ ProcOk(r, p) /\ SpaceOk(r, p)
  BY DEF RtInv
<1>2. r \in RtStates
  BY <1>1, BooksParts
<1> QED
  BY <1>1, <1>2, StateParts, RtAssumption DEF Tasks
LEMMA ProcParts ==
  ASSUME NEW x \in ProcRecs
  PROVE  /\ x.st \in {"none", "live", "zombie"} /\ x.ppid \in RtUsers \cup {0} /\ x.helper \in Tids \cup {NoTid}
         /\ x.hslot \in Slots \cup {0}
BY DEF ProcRecs

PutProc(r, p, x) == [r EXCEPT !.proc[p] = x]
LEMMA ProcEdit ==
  ASSUME NEW r, Books(r), NEW p \in RtUsers, NEW x \in ProcRecs, NEW d, d = PutProc(r, p, x)
  PROVE  /\ Moved(d, r, p) /\ d.proc[p] = x /\ d.task = r.task /\ d.kern = r.kern /\ d.space = r.space
         /\ d.half = r.half /\ d.next_user_pid = r.next_user_pid
<1>1. r \in RtStates /\ p \in Tasks
  BY BooksParts DEF Tasks
<1>2. /\ d.free = r.free /\ d.count = r.count /\ d.task = r.task /\ d.kern = r.kern /\ d.space = r.space
      /\ d.next_user_pid = r.next_user_pid /\ d.half = r.half /\ d.bad = r.bad
  BY <1>1, StateParts DEF PutProc
<1>3. d.proc = [r.proc EXCEPT ![p] = x]
  BY <1>1, StateParts DEF PutProc
<1>4. AllParts(d)
  BY <1>1, StateParts DEF PutProc, AllParts
<1>5. d.proc \in [RtUsers -> ProcRecs] /\ d.proc[p] = x /\ \A u \in RtUsers : u # p => d.proc[u] = r.proc[u]
  BY <1>1, <1>3, StateParts
<1>6. Edited(d, r, p)
  BY <1>1, <1>2, <1>4, <1>5, StateParts DEF Edited, OthersSame
<1> QED
  BY <1>1, <1>2, <1>5, <1>6, EditMoved

(* sig_deliver(): a helper beside the threads of the process.              *)
LEMMA DeliverInv ==
  ASSUME NEW r, RtInv(r), NEW p \in RtUsers, r.task[p].threads # <<>>
  PROVE  RtInv(sig_deliver(r, p))
<1>1. /\ Books(r) /\ ProcOk(r, p) /\ SpaceOk(r, p) /\ p \in Tasks /\ r.proc[p] \in ProcRecs /\ r.next_user_pid \in Nat
  BY InvParts
<1>2. CASE r.proc[p].helper # NoTid
  <2>1. sig_deliver(r, p) = r
    BY <1>2 DEF sig_deliver
  <2> QED
    BY <2>1
<1>3. PICK a : a = allocate_thread(r, p)
  OBVIOUS
<1>4. CASE r.proc[p].helper = NoTid /\ a.tid = NoTid
  <2>1. sig_deliver(r, p) = a.r
    BY <1>3, <1>4 DEF sig_deliver
  <2>2. a.r = r
    BY <1>1, <1>3, <1>4, AllocateFields
  <2> QED
    BY <2>1, <2>2
<1>5. CASE r.proc[p].helper = NoTid /\ a.tid # NoTid
  <2>1. PICK c : c = Create(a.r, a.tid, a.slot)
    OBVIOUS
  <2>2. PICK x : x = WithHelper(r.proc[p], a.tid, a.slot)
    OBVIOUS
  <2>3. r.task[p].utcb_free = Slots \ SlotsOf(r.kern, p)
    BY <1>1, BooksParts
  <2>4. Launched(c, r, p, a.tid, a.slot)
    BY <1>1, <1>3, <1>5, <2>1, <2>3, LaunchBooks
  <2>5. c.proc = r.proc /\ c.half = r.half /\ c.space = r.space /\ c.next_user_pid = r.next_user_pid /\ Books(c)
    BY <2>4 DEF Launched, SameRest
  <2>6. PICK d : d = PutProc(c, p, x)
    OBVIOUS
  <2>7. sig_deliver(r, p) = d
    BY <1>3, <1>5, <2>1, <2>2, <2>5, <2>6 DEF sig_deliver, PutProc
  <2>8. x.st = r.proc[p].st /\ x.ppid = r.proc[p].ppid /\ x.helper = a.tid /\ x.hslot = a.slot
    BY <2>2 DEF WithHelper
  <2>9. x \in ProcRecs
    <3>1. a.tid \in Tids /\ a.slot \in Slots
      BY <2>4 DEF Launched
    <3> QED
      BY <1>1, <2>2, <3>1, ProcParts DEF WithHelper, ProcRecs
  <2>10. /\ Moved(d, c, p) /\ d.proc[p] = x /\ d.task = c.task /\ d.kern = c.kern /\ d.space = c.space
         /\ d.half = c.half /\ d.next_user_pid = c.next_user_pid
    BY <2>5, <2>6, <2>9, ProcEdit
  <2>11. Moved(d, r, p)
    BY <1>1, <2>4, <2>10, LaunchMoved, MovedOn
  <2>12. \E t \in ToSet(d.task[p].threads) : t # a.tid
    <3>1. PICK t : t \in ToSet(r.task[p].threads)
      <4>1. TidsOf(r.kern, p) # {} /\ ToSet(r.task[p].threads) = TidsOf(r.kern, p)
        BY <1>1, BooksParts
      <4> QED
        BY <4>1
    <3>2. t \in ToSet(c.task[p].threads) /\ t # a.tid
      BY <2>4, <3>1 DEF Launched
    <3> QED
      BY <2>10, <3>2
  <2>13. [tid |-> a.tid, slot |-> a.slot] \in d.kern /\ a.tid[3] = p /\ d.task[p].threads # <<>>
    BY <2>4, <2>10 DEF Launched
  <2>14. r.proc[p].st # "zombie" /\ r.proc[p].ppid # p /\ ~(p >= r.next_user_pid)
    BY <1>1 DEF ProcOk
  <2>15. ProcOk(d, p)
    BY <2>5, <2>8, <2>10, <2>12, <2>13, <2>14 DEF ProcOk
  <2>16. SpaceOk(d, p)
    BY <1>1, <2>5, <2>10, <2>13 DEF SpaceOk
  <2>17. RtInv(d)
    BY <2>11, <2>15, <2>16, MovedInv
  <2> QED
    BY <2>7, <2>17
<1> QED
  BY <1>2, <1>4, <1>5

(* sig_remove_helper(): the other threads stay.                            *)
LEMMA HelperInv ==
  ASSUME NEW r, RtInv(r), NEW p \in RtUsers, r.proc[p].helper # NoTid, NEW d, d = sig_remove_helper(r, p)
  PROVE  /\ RtInv(d) /\ d.proc[p].helper = NoTid /\ d.task[p].threads # <<>> /\ d.task[p].on
         /\ d.proc[p].ppid = r.proc[p].ppid /\ \A u \in RtUsers : u # p => Kept(d, r, u)
<1>1. /\ Books(r) /\ ProcOk(r, p) /\ SpaceOk(r, p) /\ p \in Tasks /\ r.proc[p] \in ProcRecs /\ r.next_user_pid \in Nat
  BY InvParts
<1>2. PICK k : k = [tid |-> r.proc[p].helper, slot |-> r.proc[p].hslot]
  OBVIOUS
<1>3. k.tid = r.proc[p].helper /\ k.slot = r.proc[p].hslot
  BY <1>2
<1>4. k \in r.kern /\ k.tid[3] = p
  BY <1>1, <1>2, <1>3 DEF ProcOk
<1>5. PICK c : c = free_threadno(free_thread(Delete(r, k.tid), p, k.tid, k.slot), k.tid)
  OBVIOUS
<1>6. Removed(c, r, k)
  BY <1>1, <1>4, <1>5, HelperBooks
<1>7. /\ Books(c) /\ c.proc = r.proc /\ c.space = r.space /\ c.half = r.half /\ c.next_user_pid = r.next_user_pid
      /\ c.task[p].on = r.task[p].on /\ ToSet(c.task[p].threads) = ToSet(r.task[p].threads) \ {k.tid}
  BY <1>4, <1>6 DEF Removed, SameRest
<1>8. PICK x : x = WithHelper(r.proc[p], NoTid, 0)
  OBVIOUS
<1>9. x.st = r.proc[p].st /\ x.ppid = r.proc[p].ppid /\ x.helper = NoTid
  BY <1>8 DEF WithHelper
<1>10. x \in ProcRecs
  BY <1>1, <1>8, ProcParts DEF WithHelper, ProcRecs
<1>11. d = PutProc(c, p, x)
  BY <1>3, <1>5, <1>7, <1>8 DEF sig_remove_helper, PutProc
<1>12. /\ Moved(d, c, p) /\ d.proc[p] = x /\ d.task = c.task /\ d.kern = c.kern /\ d.space = c.space
       /\ d.half = c.half /\ d.next_user_pid = c.next_user_pid
  BY <1>7, <1>10, <1>11, ProcEdit
<1>13. Moved(d, r, p)
  BY <1>1, <1>4, <1>6, <1>12, RemoveMoved, MovedOn
<1>14. r.task[p].threads # <<>> /\ r.task[p].on
  BY <1>1, <1>4, ThreadHas, BooksParts
<1>15. d.task[p].threads # <<>>
  <2>1. PICK t \in ToSet(r.task[p].threads) : t # k.tid
    BY <1>1, <1>3 DEF ProcOk
  <2>2. t \in ToSet(c.task[p].threads)
    BY <1>7, <2>1
  <2>3. ToSet(c.task[p].threads) = TidsOf(c.kern, p) /\ (c.task[p].threads = <<>> <=> TidsOf(c.kern, p) = {})
    BY <1>1, <1>7, BooksParts
  <2> QED
    BY <1>12, <2>2, <2>3
<1>16. ProcOk(d, p)
  BY <1>1, <1>7, <1>9, <1>12, <1>14 DEF ProcOk
<1>17. SpaceOk(d, p)
  BY <1>1, <1>7, <1>12, <1>14, <1>15 DEF SpaceOk
<1>18. RtInv(d)
  BY <1>13, <1>16, <1>17, MovedInv
<1> QED
  BY <1>7, <1>9, <1>12, <1>13, <1>14, <1>15, <1>18 DEF Moved

PutSpace(r, S) == [r EXCEPT !.space = S]
PutHalf(r, S) == [r EXCEPT !.half = S]
PutTask(r, p, x) == [r EXCEPT !.task[p] = x]
LEMMA SpaceEdit ==
  ASSUME NEW r, Books(r), NEW p \in RtUsers, NEW S \in SUBSET RtUsers, \A u \in RtUsers : u # p => (u \in S <=> u \in r.space),
         NEW d, d = PutSpace(r, S)
  PROVE  /\ Moved(d, r, p) /\ d.proc = r.proc /\ d.task = r.task /\ d.kern = r.kern /\ d.space = S
         /\ d.half = r.half /\ d.next_user_pid = r.next_user_pid
<1>1. r \in RtStates /\ p \in Tasks
  BY BooksParts DEF Tasks
<1>2. /\ d.free = r.free /\ d.count = r.count /\ d.task = r.task /\ d.kern = r.kern /\ d.space = S
      /\ d.next_user_pid = r.next_user_pid /\ d.half = r.half /\ d.bad = r.bad /\ d.proc = r.proc
  BY <1>1, StateParts DEF PutSpace
<1>3. AllParts(d)
  BY <1>1, StateParts DEF PutSpace, AllParts
<1>4. Edited(d, r, p)
  BY <1>1, <1>2, <1>3, StateParts DEF Edited, OthersSame
<1> QED
  BY <1>1, <1>2, <1>4, EditMoved
LEMMA HalfEdit ==
  ASSUME NEW r, Books(r), NEW p \in RtUsers, NEW S \in SUBSET RtUsers, \A u \in RtUsers : u # p => (u \in S <=> u \in r.half),
         NEW d, d = PutHalf(r, S)
  PROVE  /\ Moved(d, r, p) /\ d.proc = r.proc /\ d.task = r.task /\ d.kern = r.kern /\ d.space = r.space
         /\ d.half = S /\ d.next_user_pid = r.next_user_pid
<1>1. r \in RtStates /\ p \in Tasks
  BY BooksParts DEF Tasks
<1>2. /\ d.free = r.free /\ d.count = r.count /\ d.task = r.task /\ d.kern = r.kern /\ d.space = r.space
      /\ d.next_user_pid = r.next_user_pid /\ d.half = S /\ d.bad = r.bad /\ d.proc = r.proc
  BY <1>1, StateParts DEF PutHalf
<1>3. AllParts(d)
  BY <1>1, StateParts DEF PutHalf, AllParts
<1>4. Edited(d, r, p)
  BY <1>1, <1>2, <1>3, StateParts DEF Edited, OthersSame
<1> QED
  BY <1>1, <1>2, <1>4, EditMoved
LEMMA TaskEdit ==
  ASSUME NEW r, Books(r), NEW p \in Tasks, NEW x \in TaskRecs, x.threads = <<>>, r.task[p].threads = <<>>,
         NEW d, d = PutTask(r, p, x)
  PROVE  /\ Moved(d, r, p) /\ d.proc = r.proc /\ d.task[p] = x /\ d.kern = r.kern /\ d.space = r.space
         /\ d.half = r.half /\ d.next_user_pid = r.next_user_pid
<1>1. r \in RtStates
  BY BooksParts
<1>2. /\ d.free = r.free /\ d.count = r.count /\ d.proc = r.proc /\ d.kern = r.kern /\ d.space = r.space
      /\ d.next_user_pid = r.next_user_pid /\ d.half = r.half /\ d.bad = r.bad
  BY <1>1, StateParts DEF PutTask
<1>3. d.task = [r.task EXCEPT ![p] = x]
  BY <1>1, StateParts DEF PutTask
<1>4. AllParts(d)
  BY <1>1, StateParts DEF PutTask, AllParts
<1>5. d.task \in [Tasks -> TaskRecs] /\ d.task[p] = x /\ \A u \in Tasks : u # p => d.task[u] = r.task[u]
  BY <1>1, <1>3, StateParts
<1>6. Edited(d, r, p)
  BY <1>1, <1>2, <1>4, <1>5, StateParts DEF Edited, OthersSame
<1> QED
  BY <1>1, <1>2, <1>5, <1>6, EditMoved
LEMMA NoTaskIs ==
  NoTask \in TaskRecs /\ NoTask.threads = <<>> /\ ~NoTask.on
BY DEF NoTask, TaskRecs

(* process_dtor() of a process whose helper is gone.                       *)
LEMMA DropInv ==
  ASSUME NEW r, RtInv(r), NEW p \in RtUsers, r.task[p].on, r.proc[p].helper = NoTid, NEW d, d = process_dtor(r, p)
  PROVE  /\ RtInv(d) /\ d.proc[p] = r.proc[p] /\ d.task[p].threads = <<>> /\ d.task[p].on /\ p \notin d.space
         /\ d.next_user_pid = r.next_user_pid /\ d.half = r.half /\ \A u \in RtUsers : u # p => Kept(d, r, u)
<1>1. /\ Books(r) /\ ProcOk(r, p) /\ SpaceOk(r, p) /\ p \in Tasks /\ r.proc[p] \in ProcRecs /\ r.next_user_pid \in Nat
  BY InvParts
<1>2. PICK c : c = task_common_dtor(r, p)
  OBVIOUS
<1>3. Dropped(c, r, p)
  BY <1>1, <1>2, DropBooks
<1>4. /\ Books(c) /\ c.proc = r.proc /\ c.space = r.space /\ c.half = r.half /\ c.next_user_pid = r.next_user_pid
      /\ c.task[p].on = r.task[p].on /\ c.task[p].threads = <<>>
  BY <1>3 DEF Dropped, SameRest
<1>5. PICK S \in SUBSET RtUsers : S = c.space \ {p}
  BY <1>4, BooksParts, StateParts
<1>6. d = PutSpace(c, S)
  BY <1>2, <1>5 DEF process_dtor, PutSpace
<1>7. /\ Moved(d, c, p) /\ d.proc = c.proc /\ d.task = c.task /\ d.kern = c.kern /\ d.space = S
      /\ d.half = c.half /\ d.next_user_pid = c.next_user_pid
  BY <1>4, <1>5, <1>6, SpaceEdit
<1>8. Moved(d, r, p)
  BY <1>1, <1>3, <1>7, DropMoved, MovedOn
<1>9. d.task[p].threads = <<>> /\ d.task[p].on /\ p \notin d.space /\ d.proc[p] = r.proc[p]
  BY <1>4, <1>5, <1>7
<1>10. ProcOk(d, p)
  BY <1>1, <1>4, <1>7, <1>9 DEF ProcOk
<1>11. SpaceOk(d, p)
  BY <1>9 DEF SpaceOk
<1>12. RtInv(d)
  BY <1>8, <1>10, <1>11, MovedInv
<1> QED
  BY <1>4, <1>7, <1>8, <1>9, <1>12 DEF Moved

(* zombify(): the helper, the threads, and the parent is told.             *)
LEMMA ZombifyInv ==
  ASSUME NEW r, RtInv(r), NEW p \in RtUsers, p # 1, r.task[p].on,
         Parent(r, p) \in RtCatchers => r.task[Parent(r, p)].threads # <<>>
  PROVE  RtInv(rt_zombify(r, p))
<1>1. /\ Books(r) /\ ProcOk(r, p) /\ SpaceOk(r, p) /\ p \in Tasks /\ r.proc[p] \in ProcRecs /\ r.next_user_pid \in Nat
  BY InvParts
<1>2. PICK a : a = IF r.proc[p].helper # NoTid THEN sig_remove_helper(r, p) ELSE r
  OBVIOUS
<1>3. /\ RtInv(a) /\ a.proc[p].helper = NoTid /\ a.task[p].on /\ a.proc[p].ppid = r.proc[p].ppid
      /\ \A u \in RtUsers : u # p => Kept(a, r, u)
  <2>1. CASE r.proc[p].helper # NoTid
    <3>1. a = sig_remove_helper(r, p)
      BY <1>2, <2>1
    <3> QED
      BY <2>1, <3>1, HelperInv
  <2>2. CASE r.proc[p].helper = NoTid
    <3>1. a = r
      BY <1>2, <2>2
    <3> QED
      BY <2>2, <3>1 DEF Kept
  <2> QED
    BY <2>1, <2>2
<1>4. PICK b : b = process_dtor(a, p)
  OBVIOUS
<1>5. /\ RtInv(b) /\ b.proc[p] = a.proc[p] /\ b.task[p].threads = <<>> /\ b.task[p].on /\ p \notin b.space
      /\ b.next_user_pid = a.next_user_pid /\ b.half = a.half /\ \A u \in RtUsers : u # p => Kept(b, a, u)
  BY <1>3, <1>4, DropInv
<1>6. PICK q : q = Parent(b, p)
  OBVIOUS
<1>7. q \in RtUsers /\ q # p /\ q = Parent(r, p)
  <2>1. PICK o \in RtUsers \cup {0} : o = r.proc[p].ppid
    BY <1>1, ProcParts
  <2>2. b.proc[p].ppid = o /\ o # p
    BY <1>1, <1>3, <1>5, <2>1 DEF ProcOk
  <2>3. o \in RtUsers => b.task[o] = r.task[o]
    BY <1>3, <1>5, <2>2 DEF Kept
  <2> QED
    BY <1>6, <2>1, <2>2, <2>3, RtAssumption DEF Parent
<1>8. b.task[q] = r.task[q]
  BY <1>3, <1>5, <1>7 DEF Kept
<1>9. PICK x : x = Zombie(b.proc[p], q)
  OBVIOUS
<1>10. x.st = "zombie" /\ x.ppid = q /\ x.helper = NoTid
  BY <1>3, <1>5, <1>9 DEF Zombie
<1>11. Books(b) /\ b.proc[p] \in ProcRecs /\ ProcOk(b, p)
  BY <1>5, InvParts
<1>12. x \in ProcRecs
  BY <1>7, <1>9, <1>11, ProcParts DEF Zombie, ProcRecs
<1>13. PICK c : c = PutProc(b, p, x)
  OBVIOUS
<1>14. /\ Moved(c, b, p) /\ c.proc[p] = x /\ c.task = b.task /\ c.kern = b.kern /\ c.space = b.space
       /\ c.half = b.half /\ c.next_user_pid = b.next_user_pid
  BY <1>11, <1>12, <1>13, ProcEdit
<1>15. ProcOk(c, p)
  BY <1>5, <1>7, <1>10, <1>11, <1>14 DEF ProcOk
<1>16. SpaceOk(c, p)
  BY <1>5, <1>14 DEF SpaceOk
<1>17. RtInv(c)
  BY <1>5, <1>14, <1>15, <1>16, MovedInv
<1>18. rt_zombify(r, p) = IF q \in RtCatchers THEN sig_deliver(c, q) ELSE c
  BY <1>2, <1>4, <1>6, <1>9, <1>13 DEF rt_zombify, PutProc
<1>19. CASE q \in RtCatchers
  <2>1. c.task[q].threads # <<>>
    BY <1>7, <1>8, <1>14, <1>19
  <2>2. RtInv(sig_deliver(c, q))
    BY <1>7, <1>17, <2>1, DeliverInv
  <2> QED
    BY <1>18, <1>19, <2>2
<1>20. CASE q \notin RtCatchers
  BY <1>17, <1>18, <1>20
<1> QED
  BY <1>19, <1>20

-----------------------------------------------------------------------------
(* The calls. *)
LEMMA LaunchProcess ==
  ASSUME NEW r, Books(r), NEW p \in Tasks, r.task[p].utcb_free = Slots \ SlotsOf(r.kern, p), NEW l, l = launch_process(r, p)
  PROVE  /\ l.tid = NoTid => l.r = r
         /\ l.tid # NoTid => \E sl : Launched(l.r, r, p, l.tid, sl)
         /\ r.task[p].on /\ r.task[p].utcb_free # {} /\ MapFor(r, p) # {} => l.tid # NoTid
<1>1. PICK a : a = allocate_thread(r, p)
  OBVIOUS
<1>2. /\ a = [r |-> a.r, tid |-> a.tid, slot |-> a.slot] /\ (a.tid = NoTid => a.r = r)
      /\ r.task[p].on /\ r.task[p].utcb_free # {} /\ MapFor(r, p) # {} => a.tid # NoTid
  BY <1>1, AllocateFields
<1>3. PICK d : d = Create(a.r, a.tid, a.slot)
  OBVIOUS
<1>4. l = [a EXCEPT !.r = IF a.tid = NoTid THEN a.r ELSE d]
  BY <1>1, <1>3 DEF launch_process
<1>5. l.tid = a.tid /\ l.r = IF a.tid = NoTid THEN a.r ELSE d
  BY <1>2, <1>4
<1>6. a.tid # NoTid => Launched(d, r, p, a.tid, a.slot)
  BY <1>1, <1>3, LaunchBooks
<1> QED
  BY <1>2, <1>5, <1>6

LEMMA StepCreateSystask ==
  ASSUME RtInv(rt), NEW p \in Tasks, create_systask(p)
  PROVE  RtInv(rt')
<1>1. p \in RtSystasks /\ ~rt.task[p].on /\ p \notin RtUsers
  BY RtAssumption DEF create_systask
<1>2. PICK r : r = rt
  OBVIOUS
<1>3. Books(r) /\ RtInv(r)
  BY <1>2 DEF RtInv
<1>4. r.task[p].threads = <<>>
  BY <1>1, <1>2, <1>3, BooksParts
<1>5. PICK c : c = task_common_ctor(r, p)
  OBVIOUS
<1>6. Books(c) /\ c.task[p].utcb_free = Slots \ SlotsOf(c.kern, p) /\ Moved(c, r, p)
  BY <1>3, <1>4, <1>5, CtorBooks, CtorMoved
<1>7. PICK l : l = launch_process(c, p)
  OBVIOUS
<1>8. l.tid # NoTid /\ rt' = l.r
  BY <1>2, <1>5, <1>7 DEF create_systask
<1>9. PICK sl : Launched(l.r, c, p, l.tid, sl)
  BY <1>6, <1>7, <1>8, LaunchProcess
<1>10. Moved(l.r, r, p)
  BY <1>3, <1>6, <1>9, LaunchMoved, MovedOn, StartMoved
<1>11. RtInv(l.r)
  BY <1>1, <1>3, <1>10, MovedInv
<1> QED
  BY <1>8, <1>11

LEMMA StepDestroySystask ==
  ASSUME RtInv(rt), NEW p \in Tasks, destroy_systask(p)
  PROVE  RtInv(rt')
<1>1. p \in RtSystasks /\ rt.task[p].on /\ p \notin RtUsers
  BY RtAssumption DEF destroy_systask, RtRunning
<1>2. PICK r : r = rt
  OBVIOUS
<1>3. Books(r) /\ RtInv(r) /\ r.task[p].on
  BY <1>1, <1>2 DEF RtInv
<1>4. PICK c : c = task_common_dtor(r, p)
  OBVIOUS
<1>5. Dropped(c, r, p)
  BY <1>3, <1>4, DropBooks
<1>6. Books(c) /\ c.task[p].threads = <<>>
  BY <1>5 DEF Dropped
<1>7. PICK d : d = PutTask(c, p, NoTask)
  OBVIOUS
<1>8. Moved(d, c, p)
  BY <1>6, <1>7, NoTaskIs, TaskEdit
<1>9. rt' = d
  BY <1>2, <1>4, <1>7 DEF destroy_systask, PutTask
<1>10. Moved(d, r, p)
  BY <1>3, <1>5, <1>8, DropMoved, MovedOn, StartMoved
<1>11. RtInv(d)
  BY <1>1, <1>3, <1>10, MovedInv
<1> QED
  BY <1>9, <1>11

(* What a process has keeps, when it gets a thread.                        *)
LEMMA LaunchedInv ==
  ASSUME NEW r, RtInv(r), NEW p \in Tasks, r.task[p].threads # <<>>, NEW d, NEW tid, NEW slot, Launched(d, r, p, tid, slot)
  PROVE  RtInv(d)
<1>1. Books(r)
  BY DEF RtInv
<1>2. Moved(d, r, p)
  BY <1>1, LaunchMoved
<1>3. ASSUME p \in RtUsers PROVE ProcOk(d, p) /\ SpaceOk(d, p)
  <2>1. ProcOk(r, p) /\ SpaceOk(r, p)
    BY <1>3, InvParts
  <2>2. d.proc = r.proc /\ d.next_user_pid = r.next_user_pid /\ d.half = r.half /\ d.space = r.space
    BY DEF Launched, SameRest
  <2>3. /\ \A k \in r.kern : k \in d.kern
        /\ d.task[p].threads # <<>> /\ ToSet(d.task[p].threads) = ToSet(r.task[p].threads) \cup {tid}
    BY DEF Launched
  <2>4. ProcOk(d, p)
    BY <2>1, <2>2, <2>3 DEF ProcOk
  <2> QED
    BY <2>1, <2>2, <2>3, <2>4 DEF SpaceOk
<1> QED
  BY <1>2, <1>3, MovedInv

LEMMA StepCreateThread ==
  ASSUME RtInv(rt), NEW p \in Tasks, uapi_create_thread(p)
  PROVE  RtInv(rt')
<1>1. PICK r : r = rt
  OBVIOUS
<1>2. Books(r) /\ RtInv(r) /\ r.task[p].threads # <<>>
  BY <1>1 DEF RtInv, uapi_create_thread, RtRunning
<1>3. r.task[p].utcb_free = Slots \ SlotsOf(r.kern, p)
  BY <1>2, BooksParts
<1>4. PICK a : a = allocate_thread(r, p)
  OBVIOUS
<1>5. CASE a.tid = NoTid
  <2>1. a.r = r
    BY <1>2, <1>4, <1>5, AllocateFields
  <2>2. rt' = a.r
    BY <1>1, <1>4, <1>5 DEF uapi_create_thread
  <2> QED
    BY <1>2, <2>1, <2>2
<1>6. CASE a.tid # NoTid
  <2>1. PICK d : d = Create(a.r, a.tid, a.slot)
    OBVIOUS
  <2>2. rt' = d
    BY <1>1, <1>4, <1>6, <2>1 DEF uapi_create_thread
  <2>3. Launched(d, r, p, a.tid, a.slot)
    BY <1>2, <1>3, <1>4, <1>6, <2>1, LaunchBooks
  <2>4. RtInv(d)
    BY <1>2, <2>3, LaunchedInv
  <2> QED
    BY <2>2, <2>4
<1> QED
  BY <1>5, <1>6

LEMMA StepRemoveThread ==
  ASSUME RtInv(rt), NEW p \in Tasks, NEW tid, uapi_remove_thread(p, tid)
  PROVE  RtInv(rt')
<1>1. PICK r : r = rt
  OBVIOUS
<1>2. Books(r) /\ RtInv(r) /\ r.task[p].threads # <<>>
  BY <1>1 DEF RtInv, uapi_remove_thread, RtRunning
<1>3. PICK O : O = Own(p)
  OBVIOUS
<1>4. tid \in O /\ O # {tid} /\ O \subseteq ToSet(r.task[p].threads) /\ (p \in RtUsers => r.proc[p].helper \notin O)
  BY <1>1, <1>3 DEF uapi_remove_thread, Own
<1>5. PICK k \in r.kern : k.tid = tid /\ k.tid[3] = p
  <2>1. tid \in TidsOf(r.kern, p)
    BY <1>2, <1>4, BooksParts
  <2> QED
    BY <2>1 DEF TidsOf
<1>6. PICK d : d = Delete(free_threadno(free_thread(r, p, k.tid, SlotOf(r, k.tid)), k.tid), k.tid)
  OBVIOUS
<1>7. rt' = d
  BY <1>1, <1>5, <1>6 DEF uapi_remove_thread
<1>8. Removed(d, r, k)
  BY <1>2, <1>5, <1>6, ThreadBooks
<1>9. Moved(d, r, p)
  BY <1>2, <1>5, <1>8, RemoveMoved
<1>10. /\ Books(d) /\ d.proc = r.proc /\ d.space = r.space /\ d.half = r.half /\ d.next_user_pid = r.next_user_pid
       /\ ToSet(d.task[p].threads) = ToSet(r.task[p].threads) \ {tid} /\ d.kern = r.kern \ {k}
  BY <1>5, <1>8 DEF Removed, SameRest
<1>11. PICK t \in O : t # tid
  BY <1>4
<1>12. t \in ToSet(d.task[p].threads)
  BY <1>4, <1>10, <1>11
<1>13. d.task[p].threads # <<>>
  <2>1. ToSet(d.task[p].threads) = TidsOf(d.kern, p) /\ (d.task[p].threads = <<>> <=> TidsOf(d.kern, p) = {})
    BY <1>10, BooksParts
  <2> QED
    BY <1>12, <2>1
<1>14. ASSUME p \in RtUsers PROVE ProcOk(d, p) /\ SpaceOk(d, p)
  <2>1. ProcOk(r, p) /\ SpaceOk(r, p)
    BY <1>2, <1>14, InvParts
  <2>2. PICK h : h = r.proc[p].helper
    OBVIOUS
  <2>3. h # t /\ h # tid
    BY <1>4, <1>11, <1>14, <2>2
  <2>4. PICK hk : hk = [tid |-> h, slot |-> r.proc[p].hslot]
    OBVIOUS
  <2>5. hk # k
    BY <1>5, <2>3, <2>4
  <2>6. h # NoTid => hk \in d.kern /\ h[3] = p
    BY <1>10, <2>1, <2>2, <2>4, <2>5 DEF ProcOk
  <2>7. ProcOk(d, p)
    BY <1>2, <1>10, <1>12, <2>1, <2>2, <2>3, <2>4, <2>6 DEF ProcOk
  <2> QED
    BY <1>2, <1>10, <1>13, <2>1, <2>7 DEF SpaceOk
<1>15. RtInv(d)
  BY <1>2, <1>9, <1>14, MovedInv
<1> QED
  BY <1>7, <1>15

LEMMA AllocEdit ==
  ASSUME NEW r, Books(r), NEW p \in Tasks, NEW d, d = Alloc(r)
  PROVE  /\ Moved(d, r, p) /\ d.proc = r.proc /\ d.task = r.task /\ d.kern = r.kern /\ d.space = r.space
         /\ d.half = r.half /\ d.next_user_pid = r.next_user_pid + 1 /\ d.count = r.count
<1>1. r \in RtStates /\ r.next_user_pid \in Nat
  BY BooksParts, StateParts
<1>2. /\ d.free = r.free /\ d.count = r.count /\ d.task = r.task /\ d.kern = r.kern /\ d.space = r.space
      /\ d.next_user_pid = r.next_user_pid + 1 /\ d.half = r.half /\ d.bad = r.bad /\ d.proc = r.proc
  BY <1>1, StateParts DEF Alloc
<1>3. AllParts(d)
  BY <1>1, StateParts DEF Alloc, AllParts
<1>4. Edited(d, r, p)
  BY <1>1, <1>2, <1>3, StateParts DEF Edited, OthersSame
<1> QED
  BY <1>1, <1>2, <1>4, EditMoved

(* A new or emptied task gets its first thread.                            *)
LEMMA FirstThread ==
  ASSUME NEW b, Books(b), NEW p \in Tasks, b.task[p].threads = <<>>, NEW c, c = task_common_ctor(b, p),
         NEW l, l = launch_process(c, p)
  PROVE  /\ Moved(l.r, b, p) /\ l.r.proc = b.proc /\ l.r.space = b.space /\ l.r.half = b.half
         /\ l.r.next_user_pid = b.next_user_pid
         /\ l.tid = NoTid <=> l.r.task[p].threads = <<>>
         /\ MapFor(b, p) # {} => l.tid # NoTid
<1>1. /\ Books(c) /\ SameRest(c, b) /\ c.space = b.space /\ c.count = b.count
      /\ c.task[p].on /\ c.task[p].threads = <<>> /\ c.task[p].utcb_free = Slots \ SlotsOf(c.kern, p) /\ c.task[p] = Fresh
  BY CtorBooks
<1>2. Moved(c, b, p)
  BY CtorMoved
<1>3. MapFor(b, p) # {} => l.tid # NoTid
  <2>1. MapFor(c, p) = MapFor(b, p)
    BY <1>1 DEF MapFor
  <2>2. c.task[p].utcb_free # {}
    BY <1>1, RtAssumption DEF Fresh
  <2> QED
    BY <1>1, <2>1, <2>2, LaunchProcess
<1>4. CASE l.tid = NoTid
  <2>1. l.r = c
    BY <1>1, <1>4, LaunchProcess
  <2> QED
    BY <1>1, <1>2, <1>3, <1>4, <2>1 DEF SameRest
<1>5. CASE l.tid # NoTid
  <2>1. PICK sl : Launched(l.r, c, p, l.tid, sl)
    BY <1>1, <1>5, LaunchProcess
  <2>2. PICK d : d = l.r
    OBVIOUS
  <2>3. Moved(d, b, p)
    BY <1>1, <1>2, <2>1, <2>2, LaunchMoved, MovedOn, StartMoved
  <2>4. d.proc = c.proc /\ d.space = c.space /\ d.half = c.half /\ d.next_user_pid = c.next_user_pid /\ d.task[p].threads # <<>>
    BY <2>1, <2>2 DEF Launched, SameRest
  <2> QED
    BY <1>1, <1>3, <1>5, <2>2, <2>3, <2>4 DEF SameRest
<1> QED
  BY <1>4, <1>5

(* The number alloc_process() gives is of nobody.                          *)
LEMMA NextPid ==
  ASSUME NEW r, RtInv(r), NEW p \in RtUsers, p = r.next_user_pid, NEW a, a = Alloc(r)
  PROVE  /\ Moved(a, r, p) /\ Books(a) /\ a.task[p].threads = <<>> /\ r.task[p].threads = <<>> /\ p \notin a.space /\ p \notin a.half
         /\ a.proc[p].helper = NoTid /\ a.proc[p].ppid # p /\ ~(p >= a.next_user_pid) /\ a.next_user_pid \in Nat
         /\ a.count = r.count
<1>1. /\ Books(r) /\ ProcOk(r, p) /\ p \in Tasks /\ r.next_user_pid \in Nat /\ p \in Nat
  BY InvParts
<1>2. /\ Moved(a, r, p) /\ a.proc = r.proc /\ a.task = r.task /\ a.space = r.space
      /\ a.half = r.half /\ a.next_user_pid = r.next_user_pid + 1 /\ a.count = r.count
  BY <1>1, AllocEdit
<1>3. p >= r.next_user_pid /\ ~(p >= r.next_user_pid + 1) /\ r.next_user_pid + 1 \in Nat
  BY <1>1
<1> QED
  BY <1>1, <1>2, <1>3 DEF Moved, ProcOk

(* A process without threads and helper, and what is left of its space.    *)
LEMMA EmptyOk ==
  ASSUME NEW d, NEW p, d.task[p].threads = <<>>, d.proc[p].helper = NoTid, d.proc[p].ppid # p, ~(p >= d.next_user_pid),
         p \in d.half \/ p \notin d.space
  PROVE  ProcOk(d, p) /\ SpaceOk(d, p)
BY DEF ProcOk, SpaceOk
LEMMA LaunchedOk ==
  ASSUME NEW d, NEW p, d.task[p].threads # <<>>, d.proc[p].helper = NoTid, d.proc[p].ppid # p, ~(p >= d.next_user_pid),
         p \in d.space, d.proc[p].st # "zombie"
  PROVE  ProcOk(d, p) /\ SpaceOk(d, p)
BY DEF ProcOk, SpaceOk

LEMMA ForgetMoved ==
  ASSUME NEW r, Books(r), NEW p \in RtUsers, r.task[p].threads = <<>>, NEW d, d = Forget(r, p)
  PROVE  /\ Moved(d, r, p) /\ d.proc = r.proc /\ d.task[p].threads = <<>> /\ d.space = r.space
         /\ p \in d.half \/ p \notin d.space
         /\ d.next_user_pid = r.next_user_pid
<1>1. r \in RtStates /\ p \in Tasks
  BY BooksParts DEF Tasks
<1>2. PICK S \in SUBSET RtUsers : S = IF p \in r.space THEN r.half \cup {p} ELSE r.half
  BY <1>1, StateParts
<1>3. PICK c : c = PutTask(r, p, NoTask)
  OBVIOUS
<1>4. /\ Moved(c, r, p) /\ c.proc = r.proc /\ c.task[p] = NoTask /\ c.kern = r.kern /\ c.space = r.space
      /\ c.half = r.half /\ c.next_user_pid = r.next_user_pid
  BY <1>1, <1>3, NoTaskIs, TaskEdit
<1>5. d = PutHalf(c, S)
  BY <1>1, <1>2, <1>3 DEF Forget, PutHalf, PutTask
<1>6. Books(c)
  BY <1>4 DEF Moved
<1>7. /\ Moved(d, c, p) /\ d.proc = c.proc /\ d.task = c.task /\ d.kern = c.kern /\ d.space = c.space
      /\ d.half = S /\ d.next_user_pid = c.next_user_pid
  BY <1>2, <1>4, <1>5, <1>6, HalfEdit
<1>8. Moved(d, r, p)
  BY <1>4, <1>7, MovedOn, StartMoved
<1> QED
  BY <1>2, <1>4, <1>7, <1>8, NoTaskIs
LEMMA MovedBooks ==
  ASSUME NEW d, NEW r, NEW p, Moved(d, r, p)
  PROVE  Books(d) /\ d.next_user_pid \in Nat
BY DEF Moved
LEMMA LiveIs ==
  ASSUME NEW from \in RtUsers \cup {0}
  PROVE  LET x == Live(from) IN x \in ProcRecs /\ x.helper = NoTid /\ x.ppid = from /\ x.st # "zombie"
<1>1. PICK x : x = Live(from)
  OBVIOUS
<1>2. x.helper = NoTid /\ x.ppid = from /\ x.st = "live"
  BY <1>1 DEF Live
<1>3. x \in ProcRecs
  BY <1>1 DEF Live, ProcRecs
<1> QED
  BY <1>1, <1>2, <1>3

LEMMA StepSpawn ==
  ASSUME RtInv(rt), NEW u \in Tasks, NEW p \in RtUsers, NEW fail, uapi_spawn(u, p, fail)
  PROVE  RtInv(rt')
<1>1. PICK r : r = rt
  OBVIOUS
<1>2. RtInv(r) /\ p = r.next_user_pid /\ r.task[u].threads # <<>> /\ Books(r) /\ p \in Tasks /\ r.next_user_pid \in Nat
  BY <1>1, InvParts DEF uapi_spawn, RtRunning
<1>3. PICK a : a = Alloc(r)
  OBVIOUS
<1>4. /\ Moved(a, r, p) /\ Books(a) /\ a.task[p].threads = <<>> /\ r.task[p].threads = <<>> /\ p \notin a.space /\ p \notin a.half
      /\ a.proc[p].helper = NoTid /\ a.proc[p].ppid # p /\ ~(p >= a.next_user_pid) /\ a.next_user_pid \in Nat
  BY <1>2, <1>3, NextPid
<1>5. PICK S \in SUBSET RtUsers : S = a.space \cup {p}
  BY <1>4, BooksParts, StateParts
<1>6. PICK b : b = PutSpace(a, S)
  OBVIOUS
<1>7. /\ Moved(b, a, p) /\ b.proc = a.proc /\ b.task = a.task /\ b.space = S
      /\ b.half = a.half /\ b.next_user_pid = a.next_user_pid
  BY <1>4, <1>5, <1>6, SpaceEdit
<1>8. Books(b) /\ Moved(b, r, p) /\ b.task[p].threads = <<>> /\ b.next_user_pid \in Nat
  BY <1>2, <1>4, <1>7, MovedOn, MovedBooks
<1>9. PICK e : e = task_common_ctor(b, p)
  OBVIOUS
<1>10. PICK c : c = launch_process(e, p)
  OBVIOUS
<1>11. /\ Moved(c.r, b, p) /\ c.r.proc = b.proc /\ c.r.space = b.space /\ c.r.half = b.half
       /\ c.r.next_user_pid = b.next_user_pid
       /\ c.tid = NoTid <=> c.r.task[p].threads = <<>>
  BY <1>2, <1>8, <1>9, <1>10, FirstThread
<1>12. PICK g : g = c.r
  OBVIOUS
<1>13. Books(g) /\ Moved(g, r, p)
  BY <1>2, <1>8, <1>11, <1>12, MovedOn, MovedBooks
<1>14. PICK from \in RtUsers \cup {0} : from = (IF u \in RtSystasks THEN 0 ELSE u) /\ from # p
  BY <1>2, <1>4, RtAssumption DEF Tasks
<1>15. rt' = CASE fail = "fork" -> Forget(a, p)
               [] fail = "load" -> Forget(b, p)
               [] c.tid = NoTid -> Forget(g, p)
               [] OTHER -> PutProc(g, p, Live(from))
  BY <1>1, <1>3, <1>5, <1>6, <1>9, <1>10, <1>12, <1>14 DEF uapi_spawn, PutSpace, PutProc
<1>16. ASSUME NEW x, Books(x), Moved(x, r, p), x.task[p].threads = <<>>, x.proc = a.proc, x.next_user_pid = a.next_user_pid
       PROVE  RtInv(Forget(x, p))
  <2>1. PICK d : d = Forget(x, p)
    OBVIOUS
  <2>2. /\ Moved(d, x, p) /\ d.proc = x.proc /\ d.task[p].threads = <<>> /\ d.space = x.space
        /\ p \in d.half \/ p \notin d.space
        /\ d.next_user_pid = x.next_user_pid
    BY <1>16, <2>1, ForgetMoved
  <2>3. Moved(d, r, p)
    BY <1>2, <1>16, <2>2, MovedOn
  <2>4. ProcOk(d, p) /\ SpaceOk(d, p)
    BY <1>4, <1>16, <2>2, EmptyOk
  <2>5. RtInv(d)
    BY <1>2, <2>3, <2>4, MovedInv
  <2> QED
    BY <2>1, <2>5
<1>17. RtInv(Forget(a, p))
  BY <1>4, <1>16
<1>18. RtInv(Forget(b, p))
  BY <1>7, <1>8, <1>16
<1>19. CASE c.tid = NoTid
  <2>1. g.task[p].threads = <<>> /\ g.proc = a.proc /\ g.next_user_pid = a.next_user_pid
    BY <1>7, <1>11, <1>12, <1>19
  <2>2. RtInv(Forget(g, p))
    BY <1>13, <1>16, <2>1
  <2> QED
    BY <1>15, <1>17, <1>18, <1>19, <2>2
<1>20. CASE c.tid # NoTid
  <2>1. g.task[p].threads # <<>> /\ p \in g.space /\ g.next_user_pid = a.next_user_pid
    BY <1>5, <1>7, <1>11, <1>12, <1>20
  <2>2. PICK x \in ProcRecs : x = Live(from) /\ x.helper = NoTid /\ x.ppid = from /\ x.st # "zombie"
    BY LiveIs
  <2>3. PICK d : d = PutProc(g, p, x)
    OBVIOUS
  <2>4. /\ Moved(d, g, p) /\ d.proc[p] = x /\ d.task = g.task /\ d.space = g.space
        /\ d.half = g.half /\ d.next_user_pid = g.next_user_pid
    BY <1>13, <2>2, <2>3, ProcEdit
  <2>5. Moved(d, r, p)
    BY <1>2, <1>13, <2>4, MovedOn
  <2>6. ProcOk(d, p) /\ SpaceOk(d, p)
    BY <1>4, <1>14, <2>1, <2>2, <2>4, LaunchedOk
  <2>7. RtInv(d)
    BY <1>2, <2>5, <2>6, MovedInv
  <2>8. PutProc(g, p, Live(from)) = d
    BY <2>2, <2>3
  <2> QED
    BY <1>15, <1>17, <1>18, <1>20, <2>7, <2>8
<1> QED
  BY <1>19, <1>20

LEMMA StepExec ==
  ASSUME RtInv(rt), RtExecs = {}, NEW p \in Tasks, NEW fail, uapi_exec(p, fail)
  PROVE  RtInv(rt')
<1>1. PICK r : r = rt
  OBVIOUS
<1>2. p \in RtUsers /\ RtInv(r) /\ r.task[p].threads # <<>> /\ r.task[p].on /\ r.proc[p].helper = NoTid
  BY <1>1 DEF uapi_exec, RtRunning
<1>3. /\ Books(r) /\ ProcOk(r, p) /\ r.next_user_pid \in Nat /\ p \in Nat
  BY <1>2, InvParts
<1>4. ~(p >= r.next_user_pid) /\ r.proc[p].ppid # p /\ r.proc[p].st # "zombie"
  BY <1>2, <1>3 DEF ProcOk
<1>5. PICK a : a = process_dtor(r, p)
  OBVIOUS
<1>6. /\ RtInv(a) /\ a.proc[p] = r.proc[p] /\ a.task[p].threads = <<>> /\ a.task[p].on /\ p \notin a.space
      /\ a.next_user_pid = r.next_user_pid /\ a.half = r.half
  BY <1>2, <1>5, DropInv
<1>7. Books(a) /\ a.next_user_pid \in Nat
  BY <1>2, <1>6, InvParts
<1>8. PICK S \in SUBSET RtUsers : S = a.space \cup {p}
  BY <1>2, <1>7, BooksParts, StateParts
<1>9. PICK b : b = PutSpace(a, S)
  OBVIOUS
<1>10. /\ Moved(b, a, p) /\ b.proc = a.proc /\ b.task = a.task /\ b.space = S
       /\ b.half = a.half /\ b.next_user_pid = a.next_user_pid
  BY <1>2, <1>7, <1>8, <1>9, SpaceEdit
<1>11. Books(b) /\ b.task[p].threads = <<>> /\ b.next_user_pid \in Nat
  BY <1>6, <1>10, MovedBooks
<1>12. PICK e : e = task_common_ctor(b, p)
  OBVIOUS
<1>13. PICK c : c = launch_process(e, p)
  OBVIOUS
<1>14. /\ Moved(c.r, b, p) /\ c.r.proc = b.proc /\ c.r.space = b.space /\ c.r.half = b.half
       /\ c.r.next_user_pid = b.next_user_pid
       /\ c.tid = NoTid <=> c.r.task[p].threads = <<>>
  BY <1>11, <1>12, <1>13, FirstThread
<1>15. PICK g : g = c.r
  OBVIOUS
<1>16. Books(g) /\ Moved(g, a, p)
  BY <1>7, <1>10, <1>14, <1>15, MovedOn, MovedBooks
<1>17. rt' = CASE fail = "fork" -> PutHalf(a, a.half \cup {p})
               [] fail = "load" -> PutHalf(b, b.half \cup {p})
               [] c.tid = NoTid -> PutHalf(g, g.half \cup {p})
               [] OTHER -> g
  BY <1>1, <1>5, <1>8, <1>9, <1>12, <1>13, <1>15 DEF uapi_exec, PutSpace, PutHalf
<1>18. ASSUME NEW x, Books(x), Moved(x, a, p), x.task[p].threads = <<>>, x.proc = a.proc, x.next_user_pid = a.next_user_pid
       PROVE  RtInv(PutHalf(x, x.half \cup {p}))
  <2>1. PICK H \in SUBSET RtUsers : H = x.half \cup {p}
    BY <1>2, <1>18, BooksParts, StateParts
  <2>2. PICK d : d = PutHalf(x, H)
    OBVIOUS
  <2>3. /\ Moved(d, x, p) /\ d.proc = x.proc /\ d.task = x.task /\ d.kern = x.kern /\ d.space = x.space
        /\ d.half = H /\ d.next_user_pid = x.next_user_pid
    BY <1>2, <1>18, <2>1, <2>2, HalfEdit
  <2>4. Moved(d, a, p)
    BY <1>7, <1>18, <2>3, MovedOn
  <2>5. ProcOk(d, p) /\ SpaceOk(d, p)
    BY <1>2, <1>4, <1>6, <1>18, <2>1, <2>3, EmptyOk
  <2>6. RtInv(d)
    BY <1>6, <2>4, <2>5, MovedInv
  <2> QED
    BY <2>1, <2>2, <2>6
<1>19. RtInv(PutHalf(a, a.half \cup {p}))
  BY <1>6, <1>7, <1>18, StartMoved
<1>20. RtInv(PutHalf(b, b.half \cup {p}))
  BY <1>10, <1>11, <1>18
<1>21. CASE c.tid = NoTid
  <2>1. g.task[p].threads = <<>> /\ g.proc = a.proc /\ g.next_user_pid = a.next_user_pid
    BY <1>10, <1>14, <1>15, <1>21
  <2>2. RtInv(PutHalf(g, g.half \cup {p}))
    BY <1>16, <1>18, <2>1
  <2> QED
    BY <1>17, <1>19, <1>20, <1>21, <2>2
<1>22. CASE c.tid # NoTid
  <2>1. g.task[p].threads # <<>> /\ p \in g.space /\ g.next_user_pid = r.next_user_pid /\ g.proc[p] = r.proc[p]
    BY <1>6, <1>8, <1>10, <1>14, <1>15, <1>22
  <2>2. ProcOk(g, p) /\ SpaceOk(g, p)
    BY <1>2, <1>4, <2>1, LaunchedOk
  <2>3. RtInv(g)
    BY <1>6, <1>16, <2>2, MovedInv
  <2> QED
    BY <1>17, <1>19, <1>20, <1>22, <2>3
<1> QED
  BY <1>21, <1>22

LEMMA StepFork ==
  ASSUME RtInv(rt), NEW q \in Tasks, NEW p \in RtUsers, NEW fail, rt_fork(q, p, fail)
  PROVE  RtInv(rt')
<1>1. PICK r : r = rt
  OBVIOUS
<1>2. /\ RtInv(r) /\ p = r.next_user_pid /\ q \in RtUsers /\ r.task[q].threads # <<>> /\ Books(r) /\ p \in Tasks
      /\ r.next_user_pid \in Nat /\ MapFor(r, p) # {}
  BY <1>1, InvParts DEF rt_fork, RtRunning
<1>3. PICK n : n = Alloc(r)
  OBVIOUS
<1>4. /\ Moved(n, r, p) /\ Books(n) /\ n.task[p].threads = <<>> /\ r.task[p].threads = <<>> /\ p \notin n.space /\ p \notin n.half
      /\ ~(p >= n.next_user_pid) /\ n.next_user_pid \in Nat /\ n.count = r.count
  BY <1>2, <1>3, NextPid
<1>5. PICK a : a = task_common_ctor(n, p)
  OBVIOUS
<1>6. /\ Books(a) /\ SameRest(a, n) /\ a.space = n.space /\ a.count = n.count
      /\ a.task[p].on /\ a.task[p].threads = <<>> /\ a.task[p].utcb_free = Slots \ SlotsOf(a.kern, p) /\ a.task[p] = Fresh
  BY <1>2, <1>4, <1>5, CtorBooks
<1>7. Moved(a, r, p)
  BY <1>2, <1>4, <1>5, CtorMoved, MovedOn
<1>8. PICK x \in ProcRecs : x = Live(q) /\ x.helper = NoTid /\ x.ppid = q /\ x.st # "zombie"
  BY <1>2, LiveIs
<1>9. PICK b : b = PutProc(a, p, x)
  OBVIOUS
<1>10. /\ Moved(b, a, p) /\ b.proc[p] = x /\ b.task = a.task /\ b.kern = a.kern /\ b.space = a.space
       /\ b.half = a.half /\ b.next_user_pid = a.next_user_pid
  BY <1>6, <1>8, <1>9, ProcEdit
<1>11. Books(b) /\ Moved(b, r, p)
  BY <1>2, <1>7, <1>10, MovedOn, MovedBooks
<1>12. a.next_user_pid = n.next_user_pid /\ q # p
  BY <1>2, <1>4, <1>6 DEF SameRest
<1>13. PICK H \in SUBSET RtUsers : H = b.half \cup {p}
  BY <1>11, BooksParts, StateParts
<1>14. PICK S \in SUBSET RtUsers : S = b.space \cup {p}
  BY <1>11, BooksParts, StateParts
<1>15. PICK c : c = PutSpace(b, S)
  OBVIOUS
<1>16. rt' = IF fail = "fork" THEN PutHalf(b, H) ELSE launch_process(c, p).r
  BY <1>1, <1>3, <1>5, <1>8, <1>9, <1>13, <1>14, <1>15 DEF rt_fork, PutSpace, PutHalf, PutProc
<1>17. RtInv(PutHalf(b, H))
  <2>1. PICK d : d = PutHalf(b, H)
    OBVIOUS
  <2>2. /\ Moved(d, b, p) /\ d.proc = b.proc /\ d.task = b.task /\ d.kern = b.kern /\ d.space = b.space
        /\ d.half = H /\ d.next_user_pid = b.next_user_pid
    BY <1>11, <1>13, <2>1, HalfEdit
  <2>3. Moved(d, r, p)
    BY <1>2, <1>11, <2>2, MovedOn
  <2>4. ProcOk(d, p) /\ SpaceOk(d, p)
    BY <1>4, <1>6, <1>8, <1>10, <1>12, <1>13, <2>2, EmptyOk
  <2>5. RtInv(d)
    BY <1>2, <2>3, <2>4, MovedInv
  <2> QED
    BY <2>1, <2>5
<1>18. RtInv(launch_process(c, p).r)
  <2>1. /\ Moved(c, b, p) /\ c.proc = b.proc /\ c.task = b.task /\ c.kern = b.kern /\ c.space = S
        /\ c.half = b.half /\ c.next_user_pid = b.next_user_pid
    BY <1>11, <1>14, <1>15, SpaceEdit
  <2>2. Books(c) /\ Moved(c, r, p)
    BY <1>2, <1>11, <2>1, MovedOn, MovedBooks
  <2>3. PICK l : l = launch_process(c, p)
    OBVIOUS
  <2>4. c.task[p].on /\ c.task[p].utcb_free = Slots \ SlotsOf(c.kern, p) /\ c.task[p].utcb_free # {}
    BY <1>6, <1>10, <2>1, RtAssumption DEF Fresh
  <2>5. MapFor(c, p) = {m \in {MapOf[p]} : c.count[m] > 0} /\ MapFor(r, p) = {m \in {MapOf[p]} : r.count[m] > 0}
    BY DEF MapFor
  <2>6. c.count = b.count
    BY <1>11, <1>15, BooksParts, StateParts DEF PutSpace
  <2>7. b.count = a.count
    BY <1>6, <1>9, BooksParts, StateParts DEF PutProc
  <2>8. MapFor(c, p) # {}
    BY <1>2, <1>4, <1>6, <2>5, <2>6, <2>7
  <2>9. l.tid # NoTid
    BY <1>2, <2>2, <2>3, <2>4, <2>8, LaunchProcess
  <2>10. PICK sl : Launched(l.r, c, p, l.tid, sl)
    BY <1>2, <2>2, <2>3, <2>4, <2>9, LaunchProcess
  <2>11. PICK d : d = l.r
    OBVIOUS
  <2>12. Moved(d, r, p)
    BY <1>2, <2>2, <2>10, <2>11, LaunchMoved, MovedOn
  <2>13. d.proc = c.proc /\ d.space = c.space /\ d.next_user_pid = c.next_user_pid /\ d.task[p].threads # <<>>
    BY <2>10, <2>11 DEF Launched, SameRest
  <2>14. ProcOk(d, p) /\ SpaceOk(d, p)
    BY <1>4, <1>8, <1>10, <1>12, <1>14, <2>1, <2>13, LaunchedOk
  <2>15. RtInv(d)
    BY <1>2, <2>12, <2>14, MovedInv
  <2> QED
    BY <2>3, <2>11, <2>15
<1> QED
  BY <1>16, <1>17, <1>18

LEMMA StepExit ==
  ASSUME RtInv(rt), ~RtOrphans, ~RtLateSignals, NEW p \in Tasks, rt_exit(p)
  PROVE  RtInv(rt')
<1>1. PICK r : r = rt
  OBVIOUS
<1>2. p \in RtUsers /\ p # 1 /\ RtInv(r) /\ r.task[p].on
  BY <1>1 DEF rt_exit, RtRunning
<1>3. Parent(r, p) \in RtCatchers => r.task[Parent(r, p)].threads # <<>>
  BY <1>1 DEF rt_exit, Minded
<1>4. RtInv(rt_zombify(r, p))
  BY <1>2, <1>3, ZombifyInv
<1> QED
  BY <1>1, <1>4 DEF rt_exit

LEMMA NoProcessIs ==
  LET x == NoProcess IN x \in ProcRecs /\ x.helper = NoTid /\ x.ppid = 0 /\ x.st = "none"
<1>1. PICK x : x = NoProcess
  OBVIOUS
<1>2. x.helper = NoTid /\ x.ppid = 0 /\ x.st = "none"
  BY <1>1 DEF NoProcess
<1>3. x \in ProcRecs
  BY <1>1 DEF NoProcess, ProcRecs
<1> QED
  BY <1>1, <1>2, <1>3
LEMMA StepDestroy ==
  ASSUME RtInv(rt), NEW p \in Tasks, rt_destroy(p)
  PROVE  RtInv(rt')
<1>1. PICK r : r = rt
  OBVIOUS
<1>2. p \in RtUsers /\ RtInv(r) /\ r.proc[p].st = "zombie"
  BY <1>1 DEF rt_destroy
<1>3. /\ Books(r) /\ ProcOk(r, p) /\ SpaceOk(r, p) /\ r.next_user_pid \in Nat /\ p \in Nat
  BY <1>2, InvParts
<1>4. r.task[p].threads = <<>>
  BY <1>2, <1>3 DEF ProcOk
<1>5. PICK c : c = PutTask(r, p, NoTask)
  OBVIOUS
<1>6. /\ Moved(c, r, p) /\ c.proc = r.proc /\ c.task[p] = NoTask /\ c.kern = r.kern /\ c.space = r.space
      /\ c.half = r.half /\ c.next_user_pid = r.next_user_pid
  BY <1>3, <1>4, <1>5, NoTaskIs, TaskEdit
<1>7. PICK x \in ProcRecs : x = NoProcess /\ x.helper = NoTid /\ x.ppid = 0 /\ x.st = "none"
  BY NoProcessIs
<1>8. PICK d : d = PutProc(c, p, x)
  OBVIOUS
<1>9. Books(c)
  BY <1>6, MovedBooks
<1>10. /\ Moved(d, c, p) /\ d.proc[p] = x /\ d.task = c.task /\ d.kern = c.kern /\ d.space = c.space
       /\ d.half = c.half /\ d.next_user_pid = c.next_user_pid
  BY <1>2, <1>7, <1>8, <1>9, ProcEdit
<1>11. Moved(d, r, p)
  BY <1>3, <1>6, <1>10, MovedOn
<1>12. rt' = d
  BY <1>1, <1>5, <1>7, <1>8 DEF rt_destroy, PutProc, PutTask
<1>13. p # 0 /\ d.task[p].threads = <<>>
  BY <1>2, <1>6, <1>10, NoTaskIs, RtAssumption
<1>14. ProcOk(d, p)
  BY <1>3, <1>6, <1>7, <1>10, <1>13 DEF ProcOk
<1>15. SpaceOk(d, p)
  BY <1>3, <1>4, <1>6, <1>10, <1>13 DEF SpaceOk
<1>16. RtInv(d)
  BY <1>2, <1>11, <1>14, <1>15, MovedInv
<1> QED
  BY <1>12, <1>16

LEMMA StepKill ==
  ASSUME RtInv(rt), ~RtLateSignals, NEW p \in Tasks, kill(p)
  PROVE  RtInv(rt')
<1>1. p \in RtUsers /\ rt.task[p].threads # <<>> /\ rt' = sig_deliver(rt, p)
  BY DEF kill, RtRunning
<1> QED
  BY <1>1, DeliverInv

LEMMA StepSigset ==
  ASSUME RtInv(rt), NEW p \in Tasks, sigset_ends(p)
  PROVE  RtInv(rt')
<1>1. PICK r : r = rt
  OBVIOUS
<1>2. RtInv(r) /\ p \in RtUsers /\ r.proc[p].helper \in ToSet(r.task[p].threads) /\ rt' = sig_remove_helper(r, p)
  BY <1>1 DEF sigset_ends
<1>3. Books(r)
  BY <1>2, InvParts
<1>4. r.proc[p].helper # NoTid
  <2>1. r.proc[p].helper \in TidsOf(r.kern, p) /\ r.kern \in SUBSET Kerns
    BY <1>2, <1>3, BooksParts
  <2> QED
    BY <2>1, KernParts DEF TidsOf
<1> QED
  BY <1>2, <1>4, HelperInv

(* Every step keeps the books.                                             *)
LEMMA RtStep ==
  ASSUME ~RtOrphans, ~RtLateSignals, RtExecs = {}, RtInv(rt), [RtNext]_rt
  PROVE  RtInv(rt')
<1>1. CASE UNCHANGED rt
  BY <1>1
<1>2. CASE RtNext
  <2>1. PICK p \in Tasks :
         \/ create_systask(p) \/ destroy_systask(p) \/ uapi_create_thread(p)
         \/ \E tid \in ToSet(rt.task[p].threads) : uapi_remove_thread(p, tid)
         \/ \E f \in Fails, q \in RtUsers : uapi_spawn(p, q, f)
         \/ \E f \in Fails : uapi_exec(p, f)
         \/ \E f \in Fails \ {"load"}, q \in RtUsers : rt_fork(p, q, f)
         \/ rt_exit(p) \/ rt_destroy(p) \/ kill(p) \/ sigset_ends(p)
    BY <1>2 DEF RtNext
  <2>2. CASE create_systask(p)
    BY <2>2, StepCreateSystask
  <2>3. CASE destroy_systask(p)
    BY <2>3, StepDestroySystask
  <2>4. CASE uapi_create_thread(p)
    BY <2>4, StepCreateThread
  <2>5. ASSUME NEW tid, uapi_remove_thread(p, tid) PROVE RtInv(rt')
    BY <2>5, StepRemoveThread
  <2>6. ASSUME NEW f, NEW q \in RtUsers, uapi_spawn(p, q, f) PROVE RtInv(rt')
    BY <2>6, StepSpawn
  <2>7. ASSUME NEW f, uapi_exec(p, f) PROVE RtInv(rt')
    BY <2>7, StepExec
  <2>8. ASSUME NEW f, NEW q \in RtUsers, rt_fork(p, q, f) PROVE RtInv(rt')
    BY <2>8, StepFork
  <2>9. CASE rt_exit(p)
    BY <2>9, StepExit
  <2>10. CASE rt_destroy(p)
    BY <2>10, StepDestroy
  <2>11. CASE kill(p)
    BY <2>11, StepKill
  <2>12. CASE sigset_ends(p)
    BY <2>12, StepSigset
  <2> QED
    BY <2>1, <2>2, <2>3, <2>4, <2>5, <2>6, <2>7, <2>8, <2>9, <2>10, <2>11, <2>12
<1> QED
  BY <1>1, <1>2

(* The books when the root task has begun.                                 *)
LEMMA FirstInv ==
  RtInv(RtFirst) /\ (\A m \in Maps : RtFirst.count[m] >= 2) /\ \A p \in Tasks : RtFirst.task[p].threads = <<>>
<1>1. PICK r : r = RtFirst
  OBVIOUS
<1>2. /\ r.free = [m \in Maps |-> IF m = 0 THEN Bits \ Burnt ELSE Bits]
      /\ r.count = [m \in Maps |-> Cardinality(IF m = 0 THEN Bits \ Burnt ELSE Bits)]
      /\ r.task = [p \in Tasks |-> NoTask] /\ r.proc = [p \in RtUsers |-> NoProcess]
      /\ r.kern = {} /\ r.space = {} /\ r.next_user_pid = 1 /\ r.half = {} /\ r.bad = {} /\ AllParts(r)
  BY <1>1 DEF RtFirst, AllParts
<1>3. /\ Cardinality(Bits) \in Nat /\ Cardinality(Bits \ Burnt) \in Nat /\ Cardinality(Bits \ Burnt) >= 2
      /\ Cardinality(Bits) >= Cardinality(Bits \ Burnt)
  <2>1. IsFiniteSet(Bits) /\ Cardinality(Bits \ Burnt) >= 2
    BY RtAssumption
  <2>2. Cardinality(Bits) \in Nat /\ Cardinality(Bits \ Burnt) \in Nat
    BY FreeFinite
  <2>3. PICK T : T = Bits \ Burnt
    OBVIOUS
  <2>4. T \in SUBSET Bits
    BY <2>3
  <2>5. Cardinality(T) <= Cardinality(Bits)
    BY <2>1, <2>4, FS_Subset
  <2> QED
    BY <2>1, <2>2, <2>3, <2>5
<1>4. NoProcess \in ProcRecs
  BY NoProcessIs
<1>5. r \in RtStates
  <2>1. r.free \in [Maps -> SUBSET Bits]
    BY <1>2, RtAssumption
  <2>2. r.count \in [Maps -> Nat]
    BY <1>2, <1>3
  <2>3. r.task \in [Tasks -> TaskRecs] /\ r.proc \in [RtUsers -> ProcRecs]
    BY <1>2, <1>4, NoTaskIs
  <2>4. /\ r.kern \in SUBSET Kerns /\ r.space \in SUBSET RtUsers /\ r.half \in SUBSET RtUsers
        /\ r.next_user_pid \in Nat /\ r.bad \in SUBSET Asserts /\ AllParts(r)
    BY <1>2
  <2> QED
    BY <2>1, <2>2, <2>3, <2>4, IsState
<1>6. \A m \in Maps : r.count[m] = Cardinality(r.free[m]) /\ r.count[m] >= 2
  BY <1>2, <1>3
<1>7. NumbersOk(r)
  <2>1. \A m, b : ~Taken(r.kern, m, b)
    BY <1>2 DEF Taken
  <2>2. \A m \in Maps, b \in Bits : b \in r.free[m] <=> ~(m = 0 /\ b \in Burnt)
    BY <1>2
  <2> QED
    BY <1>6, <2>1, <2>2 DEF NumbersOk
<1>8. KernOnce(r.kern)
  BY <1>2 DEF KernOnce
<1>9. \A p \in Tasks : r.task[p].threads = <<>>
  BY <1>2, NoTaskIs
<1>10. ListsOk(r)
  <2>1. ToSet(<<>>) = {} /\ Once(<<>>)
    BY DEF ToSet, Once
  <2>2. \A p : TidsOf(r.kern, p) = {}
    BY <1>2 DEF TidsOf
  <2> QED
    BY <1>9, <2>1, <2>2 DEF ListsOk, ListOk
<1>11. ASSUME NEW p \in RtUsers PROVE ProcOk(r, p) /\ SpaceOk(r, p)
  <2>1. r.task[p].threads = <<>> /\ r.proc[p] = NoProcess /\ p # 0
    BY <1>2, <1>9, RtAssumption DEF Tasks
  <2>2. r.proc[p].helper = NoTid /\ r.proc[p].ppid = 0
    BY <2>1 DEF NoProcess
  <2> QED
    BY <1>2, <2>1, <2>2 DEF ProcOk, SpaceOk
<1> QED
  BY <1>1, <1>2, <1>5, <1>6, <1>7, <1>8, <1>9, <1>10, <1>11 DEF RtInv, Books

Begun(r) == [r EXCEPT !.space = {1}, !.next_user_pid = 2, !.proc[1] = Live(0)]
LEMMA RtStart ==
  ASSUME RtInit
  PROVE  RtInv(rt)
<1>1. PICK f : f = RtFirst
  OBVIOUS
<1>2. /\ RtInv(f) /\ (\A m \in Maps : f.count[m] >= 2) /\ \A p \in Tasks : f.task[p].threads = <<>>
      /\ f.next_user_pid = 1 /\ f.space = {}
  BY <1>1, FirstInv DEF RtFirst
<1>3. PICK sys : sys = Lowest(RtSystasks)
  OBVIOUS
<1>4. sys \in RtSystasks /\ sys \in Tasks /\ sys \notin RtUsers /\ 1 \in RtUsers /\ 1 \in Tasks /\ sys # 1
  <2>1. RtSystasks \in SUBSET Nat /\ RtSystasks # {}
    BY RtAssumption
  <2>2. sys \in RtSystasks
    BY <1>3, <2>1, LowestFacts
  <2> QED
    BY <2>2, RtAssumption DEF Tasks
<1>5. Books(f)
  BY <1>2 DEF RtInv
<1>6. PICK c : c = task_common_ctor(f, sys)
  OBVIOUS
<1>7. PICK l : l = launch_process(c, sys)
  OBVIOUS
<1>8. PICK a : a = l.r
  OBVIOUS
<1>9. /\ Moved(a, f, sys) /\ a.proc = f.proc /\ a.space = f.space /\ a.half = f.half /\ a.next_user_pid = f.next_user_pid
  BY <1>2, <1>4, <1>5, <1>6, <1>7, <1>8, FirstThread
<1>10. RtInv(a) /\ Books(a) /\ a.next_user_pid = 1
  BY <1>2, <1>4, <1>9, MovedInv, MovedBooks
<1>11. \A m \in Maps : a.count[m] > 0
  <2>1. /\ Books(c) /\ c.count = f.count /\ c.task[sys].utcb_free = Slots \ SlotsOf(c.kern, sys)
    BY <1>2, <1>4, <1>5, <1>6, CtorBooks
  <2>2. \A m \in Maps : c.count[m] \in Nat /\ c.count[m] >= 2
    BY <1>2, <2>1, BooksParts, StateParts
  <2>3. CASE l.tid = NoTid
    <3>1. a = c
      BY <1>4, <1>7, <1>8, <2>1, <2>3, LaunchProcess
    <3> QED
      BY <2>2, <3>1
  <2>4. CASE l.tid # NoTid
    <3>1. PICK sl : Launched(l.r, c, sys, l.tid, sl)
      BY <1>4, <1>7, <2>1, <2>4, LaunchProcess
    <3>2. OtherMaps(a, c, l.tid[1]) /\ a.count[l.tid[1]] = c.count[l.tid[1]] - 1
      BY <1>8, <3>1 DEF Launched
    <3>3. ASSUME NEW m \in Maps PROVE a.count[m] > 0
      <4>1. CASE m = l.tid[1]
        BY <2>2, <3>2, <4>1
      <4>2. CASE m # l.tid[1]
        <5>1. a.count[m] = c.count[m]
          BY <3>2, <4>2 DEF OtherMaps
        <5> QED
          BY <2>2, <5>1
      <4> QED
        BY <4>1, <4>2
    <3> QED
      BY <3>3
  <2> QED
    BY <2>3, <2>4
<1>12. PICK g : g = Begun(a)
  OBVIOUS
<1>13. PICK x \in ProcRecs : x = Live(0) /\ x.helper = NoTid /\ x.ppid = 0 /\ x.st # "zombie"
  BY LiveIs
<1>14. a \in RtStates
  BY <1>10, BooksParts
<1>15. /\ g.free = a.free /\ g.count = a.count /\ g.task = a.task /\ g.kern = a.kern /\ g.space = {1}
       /\ g.next_user_pid = 2 /\ g.half = a.half /\ g.bad = a.bad
  BY <1>12, <1>14, StateParts DEF Begun
<1>16. g.proc = [a.proc EXCEPT ![1] = x]
  BY <1>12, <1>13, <1>14, StateParts DEF Begun
<1>17. AllParts(g)
  BY <1>12, <1>14, StateParts DEF Begun, AllParts
<1>18. g.proc \in [RtUsers -> ProcRecs] /\ g.proc[1] = x /\ \A u \in RtUsers : u # 1 => g.proc[u] = a.proc[u]
  BY <1>4, <1>14, <1>16, StateParts
<1>19. a.space = {} /\ a.task[1].threads = <<>>
  <2>1. Kept(a, f, 1)
    BY <1>4, <1>9 DEF Moved
  <2> QED
    BY <1>2, <1>4, <1>9, <2>1 DEF Kept
<1>20. Edited(g, a, 1)
  BY <1>4, <1>10, <1>14, <1>15, <1>17, <1>18, <1>19, StateParts DEF Edited, OthersSame
<1>21. Moved(g, a, 1)
  BY <1>4, <1>10, <1>20, EditMoved
<1>22. Books(g)
  BY <1>21, MovedBooks
<1>23. PICK e : e = task_common_ctor(g, 1)
  OBVIOUS
<1>24. PICK h : h = launch_process(e, 1)
  OBVIOUS
<1>25. MapFor(g, 1) # {}
  <2>1. MapOf[1] \in Maps
    BY <1>4, RtAssumption
  <2>2. g.count[MapOf[1]] > 0
    BY <1>11, <1>15, <2>1
  <2> QED
    BY <1>4, <2>2 DEF MapFor
<1>26. PICK d : d = h.r
  OBVIOUS
<1>27. /\ Moved(d, g, 1) /\ d.proc = g.proc /\ d.space = g.space /\ d.next_user_pid = g.next_user_pid
       /\ d.task[1].threads # <<>>
  BY <1>4, <1>15, <1>19, <1>22, <1>23, <1>24, <1>25, <1>26, FirstThread
<1>28. Moved(d, a, 1)
  BY <1>10, <1>21, <1>27, MovedOn
<1>29. ProcOk(d, 1) /\ SpaceOk(d, 1)
  BY <1>13, <1>15, <1>18, <1>27, LaunchedOk
<1>30. RtInv(d)
  BY <1>10, <1>28, <1>29, MovedInv
<1>31. rt = d
  BY <1>1, <1>3, <1>6, <1>7, <1>8, <1>12, <1>23, <1>24, <1>26 DEF RtInit, Begun
<1> QED
  BY <1>30, <1>31

LEMMA RtInvBooks ==
  ASSUME RtInv(rt)
  PROVE  RtBooks /\ RtAssertsHold
<1>1. /\ Books(rt) /\ rt \in RtStates /\ NumbersOk(rt) /\ KernOnce(rt.kern) /\ rt.kern \in SUBSET Kerns /\ rt.bad = {}
  BY BooksParts DEF RtInv
<1>2. RtTypeOK
  BY <1>1, StateParts DEF RtTypeOK, TaskRecs, Tids
<1>3. TnosExact
  <2>1. ASSUME NEW m \in Maps, NEW b \in Bits, NEW of, of = {k \in rt.kern : k.tid[1] = m /\ k.tid[2] = b}
        PROVE  Cardinality(of) = IF b \in rt.free[m] \/ (m = 0 /\ b \in Burnt) THEN 0 ELSE 1
    <3>1. (b \in rt.free[m] \/ (m = 0 /\ b \in Burnt)) <=> of = {}
      BY <1>1, <2>1 DEF NumbersOk, Taken
    <3>2. of # {} => \E k : of = {k}
      BY <1>1, <2>1 DEF KernOnce
    <3>3. of = {} => Cardinality(of) = 0
      BY FS_EmptySet
    <3>4. of # {} => Cardinality(of) = 1
      BY <3>2, FS_Singleton
    <3> QED
      BY <3>1, <3>3, <3>4
  <2> QED
    BY <1>1, <2>1 DEF TnosExact, NumbersOk
<1>4. ThreadsExact
  <2>1. ASSUME NEW p \in Tasks
        PROVE  /\ ToSet(rt.task[p].threads) = TidsOf(rt.kern, p) /\ IsInjective(rt.task[p].threads)
               /\ rt.task[p].threads # <<>> => rt.task[p].on /\ rt.task[p].utcb_free = Slots \ SlotsOf(rt.kern, p)
    <3>1. /\ rt.task[p].threads \in Seq(Tids) /\ Once(rt.task[p].threads) /\ ToSet(rt.task[p].threads) = TidsOf(rt.kern, p)
          /\ rt.task[p].threads # <<>> => rt.task[p].on /\ rt.task[p].utcb_free = Slots \ SlotsOf(rt.kern, p)
      BY <1>1, BooksParts
    <3>2. IsInjective(rt.task[p].threads)
      BY <3>1 DEF IsInjective, Once
    <3> QED
      BY <3>1, <3>2
  <2> QED
    BY <2>1 DEF ThreadsExact, TidsOf, SlotsOf
<1>5. SpacesExact
  BY DEF RtInv, SpaceOk, SpacesExact
<1> QED
  BY <1>1, <1>2, <1>3, <1>4, <1>5 DEF RtBooks, RtAssertsHold

(* The books of root/uapi.c on thread numbers, UTCB places and spaces are  *)
(* right whatever exits, execs, helpers and failures mix: where no process *)
(* execs while a helper runs, and no signal that is handled goes to a      *)
(* process without a thread, such as a zombie.                             *)
THEOREM ThreadBooksAreKept ==
  ASSUME ~RtOrphans, ~RtLateSignals, RtExecs = {}
  PROVE  RtSpec => []RtBooks
<1>1. RtInit => RtInv(rt)
  BY RtStart
<1>2. RtInv(rt) /\ [RtNext]_rt => RtInv(rt)'
  BY RtStep
<1>3. RtInv(rt) => RtBooks
  BY RtInvBooks
<1> QED
  BY <1>1, <1>2, <1>3, PTL DEF RtSpec

(* Under the same assumptions the root task's assertions hold and the      *)
(* kernel refuses none of its calls: no number, place or thread is given   *)
(* out twice, or given back when it is not out.                            *)
THEOREM NoAssertFails ==
  ASSUME ~RtOrphans, ~RtLateSignals, RtExecs = {}
  PROVE  RtSpec => []RtAssertsHold
<1>1. RtInit => RtInv(rt)
  BY RtStart
<1>2. RtInv(rt) /\ [RtNext]_rt => RtInv(rt)'
  BY RtStep
<1>3. RtInv(rt) => RtAssertsHold
  BY RtInvBooks
<1> QED
  BY <1>1, <1>2, <1>3, PTL DEF RtSpec
=============================================================================
