--------------------------------- MODULE Tss ---------------------------------
(***************************************************************************)
(* Thread-specific storage (lib/tss.c): keys with destructors, and for     *)
(* each thread an array of pointers that grows up to the largest key set.  *)
(***************************************************************************)
EXTENDS Naturals, FiniteSets
CONSTANTS TssKeys,     \* 1 .. MAX_TSS
          TssThreads,
          TssVals      \* pointers; 0 is NULL
VARIABLES dtors,   \* keys that have a destructor
          tss,     \* thread -> its struct tss: max is 0 for none
          runs,    \* threads that have not ended
          given,   \* thread -> what destructors were given when it ended
          held     \* history: thread -> key -> what it set last
tssVars == <<dtors, tss, runs, given, held>>
ASSUME TssAssumption == IsFiniteSet(TssKeys) /\ TssKeys = 1 .. Cardinality(TssKeys)

NULL == 0
Garbage == 99   \* memory that nobody has written
NoTss == [max |-> 0, ptrs |-> [k \in TssKeys \cup {0} |-> Garbage]]
TssInit ==
    /\ dtors = {} /\ tss = [t \in TssThreads |-> NoTss]
    /\ runs = TssThreads /\ given = [t \in TssThreads |-> {}]
    /\ held = [t \in TssThreads |-> [k \in TssKeys |-> NULL]]

(* The first key that no compare-and-swap has taken; destructors here are  *)
(* not null.                                                               *)
tss_create ==
    /\ dtors # TssKeys
    /\ dtors' = dtors \cup {CHOOSE k \in TssKeys \ dtors : \A l \in TssKeys \ dtors : k <= l}
    /\ UNCHANGED <<tss, runs, given, held>>
(* The program has dropped what it stored under the key. *)
tss_delete(k) ==
    /\ k \in dtors /\ \A t \in TssThreads : held[t][k] = NULL
    /\ dtors' = dtors \ {k} /\ UNCHANGED <<tss, runs, given, held>>

tss_get(t, k) == IF tss[t].max = 0 \/ k > tss[t].max THEN NULL ELSE tss[t].ptrs[k]

(* realloc() keeps what was there; what lies between is cleared. *)
Grow(x, k) ==
    [max |-> k, ptrs |-> [i \in DOMAIN x.ptrs |-> IF i < k /\ (x.max = 0 \/ i > x.max) THEN NULL ELSE x.ptrs[i]]]
tss_set(t, k, v) ==
    /\ t \in runs /\ k \in dtors
    /\ LET x == IF tss[t].max = 0 \/ k > tss[t].max THEN Grow(tss[t], k) ELSE tss[t]
       IN tss' = [tss EXCEPT ![t] = [x EXCEPT !.ptrs[k] = v]]
    /\ held' = [held EXCEPT ![t][k] = v]
    /\ UNCHANGED <<dtors, runs, given>>

Given(x) == {<<k, x.ptrs[k]>> : k \in {i \in dtors : i <= x.max /\ x.ptrs[i] # NULL}}
(* thrd_exit(): destructors that set no values, then the array is freed.   *)
__tss_on_exit(t) ==
    /\ t \in runs /\ runs' = runs \ {t}
    /\ given' = [given EXCEPT ![t] = Given(tss[t])]
    /\ tss' = [tss EXCEPT ![t] = NoTss]
    /\ UNCHANGED <<dtors, held>>

TssNext ==
    \/ tss_create \/ \E k \in TssKeys : tss_delete(k)
    \/ \E t \in TssThreads : __tss_on_exit(t) \/ \E k \in TssKeys, v \in TssVals \cup {NULL} : tss_set(t, k, v)

(* Of one thread. *)
ExactFor(t) ==
    IF t \in runs THEN /\ \A k \in TssKeys : tss_get(t, k) = held[t][k]
                       /\ tss[t].max > 0 => tss[t].ptrs[0] = NULL
    ELSE given[t] = {<<k, held[t][k]>> : k \in {i \in TssKeys : held[t][i] # NULL}}

(***************************************************************************)
(* tss_get() returns what the thread itself has set last, and NULL before, *)
(* in whatever order its keys are set and the array grows; a thread that   *)
(* ends hands each of its values to its destructor.                        *)
(***************************************************************************)
TssExact == \A t \in TssThreads : ExactFor(t)
=============================================================================
