------------------------------- MODULE Creds --------------------------------
(***************************************************************************)
(* User IDs and resource limits of processes: root/uapi.c keeps them, and  *)
(* user/crt/uid.c has a copy of the IDs from which getuid() and geteuid()  *)
(* answer.  spawn_NP() is left out: it leaves the saved ID unset.          *)
(***************************************************************************)
EXTENDS Integers, FiniteSets
CONSTANTS CrPids,   \* PIDs, of which 1 is there first
          CrUids,   \* user IDs; 0 is root's
          CrLimits  \* values of limits
VARIABLES ids,      \* real_uid, eff_uid and saved_uid of each process
          cc,       \* cached_creds
          limits    \* one of <struct process>'s limits
crvars == <<ids, cc, limits>>
Same == -1   \* (uid_t)-1
NoIds == [r |-> Same, e |-> Same, s |-> Same]
Alive(p) == ids[p] # NoIds
IdsOf(x) == {x.r, x.e, x.s}
ASSUME CredsAssumption == 1 \in CrPids /\ 0 \in CrUids /\ CrUids \subseteq Nat

CrInit ==
    /\ \E u \in CrUids : ids = [p \in CrPids |-> IF p = 1 THEN [r |-> u, e |-> u, s |-> u] ELSE NoIds]
    /\ cc = ids
    /\ limits = [p \in CrPids |-> [cur |-> 0, max |-> 0]]

(* What each mode of uapi_setresugid() makes of its arguments; EPERM is {}. *)
OneId(x, u) ==
    IF x.e = 0 THEN {[r |-> u, e |-> u, s |-> u]}
    ELSE IF u \in {x.e, x.s} THEN {[r |-> Same, e |-> u, s |-> Same]} ELSE {}
(* A mutation: the saved ID is not looked at. *)
ThreeIdsUnsaved(x, r, e, v) ==
    IF x.e = 0 \/ {r, e} \ {Same} \subseteq IdsOf(x) THEN {[r |-> r, e |-> e, s |-> v]} ELSE {}
ThreeIds(x, r, e, v) ==
    IF x.e = 0 \/ {r, e, v} \ {Same} \subseteq IdsOf(x) THEN {[r |-> r, e |-> e, s |-> v]} ELSE {}
KeptId(old, new) == IF new = Same THEN old ELSE new
Assign(x, y) == [r |-> KeptId(x.r, y.r), e |-> KeptId(x.e, y.e), s |-> KeptId(x.s, y.s)]

(* A mutation: the copy is not brought up to date. *)
NoReload(p) == cc' = cc
reload_cc(p) == cc' = [cc EXCEPT ![p] = ids'[p]]
Set(p, new) ==
    /\ new # {}
    /\ ids' = [ids EXCEPT ![p] = Assign(@, CHOOSE y \in new : TRUE)]
    /\ reload_cc(p) /\ UNCHANGED limits
setuid(p, u) == Alive(p) /\ Set(p, OneId(ids[p], u))
setresuid(p, r, e, v) == Alive(p) /\ Set(p, ThreeIds(ids[p], r, e, v))
(* Einval, EPERM, and setreuid(), which is ENOSYS. *)
refused(p, new) == Alive(p) /\ new = {} /\ UNCHANGED crvars

fork(p, q) ==
    /\ Alive(p) /\ ~Alive(q)
    /\ ids' = [ids EXCEPT ![q] = ids[p]] /\ cc' = [cc EXCEPT ![q] = cc[p]]
    /\ limits' = [limits EXCEPT ![q] = limits[p]]
(* The new program takes its copy from the auxiliary vector. *)
exec(p) ==
    /\ Alive(p) /\ cc' = [cc EXCEPT ![p] = [r |-> ids[p].r, e |-> ids[p].e, s |-> ids[p].r]]
    /\ UNCHANGED <<ids, limits>>
die(p) ==
    /\ Alive(p) /\ p # 1
    /\ ids' = [ids EXCEPT ![p] = NoIds] /\ cc' = [cc EXCEPT ![p] = NoIds]
    /\ limits' = [limits EXCEPT ![p] = [cur |-> 0, max |-> 0]]

LimitFits(cur, max) == cur <= max
setrlimit(p, cur, max) ==
    /\ Alive(p) /\ LimitFits(cur, max)
    /\ limits' = [limits EXCEPT ![p] = [cur |-> cur, max |-> max]]
    /\ UNCHANGED <<ids, cc>>

CrArgs == CrUids \cup {Same}
CrNext ==
    \E p \in CrPids :
      \/ \E u \in CrUids : setuid(p, u) \/ refused(p, OneId(ids[p], u))
      \/ \E r, e, v \in CrArgs : setresuid(p, r, e, v) \/ refused(p, ThreeIds(ids[p], r, e, v))
      \/ \E q \in CrPids : fork(p, q)
      \/ exec(p) \/ die(p)
      \/ \E cur, max \in CrLimits : setrlimit(p, cur, max)
CrSpec == CrInit /\ [][CrNext]_crvars

(***************************************************************************)
(* getuid() and geteuid() answer what the root task has: "on the basis     *)
(* that other processes cannot change this process' UID", through every    *)
(* change, fork and exec.  (The copy of the saved ID differs after exec;   *)
(* nothing reads it.)                                                      *)
(***************************************************************************)
CredsExact == \A p \in CrPids : cc[p].r = ids[p].r /\ cc[p].e = ids[p].e

(***************************************************************************)
(* A process that is not root's gets no ID it did not have already in one  *)
(* of its three, and so its children do not either.                        *)
(***************************************************************************)
IdsOnlyOwn ==
    [][\A p \in CrPids : Alive(p) /\ Alive(p)' /\ ids[p].e # 0 => IdsOf(ids[p]') \subseteq IdsOf(ids[p])]_crvars

=============================================================================
