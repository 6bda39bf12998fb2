-------------------------------- MODULE Thrd ---------------------------------
(***************************************************************************)
(* Threads: creation, exit and joining (lib/thrd.c), and once-only calls   *)
(* (lib/tss.c).  A thread's record lies on its own stack, which the thread  *)
(* that joins it frees; `j' in it decides, by compare-and-swap, who of     *)
(* exit and the joiners waits for whom.                                    *)
(***************************************************************************)
EXTENDS Naturals, FiniteSets, SequencesExt
CONSTANTS Thr,         \* threads, 1 .. n; 1 is the first
          Joins,       \* pairs <<who, whom>> that may join
          DtorsWait    \* destructors may wait for a mutex, which uses the wait record
VARIABLES thr,    \* each thread's life, place, locals and record
          once    \* a once_flag, and how often its function ran
thrdVars == <<thr, once>>

ASSUME ThrdAssumption ==
    /\ IsFiniteSet(Thr) /\ 1 \in Thr /\ Thr \subseteq Nat \ {0}
    /\ Joins \subseteq Thr \X Thr /\ \A p \in Joins : p[1] < p[2]
    /\ DtorsWait \in BOOLEAN

Scribble == "scribble"
Code(t) == <<"code", t>>   \* what t's function returns
NoThread == [life |-> "none", pc |-> "run", j |-> 0, retval |-> 0, stack |-> "none",
             of |-> 0, jold |-> 0, res |-> 0, won |-> {}, done |-> {}]

(* __thrd_init() *)
ThrdInit ==
    /\ thr = [t \in Thr |-> IF t = 1 THEN [NoThread EXCEPT !.life = "live"] ELSE NoThread]
    /\ once = [flag |-> 0, ran |-> 0]

At(t, pc) == thr[t].life = "live" /\ thr[t].pc = pc
Put(t, pc) == thr' = [thr EXCEPT ![t].pc = pc]

(* thrd_create(); one that fails leaves nothing behind. *)
thrd_create(t, u) ==
    /\ At(t, "run") /\ thr[u] = NoThread
    /\ thr' = [thr EXCEPT ![u] = [NoThread EXCEPT !.life = "live", !.stack = "used"]]
    /\ UNCHANGED once

-----------------------------------------------------------------------------
(* thrd_exit(): the value is stored, then destructors run. *)
thrd_exit(t) ==
    /\ At(t, "run") /\ t # 1
    /\ thr' = [thr EXCEPT ![t].pc = "x_dtors", ![t].retval = Code(t)]
    /\ UNCHANGED once
(* __thrd_get_wait() and __thrd_put_wait() mark the record in its retval.   *)
Dtors(t, waits) ==
    /\ At(t, "x_dtors") /\ (waits => DtorsWait)
    /\ thr' = [thr EXCEPT ![t].pc = "x_load", ![t].retval = IF waits THEN Scribble ELSE @]
    /\ UNCHANGED once
ExitLoad(t) ==
    /\ At(t, "x_load")
    /\ thr' = [thr EXCEPT ![t].jold = thr[t].j, ![t].pc = IF thr[t].j = 0 THEN "x_cas" ELSE "x_send"]
    /\ UNCHANGED once

(* j is 0, 1 when the thread has exited, or the joiner, here from 2 on.     *)
ExitCas(t) ==
    /\ At(t, "x_cas")
    /\ thr' = IF thr[t].j = 0 THEN [thr EXCEPT ![t].j = 1, ![t].pc = "x_sleep", ![t].jold = 0]
              ELSE [thr EXCEPT ![t].jold = thr[t].j, ![t].pc = "x_send"]
    /\ UNCHANGED once
(* L4_Send_Timeout() to the joiner: it may give up on one that does not     *)
(* receive yet, and the thread then deletes itself.                         *)
ExitSend(t) ==
    LET by == thr[t].jold - 1
    IN /\ At(t, "x_send") /\ At(by, "j_recv")
       /\ thr' = [thr EXCEPT ![t].pc = "x_sleep", ![t].jold = 0, ![by].pc = "j_destroy", ![by].res = Code(t)]
       /\ UNCHANGED once
ExitLate(t) ==
    /\ At(t, "x_send") /\ ~At(thr[t].jold - 1, "j_recv")
    /\ thr' = [thr EXCEPT ![t].life = "gone", ![t].pc = "run", ![t].jold = 0]
    /\ UNCHANGED once

-----------------------------------------------------------------------------
(* thrd_join() *)
thrd_join(t, u) ==
    /\ At(t, "run") /\ <<t, u>> \in Joins /\ u \notin thr[t].done
    /\ thr[u].life # "none"
    /\ thr' = [thr EXCEPT ![t].of = u, ![t].pc = IF thr[u].life = "live" THEN "j_load" ELSE "j_gone"]
    /\ UNCHANGED once
Branch(t, old) ==   \* once j was seen not to be 0
    [thr EXCEPT ![t].pc = IF old = 1 THEN "j_destroy" ELSE "j_second", ![t].res = thr[thr[t].of].retval]
JoinLoad(t) ==
    /\ At(t, "j_load")
    /\ LET old == thr[thr[t].of].j
       IN thr' = IF old = 0 THEN [thr EXCEPT ![t].pc = "j_cas"] ELSE Branch(t, old)
    /\ UNCHANGED once
JoinCas(t) ==
    /\ At(t, "j_cas")
    /\ LET u == thr[t].of
       IN thr' = IF thr[u].j = 0 THEN [thr EXCEPT ![u].j = t + 1, ![t].pc = "j_wait"] ELSE Branch(t, thr[u].j)
    /\ UNCHANGED once
(* L4_Receive(): from here on the exiting thread's message is taken. *)
JoinReceive(t) == At(t, "j_wait") /\ Put(t, "j_recv") /\ UNCHANGED once
(* Its error for a thread that is gone; wait_until_gone(). *)
JoinGone(t) ==
    /\ At(t, "j_recv") \/ At(t, "j_second")
    /\ thr[thr[t].of].life = "gone"
    /\ Put(t, "j_gone") /\ UNCHANGED once
(* A mutation: whoever comes to it frees the stack. *)
DestroyAlways(t) ==
    LET u == thr[t].of
    IN /\ At(t, "j_destroy")
       /\ thr' = [thr EXCEPT ![u].life = "gone", ![u].pc = "run", ![t].pc = "run", ![t].won = @ \cup {u}, ![t].done = @ \cup {u}, ![t].of = 0,
                             ![u].stack = IF @ = "used" THEN "freed" ELSE "twice"]
       /\ UNCHANGED once
(* __thrd_destroy(), and the stack is freed by the one that has done it. *)
JoinDestroy(t) ==
    LET u == thr[t].of
    IN /\ At(t, "j_destroy")
       /\ thr' = IF thr[u].life = "gone" THEN [thr EXCEPT ![t].pc = "j_gone"]
                 ELSE [thr EXCEPT ![u].life = "gone", ![u].pc = "run", ![t].pc = "run", ![t].won = @ \cup {u}, ![t].done = @ \cup {u}, ![t].of = 0,
                                  ![u].stack = IF @ = "used" THEN "freed" ELSE "twice"]
       /\ UNCHANGED once
JoinError(t) ==
    /\ At(t, "j_gone")
    /\ thr' = [thr EXCEPT ![t].pc = "run", ![t].res = 0, ![t].done = @ \cup {thr[t].of}, ![t].of = 0]
    /\ UNCHANGED once

-----------------------------------------------------------------------------
(* call_once(): a thread that finds the flag at 1 spins until it is 2.      *)
call_once(t) ==
    /\ At(t, "run") /\ 0 \notin thr[t].done
    /\ Put(t, CASE once.flag = 0 -> "o_cas" [] once.flag = 1 -> "o_spin" [] OTHER -> "o_done")
    /\ UNCHANGED once

OnceCas(t) ==
    /\ At(t, "o_cas")
    /\ IF once.flag = 0 THEN once' = [once EXCEPT !.flag = 1] /\ Put(t, "o_run")
       ELSE Put(t, IF once.flag = 1 THEN "o_spin" ELSE "o_done") /\ UNCHANGED once
OnceRun(t) == At(t, "o_run") /\ once' = [flag |-> 2, ran |-> once.ran + 1] /\ Put(t, "o_done")
OnceSpin(t) == At(t, "o_spin") /\ once.flag # 1 /\ Put(t, "o_done") /\ UNCHANGED once
OnceReturn(t) == At(t, "o_done") /\ thr' = [thr EXCEPT ![t].pc = "run", ![t].done = @ \cup {0}] /\ UNCHANGED once

ThrdStep(t) ==
    \/ thrd_exit(t) \/ (\E w \in BOOLEAN : Dtors(t, w)) \/ ExitLoad(t) \/ ExitCas(t) \/ ExitSend(t) \/ ExitLate(t)
    \/ JoinLoad(t) \/ JoinCas(t) \/ JoinReceive(t) \/ JoinGone(t) \/ JoinDestroy(t) \/ JoinError(t)
    \/ OnceCas(t) \/ OnceRun(t) \/ OnceSpin(t) \/ OnceReturn(t)
ThrdNext ==
    \E t \in Thr :
      \/ ThrdStep(t) \/ call_once(t)
      \/ \E u \in Thr : thrd_create(t, u) \/ thrd_join(t, u)
-----------------------------------------------------------------------------
(***************************************************************************)
(* Of all that join a thread at most one succeeds, with the value that the *)
(* thread returned, and it alone frees the stack, once, when the thread no *)
(* longer runs on it: exit and joiners may meet anywhere.                  *)
(***************************************************************************)
JoinExact ==
    \A u \in Thr :
      /\ thr[u].stack # "twice" /\ (thr[u].stack = "freed" => thr[u].life = "gone")
      /\ Cardinality({t \in Thr : u \in thr[t].won}) = IF thr[u].stack = "freed" THEN 1 ELSE 0
      /\ \A t \in Thr : At(t, "j_destroy") /\ thr[t].of = u => thr[t].res = Code(u)

(***************************************************************************)
(* The function of a once_flag runs once, and call_once() returns to       *)
(* nobody before it has.                                                   *)
(***************************************************************************)
OnceExact == once.ran <= 1 /\ ((\E t \in Thr : At(t, "o_done")) => once.ran = 1)

(***************************************************************************)
(* thrd_join() and call_once() return, whichever of the two sides comes    *)
(* first and whether or not the exiting thread's message was in time.      *)
(***************************************************************************)
Calling(t) == thr[t].pc \in {"j_load", "j_cas", "j_wait", "j_recv", "j_second", "j_destroy", "j_gone", "o_cas", "o_run", "o_spin", "o_done"}
CallsReturn == \A t \in Thr : Calling(t) ~> ~Calling(t)
=============================================================================
