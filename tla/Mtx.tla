-------------------------------- MODULE Mtx --------------------------------
(***************************************************************************)
(* C11 plain mutexes of the sneks runtimes (lib/mtx.c).                    *)
(*                                                                         *)
(* The uncontended paths are compare-and-swaps on the state word m->s.     *)
(* A thread that meets a held mutex sets the CONFLICT flag and calls, over *)
(* microkernel IPC, the serializer thread ser_fn(), which owns the list of *)
(* waiters and hands the mutex over when the holder unlocks.               *)
(*                                                                         *)
(* Every atomic operation on m->s and every IPC is a step of its own; what *)
(* lies between two of them is thread-local and belongs to the earlier     *)
(* step.  The asserts of the code are not steps: the model goes on past    *)
(* them, as the NDEBUG build does, and properties state them.              *)
(***************************************************************************)
EXTENDS Naturals, Sequences

CONSTANTS Threads,  \* local threads that use the mutex
          None      \* the nil thread, in the owner part of a free mutex

ASSUME NoneAssumption == None \notin Threads

VARIABLES
  s,        \* m->s: owner's local tid and the flag bits
  waits,    \* m->waits: queue of waiters, touched by the serializer only
  magic,    \* m->magic = MAGIC
  pc,       \* where each thread is
  prev,     \* local variable prev of mtx_lock()
  spc,      \* where the serializer is
  sprev,    \* local variable prev of ser_lock_op()
  ssender,  \* sender: whom the serializer's next ReplyWait answers
  slater,   \* later: whom ser_unlock_op()'s own L4_Reply answers
  snext     \* next: what ser_unlock_op() stores in m->s

serVars == <<spc, sprev, ssender, slater, snext>>
vars == <<s, waits, magic, pc, prev, serVars>>

(***************************************************************************)
(* The state word: 0, tid|LOCKED, or tid|LOCKED|CONFLICT.                  *)
(***************************************************************************)
Word == [owner : Threads \cup {None}, flag : {"0", "LOCKED", "CONFLICT"}]
Free == [owner |-> None, flag |-> "0"]
Locked(t) == [owner |-> t, flag |-> "LOCKED"]
LockedConflict(t) == [owner |-> t, flag |-> "CONFLICT"]

ThreadPc == {"idle", "cas_lock", "cas_conflict", "call_lock", "wait_lock",
             "granted", "crit", "call_unlock", "wait_unlock"}
SerPc == {"wait", "l_cas_lock", "l_cas_conflict", "l_enqueue",
          "u_reply", "u_exchange", "reply"}

Init ==
  /\ s = Free
  /\ waits = <<>>
  /\ magic = TRUE
  /\ pc = [t \in Threads |-> "idle"]
  /\ prev = [t \in Threads |-> Free]
  /\ spc = "wait"
  /\ sprev = Free
  /\ ssender = None
  /\ slater = None
  /\ snext = Free

-----------------------------------------------------------------------------
(***************************************************************************)
(* mtx_lock(), mtx_trylock(), mtx_unlock(), mtx_init(), mtx_destroy().     *)
(***************************************************************************)

(* Where the do-while loop of mtx_lock() goes when it has read p: retry    *)
(* the acquisition, go to the serializer, or first set CONFLICT.           *)
AfterLoad(p) ==
  IF p = Free THEN "cas_lock"
  ELSE IF p.flag = "CONFLICT" THEN "call_lock" ELSE "cas_conflict"

(* prev := m->s, as atomic_load() and a failing exchange do it; the value  *)
(* is kept only where the loop still needs it.                             *)
Load(t) ==
  /\ prev' = [prev EXCEPT ![t] = IF AfterLoad(s) = "cas_conflict"
                                   THEN s ELSE Free]
  /\ pc' = [pc EXCEPT ![t] = AfterLoad(s)]

Lock(t) ==
  /\ pc[t] = "idle"
  /\ magic
  /\ Load(t)
  /\ UNCHANGED <<s, waits, magic, serVars>>

(* atomic_compare_exchange_strong(&m->s, &prev, self | LOCKED) with prev=0 *)
CasLock(t) ==
  /\ pc[t] = "cas_lock"
  /\ IF s = Free
       THEN /\ s' = Locked(t)
            /\ pc' = [pc EXCEPT ![t] = "crit"]
            /\ UNCHANGED prev
       ELSE Load(t) /\ UNCHANGED s
  /\ UNCHANGED <<waits, magic, serVars>>

(* atomic_compare_exchange_strong(&m->s, &prev, prev | CONFLICT) *)
CasConflict(t) ==
  /\ pc[t] = "cas_conflict"
  /\ IF s = prev[t]
       THEN /\ s' = LockedConflict(s.owner)
            /\ pc' = [pc EXCEPT ![t] = "call_lock"]
            /\ prev' = [prev EXCEPT ![t] = Free]
       ELSE Load(t) /\ UNCHANGED s
  /\ UNCHANGED <<waits, magic, serVars>>

(* The serializer's reply has arrived and mtx_lock() returns. Its assertion *)
(* that m->s names the caller need not hold: within the window between     *)
(* SerReplyLater and SerExchange the word still names the old owner.       *)
LockReturn(t) ==
  /\ pc[t] = "granted"
  /\ pc' = [pc EXCEPT ![t] = "crit"]
  /\ UNCHANGED <<s, waits, magic, prev, serVars>>

(* mtx_trylock(); when the exchange fails nothing changes. *)
TryLock(t) ==
  /\ pc[t] = "idle"
  /\ s = Free
  /\ magic
  /\ s' = Locked(t)
  /\ pc' = [pc EXCEPT ![t] = "crit"]
  /\ UNCHANGED <<waits, magic, prev, serVars>>

(* mtx_unlock(): release with a compare-and-swap when nobody conflicts,    *)
(* otherwise call the serializer.                                          *)
Unlock(t) ==
  /\ pc[t] = "crit"
  /\ IF s = Locked(t)
       THEN /\ s' = Free
            /\ pc' = [pc EXCEPT ![t] = "idle"]
       ELSE /\ pc' = [pc EXCEPT ![t] = "call_unlock"]
            /\ UNCHANGED s
  /\ UNCHANGED <<waits, magic, prev, serVars>>

(* The caller's obligation around mtx_destroy(): nobody uses the mutex.    *)
Quiescent == spc = "wait" /\ \A t \in Threads : pc[t] = "idle"

(* magic stands for both m->magic and the ~0 stored in m->s, which makes   *)
(* later mtx_lock() and mtx_trylock() fail.                                *)
Destroy ==
  /\ magic
  /\ Quiescent
  /\ magic' = FALSE
  /\ UNCHANGED <<s, waits, pc, prev, serVars>>

Create ==
  /\ ~magic
  /\ magic' = TRUE
  /\ s' = Free
  /\ waits' = <<>>
  /\ UNCHANGED <<pc, prev, serVars>>

-----------------------------------------------------------------------------
(***************************************************************************)
(* The serializer thread: ser_fn(), ser_lock_op(), ser_unlock_op().        *)
(***************************************************************************)

SerAfterLoad(p) ==
  IF p = Free THEN "l_cas_lock"
  ELSE IF p.flag = "CONFLICT" THEN "l_enqueue" ELSE "l_cas_conflict"

SerLoad ==
  /\ sprev' = IF SerAfterLoad(s) = "l_cas_conflict" THEN s ELSE Free
  /\ spc' = SerAfterLoad(s)

(* What a reply from the serializer does to the thread in L4_Lcall().      *)
Woken(t) ==
  CASE pc[t] = "wait_lock" -> "granted"
    [] pc[t] = "wait_unlock" -> "idle"
    [] OTHER -> pc[t]

(* Receive an 'L' message; ser_lock_op() loads m->s. *)
SerRecvLock(t) ==
  /\ spc = "wait"
  /\ pc[t] = "call_lock"
  /\ pc' = [pc EXCEPT ![t] = "wait_lock"]
  /\ ssender' = t
  /\ SerLoad
  /\ UNCHANGED <<s, waits, magic, prev, slater, snext>>

SerCasLock ==
  /\ spc = "l_cas_lock"
  /\ IF s = Free
       THEN /\ s' = Locked(ssender)
            /\ spc' = "reply"
            /\ UNCHANGED sprev
       ELSE SerLoad /\ UNCHANGED s
  /\ UNCHANGED <<waits, magic, pc, prev, ssender, slater, snext>>

SerCasConflict ==
  /\ spc = "l_cas_conflict"
  /\ IF s = sprev
       THEN /\ s' = LockedConflict(s.owner)
            /\ spc' = "l_enqueue"
            /\ sprev' = Free
       ELSE SerLoad /\ UNCHANGED s
  /\ UNCHANGED <<waits, magic, pc, prev, ssender, slater, snext>>

(* list_add_tail(); no reply, so the sender stays in its call. *)
SerEnqueue ==
  /\ spc = "l_enqueue"
  /\ waits' = Append(waits, ssender)
  /\ spc' = "wait"
  /\ ssender' = None
  /\ UNCHANGED <<s, magic, pc, prev, sprev, slater, snext>>

(* Receive a 'U' message.  A sender that does not own the mutex is not     *)
(* answered.  When nobody waits the mutex becomes free; otherwise the      *)
(* first waiter is the next owner, and the one of the two threads that is  *)
(* not preferred for scheduling is replied to first, before m->s is        *)
(* stored.  xcpu is the cross-CPU flag of the message tag.                 *)
SerUnlock(t, xcpu) ==
  /\ spc = "wait"
  /\ pc[t] = "call_unlock"
  /\ pc' = [pc EXCEPT ![t] = "wait_unlock"]
  /\ IF s.owner # t
       THEN UNCHANGED <<waits, spc, ssender, slater, snext>>
     ELSE IF waits = <<>>
       THEN /\ snext' = Free
            /\ ssender' = t
            /\ spc' = "u_exchange"
            /\ UNCHANGED <<waits, slater>>
       ELSE LET w == Head(waits)
                preferSleeper == Tail(waits) # <<>> \/ xcpu
            IN  /\ waits' = Tail(waits)
                /\ snext' = LockedConflict(w)
                /\ slater' = IF preferSleeper THEN t ELSE w
                /\ ssender' = IF preferSleeper THEN w ELSE t
                /\ spc' = "u_reply"
  /\ UNCHANGED <<s, magic, prev, sprev>>

(* L4_Reply(later) *)
SerReplyLater ==
  /\ spc = "u_reply"
  /\ pc' = [pc EXCEPT ![slater] = Woken(slater)]
  /\ spc' = "u_exchange"
  /\ slater' = None
  /\ UNCHANGED <<s, waits, magic, prev, sprev, ssender, snext>>

(* A mutation: the next owner is not marked CONFLICT. *)
SerExchangeDropConflict ==
  /\ spc = "u_exchange"
  /\ s' = IF snext = Free THEN Free ELSE Locked(snext.owner)
  /\ spc' = "reply"
  /\ snext' = Free
  /\ UNCHANGED <<waits, magic, pc, prev, sprev, ssender, slater>>

(* atomic_exchange(&m->s, next) *)
SerExchange ==
  /\ spc = "u_exchange"
  /\ s' = snext
  /\ spc' = "reply"
  /\ snext' = Free
  /\ UNCHANGED <<waits, magic, pc, prev, sprev, ssender, slater>>

(* The reply half of "LreplyWaitLocal". *)
SerReply ==
  /\ spc = "reply"
  /\ pc' = [pc EXCEPT ![ssender] = Woken(ssender)]
  /\ spc' = "wait"
  /\ ssender' = None
  /\ UNCHANGED <<s, waits, magic, prev, sprev, slater, snext>>

SerStep ==
  \/ SerCasLock \/ SerCasConflict \/ SerEnqueue
  \/ SerReplyLater \/ SerExchange \/ SerReply

SerRecv(t) ==
  \/ SerRecvLock(t)
  \/ \E xcpu \in BOOLEAN : SerUnlock(t, xcpu)

ThreadStep(t) ==
  CasLock(t) \/ CasConflict(t) \/ LockReturn(t) \/ Unlock(t)

Next ==
  \/ \E t \in Threads : Lock(t) \/ TryLock(t) \/ ThreadStep(t) \/ SerRecv(t)
  \/ SerStep
  \/ Destroy
  \/ Create

(* Threads inside an operation and the serializer keep running, a thread   *)
(* that holds the mutex eventually unlocks it, and the kernel's send queue *)
(* lets every caller of the serializer through.                            *)
Fairness ==
  /\ \A t \in Threads : WF_vars(ThreadStep(t)) /\ SF_vars(SerRecv(t))
  /\ WF_vars(SerStep)

Spec == Init /\ [][Next]_vars
FairSpec == Spec /\ Fairness

-----------------------------------------------------------------------------
TypeOK ==
  /\ s \in Word
  /\ waits \in Seq(Threads)
  /\ magic \in BOOLEAN
  /\ pc \in [Threads -> ThreadPc]
  /\ prev \in [Threads -> Word]
  /\ spc \in SerPc
  /\ sprev \in Word
  /\ ssender \in Threads \cup {None}
  /\ slater \in Threads \cup {None}
  /\ snext \in Word

(* At most one thread is between mtx_lock() or mtx_trylock() and           *)
(* mtx_unlock().                                                           *)
MutualExclusion ==
  \A t, u \in Threads : pc[t] = "crit" /\ pc[u] = "crit" => t = u

(* The hand-over window of ser_unlock_op(): the next owner is decided but  *)
(* not yet stored.                                                         *)
HandingOver == spc \in {"u_reply", "u_exchange"}
Owner == IF HandingOver THEN snext.owner ELSE s.owner

(* While a thread sleeps in m->waits the mutex is owned and carries        *)
(* CONFLICT, so that the owner's mtx_unlock() cannot take the fast path    *)
(* past the sleeper.                                                       *)
NoForgottenWaiter ==
  waits # <<>> => IF HandingOver THEN snext.owner # None /\ snext.flag = "CONFLICT"
                                 ELSE s.owner # None /\ s.flag = "CONFLICT"

(* Nothing is left behind: when no thread is inside an operation or holds  *)
(* the mutex, its state word is 0 and its wait list empty, which is what   *)
(* mtx_destroy() checks.                                                   *)
QuiescentIsFree == Quiescent => s = Free /\ waits = <<>>

(* The serializer never receives an unlock from a thread that is not the   *)
(* owner ("bad unlock" in ser_unlock_op()), which it would not answer, and *)
(* its atomic_exchange() always replaces the owner's conflicted word       *)
(* ("unlocked from under our feet").                                       *)
NoBadUnlock ==
  /\ \A t \in Threads : spc = "wait" /\ pc[t] = "call_unlock" => s.owner = t
  /\ HandingOver => s.owner # None /\ s.flag = "CONFLICT"

(* A thread queued in m->waits gets the mutex. *)
WaiterGetsLock ==
  \A t \in Threads :
    (\E i \in DOMAIN waits : waits[i] = t) ~> pc[t] = "crit"

(* No deadlock of the protocol: when some thread wants the mutex, some     *)
(* thread gets it.                                                         *)
Wanting(t) == pc[t] \in {"cas_lock", "cas_conflict", "call_lock",
                         "wait_lock", "granted"}
SomeoneGetsLock ==
  (\E t \in Threads : Wanting(t)) ~> (\E t \in Threads : pc[t] = "crit")

(* lib/mtx.c is safe: it excludes, forgets no waiter, never meets a bad    *)
(* unlock, and leaves nothing for mtx_destroy() to complain of.            *)
MtxSafe ==
  /\ TypeOK /\ MutualExclusion /\ NoForgottenWaiter
  /\ NoBadUnlock /\ QuiescentIsFree
=============================================================================
