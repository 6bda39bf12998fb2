--------------------------------- MODULE Cnd ---------------------------------
(***************************************************************************)
(* Condition variables (lib/cnd.c): a stack of the waiting threads' wait   *)
(* records, linked by the threads themselves with compare-and-swaps, and   *)
(* an IPC that wakes one thread.  The mutex is that of Mtx, taken as a     *)
(* whole.  Threads wait for items that others bring.                       *)
(***************************************************************************)
EXTENDS Naturals, FiniteSets
CONSTANTS CndThreads,  \* 1 .. n
          MaxItems,    \* bound: items at a time
          Racing,      \* threads may signal without the mutex while others signal
          Destroys     \* threads that may destroy the condition
VARIABLES cond,   \* cnd_t: the first record, 0 or EX; and the copies that destroyers have
          cnext,  \* w->cnd.next of each thread's record
          cmtx,   \* the mutex' holder, or 0
          cth,    \* each thread: where it is and its locals
          items
cndVars == <<cond, cnext, cmtx, cth, items>>

ASSUME CndAssumption ==
    /\ CndThreads \subseteq Nat \ {0, 999} /\ IsFiniteSet(CndThreads)
    /\ Destroys \subseteq CndThreads /\ MaxItems \in Nat /\ Racing \in BOOLEAN

EX == 999
Shared == 0   \* cond[Shared] is the condition, cond[t] what t's cnd_destroy() made of it
Locals(pc, on, old, nx, all) == [pc |-> pc, on |-> on, old |-> old, nx |-> nx, all |-> all]
Quiet(pc) == Locals(pc, Shared, 0, 0, FALSE)   \* outside of dequeue()

(* cnd_init() *)
CndInit ==
    /\ cond = [c \in CndThreads \cup {Shared} |-> 0]
    /\ cnext = [t \in CndThreads |-> 0]
    /\ cmtx = 0 /\ items = 0
    /\ cth = [t \in CndThreads |-> Quiet("idle")]

Goes(t, pc) == cth' = [cth EXCEPT ![t] = Quiet(pc)]

-----------------------------------------------------------------------------
(* A thread takes the mutex to take an item or to bring one. *)
TakeMtx(t) ==
    /\ cmtx = 0
    /\ cmtx' = t
    /\ \E to \in {"take", "bring"} :
         /\ cth[t].pc = "idle" \/ (cth[t].pc = "relock" /\ to = "take")
         /\ Goes(t, to)
    /\ UNCHANGED <<cond, cnext, items>>
Take(t) ==
    /\ cth[t].pc = "take" /\ items > 0
    /\ items' = items - 1 /\ cmtx' = 0 /\ Goes(t, "idle")
    /\ UNCHANGED <<cond, cnext>>
Leave(t) == cth[t].pc = "leave" /\ cmtx' = 0 /\ Goes(t, "idle") /\ UNCHANGED <<cond, cnext, items>>

(* cnd_wait(): w->cnd.next = atomic_load(cond). *)
cnd_wait(t) ==
    /\ cth[t].pc = "take" /\ items = 0
    /\ cnext' = [cnext EXCEPT ![t] = cond[Shared]]
    /\ Goes(t, IF cond[Shared] = EX THEN "leave" ELSE "push")
    /\ UNCHANGED <<cond, cmtx, items>>

(* A mutation: the record is stored without comparing. *)
PushPlain(t) ==
    /\ cth[t].pc = "push"
    /\ cond' = [cond EXCEPT ![Shared] = t] /\ Goes(t, "unlock") /\ UNCHANGED cnext
    /\ UNCHANGED <<cmtx, items>>
(* atomic_compare_exchange_strong(cond, &w->cnd.next, w) *)
Push(t) ==
    /\ cth[t].pc = "push"
    /\ IF cond[Shared] = cnext[t]
         THEN cond' = [cond EXCEPT ![Shared] = t] /\ Goes(t, "unlock") /\ UNCHANGED cnext
         ELSE /\ cnext' = [cnext EXCEPT ![t] = cond[Shared]]
              /\ Goes(t, IF cond[Shared] = EX THEN "leave" ELSE "push")
              /\ UNCHANGED cond
    /\ UNCHANGED <<cmtx, items>>
(* mtx_unlock(), and the thread waits for its WAKEUP. *)
UnlockAndSleep(t) ==
    /\ cth[t].pc = "unlock" /\ cmtx' = 0 /\ Goes(t, "sleep")
    /\ UNCHANGED <<cond, cnext, items>>

-----------------------------------------------------------------------------
Signalling(t) == cth[t].pc \in {"load", "next", "cas", "poke"}
After(t) == IF cmtx = t THEN "leave" ELSE "idle"

(* cnd_signal() and cnd_broadcast(), while the mutex is held or after it    *)
(* was unlocked.  In the latter case broadcasts are left out: they may go   *)
(* on waking threads that come back.                                        *)
Bring(t, all, held) ==
    /\ cth[t].pc = "bring" /\ items < MaxItems
    /\ held \/ (~all /\ (Racing \/ \A u \in CndThreads : ~Signalling(u)))
    /\ items' = items + 1
    /\ cmtx' = IF held THEN t ELSE 0
    /\ cth' = [cth EXCEPT ![t] = Locals("load", Shared, 0, 0, all)]
    /\ UNCHANGED <<cond, cnext>>
Brimful(t) == cth[t].pc = "bring" /\ items = MaxItems /\ Goes(t, "leave") /\ UNCHANGED <<cond, cnext, cmtx, items>>
(* While a thread signals without the mutex, no other one begins to. *)
Alone(t) == Racing \/ \A u \in CndThreads \ {t} : ~Signalling(u) \/ cmtx = u

(* dequeue(): the load or the failed exchange, the read of w->cnd.next and  *)
(* the exchange are steps.                                                  *)
Seen(t, old) ==
    IF old \in {0, EX} THEN Goes(t, After(t))
    ELSE cth' = [cth EXCEPT ![t] = Locals("next", @.on, old, @.nx, @.all)]
DqLoad(t) == cth[t].pc = "load" /\ Alone(t) /\ Seen(t, cond[cth[t].on]) /\ UNCHANGED <<cond, cnext, cmtx, items>>
DqNext(t) ==
    /\ cth[t].pc = "next"
    /\ cth' = [cth EXCEPT ![t] = Locals("cas", @.on, @.old, cnext[@.old], @.all)]
    /\ UNCHANGED <<cond, cnext, cmtx, items>>

DqCas(t) ==
    LET c == cth[t].on
    IN /\ cth[t].pc = "cas"
       /\ IF cond[c] = cth[t].old
            THEN /\ cond' = [cond EXCEPT ![c] = cth[t].nx]
                 /\ cth' = [cth EXCEPT ![t] = Locals("poke", c, @.old, 0, @.all)]
            ELSE Seen(t, cond[c]) /\ UNCHANGED cond
       /\ UNCHANGED <<cnext, cmtx, items>>

(* poke(): L4_Send() waits until the thread receives. *)
cnd_poke(t) ==
    LET w == cth[t].old
        me == IF cth[t].all THEN Locals("load", cth[t].on, 0, 0, TRUE) ELSE Quiet(After(t))
    IN /\ cth[t].pc = "poke" /\ cth[w].pc = "sleep"
       /\ cth' = [cth EXCEPT ![t] = me, ![w] = Quiet("relock")]
       /\ UNCHANGED <<cond, cnext, cmtx, items>>

(* cnd_destroy() by a holder of the mutex: it broadcasts to what it found.  *)
cnd_destroy(t) ==
    /\ t \in Destroys /\ cth[t].pc = "bring" /\ cond[Shared] # EX
    /\ cond' = [cond EXCEPT ![Shared] = EX, ![t] = cond[Shared]]
    /\ cth' = [cth EXCEPT ![t] = Locals("load", t, 0, 0, TRUE)]
    /\ UNCHANGED <<cnext, cmtx, items>>

CndStep(t) ==
    \/ Take(t) \/ Leave(t) \/ cnd_wait(t) \/ Push(t) \/ UnlockAndSleep(t) \/ Brimful(t)
    \/ DqLoad(t) \/ DqNext(t) \/ DqCas(t) \/ cnd_poke(t)
    \/ \E all, held \in BOOLEAN : Bring(t, all, held)
CndNext == \E t \in CndThreads : TakeMtx(t) \/ CndStep(t) \/ cnd_destroy(t)
CndSpec == CndInit /\ [][CndNext]_cndVars

-----------------------------------------------------------------------------
(* Where n links lead from c, and the places at which t's record is found. *)
Depths == 0 .. Cardinality(CndThreads)
Down == [r \in CndThreads \cup {0, EX} |-> IF r \in {0, EX} THEN 0 ELSE cnext[r]]
Linked(c) ==
    LET at[n \in Depths] == IF n = 0 THEN cond[c] ELSE Down[at[n - 1]]
    IN at
Places(t) == {cn \in (CndThreads \cup {Shared}) \X Depths : Linked(cn[1])[cn[2]] = t}
Waits(t) == cth[t].pc \in {"unlock", "sleep"}
PokedBy(t) == {u \in CndThreads : cth[u].pc = "poke" /\ cth[u].old = t}

(***************************************************************************)
(* A thread in cnd_wait() is in the stack exactly once, or exactly one     *)
(* thread is about to wake it; nobody else's record is in the stack, and   *)
(* nobody is woken who does not wait: dequeue() of one thread and the      *)
(* waits, wakeups and new waits of others leave the stack whole.           *)
(***************************************************************************)
WaitersListed ==
    \A t \in CndThreads :
      Cardinality(Places(t)) + Cardinality(PokedBy(t)) = IF Waits(t) THEN 1 ELSE 0

(***************************************************************************)
(* No wakeup is lost: with an item there and the condition alive, not      *)
(* everyone who wants one sleeps with nobody about to wake them.           *)
(***************************************************************************)
SomeoneKnows ==
    items > 0 /\ (\E t \in CndThreads : cth[t].pc = "sleep") =>
        \E t \in CndThreads : cth[t].pc \notin {"sleep", "idle"}

(***************************************************************************)
(* cnd_signal(), cnd_broadcast() and cnd_destroy() return: the thread that *)
(* they wake comes to its receive, and does not depend on the mutex that   *)
(* they hold.                                                              *)
(***************************************************************************)
SignalsEnd == \A t \in CndThreads : Signalling(t) ~> ~Signalling(t)

(* lib/cnd.c loses neither a waiter nor a wakeup.                          *)
CndSafe == WaitersListed /\ SomeoneKnows
=============================================================================
