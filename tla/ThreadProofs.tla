---------------------------- MODULE ThreadProofs ----------------------------
(***************************************************************************)
(* Proofs about mutexes (module Mtx): the mutex excludes and no waiter is  *)
(* forgotten; about threads (modules Thrd and Tss) and the union that      *)
(* runs them (MCSync): for any number of threads, keys and any set of      *)
(* joins; and about condition variables (Cnd): the stack of waiters stays  *)
(* whole and no wakeup is lost.                                            *)
(*                                                                         *)
(* JoinExact needs to know who of exit and the joiners is entitled to do   *)
(* what: a `j' of 1 belongs to a thread that sleeps or is gone, a `j' of 2 *)
(* and more names a joiner that waits.  ThrInv says this.  It holds where  *)
(* no destructor waits: one that does writes to the record's retval.       *)
(***************************************************************************)
EXTENDS MCSync, FiniteSetTheorems, WellFoundedInduction, TLAPS

-----------------------------------------------------------------------------
(* Mutexes. *)
(* A thread that has, or is certain to be told that it has, the mutex.     *)
Holding(t) == pc[t] \in {"granted", "crit", "call_unlock"}

(* The mutex is the next owner's from the moment ser_unlock_op() has       *)
(* picked it, so exclusion is about Owner rather than about m->s.          *)
HolderIsOwner == \A t \in Threads : Holding(t) => Owner = t

(* A free word carries no flag.                                            *)
FreeIsZero ==
  /\ s.owner = None <=> s.flag = "0"
  /\ snext.owner = None <=> snext.flag = "0"

(* Nobody but the serializer changes the word while it hands over.         *)
WindowFrozen ==
  HandingOver => s.owner # None /\ s.flag = "CONFLICT" /\ snext.flag # "LOCKED"

(* The thread about to be answered in mtx_lock() owns the mutex.           *)
GrantIsOwner ==
  /\ spc \in {"u_reply", "u_exchange", "reply"} => ssender \in Threads
  /\ spc \in {"u_reply", "u_exchange", "reply"} /\ pc[ssender] = "wait_lock"
       => Owner = ssender
  /\ spc = "u_reply" =>
       slater \in Threads /\ (pc[slater] = "wait_lock" => Owner = slater)

(* A thread that unlocks through the serializer does so because of         *)
(* CONFLICT, and CONFLICT stays until the serializer clears it.            *)
SlowUnlockConflicts ==
  /\ \A t \in Threads : pc[t] = "call_unlock" =>
       IF HandingOver THEN snext.flag = "CONFLICT" ELSE s.flag = "CONFLICT"
  /\ spc = "l_enqueue" => s.owner # None /\ s.flag = "CONFLICT"
  /\ spc \in {"l_cas_lock", "l_cas_conflict", "l_enqueue"} =>
       ssender \in Threads
  /\ \A t \in Threads : pc[t] = "cas_conflict" =>
       prev[t].owner # None /\ prev[t].flag = "LOCKED"
  /\ spc = "l_cas_conflict" => sprev.owner # None /\ sprev.flag = "LOCKED"

(* Nobody is inside an operation on a destroyed mutex.                     *)
DestroyedIsQuiet == ~magic => Quiescent

IInv ==
  /\ TypeOK
  /\ HolderIsOwner
  /\ FreeIsZero
  /\ WindowFrozen
  /\ GrantIsOwner
  /\ SlowUnlockConflicts
  /\ NoForgottenWaiter
  /\ DestroyedIsQuiet

USE NoneAssumption

(* The protocol starts in the inductive invariant.                         *)
LEMMA InitIInv == Init => IInv
  BY DEF Init, IInv, TypeOK, HolderIsOwner, Holding, FreeIsZero, WindowFrozen,
         GrantIsOwner, SlowUnlockConflicts, NoForgottenWaiter, HandingOver,
         DestroyedIsQuiet, Quiescent, Free, Word, ThreadPc, SerPc

(* State words are equal when their parts are.                             *)
LEMMA WordEquality ==
  ASSUME NEW w \in Word, NEW v \in Word
  PROVE  w = v <=> w.owner = v.owner /\ w.flag = v.flag
  BY DEF Word

(* Every step of a thread or of the serializer preserves the inductive     *)
(* invariant.                                                              *)
LEMMA NextIInv == IInv /\ [Next]_vars => IInv'
  <1> SUFFICES ASSUME IInv, [Next]_vars PROVE IInv'
    OBVIOUS
  <1> USE DEF IInv, TypeOK, HolderIsOwner, Holding, FreeIsZero, WindowFrozen,
          GrantIsOwner, SlowUnlockConflicts, NoForgottenWaiter, HandingOver,
          Owner, DestroyedIsQuiet, Quiescent, Free, Locked, LockedConflict,
          Word, ThreadPc, SerPc, serVars
  <1>1. ASSUME NEW t \in Threads, Lock(t) PROVE IInv'
    BY <1>1 DEF Lock, Load, AfterLoad
  <1>2. ASSUME NEW t \in Threads, TryLock(t) PROVE IInv'
    BY <1>2 DEF TryLock
  <1>3. ASSUME NEW t \in Threads, CasLock(t) PROVE IInv'
    <2>1. CASE s = Free
      BY <1>3, <2>1 DEF CasLock
    <2>2. CASE s # Free
      BY <1>3, <2>2 DEF CasLock, Load, AfterLoad
    <2> QED
      BY <2>1, <2>2
  <1>4. ASSUME NEW t \in Threads, CasConflict(t) PROVE IInv'
    <2>1. CASE s = prev[t]
      BY <1>4, <2>1 DEF CasConflict
    <2>2. CASE s # prev[t]
      BY <1>4, <2>2 DEF CasConflict, Load, AfterLoad
    <2> QED
      BY <2>1, <2>2
  <1>5. ASSUME NEW t \in Threads, LockReturn(t) PROVE IInv'
    BY <1>5 DEF LockReturn
  <1>6. ASSUME NEW t \in Threads, Unlock(t) PROVE IInv'
    <2>1. CASE s = Locked(t)
      BY <1>6, <2>1 DEF Unlock
    <2>2. CASE s # Locked(t)
      <3>1. s.owner = t => s.flag = "CONFLICT"
        BY <2>2, WordEquality
      <3> QED
        BY <1>6, <2>2, <3>1 DEF Unlock
    <2> QED
      BY <2>1, <2>2
  <1>7. ASSUME NEW t \in Threads, SerRecvLock(t) PROVE IInv'
    BY <1>7 DEF SerRecvLock, SerLoad, SerAfterLoad
  <1>8. ASSUME NEW t \in Threads, NEW x \in BOOLEAN, SerUnlock(t, x)
        PROVE IInv'
    <2>1. s.owner = t
      BY <1>8 DEF SerUnlock
    <2>2. CASE waits = <<>>
      BY <1>8, <2>1, <2>2 DEF SerUnlock
    <2>3. CASE waits # <<>>
      <3>1. Head(waits) \in Threads /\ Tail(waits) \in Seq(Threads)
        BY <2>3
      <3> DEFINE w == Head(waits)
      <3>2. /\ waits' = Tail(waits) /\ spc = "wait" /\ spc' = "u_reply"
            /\ snext' = LockedConflict(w)
            /\ \/ slater' = t /\ ssender' = w
               \/ slater' = w /\ ssender' = t
            /\ pc' = [pc EXCEPT ![t] = "wait_unlock"]
            /\ pc[t] = "call_unlock"
            /\ UNCHANGED <<s, magic, prev, sprev>>
        BY <1>8, <2>1, <2>3 DEF SerUnlock
      <3>3. snext'.owner = w /\ snext'.flag = "CONFLICT" /\ snext' \in Word
        BY <3>1, <3>2
      <3> HIDE DEF w
      <3>4. w \in Threads /\ waits' \in Seq(Threads)
        BY <3>1, <3>2 DEF w
      <3>5. TypeOK'
        BY <3>2, <3>3, <3>4
      <3> QED
        BY <2>1, <3>2, <3>3, <3>4, <3>5
    <2> QED
      BY <2>2, <2>3
  <1>9. CASE SerCasLock
    <2>1. CASE s = Free
      BY <1>9, <2>1 DEF SerCasLock
    <2>2. CASE s # Free
      BY <1>9, <2>2 DEF SerCasLock, SerLoad, SerAfterLoad
    <2> QED
      BY <2>1, <2>2
  <1>10. CASE SerCasConflict
    <2>1. CASE s = sprev
      BY <1>10, <2>1 DEF SerCasConflict
    <2>2. CASE s # sprev
      BY <1>10, <2>2 DEF SerCasConflict, SerLoad, SerAfterLoad
    <2> QED
      BY <2>1, <2>2
  <1>11. CASE SerEnqueue
    BY <1>11 DEF SerEnqueue
  <1>12. CASE SerReplyLater
    BY <1>12 DEF SerReplyLater, Woken
  <1>13. CASE SerExchange
    BY <1>13 DEF SerExchange
  <1>14. CASE SerReply
    BY <1>14 DEF SerReply, Woken
  <1>15. CASE Destroy
    BY ZenonT(40), <1>15 DEF Destroy
  <1>16. CASE Create
    BY <1>16 DEF Create
  <1>17. CASE UNCHANGED vars
    BY <1>17 DEF vars
  <1> HIDE DEF IInv, TypeOK, HolderIsOwner, Holding, FreeIsZero, WindowFrozen,
          GrantIsOwner, SlowUnlockConflicts, NoForgottenWaiter, HandingOver,
          Owner, DestroyedIsQuiet, Quiescent, Free, Locked, LockedConflict,
          Word, ThreadPc, SerPc, serVars
  <1> QED
    BY <1>1, <1>2, <1>3, <1>4, <1>5, <1>6, <1>7, <1>8, <1>9, <1>10, <1>11,
       <1>12, <1>13, <1>14, <1>15, <1>16, <1>17
       DEF Next, ThreadStep, SerRecv, SerStep

(* lib/mtx.c keeps its variables within their types.                       *)
THEOREM TypeCorrect == Spec => []TypeOK
  <1>1. IInv => TypeOK
    BY DEF IInv
  <1> QED
    BY <1>1, InitIInv, NextIInv, PTL DEF Spec

(* mtx_lock() and mtx_trylock() exclude: no two threads hold the mutex.    *)
THEOREM MutexExcludes == Spec => []MutualExclusion
  <1>1. IInv => MutualExclusion
    BY DEF IInv, HolderIsOwner, Holding, MutualExclusion
  <1> QED
    BY <1>1, InitIInv, NextIInv, PTL DEF Spec

(* A thread in m->waits is never passed over by a fast unlock.             *)
THEOREM WaitersRemembered == Spec => []NoForgottenWaiter
  <1>1. IInv => NoForgottenWaiter
    BY DEF IInv
  <1> QED
    BY <1>1, InitIInv, NextIInv, PTL DEF Spec

(* ser_unlock_op() meets neither a bad unlock nor a mutex that was         *)
(* unlocked from under its feet.                                           *)
THEOREM UnlocksAreGood == Spec => []NoBadUnlock
  <1>1. IInv => NoBadUnlock
    BY DEF IInv, HolderIsOwner, Holding, Owner, HandingOver, WindowFrozen,
           NoBadUnlock
  <1> QED
    BY <1>1, InitIInv, NextIInv, PTL DEF Spec

-----------------------------------------------------------------------------
(***************************************************************************)
(* What mtx_destroy() finds.  An owner is always inside an operation, and  *)
(* for that the threads in m->waits must be asleep, each of them once.     *)
(***************************************************************************)

(* The threads that wait for the serializer's answer to mtx_lock().        *)
Asleep(t) == pc[t] = "wait_lock"

(* Threads that the serializer has in hand are not in the list.            *)
InHand(t) ==
  \/ spc # "wait" /\ t = ssender
  \/ spc = "u_reply" /\ t = slater

WaitersSleep ==
  /\ \A ix \in 1..Len(waits) : Asleep(waits[ix]) /\ ~InHand(waits[ix])
  /\ \A ix, j \in 1..Len(waits) : waits[ix] = waits[j] => ix = j
  /\ spc \in {"l_cas_lock", "l_cas_conflict", "l_enqueue"} => Asleep(ssender)
  /\ spc = "u_reply" => ssender # slater

(* The owner of the mutex has it, or is about to be told.                  *)
Answering == spc \in {"u_reply", "u_exchange", "reply"}
OwnerHolds ==
  \A t \in Threads :
    Owner = t => Holding(t) \/ (Answering /\ Asleep(t) /\ InHand(t))

QInv == IInv /\ WaitersSleep /\ OwnerHolds

(* QInv holds at the start.                                                *)
LEMMA InitQInv == Init => QInv
  BY InitIInv DEF Init, QInv, WaitersSleep, OwnerHolds, Owner, HandingOver, Free

(* The steps of a thread that is not asleep leave those that are alone.    *)
LEMMA SleepersUndisturbed ==
  ASSUME QInv, NEW t \in Threads, NEW l \in ThreadPc, pc[t] # "wait_lock",
         pc' = [pc EXCEPT ![t] = l], UNCHANGED <<waits, serVars>>
  PROVE  WaitersSleep'
  <1>1. \A u \in Threads : Asleep(u) => Asleep(u)'
    BY DEF Asleep, QInv, IInv, TypeOK
  <1>2. \A u \in Threads : InHand(u)' <=> InHand(u)
    BY DEF InHand, serVars
  <1>3. \A ix \in 1..Len(waits) : waits[ix] \in Threads
    BY DEF QInv, IInv, TypeOK
  <1>4. spc \in {"l_cas_lock", "l_cas_conflict", "l_enqueue"} =>
          ssender \in Threads
    BY DEF QInv, IInv, SlowUnlockConflicts
  <1> QED
    BY <1>1, <1>2, <1>3, <1>4 DEF WaitersSleep, QInv, serVars

(* Every step preserves QInv.                                              *)
LEMMA NextQInv == QInv /\ [Next]_vars => QInv'
  <1> SUFFICES ASSUME QInv, [Next]_vars PROVE WaitersSleep' /\ OwnerHolds'
    BY NextIInv DEF QInv
  <1> USE DEF QInv, IInv, TypeOK, HolderIsOwner, Holding, FreeIsZero,
          GrantIsOwner, WindowFrozen, HandingOver, Owner, Quiescent, Asleep,
          Answering, InHand, WaitersSleep, OwnerHolds, Free, Locked, LockedConflict,
          Word, ThreadPc, SerPc, serVars
  <1> DEFINE Good == WaitersSleep /\ OwnerHolds
  <1>1. ASSUME NEW t \in Threads, Lock(t) PROVE Good'
    BY <1>1 DEF Lock, Load, AfterLoad
  <1>2. ASSUME NEW t \in Threads, TryLock(t) PROVE Good'
    <2>1. WaitersSleep'
      BY <1>2, SleepersUndisturbed DEF TryLock
    <2>2. OwnerHolds'
      BY <1>2 DEF TryLock
    <2> QED
      BY <2>1, <2>2
  <1>3. ASSUME NEW t \in Threads, CasLock(t) PROVE Good'
    <2>1. WaitersSleep'
      BY <1>3, SleepersUndisturbed DEF CasLock, Load, AfterLoad
    <2>2. CASE s = Free
      BY <1>3, <2>1, <2>2 DEF CasLock
    <2>3. CASE s # Free
      BY <1>3, <2>1, <2>3 DEF CasLock, Load, AfterLoad
    <2> QED
      BY <2>2, <2>3
  <1>4. ASSUME NEW t \in Threads, CasConflict(t) PROVE Good'
    <2>1. WaitersSleep'
      BY <1>4, SleepersUndisturbed DEF CasConflict, Load, AfterLoad
    <2>2. s'.owner = s.owner
      BY <1>4 DEF CasConflict
    <2>3. CASE s = prev[t]
      BY <1>4, <2>1, <2>2, <2>3 DEF CasConflict
    <2>4. CASE s # prev[t]
      BY <1>4, <2>1, <2>4 DEF CasConflict, Load, AfterLoad
    <2> QED
      BY <2>3, <2>4
  <1>5. ASSUME NEW t \in Threads, LockReturn(t) PROVE Good'
    BY <1>5 DEF LockReturn
  <1>6. ASSUME NEW t \in Threads, Unlock(t) PROVE Good'
    <2>1. WaitersSleep'
      BY <1>6, SleepersUndisturbed DEF Unlock
    <2>2. CASE s = Locked(t)
      BY <1>6, <2>1, <2>2 DEF Unlock
    <2>3. CASE s # Locked(t)
      BY <1>6, <2>1, <2>3 DEF Unlock
    <2> QED
      BY <2>2, <2>3
  <1>7. ASSUME NEW t \in Threads, SerRecvLock(t) PROVE Good'
    BY <1>7 DEF SerRecvLock, SerLoad, SerAfterLoad
  <1>8. ASSUME NEW t \in Threads, NEW x \in BOOLEAN, SerUnlock(t, x)
        PROVE Good'
    <2>1. s.owner = t
      BY <1>8 DEF SerUnlock
    <2>2. CASE waits = <<>>
      BY <1>8, <2>1, <2>2 DEF SerUnlock
    <2>3. CASE waits # <<>>
      <3> DEFINE w == Head(waits)
      <3>1. /\ Len(waits) \in Nat /\ Len(waits) >= 1 /\ w = waits[1]
            /\ w \in Threads
            /\ Len(Tail(waits)) = Len(waits) - 1
            /\ \A ix \in 1..Len(waits) - 1 : Tail(waits)[ix] = waits[ix + 1]
        BY <2>3
      <3>2. /\ waits' = Tail(waits) /\ spc = "wait" /\ spc' = "u_reply"
            /\ snext' = LockedConflict(w)
            /\ \/ slater' = t /\ ssender' = w
               \/ slater' = w /\ ssender' = t
            /\ pc' = [pc EXCEPT ![t] = "wait_unlock"]
            /\ pc[t] = "call_unlock"
            /\ UNCHANGED <<s, magic, prev, sprev>>
        BY <1>8, <2>1, <2>3 DEF SerUnlock
      <3>3. pc[w] = "wait_lock" /\ w # t
        BY <3>1, <3>2
      <3>4. \A ix \in 1..Len(waits') : waits'[ix] = waits[ix + 1] /\ ix + 1 \in 1..Len(waits)
        BY <3>1, <3>2
      <3> HIDE DEF w
      <3>5. \A ix \in 1..Len(waits') : waits'[ix] # w /\ waits'[ix] # t
        BY <3>1, <3>2, <3>3, <3>4
      <3>6. WaitersSleep'
        BY <3>1, <3>2, <3>3, <3>4, <3>5
      <3>7. OwnerHolds'
        BY <3>2, <3>3
      <3> QED
        BY <3>6, <3>7
    <2> QED
      BY <2>2, <2>3
  <1>9. CASE SerCasLock
    BY <1>9 DEF SerCasLock, SerLoad, SerAfterLoad
  <1>10. CASE SerCasConflict
    BY <1>10 DEF SerCasConflict, SerLoad, SerAfterLoad
  <1>11. CASE SerEnqueue
    <2>1. /\ Len(waits') = Len(waits) + 1 /\ Len(waits) \in Nat
          /\ waits'[Len(waits) + 1] = ssender
          /\ \A ix \in 1..Len(waits) : waits'[ix] = waits[ix]
      BY <1>11 DEF SerEnqueue
    <2>2. WaitersSleep'
      BY <1>11, <2>1 DEF SerEnqueue
    <2>3. OwnerHolds'
      BY <1>11 DEF SerEnqueue
    <2> QED
      BY <2>2, <2>3
  <1>12. CASE SerReplyLater
    BY <1>12 DEF SerReplyLater, Woken
  <1>13. CASE SerExchange
    BY <1>13 DEF SerExchange
  <1>14. CASE SerReply
    BY <1>14 DEF SerReply, Woken
  <1>15. CASE Destroy
    BY <1>15 DEF Destroy
  <1>16. CASE Create
    BY <1>16 DEF Create
  <1>17. CASE UNCHANGED vars
    BY <1>17 DEF vars
  <1> QED
    BY <1>1, <1>2, <1>3, <1>4, <1>5, <1>6, <1>7, <1>8, <1>9, <1>10, <1>11,
       <1>12, <1>13, <1>14, <1>15, <1>16, <1>17
       DEF Next, ThreadStep, SerRecv, SerStep

(* When nobody uses the mutex its word is 0 and its list empty, so that    *)
(* mtx_destroy() never meets a mutex in use.                               *)
THEOREM DestroyFindsItFree == Spec => []QuiescentIsFree
  <1>1. QInv => QuiescentIsFree
    BY WordEquality
       DEF QInv, IInv, TypeOK, OwnerHolds, Owner, HandingOver, Answering,
           Holding, FreeIsZero, NoForgottenWaiter, QuiescentIsFree, Quiescent, Free, Word
  <1> QED
    BY <1>1, InitQInv, NextQInv, PTL DEF Spec

(* lib/mtx.c is safe, whatever the number of threads.                      *)
THEOREM MtxIsSafe == Spec => []MtxSafe
  BY TypeCorrect, MutexExcludes, WaitersRemembered, UnlocksAreGood,
     DestroyFindsItFree, PTL DEF MtxSafe

-----------------------------------------------------------------------------
(* Threads. *)
Exiting == {"x_dtors", "x_load", "x_cas", "x_send", "x_sleep"}
Waiting == {"j_wait", "j_recv"}
Joining == Waiting \cup {"j_load", "j_cas", "j_second", "j_destroy", "j_gone"}
InOnce == {"o_cas", "o_run", "o_spin", "o_done"}
Values == {0} \cup {Code(t) : t \in Thr}
ThreadRecord ==
  [life : {"none", "live", "gone"}, pc : {"run"} \cup Exiting \cup Joining \cup InOnce,
   j : Nat, retval : Values, stack : {"none", "used", "freed"}, of : Thr \cup {0},
   jold : Nat, res : Values, won : SUBSET Thr, done : SUBSET (Thr \cup {0})]

(* What a thread's record says of itself.                                  *)
Sound(u, r) ==
  /\ r.life = "none" => r = NoThread
  /\ r.life # "live" => r.pc = "run"
  /\ u = 1 => r.life = "live" /\ r.stack = "none"
  /\ u # 1 /\ r.life = "live" => r.stack = "used"
  /\ u # 1 /\ r.life = "gone" => r.stack \in {"used", "freed"}
  /\ r.pc \in Exiting => r.retval = Code(u) /\ u # 1
  /\ r.j = 1 => r.retval = Code(u) /\ (r.life = "gone" \/ r.pc = "x_sleep")
  /\ r.pc = "x_send" => r.jold = r.j /\ r.j >= 2

(* Whom thread t joins, when its record is r.                              *)
JoinFits(t, r) ==
  /\ r.pc \in Joining => <<t, r.of>> \in Joins /\ thr[r.of].life # "none"
  /\ r.pc = "j_destroy" => /\ r.res = Code(r.of)
                           /\ thr[r.of].life = "gone" \/ thr[r.of].pc = "x_sleep"

(* A running thread's joiner waits.                                        *)
Awaited(u, r) ==
  r.life = "live" /\ r.pc # "x_sleep" /\ r.j >= 2 =>
    /\ r.j - 1 \in Thr
    /\ thr[r.j - 1].pc \in Waiting /\ thr[r.j - 1].of = u

(* Stacks are freed by one thread each.                                    *)
WonOnce ==
  \A u \in Thr :
    /\ \A t \in Thr : u \in thr[t].won => thr[u].stack = "freed"
    /\ \A t, oth \in Thr : u \in thr[t].won /\ u \in thr[oth].won => t = oth
    /\ thr[u].stack = "freed" => \E t \in Thr : u \in thr[t].won

ThrInv ==
  /\ thr \in [Thr -> ThreadRecord]
  /\ \A t \in Thr : Sound(t, thr[t]) /\ JoinFits(t, thr[t]) /\ Awaited(t, thr[t])
  /\ WonOnce

-----------------------------------------------------------------------------
(* The parts of a record.                                                  *)
LEMMA Fields ==
  ASSUME NEW r \in ThreadRecord
  PROVE  /\ r.life \in {"none", "live", "gone"} /\ r.j \in Nat /\ r.jold \in Nat
         /\ r.of \in Thr \cup {0} /\ r.won \in SUBSET Thr
         /\ r.retval \in Values /\ r.res \in Values
BY DEF ThreadRecord

(* The pairs that join.                                                    *)
LEMMA JoinPairs ==
  ASSUME NEW t, NEW u, <<t, u>> \in Joins
  PROVE  t \in Thr /\ u \in Thr /\ t # u /\ u # 1 /\ t \in Nat \ {0} /\ u \in Nat \ {0}
<1>1. t \in Thr /\ u \in Thr
  BY ThrdAssumption
<1>2. <<t, u>>[1] < <<t, u>>[2]
  BY ThrdAssumption
<1>3. t \in Nat \ {0} /\ u \in Nat \ {0} /\ t < u
  BY <1>1, <1>2, ThrdAssumption
<1> QED
  BY <1>1, <1>3

(* A step in which a thread changes its own record only.                   *)
LEMMA OwnStep ==
  ASSUME ThrInv, NEW t \in Thr, NEW r \in ThreadRecord,
         thr[t].life = "live", thr' = [thr EXCEPT ![t] = r],
         r.life # "none", r.won = thr[t].won, r.stack = thr[t].stack,
         r.j = thr[t].j \/ r.j = 1,
         thr[t].pc = "x_sleep" => r.pc = "x_sleep",
         thr[t].pc \in Waiting => \/ r.pc \in Waiting /\ r.of = thr[t].of
                                  \/ thr[thr[t].of].life = "gone",
         Sound(t, r), JoinFits(t, r)
  PROVE  ThrInv'
<1>1. /\ thr' \in [Thr -> ThreadRecord] /\ thr'[t] = r
      /\ \A x \in Thr : x # t => thr'[x] = thr[x]
  BY DEF ThrInv
<1>2. /\ \A x \in Thr : thr'[x].stack = thr[x].stack /\ thr'[x].won = thr[x].won
      /\ \A x \in Thr : thr[x].life # "none" => thr'[x].life # "none"
      /\ \A x \in Thr : thr[x].life = "gone" => thr'[x].life = "gone"
      /\ \A x \in Thr : thr[x].pc = "x_sleep" => thr'[x].pc = "x_sleep"
  BY <1>1
<1>3. \A x \in Thr : Sound(x, thr'[x])
  BY <1>1 DEF ThrInv
<1>4. \A x \in Thr : JoinFits(x, thr'[x])
  BY <1>1 DEF ThrInv
<1>5. ASSUME NEW x \in Thr PROVE JoinFits(x, thr[x])'
  <2>1. thr'[x].pc \in Joining => <<x, thr'[x].of>> \in Joins /\ thr'[x].of \in Thr /\ thr[thr'[x].of].life # "none"
    BY <1>4, JoinPairs DEF JoinFits
  <2>2. thr'[x].pc = "j_destroy" => thr'[x].pc \in Joining
    BY DEF Joining
  <2> QED
    BY <1>2, <1>4, <2>1, <2>2 DEF JoinFits
<1>6. ASSUME NEW x \in Thr PROVE Awaited(x, thr[x])'
  <2>1. SUFFICES ASSUME thr'[x].life = "live", thr'[x].pc # "x_sleep", thr'[x].j >= 2
                 PROVE  /\ thr'[x].j - 1 \in Thr
                        /\ thr'[thr'[x].j - 1].pc \in Waiting /\ thr'[thr'[x].j - 1].of = x
    BY DEF Awaited
  <2>2. thr'[x].j = thr[x].j /\ thr[x].life = "live" /\ thr[x].pc # "x_sleep"
    BY <1>1, <2>1
  <2>3. Awaited(x, thr[x])
    BY DEF ThrInv
  <2> DEFINE by == thr[x].j - 1
  <2>4. by \in Thr /\ thr[by].pc \in Waiting /\ thr[by].of = x
    BY <2>1, <2>2, <2>3 DEF Awaited
  <2> QED
    BY <1>1, <2>1, <2>2, <2>4
<1>7. WonOnce'
  BY <1>2 DEF ThrInv, WonOnce
<1>8. \A x \in Thr : Sound(x, thr[x])'
  BY <1>3 DEF Sound
<1> QED
  BY <1>1, <1>5, <1>6, <1>7, <1>8 DEF ThrInv

(* Only the first thread is there at the beginning.                        *)
LEMMA InitThrInv == ThrdInit => ThrInv
<1> SUFFICES ASSUME ThrdInit PROVE ThrInv
    OBVIOUS
<1>1. NoThread \in ThreadRecord /\ [NoThread EXCEPT !.life = "live"] \in ThreadRecord
  <2>1. 0 \in Values
    BY DEF Values
  <2> QED
    BY <2>1 DEF NoThread, ThreadRecord
<1>2. /\ thr \in [Thr -> ThreadRecord]
      /\ \A t \in Thr : thr[t].pc = "run" /\ thr[t].won = {} /\ thr[t].stack = "none" /\ thr[t].j = 0
      /\ \A t \in Thr : IF t = 1 THEN thr[t].life = "live" ELSE thr[t] = NoThread /\ thr[t].life = "none"
  BY <1>1 DEF ThrdInit, NoThread
<1>3. \A t \in Thr : Sound(t, thr[t]) /\ JoinFits(t, thr[t]) /\ Awaited(t, thr[t])
  BY <1>2 DEF Sound, JoinFits, Awaited, Exiting, Joining, Waiting
<1> QED
  BY <1>2, <1>3 DEF ThrInv, WonOnce

(* The steps of a thread in its own exit.                                  *)
LEMMA ExitThrInv ==
  ASSUME ThrInv, ~DtorsWait, NEW t \in Thr,
         thrd_exit(t) \/ (\E w \in BOOLEAN : Dtors(t, w)) \/ ExitLoad(t) \/ ExitCas(t) \/ ExitLate(t)
  PROVE  ThrInv'
<1> DEFINE x == thr[t]
<1>a. /\ thr \in [Thr -> ThreadRecord] /\ x \in ThreadRecord /\ x.j \in Nat
      /\ Sound(t, x) /\ JoinFits(t, x) /\ Code(t) \in Values
  BY Fields DEF ThrInv, Values
<1>1. CASE thrd_exit(t)
  <2> DEFINE r == [x EXCEPT !.pc = "x_dtors", !.retval = Code(t)]
  <2>1. /\ x.life = "live" /\ x.pc = "run" /\ t # 1 /\ thr' = [thr EXCEPT ![t] = r]
    BY <1>1, <1>a DEF thrd_exit, At
  <2>2. /\ r \in ThreadRecord /\ r.pc = "x_dtors" /\ r.retval = Code(t)
        /\ r.life = x.life /\ r.j = x.j /\ r.won = x.won /\ r.stack = x.stack
    BY <1>a DEF ThreadRecord, Exiting
  <2> HIDE DEF r
  <2>3. Sound(t, r) /\ JoinFits(t, r)
    BY <1>a, <2>1, <2>2 DEF Sound, JoinFits, Exiting, Joining, Waiting
  <2> QED
    BY <1>a, <2>1, <2>2, <2>3, OwnStep DEF Waiting
<1>2. ASSUME NEW w \in BOOLEAN, Dtors(t, w) PROVE ThrInv'
  <2> DEFINE r == [x EXCEPT !.pc = "x_load"]
  <2>0. ~w
    BY <1>2 DEF Dtors
  <2>1. /\ x.life = "live" /\ x.pc = "x_dtors" /\ thr' = [thr EXCEPT ![t] = r]
    <3>1. x.life = "live" /\ x.pc = "x_dtors"
      BY <1>2 DEF Dtors, At
    <3>2. thr' = [thr EXCEPT ![t] = [x EXCEPT !.pc = "x_load", !.retval = x.retval]]
      BY <1>2, <1>a, <2>0 DEF Dtors
    <3>3. [x EXCEPT !.pc = "x_load", !.retval = x.retval] = r
      BY <1>a DEF ThreadRecord
    <3> QED
      BY <3>1, <3>2, <3>3
  <2>2. /\ r \in ThreadRecord /\ r.pc = "x_load" /\ r.retval = x.retval
        /\ r.life = x.life /\ r.j = x.j /\ r.won = x.won /\ r.stack = x.stack
    BY <1>a DEF ThreadRecord, Exiting
  <2> HIDE DEF r
  <2>3. Sound(t, r) /\ JoinFits(t, r)
    BY <1>a, <2>1, <2>2 DEF Sound, JoinFits, Exiting, Joining, Waiting
  <2> QED
    BY <1>a, <2>1, <2>2, <2>3, OwnStep DEF Waiting
<1>3. CASE ExitLoad(t)
  <2> DEFINE r == [x EXCEPT !.jold = x.j, !.pc = IF x.j = 0 THEN "x_cas" ELSE "x_send"]
  <2>1. /\ x.life = "live" /\ x.pc = "x_load" /\ thr' = [thr EXCEPT ![t] = r]
    BY <1>3, <1>a DEF ExitLoad, At
  <2>2. /\ r \in ThreadRecord /\ r.pc = (IF x.j = 0 THEN "x_cas" ELSE "x_send") /\ r.retval = x.retval
        /\ r.life = x.life /\ r.j = x.j /\ r.won = x.won /\ r.stack = x.stack /\ r.jold = x.j
    BY <1>a DEF ThreadRecord, Exiting
  <2> HIDE DEF r
  <2>3. Sound(t, r) /\ JoinFits(t, r)
    BY <1>a, <2>1, <2>2 DEF Sound, JoinFits, Exiting, Joining, Waiting
  <2> QED
    BY <1>a, <2>1, <2>2, <2>3, OwnStep DEF Waiting
<1>4. CASE ExitCas(t) /\ x.j = 0
  <2> DEFINE r == [x EXCEPT !.j = 1, !.pc = "x_sleep", !.jold = 0]
  <2>1. /\ x.life = "live" /\ x.pc = "x_cas" /\ thr' = [thr EXCEPT ![t] = r]
    BY <1>4, <1>a DEF ExitCas, At
  <2>2. /\ r \in ThreadRecord /\ r.pc = "x_sleep" /\ r.retval = x.retval
        /\ r.life = x.life /\ r.j = 1 /\ r.won = x.won /\ r.stack = x.stack
    BY <1>a DEF ThreadRecord, Exiting
  <2> HIDE DEF r
  <2>3. Sound(t, r) /\ JoinFits(t, r)
    BY <1>a, <2>1, <2>2 DEF Sound, JoinFits, Exiting, Joining, Waiting
  <2> QED
    BY <1>a, <2>1, <2>2, <2>3, OwnStep DEF Waiting
<1>5. CASE ExitCas(t) /\ x.j # 0
  <2> DEFINE r == [x EXCEPT !.jold = x.j, !.pc = "x_send"]
  <2>1. /\ x.life = "live" /\ x.pc = "x_cas" /\ thr' = [thr EXCEPT ![t] = r]
    BY <1>5, <1>a DEF ExitCas, At
  <2>2. /\ r \in ThreadRecord /\ r.pc = "x_send" /\ r.retval = x.retval
        /\ r.life = x.life /\ r.j = x.j /\ r.won = x.won /\ r.stack = x.stack /\ r.jold = x.j
    BY <1>a DEF ThreadRecord, Exiting
  <2> HIDE DEF r
  <2>3. Sound(t, r) /\ JoinFits(t, r)
    BY <1>5, <1>a, <2>1, <2>2 DEF Sound, JoinFits, Exiting, Joining, Waiting
  <2> QED
    BY <1>a, <2>1, <2>2, <2>3, OwnStep DEF Waiting
<1>6. CASE ExitLate(t)
  <2> DEFINE r == [x EXCEPT !.life = "gone", !.pc = "run", !.jold = 0]
  <2>1. /\ x.life = "live" /\ x.pc = "x_send" /\ thr' = [thr EXCEPT ![t] = r]
    BY <1>6, <1>a DEF ExitLate, At
  <2>2. /\ r \in ThreadRecord /\ r.pc = "run" /\ r.retval = x.retval
        /\ r.life = "gone" /\ r.j = x.j /\ r.won = x.won /\ r.stack = x.stack
    BY <1>a DEF ThreadRecord
  <2> HIDE DEF r
  <2>3. Sound(t, r) /\ JoinFits(t, r)
    BY <1>a, <2>1, <2>2 DEF Sound, JoinFits, Exiting, Joining, Waiting
  <2> QED
    BY <1>a, <2>1, <2>2, <2>3, OwnStep DEF Waiting
<1> QED
  BY <1>1, <1>2, <1>3, <1>4, <1>5, <1>6

(* The exiting thread's message reaches the joiner that its record names.  *)
LEMMA SendThrInv ==
  ASSUME ThrInv, NEW t \in Thr, ExitSend(t)
  PROVE  ThrInv'
<1> DEFINE by == thr[t].jold - 1
<1> DEFINE x == [thr[t] EXCEPT !.pc = "x_sleep", !.jold = 0]
<1> DEFINE y == [thr[by] EXCEPT !.pc = "j_destroy", !.res = Code(t)]
<1>a. /\ thr \in [Thr -> ThreadRecord] /\ thr[t] \in ThreadRecord
      /\ thr[t].j \in Nat /\ Code(t) \in Values
      /\ \A z \in Thr : Sound(z, thr[z]) /\ JoinFits(z, thr[z]) /\ Awaited(z, thr[z])
  BY Fields DEF ThrInv, Values
<1>1. /\ thr[t].life = "live" /\ thr[t].pc = "x_send" /\ thr[t].jold = thr[t].j /\ thr[t].j >= 2
      /\ thr[by].life = "live" /\ thr[by].pc = "j_recv"
  BY <1>a DEF ExitSend, At, Sound
<1>2. by \in Thr /\ by # t /\ thr[by].of = t /\ <<by, t>> \in Joins
  <2>1. by \in Thr /\ thr[by].of = t
    BY <1>a, <1>1 DEF Awaited
  <2> QED
    BY <1>a, <1>1, <2>1 DEF JoinFits, Joining, Waiting
<1>3. thr' = [thr EXCEPT ![t] = x, ![by] = y]
  BY <1>a, <1>2 DEF ExitSend
<1>4. /\ x \in ThreadRecord /\ x.pc = "x_sleep" /\ x.retval = thr[t].retval
      /\ x.life = "live" /\ x.j = thr[t].j /\ x.won = thr[t].won /\ x.stack = thr[t].stack
  BY <1>a, <1>1 DEF ThreadRecord, Exiting
<1>5. /\ y \in ThreadRecord /\ y.pc = "j_destroy" /\ y.res = Code(t) /\ y.of = t
      /\ y.life = "live" /\ y.j = thr[by].j /\ y.won = thr[by].won /\ y.stack = thr[by].stack
      /\ y.retval = thr[by].retval
  BY ZenonT(40), <1>a, <1>1, <1>2 DEF ThreadRecord, Joining
<1> HIDE DEF x, y
<1>6. /\ thr' \in [Thr -> ThreadRecord] /\ thr'[t] = x /\ thr'[by] = y
      /\ \A z \in Thr : z # t /\ z # by => thr'[z] = thr[z]
  BY <1>a, <1>2, <1>3, <1>4, <1>5
<1> HIDE DEF by
<1>7. \A z \in Thr : Sound(z, thr[z])'
  <2>1. Sound(t, x)
    BY <1>a, <1>1, <1>4 DEF Sound, Exiting
  <2>2. Sound(by, y)
    BY <1>a, <1>1, <1>2, <1>5 DEF Sound, Exiting
  <2> QED
    BY <1>a, <1>6, <2>1, <2>2 DEF Sound
<1>8. ASSUME NEW z \in Thr PROVE JoinFits(z, thr[z])'
  <2>1. /\ \A w \in Thr : thr[w].life # "none" => thr'[w].life # "none"
        /\ \A w \in Thr : thr[w].life = "gone" => thr'[w].life = "gone"
        /\ \A w \in Thr : thr[w].pc = "x_sleep" => thr'[w].pc = "x_sleep"
    BY <1>1, <1>4, <1>5, <1>6
  <2>2. CASE z = t
    BY <2>2, <1>4, <1>6 DEF JoinFits, Joining, Waiting
  <2>3. CASE z = by
    BY <2>3, <1>2, <1>4, <1>5, <1>6 DEF JoinFits
  <2>4. CASE z # t /\ z # by
    <3>1. thr'[z] = thr[z] /\ JoinFits(z, thr[z])
      BY <2>4, <1>a, <1>6
    <3>2. thr[z].pc = "j_destroy" => thr[z].pc \in Joining
      BY DEF Joining
    <3>3. thr[z].pc \in Joining => thr[z].of \in Thr
      BY <3>1, JoinPairs DEF JoinFits
    <3> QED
      BY <2>1, <3>1, <3>2, <3>3 DEF JoinFits
  <2> QED
    BY <2>2, <2>3, <2>4
<1>9. ASSUME NEW z \in Thr PROVE Awaited(z, thr[z])'
  <2>1. SUFFICES ASSUME thr'[z].life = "live", thr'[z].pc # "x_sleep", thr'[z].j >= 2
                 PROVE  /\ thr'[z].j - 1 \in Thr
                        /\ thr'[thr'[z].j - 1].pc \in Waiting /\ thr'[thr'[z].j - 1].of = z
    BY DEF Awaited
  <2>2. z # t /\ thr[z].life = "live" /\ thr[z].pc # "x_sleep" /\ thr[z].j = thr'[z].j
    BY <1>1, <1>4, <1>5, <1>6, <2>1
  <2> DEFINE w == thr[z].j - 1
  <2>3. w \in Thr /\ thr[w].pc \in Waiting /\ thr[w].of = z
    BY <1>a, <2>1, <2>2 DEF Awaited
  <2>4. w # by /\ w # t
    BY <1>1, <1>2, <2>2, <2>3 DEF Waiting
  <2> QED
    BY <1>6, <2>2, <2>3, <2>4
<1>10. WonOnce'
  <2>1. \A z \in Thr : thr'[z].stack = thr[z].stack /\ thr'[z].won = thr[z].won
    BY <1>4, <1>5, <1>6
  <2> QED
    BY <2>1 DEF ThrInv, WonOnce
<1> QED
  BY <1>6, <1>7, <1>8, <1>9, <1>10 DEF ThrInv

(* The steps of a joiner in which it changes its own record only.          *)
LEMMA JoinThrInv ==
  ASSUME ThrInv, NEW t \in Thr,
         \/ \E u \in Thr : thrd_join(t, u)
         \/ JoinLoad(t) \/ (JoinCas(t) /\ thr[thr[t].of].j # 0) \/ JoinReceive(t) \/ JoinGone(t)
         \/ (JoinDestroy(t) /\ thr[thr[t].of].life = "gone") \/ JoinError(t)
  PROVE  ThrInv'
<1> DEFINE x == thr[t]
<1>a. /\ thr \in [Thr -> ThreadRecord] /\ x \in ThreadRecord /\ x.j \in Nat
      /\ Sound(t, x) /\ JoinFits(t, x)
      /\ \A u \in Thr : Sound(u, thr[u]) /\ thr[u].retval \in Values /\ thr[u].j \in Nat
  BY Fields DEF ThrInv
<1>b. x.pc \in Joining => x.of \in Thr /\ x.of # t /\ <<t, x.of>> \in Joins /\ thr[x.of].life # "none"
  BY <1>a, JoinPairs DEF JoinFits
<1>c. 0 \in Values
  BY DEF Values
<1>s. ASSUME NEW r \in ThreadRecord, x.life = "live", x.pc \in {"run"} \cup Joining,
             r.pc \in {"run"} \cup Joining, r.life = "live", r.j = x.j, r.retval = x.retval,
             r.stack = x.stack
      PROVE  Sound(t, r)
  BY <1>a, <1>s DEF Sound, Exiting, Joining, Waiting
<1>1. ASSUME NEW u \in Thr, thrd_join(t, u) PROVE ThrInv'
  <2> DEFINE dest == IF thr[u].life = "live" THEN "j_load" ELSE "j_gone"
  <2> DEFINE r == [x EXCEPT !.of = u, !.pc = dest]
  <2>1. /\ x.life = "live" /\ x.pc = "run" /\ <<t, u>> \in Joins /\ thr[u].life # "none"
        /\ thr' = [thr EXCEPT ![t] = r]
    BY <1>1, <1>a DEF thrd_join, At
  <2>2. /\ r \in ThreadRecord /\ r.pc \in {"j_load", "j_gone"} /\ r.retval = x.retval /\ r.of = u
        /\ r.life = "live" /\ r.j = x.j /\ r.won = x.won /\ r.stack = x.stack
    BY <1>a, <2>1 DEF ThreadRecord, Joining
  <2> HIDE DEF r
  <2>3. Sound(t, r) /\ JoinFits(t, r)
    BY <1>s, <2>1, <2>2 DEF JoinFits, Joining
  <2> QED
    BY <1>a, <2>1, <2>2, <2>3, OwnStep DEF Waiting
<1>2. ASSUME NEW old \in Nat, old # 0, old = thr[x.of].j, x.life = "live",
             x.pc \in {"j_load", "j_cas"}, thr' = Branch(t, old)
      PROVE ThrInv'
  <2> DEFINE dest == IF old = 1 THEN "j_destroy" ELSE "j_second"
  <2> DEFINE r == [x EXCEPT !.pc = dest, !.res = thr[x.of].retval]
  <2>1. /\ x.of \in Thr /\ thr[x.of].retval \in Values /\ <<t, x.of>> \in Joins /\ thr[x.of].life # "none"
        /\ Sound(x.of, thr[x.of]) /\ thr' = [thr EXCEPT ![t] = r]
    BY <1>2, <1>a, <1>b DEF Branch, Joining
  <2>2. /\ r \in ThreadRecord /\ r.pc = dest /\ r.retval = x.retval /\ r.of = x.of
        /\ r.life = "live" /\ r.j = x.j /\ r.won = x.won /\ r.stack = x.stack
        /\ r.res = thr[x.of].retval
    BY <1>2, <1>a, <2>1 DEF ThreadRecord, Joining
  <2> HIDE DEF r
  <2>3. Sound(t, r)
    BY <1>2, <1>s, <2>1, <2>2 DEF Joining
  <2>4. JoinFits(t, r)
    BY <1>2, <2>1, <2>2 DEF JoinFits, Sound
  <2> QED
    BY <1>2, <1>a, <2>1, <2>2, <2>3, <2>4, OwnStep DEF Waiting
<1>3. ASSUME NEW dest, x.life = "live", x.pc \in Joining, thr' = [thr EXCEPT ![t].pc = dest],
             \/ x.pc = "j_load" /\ dest = "j_cas"
             \/ x.pc = "j_wait" /\ dest = "j_recv"
             \/ dest = "j_gone" /\ thr[x.of].life = "gone"
      PROVE ThrInv'
  <2> DEFINE r == [x EXCEPT !.pc = dest]
  <2>1. /\ x.of \in Thr /\ <<t, x.of>> \in Joins /\ thr[x.of].life # "none"
        /\ thr' = [thr EXCEPT ![t] = r]
    BY <1>3, <1>a, <1>b
  <2>2. /\ r \in ThreadRecord /\ r.pc = dest /\ r.retval = x.retval /\ r.of = x.of
        /\ r.life = "live" /\ r.j = x.j /\ r.won = x.won /\ r.stack = x.stack
    BY <1>3, <1>a DEF ThreadRecord, Joining, Waiting
  <2> HIDE DEF r
  <2>3. Sound(t, r) /\ JoinFits(t, r)
    BY <1>3, <1>s, <2>1, <2>2 DEF JoinFits, Joining, Waiting
  <2>4. x.pc # "x_sleep"
    BY <1>3 DEF Joining, Waiting
  <2> QED
    BY <1>3, <1>a, <2>1, <2>2, <2>3, <2>4, OwnStep DEF Waiting
<1>4. CASE JoinError(t)
  <2> DEFINE r == [x EXCEPT !.pc = "run", !.res = 0, !.done = @ \cup {x.of}, !.of = 0]
  <2>1. x.life = "live" /\ x.pc = "j_gone" /\ thr' = [thr EXCEPT ![t] = r]
    BY <1>4, <1>a DEF JoinError, At
  <2>2. /\ r \in ThreadRecord /\ r.pc = "run" /\ r.retval = x.retval
        /\ r.life = "live" /\ r.j = x.j /\ r.won = x.won /\ r.stack = x.stack
    BY <1>a, <1>b, <1>c, <2>1 DEF ThreadRecord, Joining
  <2> HIDE DEF r
  <2>3. Sound(t, r) /\ JoinFits(t, r)
    BY <1>s, <2>1, <2>2 DEF JoinFits, Joining, Waiting
  <2> QED
    BY <1>a, <2>1, <2>2, <2>3, OwnStep DEF Waiting
<1>5. CASE JoinLoad(t)
  <2>1. x.life = "live" /\ x.pc = "j_load" /\ x.of \in Thr /\ x.pc \in Joining
    BY <1>5, <1>b DEF JoinLoad, At, Joining
  <2>2. CASE thr[x.of].j = 0
    BY <1>3, <1>5, <2>1, <2>2 DEF JoinLoad
  <2>3. CASE thr[x.of].j # 0
    BY <1>2, <1>5, <1>a, <2>1, <2>3 DEF JoinLoad
  <2> QED
    BY <2>2, <2>3
<1>6. CASE JoinCas(t) /\ thr[x.of].j # 0
  <2>1. x.life = "live" /\ x.pc = "j_cas" /\ x.of \in Thr
    BY <1>6, <1>b DEF JoinCas, At, Joining
  <2> QED
    BY <1>2, <1>6, <1>a, <2>1 DEF JoinCas
<1>7. CASE JoinReceive(t)
  BY <1>3, <1>7 DEF JoinReceive, At, Put, Joining, Waiting
<1>8. CASE JoinGone(t)
  BY <1>3, <1>8 DEF JoinGone, At, Put, Joining, Waiting
<1>9. CASE JoinDestroy(t) /\ thr[x.of].life = "gone"
  BY <1>3, <1>9 DEF JoinDestroy, At, Joining
<1> QED
  BY <1>1, <1>4, <1>5, <1>6, <1>7, <1>8, <1>9

(* The joiner that comes first writes itself into the other's record.      *)
LEMMA CasThrInv ==
  ASSUME ThrInv, NEW t \in Thr, JoinCas(t), thr[thr[t].of].j = 0
  PROVE  ThrInv'
<1> DEFINE u == thr[t].of
<1> DEFINE x == [thr[t] EXCEPT !.pc = "j_wait"]
<1> DEFINE y == [thr[u] EXCEPT !.j = t + 1]
<1>a. /\ thr \in [Thr -> ThreadRecord] /\ thr[t] \in ThreadRecord
      /\ \A z \in Thr : Sound(z, thr[z]) /\ JoinFits(z, thr[z]) /\ Awaited(z, thr[z])
  BY DEF ThrInv
<1>1. thr[t].life = "live" /\ thr[t].pc = "j_cas"
  BY DEF JoinCas, At
<1>2. u \in Thr /\ u # t /\ <<t, u>> \in Joins /\ thr[u].life # "none" /\ t \in Nat \ {0}
  BY <1>a, <1>1, JoinPairs DEF JoinFits, Joining
<1>3. thr' = [thr EXCEPT ![u] = y, ![t] = x]
  BY <1>a, <1>2 DEF JoinCas
<1>4. /\ x \in ThreadRecord /\ x.pc = "j_wait" /\ x.retval = thr[t].retval /\ x.of = u
      /\ x.life = "live" /\ x.j = thr[t].j /\ x.won = thr[t].won /\ x.stack = thr[t].stack
  BY <1>a, <1>1 DEF ThreadRecord, Joining, Waiting
<1>5. /\ y \in ThreadRecord /\ y.pc = thr[u].pc /\ y.res = thr[u].res /\ y.of = thr[u].of
      /\ y.life = thr[u].life /\ y.j = t + 1 /\ y.won = thr[u].won /\ y.stack = thr[u].stack
      /\ y.retval = thr[u].retval
  BY <1>a, <1>2 DEF ThreadRecord
<1>6. thr[u].pc # "x_send"
  <2>1. Sound(u, thr[u]) /\ thr[u].j = 0
    BY <1>a, <1>2
  <2> QED
    BY <2>1 DEF Sound
<1> HIDE DEF x, y
<1>7. /\ thr' \in [Thr -> ThreadRecord] /\ thr'[t] = x /\ thr'[u] = y
      /\ \A z \in Thr : z # t /\ z # u => thr'[z] = thr[z]
  BY <1>a, <1>2, <1>3, <1>4, <1>5
<1> HIDE DEF u
<1>8. \A z \in Thr : Sound(z, thr[z])'
  <2>1. Sound(t, x)
    BY <1>a, <1>1, <1>4 DEF Sound, Exiting
  <2>2. Sound(u, y)
    <3>1. y.j # 1 /\ y.life # "none"
      BY <1>2, <1>5
    <3> QED
      BY <1>a, <1>2, <1>5, <1>6, <3>1 DEF Sound
  <2> QED
    BY <1>a, <1>7, <2>1, <2>2 DEF Sound
<1>9. ASSUME NEW z \in Thr PROVE JoinFits(z, thr[z])'
  <2>1. \A w \in Thr : thr'[w].life = thr[w].life /\ (thr[w].pc = "x_sleep" => thr'[w].pc = "x_sleep")
    BY <1>1, <1>4, <1>5, <1>7
  <2>2. CASE z = t
    BY <2>1, <2>2, <1>2, <1>4, <1>7 DEF JoinFits
  <2>3. CASE z # t
    <3>1. /\ thr'[z].pc = thr[z].pc /\ thr'[z].of = thr[z].of /\ thr'[z].res = thr[z].res
          /\ JoinFits(z, thr[z])
      BY <2>3, <1>a, <1>5, <1>7
    <3>2. thr[z].pc = "j_destroy" => thr[z].pc \in Joining
      BY DEF Joining
    <3>3. thr[z].pc \in Joining => thr[z].of \in Thr
      BY <3>1, JoinPairs DEF JoinFits
    <3> QED
      BY <2>1, <3>1, <3>2, <3>3 DEF JoinFits
  <2> QED
    BY <2>2, <2>3
<1>10. ASSUME NEW z \in Thr PROVE Awaited(z, thr[z])'
  <2>1. SUFFICES ASSUME thr'[z].life = "live", thr'[z].pc # "x_sleep", thr'[z].j >= 2
                 PROVE  /\ thr'[z].j - 1 \in Thr
                        /\ thr'[thr'[z].j - 1].pc \in Waiting /\ thr'[thr'[z].j - 1].of = z
    BY DEF Awaited
  <2>2. CASE z = u
    <3>1. thr'[z].j - 1 = t
      BY <1>2, <1>5, <1>7, <2>2
    <3> QED
      BY <1>4, <1>7, <2>2, <3>1 DEF Waiting
  <2>3. CASE z # u
    <3>1. thr[z].life = "live" /\ thr[z].pc # "x_sleep" /\ thr[z].j = thr'[z].j
      BY <1>1, <1>4, <1>7, <2>1, <2>3
    <3> DEFINE w == thr[z].j - 1
    <3>2. w \in Thr /\ thr[w].pc \in Waiting /\ thr[w].of = z
      BY <1>a, <2>1, <3>1 DEF Awaited
    <3>3. w # t
      BY <1>1, <3>2 DEF Waiting
    <3> QED
      BY <1>5, <1>7, <3>1, <3>2, <3>3
  <2> QED
    BY <2>2, <2>3
<1>11. WonOnce'
  <2>1. \A z \in Thr : thr'[z].stack = thr[z].stack /\ thr'[z].won = thr[z].won
    BY <1>4, <1>5, <1>7
  <2> QED
    BY <2>1 DEF ThrInv, WonOnce
<1> QED
  BY <1>7, <1>8, <1>9, <1>10, <1>11 DEF ThrInv

(* The joiner that destroys the thread frees its stack.                    *)
LEMMA DestroyThrInv ==
  ASSUME ThrInv, NEW t \in Thr, JoinDestroy(t), thr[thr[t].of].life # "gone"
  PROVE  ThrInv'
<1> DEFINE u == thr[t].of
<1> DEFINE x == [thr[t] EXCEPT !.pc = "run", !.won = @ \cup {u}, !.done = @ \cup {u}, !.of = 0]
<1> DEFINE y == [thr[u] EXCEPT !.life = "gone", !.pc = "run", !.stack = "freed"]
<1>a. /\ thr \in [Thr -> ThreadRecord] /\ thr[t] \in ThreadRecord
      /\ \A z \in Thr : Sound(z, thr[z]) /\ JoinFits(z, thr[z]) /\ Awaited(z, thr[z])
      /\ WonOnce
  BY DEF ThrInv
<1>1. thr[t].life = "live" /\ thr[t].pc = "j_destroy"
  BY DEF JoinDestroy, At
<1>2. u \in Thr /\ u # t /\ u # 1 /\ <<t, u>> \in Joins /\ thr[u].life # "none"
  BY <1>a, <1>1, JoinPairs DEF JoinFits, Joining
<1>b. thr[u] \in ThreadRecord /\ thr[u].life \in {"none", "live", "gone"}
  BY <1>a, <1>2, Fields
<1>3. thr[u].life = "live" /\ thr[u].pc = "x_sleep" /\ thr[u].stack = "used" /\ thr[u].retval = Code(u)
  BY <1>a, <1>b, <1>1, <1>2 DEF JoinFits, Sound, Exiting
<1>4. thr' = [thr EXCEPT ![u] = y, ![t] = x]
  BY <1>a, <1>2, <1>3 DEF JoinDestroy
<1>5. /\ x \in ThreadRecord /\ x.pc = "run" /\ x.retval = thr[t].retval
      /\ x.life = "live" /\ x.j = thr[t].j /\ x.won = thr[t].won \cup {u} /\ x.stack = thr[t].stack
  BY <1>a, <1>1, <1>2 DEF ThreadRecord
<1>6. /\ y \in ThreadRecord /\ y.pc = "run"
      /\ y.life = "gone" /\ y.j = thr[u].j /\ y.won = thr[u].won /\ y.stack = "freed"
      /\ y.retval = thr[u].retval
  BY <1>b DEF ThreadRecord
<1> HIDE DEF x, y
<1>7. /\ thr' \in [Thr -> ThreadRecord] /\ thr'[t] = x /\ thr'[u] = y
      /\ \A z \in Thr : z # t /\ z # u => thr'[z] = thr[z]
  BY <1>a, <1>2, <1>4, <1>5, <1>6
<1> HIDE DEF u
<1>8. \A z \in Thr : Sound(z, thr[z])'
  <2>1. Sound(t, x)
    BY <1>a, <1>1, <1>5 DEF Sound, Exiting
  <2>2. Sound(u, y)
    BY <1>2, <1>3, <1>6 DEF Sound, Exiting
  <2> QED
    BY <1>a, <1>7, <2>1, <2>2 DEF Sound
<1>9. ASSUME NEW z \in Thr PROVE JoinFits(z, thr[z])'
  <2>1. CASE z = t \/ z = u
    BY <2>1, <1>5, <1>6, <1>7 DEF JoinFits, Joining, Waiting
  <2>2. CASE z # t /\ z # u
    <3>1. thr'[z] = thr[z] /\ JoinFits(z, thr[z])
      BY <2>2, <1>a, <1>7
    <3>2. thr[z].pc = "j_destroy" => thr[z].pc \in Joining
      BY DEF Joining
    <3>3. thr[z].pc \in Joining => thr[z].of \in Thr
      BY <3>1, JoinPairs DEF JoinFits
    <3>4. /\ \A w \in Thr : thr[w].life # "none" => thr'[w].life # "none"
          /\ \A w \in Thr : thr[w].life = "gone" \/ thr[w].pc = "x_sleep" =>
               thr'[w].life = "gone" \/ thr'[w].pc = "x_sleep"
      BY <1>1, <1>5, <1>6, <1>7
    <3> QED
      BY <3>1, <3>2, <3>3, <3>4 DEF JoinFits
  <2> QED
    BY <2>1, <2>2
<1>10. ASSUME NEW z \in Thr PROVE Awaited(z, thr[z])'
  <2>1. SUFFICES ASSUME thr'[z].life = "live", thr'[z].pc # "x_sleep", thr'[z].j >= 2
                 PROVE  /\ thr'[z].j - 1 \in Thr
                        /\ thr'[thr'[z].j - 1].pc \in Waiting /\ thr'[thr'[z].j - 1].of = z
    BY DEF Awaited
  <2>2. thr[z].life = "live" /\ thr[z].pc # "x_sleep" /\ thr[z].j = thr'[z].j
    BY <1>1, <1>5, <1>6, <1>7, <2>1
  <2> DEFINE w == thr[z].j - 1
  <2>3. w \in Thr /\ thr[w].pc \in Waiting /\ thr[w].of = z
    BY <1>a, <2>1, <2>2 DEF Awaited
  <2>4. w # u /\ w # t
    BY <1>1, <1>3, <2>3 DEF Waiting
  <2> QED
    BY <1>7, <2>2, <2>3, <2>4
<1>11. WonOnce'
  <2>1. \A z \in Thr : u \notin thr[z].won
    BY <1>2, <1>3, <1>a DEF WonOnce
  <2>2. /\ \A z \in Thr : thr'[z].stack = IF z = u THEN "freed" ELSE thr[z].stack
        /\ \A z \in Thr : thr'[z].won = IF z = t THEN thr[z].won \cup {u} ELSE thr[z].won
    BY <1>2, <1>5, <1>6, <1>7
  <2>3. ASSUME NEW v \in Thr
        PROVE  /\ \A z \in Thr : v \in thr'[z].won => thr'[v].stack = "freed"
               /\ \A z, w \in Thr : v \in thr'[z].won /\ v \in thr'[w].won => z = w
               /\ thr'[v].stack = "freed" => \E z \in Thr : v \in thr'[z].won
    <3>1. CASE v = u
      BY <1>2, <2>1, <2>2, <3>1
    <3>2. CASE v # u
      <4>1. \A z \in Thr : v \in thr'[z].won <=> v \in thr[z].won
        BY <2>2, <3>2
      <4> QED
        BY <1>a, <2>2, <3>2, <4>1 DEF WonOnce
    <3> QED
      BY <3>1, <3>2
  <2> QED
    BY <2>3 DEF WonOnce
<1> QED
  BY <1>7, <1>8, <1>9, <1>10, <1>11 DEF ThrInv

(* A new thread has nobody that knows of it.                               *)
LEMMA CreateThrInv ==
  ASSUME ThrInv, NEW t \in Thr, NEW u \in Thr, thrd_create(t, u)
  PROVE  ThrInv'
<1> DEFINE y == [NoThread EXCEPT !.life = "live", !.stack = "used"]
<1>a. /\ thr \in [Thr -> ThreadRecord]
      /\ \A z \in Thr : Sound(z, thr[z]) /\ JoinFits(z, thr[z]) /\ Awaited(z, thr[z])
      /\ WonOnce
  BY DEF ThrInv
<1>1. thr[u] = NoThread /\ thr' = [thr EXCEPT ![u] = y]
  BY DEF thrd_create
<1>2. /\ thr[u].life = "none" /\ thr[u].pc = "run" /\ thr[u].won = {} /\ thr[u].stack = "none"
      /\ u # 1
  <2>1. thr[u].life = "none" /\ thr[u].pc = "run" /\ thr[u].won = {} /\ thr[u].stack = "none"
    BY <1>1 DEF NoThread
  <2> QED
    BY <1>a, <2>1 DEF Sound
<1>3. /\ y \in ThreadRecord /\ y.pc = "run" /\ y.life = "live" /\ y.stack = "used" /\ y.won = {}
      /\ y.j = 0
  <2>1. 0 \in Values
    BY DEF Values
  <2> QED
    BY <2>1 DEF ThreadRecord, NoThread
<1> HIDE DEF y
<1>4. /\ thr' \in [Thr -> ThreadRecord] /\ thr'[u] = y
      /\ \A z \in Thr : z # u => thr'[z] = thr[z]
  BY <1>a, <1>1, <1>3
<1>5. \A z \in Thr : Sound(z, thr[z])'
  <2>1. Sound(u, y)
    BY <1>2, <1>3 DEF Sound, Exiting
  <2> QED
    BY <1>a, <1>4, <2>1 DEF Sound
<1>6. ASSUME NEW z \in Thr PROVE JoinFits(z, thr[z])'
  <2>1. CASE z = u
    BY <2>1, <1>3, <1>4 DEF JoinFits, Joining, Waiting
  <2>2. CASE z # u
    <3>1. thr'[z] = thr[z] /\ JoinFits(z, thr[z])
      BY <2>2, <1>a, <1>4
    <3>2. thr[z].pc = "j_destroy" => thr[z].pc \in Joining
      BY DEF Joining
    <3>3. thr[z].pc \in Joining => thr[z].of \in Thr /\ thr[z].of # u
      BY <1>2, <3>1, JoinPairs DEF JoinFits
    <3> QED
      BY <1>4, <3>1, <3>2, <3>3 DEF JoinFits
  <2> QED
    BY <2>1, <2>2
<1>7. ASSUME NEW z \in Thr PROVE Awaited(z, thr[z])'
  <2>1. CASE z = u
    BY <1>3, <1>4, <2>1 DEF Awaited
  <2>2. CASE z # u
    <3>1. SUFFICES ASSUME thr[z].life = "live", thr[z].pc # "x_sleep", thr[z].j >= 2
                   PROVE  /\ thr[z].j - 1 \in Thr
                          /\ thr'[thr[z].j - 1].pc \in Waiting /\ thr'[thr[z].j - 1].of = z
      BY <1>4, <2>2 DEF Awaited
    <3> DEFINE w == thr[z].j - 1
    <3>2. w \in Thr /\ thr[w].pc \in Waiting /\ thr[w].of = z
      BY <1>a, <3>1 DEF Awaited
    <3>3. w # u
      BY <1>2, <3>2 DEF Waiting
    <3> QED
      BY <1>4, <3>2, <3>3
  <2> QED
    BY <2>1, <2>2
<1>8. WonOnce'
  <2>1. \A z \in Thr : thr'[z].won = thr[z].won /\ (thr'[z].stack = "freed" <=> thr[z].stack = "freed")
    BY <1>2, <1>3, <1>4
  <2> QED
    BY <1>a, <2>1 DEF WonOnce
<1> QED
  BY <1>4, <1>5, <1>6, <1>7, <1>8 DEF ThrInv

(* The steps of call_once() change the caller's place only.                *)
LEMMA OnceThrInv ==
  ASSUME ThrInv, NEW t \in Thr,
         call_once(t) \/ OnceCas(t) \/ OnceRun(t) \/ OnceSpin(t) \/ OnceReturn(t)
  PROVE  ThrInv'
<1> DEFINE x == thr[t]
<1>a. /\ thr \in [Thr -> ThreadRecord] /\ x \in ThreadRecord /\ Sound(t, x)
  BY DEF ThrInv
<1>1. ASSUME NEW r \in ThreadRecord, x.life = "live", x.pc \in {"run"} \cup InOnce,
             r.pc \in {"run"} \cup InOnce, r.life = "live", r.j = x.j, r.retval = x.retval,
             r.stack = x.stack, r.won = x.won, thr' = [thr EXCEPT ![t] = r]
      PROVE  ThrInv'
  <2>1. Sound(t, r) /\ JoinFits(t, r)
    BY <1>1, <1>a DEF Sound, JoinFits, Exiting, InOnce, Joining, Waiting
  <2> QED
    BY <1>1, <2>1, OwnStep DEF Waiting, InOnce
<1>2. ASSUME NEW dest \in InOnce, x.life = "live", x.pc \in {"run"} \cup InOnce, Put(t, dest)
      PROVE  ThrInv'
  <2> DEFINE r == [x EXCEPT !.pc = dest]
  <2>1. thr' = [thr EXCEPT ![t] = r]
    BY <1>2, <1>a DEF Put
  <2>2. /\ r \in ThreadRecord /\ r.pc = dest /\ r.life = x.life /\ r.j = x.j /\ r.retval = x.retval
        /\ r.stack = x.stack /\ r.won = x.won
    BY <1>a DEF ThreadRecord
  <2> HIDE DEF r
  <2> QED
    BY <1>1, <1>2, <2>1, <2>2
<1>3. CASE OnceReturn(t)
  <2> DEFINE r == [x EXCEPT !.pc = "run", !.done = @ \cup {0}]
  <2>1. thr' = [thr EXCEPT ![t] = r] /\ x.life = "live" /\ x.pc = "o_done"
    BY <1>3, <1>a DEF OnceReturn, At
  <2>2. /\ r \in ThreadRecord /\ r.pc = "run" /\ r.life = x.life /\ r.j = x.j /\ r.retval = x.retval
        /\ r.stack = x.stack /\ r.won = x.won
    BY <1>a DEF ThreadRecord
  <2> HIDE DEF r
  <2> QED
    BY <1>1, <2>1, <2>2 DEF InOnce
<1>4. CASE call_once(t)
  <2>1. \E dest \in InOnce : Put(t, dest)
    BY <1>4 DEF call_once, InOnce
  <2> QED
    BY <1>2, <1>4, <2>1 DEF call_once, At
<1>5. CASE OnceCas(t)
  <2>1. \E dest \in InOnce : Put(t, dest)
    BY <1>5 DEF OnceCas, InOnce
  <2> QED
    BY <1>2, <1>5, <2>1 DEF OnceCas, At, InOnce
<1>6. CASE OnceRun(t) \/ OnceSpin(t)
  BY <1>2, <1>6 DEF OnceRun, OnceSpin, At, InOnce
<1> QED
  BY <1>3, <1>4, <1>5, <1>6

(* Every step of the threads keeps the invariant of their records.         *)
LEMMA NextThrInv == ThrInv /\ ~DtorsWait /\ [ThrdNext]_thrdVars => ThrInv'
<1> SUFFICES ASSUME ThrInv, ~DtorsWait, [ThrdNext]_thrdVars PROVE ThrInv'
    OBVIOUS
<1>1. CASE UNCHANGED thrdVars
  BY <1>1 DEF thrdVars, ThrInv, Sound, JoinFits, Awaited, WonOnce
<1>2. ASSUME NEW t \in Thr, ThrdStep(t) PROVE ThrInv'
  <2>1. CASE JoinCas(t)
    BY <2>1, CasThrInv, JoinThrInv
  <2>2. CASE JoinDestroy(t)
    BY <2>2, DestroyThrInv, JoinThrInv
  <2> QED
    BY <1>2, <2>1, <2>2, ExitThrInv, SendThrInv, JoinThrInv, OnceThrInv DEF ThrdStep
<1>3. ASSUME NEW t \in Thr, call_once(t) \/ \E u \in Thr : thrd_create(t, u) \/ thrd_join(t, u)
      PROVE  ThrInv'
  BY <1>3, OnceThrInv, CreateThrInv, JoinThrInv
<1> QED
  BY <1>1, <1>2, <1>3 DEF ThrdNext

(* What the records say is what thrd_join() promises.                      *)
LEMMA ThrInvJoinExact == ThrInv => JoinExact
<1> SUFFICES ASSUME ThrInv, NEW u \in Thr
             PROVE  /\ thr[u].stack # "twice" /\ (thr[u].stack = "freed" => thr[u].life = "gone")
                    /\ Cardinality({t \in Thr : u \in thr[t].won}) = IF thr[u].stack = "freed" THEN 1 ELSE 0
                    /\ \A t \in Thr : At(t, "j_destroy") /\ thr[t].of = u => thr[t].res = Code(u)
    BY DEF JoinExact
<1>1. /\ thr[u] \in ThreadRecord /\ thr[u].life \in {"none", "live", "gone"}
      /\ thr[u].stack \in {"none", "used", "freed"} /\ Sound(u, thr[u])
  BY DEF ThrInv, ThreadRecord
<1>2. thr[u].stack = "freed" => thr[u].life = "gone"
  BY <1>1 DEF Sound, NoThread
<1>3. \A t \in Thr : At(t, "j_destroy") /\ thr[t].of = u => thr[t].res = Code(u)
  BY DEF ThrInv, JoinFits, At
<1> DEFINE W == {t \in Thr : u \in thr[t].won}
<1>4. CASE thr[u].stack = "freed"
  <2>1. PICK t \in Thr : u \in thr[t].won
    BY <1>4 DEF ThrInv, WonOnce
  <2>2. W = {t}
    BY <2>1 DEF ThrInv, WonOnce
  <2>3. Cardinality(W) = 1
    BY <2>2, FS_Singleton
  <2> QED
    BY <1>1, <1>2, <1>3, <1>4, <2>3
<1>5. CASE thr[u].stack # "freed"
  <2>1. W = {}
    BY <1>5 DEF ThrInv, WonOnce
  <2>2. Cardinality(W) = 0
    BY <2>1, FS_EmptySet
  <2> QED
    BY <1>1, <1>2, <1>3, <1>5, <2>2
<1> QED
  BY <1>4, <1>5

-----------------------------------------------------------------------------
(* The once_flag is 1 exactly while its function may run, in one thread,   *)
(* and whoever spins or has come through has seen it set.                  *)
OnceInv ==
  /\ once \in [flag : {0, 1, 2}, ran : {0, 1}]
  /\ once.ran = 1 <=> once.flag = 2
  /\ \A t \in Thr : /\ thr[t].pc = "o_run" => once.flag = 1
                    /\ thr[t].pc = "o_spin" => once.flag # 0
                    /\ thr[t].pc = "o_done" => once.flag = 2
  /\ \A t, oth \in Thr : thr[t].pc = "o_run" /\ thr[oth].pc = "o_run" => t = oth

(* Steps other than those of call_once() take nobody into it.              *)
LEMMA NotIntoOnce ==
  ASSUME ThrInv, OnceInv, once' = once, 
         \A x \in Thr : thr'[x].pc = thr[x].pc \/ thr'[x].pc \notin {"o_run", "o_spin", "o_done"}
  PROVE  OnceInv'
BY DEF OnceInv

(* Every step of the threads keeps the once_flag's invariant.              *)
LEMMA NextOnceInv == ThrInv /\ OnceInv /\ [ThrdNext]_thrdVars => OnceInv'
<1> SUFFICES ASSUME ThrInv, OnceInv, [ThrdNext]_thrdVars PROVE OnceInv'
    OBVIOUS
<1>a. thr \in [Thr -> ThreadRecord]
  BY DEF ThrInv
<1>c. ASSUME NEW t \in Thr, NEW dest, Put(t, dest)
      PROVE  thr'[t].pc = dest /\ \A x \in Thr : x # t => thr'[x].pc = thr[x].pc
  BY <1>a, <1>c DEF Put, ThreadRecord
<1>1. CASE UNCHANGED thrdVars
  BY <1>1 DEF thrdVars, OnceInv
<1>2. ASSUME NEW t \in Thr, OnceCas(t) PROVE OnceInv'
  <2>1. CASE once.flag = 0
    <3>1. Put(t, "o_run") /\ once' = [once EXCEPT !.flag = 1]
      BY <1>2, <2>1 DEF OnceCas
    <3>2. thr'[t].pc = "o_run" /\ \A x \in Thr : x # t => thr'[x].pc = thr[x].pc
      BY <1>c, <3>1
    <3>3. once'.flag = 1 /\ once'.ran = 0 /\ once' \in [flag : {0, 1, 2}, ran : {0, 1}]
      BY <2>1, <3>1 DEF OnceInv
    <3> QED
      BY <2>1, <3>2, <3>3 DEF OnceInv
  <2>2. CASE once.flag # 0
    <3>1. Put(t, IF once.flag = 1 THEN "o_spin" ELSE "o_done") /\ once' = once
      BY <1>2, <2>2 DEF OnceCas
    <3>2. /\ thr'[t].pc = IF once.flag = 1 THEN "o_spin" ELSE "o_done"
          /\ \A x \in Thr : x # t => thr'[x].pc = thr[x].pc
      BY <1>c, <3>1
    <3>3. once.flag = 1 \/ once.flag = 2
      BY <2>2 DEF OnceInv
    <3> QED
      BY <2>2, <3>1, <3>2, <3>3 DEF OnceInv
  <2> QED
    BY <2>1, <2>2
<1>3. ASSUME NEW t \in Thr, OnceRun(t) PROVE OnceInv'
  <2>1. thr[t].pc = "o_run" /\ Put(t, "o_done") /\ once' = [flag |-> 2, ran |-> once.ran + 1]
    BY <1>3 DEF OnceRun, At
  <2>2. thr'[t].pc = "o_done" /\ \A x \in Thr : x # t => thr'[x].pc = thr[x].pc
    BY <1>c, <2>1
  <2>3. once.ran = 0 /\ once.flag = 1
    BY <2>1 DEF OnceInv
  <2>4. once'.flag = 2 /\ once'.ran = 1 /\ once' \in [flag : {0, 1, 2}, ran : {0, 1}]
    BY <2>1, <2>3
  <2> QED
    BY <2>1, <2>2, <2>4 DEF OnceInv
<1>4. ASSUME NEW t \in Thr, OnceSpin(t) PROVE OnceInv'
  <2>1. thr[t].pc = "o_spin" /\ Put(t, "o_done") /\ once' = once /\ once.flag # 1
    BY <1>4 DEF OnceSpin, At
  <2>2. thr'[t].pc = "o_done" /\ \A x \in Thr : x # t => thr'[x].pc = thr[x].pc
    BY <1>c, <2>1
  <2>3. once.flag = 2
    BY <2>1 DEF OnceInv
  <2> QED
    BY <2>1, <2>2, <2>3 DEF OnceInv
<1>5. ASSUME NEW t \in Thr, call_once(t) PROVE OnceInv'
  <2> DEFINE dest == CASE once.flag = 0 -> "o_cas" [] once.flag = 1 -> "o_spin" [] OTHER -> "o_done"
  <2>1. Put(t, dest) /\ once' = once
    BY <1>5 DEF call_once
  <2>2. thr'[t].pc = dest /\ \A x \in Thr : x # t => thr'[x].pc = thr[x].pc
    BY <1>c, <2>1
  <2>3. \/ once.flag = 0 /\ dest = "o_cas"
        \/ once.flag = 1 /\ dest = "o_spin"
        \/ once.flag = 2 /\ dest = "o_done"
    BY DEF OnceInv
  <2> HIDE DEF dest
  <2> QED
    BY <2>1, <2>2, <2>3 DEF OnceInv
<1> DEFINE Outside == \A x \in Thr : thr'[x].pc = thr[x].pc \/ thr'[x].pc \notin {"o_run", "o_spin", "o_done"}
<1>6. ASSUME NEW t \in Thr, NEW dest, dest \notin {"o_run", "o_spin", "o_done"}, Put(t, dest)
      PROVE  Outside
  BY <1>c, <1>6
<1>7. ASSUME NEW t \in Thr, ThrdStep(t), once' = once,
             ~OnceCas(t), ~OnceRun(t), ~OnceSpin(t)
      PROVE  Outside
  <2>1. CASE thrd_exit(t)
    BY <1>a, <2>1 DEF thrd_exit, ThreadRecord
  <2>2. CASE \E w \in BOOLEAN : Dtors(t, w)
    BY <1>a, <2>2 DEF Dtors, ThreadRecord
  <2>3. CASE ExitLoad(t) \/ ExitCas(t) \/ ExitLate(t)
    BY <1>a, <2>3 DEF ExitLoad, ExitCas, ExitLate, ThreadRecord
  <2>4. CASE ExitSend(t)
    BY <1>a, <2>4 DEF ExitSend, ThreadRecord
  <2>5. CASE JoinLoad(t)
    BY <1>a, <2>5 DEF JoinLoad, Branch, ThreadRecord
  <2>6. CASE JoinCas(t)
    BY <1>a, <2>6 DEF JoinCas, Branch, ThreadRecord
  <2>7. CASE JoinReceive(t) \/ JoinGone(t)
    BY <1>6, <2>7 DEF JoinReceive, JoinGone
  <2>8. CASE JoinDestroy(t)
    <3> DEFINE u == thr[t].of
    <3>1. CASE thr[u].life = "gone"
      BY <1>6, <2>8, <3>1 DEF JoinDestroy, Put
    <3>2. CASE thr[u].life # "gone"
      <4>1. u \in Thr /\ u # t
        BY <2>8, JoinPairs DEF ThrInv, JoinFits, JoinDestroy, At, Joining
      <4>2. PICK r, q : thr' = [thr EXCEPT ![u] = r, ![t] = q] /\ r.pc = "run" /\ q.pc = "run"
        <5>1. thr[t] \in ThreadRecord /\ thr[u] \in ThreadRecord
          BY <1>a, <4>1
        <5> DEFINE st == IF thr[u].stack = "used" THEN "freed" ELSE "twice"
        <5> DEFINE r == [thr[u] EXCEPT !.life = "gone", !.pc = "run", !.stack = st]
        <5> DEFINE q == [thr[t] EXCEPT !.pc = "run", !.won = @ \cup {u}, !.done = @ \cup {u}, !.of = 0]
        <5>2. r.pc = "run" /\ q.pc = "run"
          BY <5>1 DEF ThreadRecord
        <5>3. thr' = [thr EXCEPT ![u] = r, ![t] = q]
          BY <1>a, <2>8, <3>2, <4>1 DEF JoinDestroy
        <5> QED
          BY <5>2, <5>3
      <4> QED
        BY <1>a, <4>1, <4>2
    <3> QED
      BY <3>1, <3>2
  <2>9. CASE JoinError(t) \/ OnceReturn(t)
    BY <1>a, <2>9 DEF JoinError, OnceReturn, ThreadRecord
  <2> QED
    BY <1>7, <2>1, <2>2, <2>3, <2>4, <2>5, <2>6, <2>7, <2>8, <2>9 DEF ThrdStep
<1>8. ASSUME NEW t \in Thr, NEW u \in Thr, thrd_create(t, u) PROVE Outside
  BY <1>a, <1>8 DEF thrd_create, NoThread, ThreadRecord
<1>9. ASSUME NEW t \in Thr, NEW u \in Thr, thrd_join(t, u) PROVE Outside
  BY <1>a, <1>9 DEF thrd_join, ThreadRecord
<1>10. ASSUME NEW t \in Thr, ThrdStep(t) PROVE OnceInv'
  <2>1. CASE OnceCas(t) \/ OnceRun(t) \/ OnceSpin(t)
    BY <1>2, <1>3, <1>4, <2>1
  <2>2. CASE ~OnceCas(t) /\ ~OnceRun(t) /\ ~OnceSpin(t)
    <3>1. once' = once
      BY <1>10, <2>2 DEF ThrdStep, thrd_exit, Dtors, ExitLoad, ExitCas, ExitSend, ExitLate, JoinLoad, JoinCas,
                         JoinReceive, JoinGone, JoinDestroy, JoinError, OnceReturn
    <3> QED
      BY <1>7, <1>10, <2>2, <3>1, NotIntoOnce
  <2> QED
    BY <2>1, <2>2
<1>11. ASSUME NEW t \in Thr, NEW u \in Thr, thrd_create(t, u) \/ thrd_join(t, u) PROVE OnceInv'
  <2>1. once' = once
    BY <1>11 DEF thrd_create, thrd_join
  <2> QED
    BY <1>8, <1>9, <1>11, <2>1, NotIntoOnce
<1> QED
  BY <1>1, <1>5, <1>10, <1>11 DEF ThrdNext

-----------------------------------------------------------------------------
(* Nothing is stored under a key that is free: what a thread hands to the  *)
(* destructors when it ends is all that it has stored.                     *)
Cells == TssVals \cup {NULL, Garbage}
Array == [max : {0} \cup TssKeys, ptrs : [TssKeys \cup {0} -> Cells]]
TssInv ==
  /\ dtors \subseteq TssKeys /\ runs \subseteq TssThreads
  /\ tss \in [TssThreads -> Array]
  /\ held \in [TssThreads -> [TssKeys -> Cells]]
  /\ \E S : given \in [TssThreads -> S]
  /\ \A t \in TssThreads : \A k \in TssKeys : held[t][k] # NULL => k \in dtors
  /\ TssExact

(* Keys are numbers from 1.                                                *)
LEMMA KeysAreNumbers == (\A k \in TssKeys : k \in Nat /\ k # 0 /\ k > 0) /\ 0 \notin TssKeys
<1>1. Cardinality(TssKeys) \in Nat
  BY TssAssumption, FS_CardinalityType
<1>2. \A k \in 1..Cardinality(TssKeys) : k \in Nat /\ k # 0 /\ k > 0
  BY <1>1
<1> QED
  BY <1>2, TssAssumption

(* A set of numbers that is not empty has a least one.                     *)
LEMMA LeastNumber ==
  ASSUME NEW S \in SUBSET Nat, S # {}
  PROVE  \E k \in S : \A l \in S : k <= l
<1>1. \E k \in S : \A l \in S : <<l, k>> \notin OpToRel(<, Nat)
  BY NatLessThanWellFounded, WFMin
<1>2. \A k, l \in S : l < k => <<l, k>> \in OpToRel(<, Nat)
  BY DEF OpToRel
<1>3. \A k, l \in S : ~(l < k) => k <= l
  OBVIOUS
<1> QED
  BY <1>1, <1>2, <1>3

(* No key has a destructor and no thread a value at the beginning.         *)
LEMMA InitTssInv == TssInit => TssInv
<1> SUFFICES ASSUME TssInit PROVE TssInv
    OBVIOUS
<1>1. NoTss \in Array /\ NoTss.max = 0
  BY DEF NoTss, Array, Cells
<1>2. /\ tss \in [TssThreads -> Array] /\ \A t \in TssThreads : tss[t].max = 0
      /\ held \in [TssThreads -> [TssKeys -> Cells]]
      /\ \A t \in TssThreads : \A k \in TssKeys : held[t][k] = NULL
  BY <1>1 DEF TssInit, Cells
<1>3. TssExact
  BY <1>2 DEF TssExact, ExactFor, TssInit, tss_get
<1> QED
  BY <1>2, <1>3 DEF TssInv, TssInit

ArrayAfter(x, k, v) == LET g == IF x.max = 0 \/ k > x.max THEN Grow(x, k) ELSE x IN [g EXCEPT !.ptrs[k] = v]
Kept(y, k, v, h) ==
  /\ y \in Array /\ y.max > 0 /\ y.ptrs[0] = NULL
  /\ \A ky \in TssKeys : (IF ky > y.max THEN NULL ELSE y.ptrs[ky]) = (IF ky = k THEN v ELSE h[ky])

(* tss_set() keeps the rest of the array, wherever it has to grow to.      *)
LEMMA SetKeeps ==
  ASSUME NEW x \in Array, NEW k \in TssKeys, NEW v \in Cells, NEW h \in [TssKeys -> Cells],
         \A ky \in TssKeys : (IF x.max = 0 \/ ky > x.max THEN NULL ELSE x.ptrs[ky]) = h[ky],
         x.max > 0 => x.ptrs[0] = NULL
  PROVE  Kept(ArrayAfter(x, k, v), k, v, h)
<1> DEFINE g == IF x.max = 0 \/ k > x.max THEN Grow(x, k) ELSE x
<1> DEFINE y == [g EXCEPT !.ptrs[k] = v]
<1>a. /\ x.max \in {0} \cup TssKeys /\ x.max \in Nat /\ x.ptrs \in [TssKeys \cup {0} -> Cells]
      /\ (\A ky \in TssKeys : ky \in Nat /\ ky # 0 /\ ky > 0) /\ 0 \notin TssKeys /\ k \in Nat \ {0} /\ k > 0
      /\ NULL \in Cells
  <2>1. x.max \in {0} \cup TssKeys /\ x.ptrs \in [TssKeys \cup {0} -> Cells] /\ NULL \in Cells
    BY DEF Array, Cells
  <2>2. k \in Nat \ {0} /\ x.max \in Nat
    BY <2>1, KeysAreNumbers
  <2> QED
    BY <2>1, <2>2, KeysAreNumbers
<1>1. /\ g \in Array /\ g.max \in Nat /\ g.max >= k /\ g.max > 0 /\ g.ptrs[0] = NULL
      /\ \A ky \in TssKeys : ky # k => (IF ky > g.max THEN NULL ELSE g.ptrs[ky]) = h[ky]
  <2>1. CASE x.max = 0 \/ k > x.max
    <3> DEFINE p == [ky \in DOMAIN x.ptrs |-> IF ky < k /\ (x.max = 0 \/ ky > x.max) THEN NULL ELSE x.ptrs[ky]]
    <3>1. g = [max |-> k, ptrs |-> p]
      BY <2>1 DEF Grow
    <3>2. /\ p \in [TssKeys \cup {0} -> Cells]
          /\ \A ky \in TssKeys \cup {0} : p[ky] = IF ky < k /\ (x.max = 0 \/ ky > x.max) THEN NULL ELSE x.ptrs[ky]
      BY <1>a
    <3> HIDE DEF p, g
    <3>3. g \in Array /\ g.max = k /\ g.ptrs = p
      BY <3>1, <3>2 DEF Array
    <3>4. p[0] = NULL
      <4>1. CASE x.max = 0
        BY <1>a, <3>2, <4>1
      <4>2. CASE x.max # 0
        BY <1>a, <3>2, <4>2
      <4> QED
        BY <4>1, <4>2
    <3>5. ASSUME NEW ky \in TssKeys, ky # k PROVE (IF ky > k THEN NULL ELSE p[ky]) = h[ky]
      <4>1. ky \in Nat /\ p[ky] = IF ky < k /\ (x.max = 0 \/ ky > x.max) THEN NULL ELSE x.ptrs[ky]
        BY <1>a, <3>2
      <4>2. h[ky] = IF x.max = 0 \/ ky > x.max THEN NULL ELSE x.ptrs[ky]
        OBVIOUS
      <4> QED
        BY <1>a, <2>1, <3>5, <4>1, <4>2
    <3> QED
      BY <1>a, <3>3, <3>4, <3>5
  <2>2. CASE x.max # 0 /\ ~(k > x.max)
    BY <1>a, <2>2
  <2> QED
    BY <2>1, <2>2
<1> HIDE DEF g
<1>2. /\ y \in Array /\ y.max = g.max
      /\ \A ky \in TssKeys \cup {0} : y.ptrs[ky] = IF ky = k THEN v ELSE g.ptrs[ky]
  BY <1>1 DEF Array
<1> HIDE DEF y
<1>3. y.ptrs[0] = NULL /\ y.max > 0
  BY <1>a, <1>1, <1>2
<1>4. ASSUME NEW ky \in TssKeys
      PROVE  (IF ky > y.max THEN NULL ELSE y.ptrs[ky]) = (IF ky = k THEN v ELSE h[ky])
  <2>1. y.max = g.max /\ y.ptrs[ky] = IF ky = k THEN v ELSE g.ptrs[ky]
    BY <1>2
  <2>2. CASE ky = k
    BY <1>a, <1>1, <2>1, <2>2
  <2>3. CASE ky # k
    BY <1>1, <2>1, <2>3
  <2> QED
    BY <2>2, <2>3
<1>5. y = ArrayAfter(x, k, v)
  BY DEF y, g, ArrayAfter
<1>6. Kept(y, k, v, h)
  BY <1>2, <1>3, <1>4 DEF Kept
<1> QED
  BY <1>5, <1>6

(* Every step keeps the invariant of thread-specific storage.              *)
LEMMA NextTssInv == TssInv /\ [TssNext]_tssVars => TssInv'
<1> SUFFICES ASSUME TssInv, [TssNext]_tssVars PROVE TssInv'
    OBVIOUS
<1>a. /\ dtors \subseteq TssKeys /\ runs \subseteq TssThreads
      /\ tss \in [TssThreads -> Array]
      /\ held \in [TssThreads -> [TssKeys -> Cells]]
      /\ \A t \in TssThreads : \A k \in TssKeys : held[t][k] # NULL => k \in dtors
      /\ TssExact
  BY DEF TssInv
<1>e. TssExact <=> \A t \in TssThreads : ExactFor(t)
  BY DEF TssExact
<1>f. TssExact' <=> \A t \in TssThreads : ExactFor(t)'
  BY DEF TssExact
<1>g. ASSUME NEW t \in TssThreads, tss'[t] = tss[t], held'[t] = held[t], given'[t] = given[t],
             t \in runs' <=> t \in runs
      PROVE  ExactFor(t)'
  <2>1. ExactFor(t)
    BY <1>a, <1>e
  <2>2. \A ky \in TssKeys : tss_get(t, ky)' = tss_get(t, ky)
    BY <1>g DEF tss_get
  <2> QED
    BY <1>g, <2>1, <2>2 DEF ExactFor
<1>b. PICK S : given \in [TssThreads -> S]
  BY DEF TssInv
<1>k. (\A k \in TssKeys : k \in Nat /\ k # 0 /\ k > 0) /\ 0 \notin TssKeys
  BY KeysAreNumbers
<1>1. CASE tss_create
  <2> DEFINE free == TssKeys \ dtors
  <2> DEFINE new == CHOOSE k \in free : \A l \in free : k <= l
  <2>1. free \in SUBSET Nat /\ free # {}
    BY <1>1, <1>a, <1>k DEF tss_create
  <2>2. new \in free
    BY <2>1, LeastNumber
  <2>3. dtors' = dtors \cup {new} /\ UNCHANGED <<tss, runs, given, held>>
    BY <1>1 DEF tss_create
  <2> HIDE DEF new
  <2>4. TssExact'
    BY <1>f, <1>g, <2>3
  <2> QED
    BY <1>a, <1>b, <2>2, <2>3, <2>4 DEF TssInv
<1>2. ASSUME NEW k \in TssKeys, tss_delete(k) PROVE TssInv'
  <2>1. dtors' = dtors \ {k} /\ UNCHANGED <<tss, runs, given, held>>
        /\ \A t \in TssThreads : held[t][k] = NULL
    BY <1>2 DEF tss_delete
  <2>2. TssExact'
    BY <1>f, <1>g, <2>1
  <2> QED
    BY <1>a, <1>b, <2>1, <2>2 DEF TssInv
<1>3. ASSUME NEW t \in TssThreads, NEW k \in TssKeys, NEW v \in TssVals \cup {NULL}, tss_set(t, k, v)
      PROVE  TssInv'
  <2> DEFINE x == tss[t]
  <2> DEFINE g == IF x.max = 0 \/ k > x.max THEN Grow(x, k) ELSE x
  <2> DEFINE y == [g EXCEPT !.ptrs[k] = v]
  <2>1. /\ t \in runs /\ k \in dtors /\ tss' = [tss EXCEPT ![t] = y]
        /\ held' = [held EXCEPT ![t][k] = v] /\ UNCHANGED <<dtors, runs, given>>
    BY <1>3 DEF tss_set
  <2>2. /\ x \in Array /\ v \in Cells /\ held[t] \in [TssKeys -> Cells]
        /\ \A ky \in TssKeys : (IF x.max = 0 \/ ky > x.max THEN NULL ELSE x.ptrs[ky]) = held[t][ky]
        /\ x.max > 0 => x.ptrs[0] = NULL
    <3>1. x \in Array /\ v \in Cells /\ held[t] \in [TssKeys -> Cells]
      BY <1>a DEF Cells
    <3>2. ExactFor(t) /\ t \in runs
      BY <1>a, <1>e, <2>1
    <3> QED
      BY <3>1, <3>2 DEF ExactFor, tss_get
  <2>3. /\ y \in Array /\ y.max > 0 /\ y.ptrs[0] = NULL
        /\ \A ky \in TssKeys : (IF ky > y.max THEN NULL ELSE y.ptrs[ky]) = (IF ky = k THEN v ELSE held[t][ky])
    <3>1. y = ArrayAfter(x, k, v)
      BY DEF ArrayAfter
    <3> HIDE DEF x, y
    <3>2. Kept(ArrayAfter(x, k, v), k, v, held[t])
      BY <2>2, SetKeeps
    <3> QED
      BY <3>1, <3>2 DEF Kept
  <2> HIDE DEF y
  <2>4. /\ tss' \in [TssThreads -> Array] /\ tss'[t] = y
        /\ \A oth \in TssThreads : oth # t => tss'[oth] = tss[oth]
    BY <1>a, <2>1, <2>3
  <2>5. /\ held' \in [TssThreads -> [TssKeys -> Cells]]
        /\ \A ky \in TssKeys : held'[t][ky] = IF ky = k THEN v ELSE held[t][ky]
        /\ \A oth \in TssThreads : oth # t => held'[oth] = held[oth]
    BY <1>a, <2>1, <2>2
  <2>6. \A oth \in TssThreads : \A ky \in TssKeys : held'[oth][ky] # NULL => ky \in dtors'
    BY <1>a, <2>1, <2>5
  <2>7. TssExact'
    <3>0. y.max \in Nat /\ y.max # 0
      <4>1. y.max \in {0} \cup TssKeys
        BY <2>3 DEF Array
      <4> QED
        BY <1>k, <2>3, <4>1
    <3>1. \A ky \in TssKeys : tss_get(t, ky)' = held'[t][ky]
      BY <2>3, <2>4, <2>5, <3>0 DEF tss_get
    <3>2. ExactFor(t)'
      BY <2>1, <2>3, <2>4, <3>1 DEF ExactFor
    <3>3. \A oth \in TssThreads : oth # t => ExactFor(oth)'
      BY <1>g, <2>1, <2>4, <2>5
    <3> QED
      BY <1>f, <3>2, <3>3
  <2> QED
    BY <1>a, <1>b, <2>1, <2>4, <2>5, <2>6, <2>7 DEF TssInv
<1>4. ASSUME NEW t \in TssThreads, __tss_on_exit(t) PROVE TssInv'
  <2>1. /\ t \in runs /\ runs' = runs \ {t} /\ given' = [given EXCEPT ![t] = Given(tss[t])]
        /\ tss' = [tss EXCEPT ![t] = NoTss] /\ UNCHANGED <<dtors, held>>
    BY <1>4 DEF __tss_on_exit
  <2>2. NoTss \in Array
    BY DEF NoTss, Array, Cells
  <2>3. /\ tss' \in [TssThreads -> Array]
        /\ given' \in [TssThreads -> S \cup {Given(tss[t])}]
        /\ given'[t] = Given(tss[t])
        /\ \A oth \in TssThreads : oth # t => tss'[oth] = tss[oth] /\ given'[oth] = given[oth]
    BY <1>a, <1>b, <2>1, <2>2
  <2>4. Given(tss[t]) = {<<ky, held[t][ky]>> : ky \in {j \in TssKeys : held[t][j] # NULL}}
    <3>1. /\ tss[t] \in Array /\ tss[t].max \in Nat
          /\ \A ky \in TssKeys : tss_get(t, ky) = held[t][ky]
      <4>1. tss[t] \in Array /\ ExactFor(t)
        BY <1>a, <1>e
      <4>2. tss[t].max \in {0} \cup TssKeys
        BY <4>1 DEF Array
      <4> QED
        BY <1>k, <2>1, <4>1, <4>2 DEF ExactFor
    <3>2. \A ky \in TssKeys : ky \in Nat \ {0}
      BY <1>k
    <3>3. \A ky \in TssKeys : ky <= tss[t].max => tss[t].ptrs[ky] = held[t][ky]
      BY <3>1, <3>2 DEF tss_get
    <3>4. \A ky \in TssKeys : ~(ky <= tss[t].max) => held[t][ky] = NULL
      BY <3>1, <3>2 DEF tss_get
    <3>5. {ky \in dtors : ky <= tss[t].max /\ tss[t].ptrs[ky] # NULL} = {j \in TssKeys : held[t][j] # NULL}
      BY <1>a, <3>3, <3>4
    <3> DEFINE D == {j \in TssKeys : held[t][j] # NULL}
    <3>6. Given(tss[t]) = {<<ky, tss[t].ptrs[ky]>> : ky \in D}
      BY <3>5 DEF Given
    <3>7. \A ky \in D : tss[t].ptrs[ky] = held[t][ky]
      BY <3>3, <3>4
    <3> HIDE DEF D
    <3>8. {<<ky, tss[t].ptrs[ky]>> : ky \in D} = {<<ky, held[t][ky]>> : ky \in D}
      BY <3>7
    <3> QED
      BY <3>6, <3>8 DEF D
  <2>5. TssExact'
    <3>1. \A oth \in TssThreads : oth # t => ExactFor(oth)'
      BY <1>g, <2>1, <2>3
    <3>2. ExactFor(t)'
      BY <2>1, <2>3, <2>4 DEF ExactFor
    <3> QED
      BY <1>f, <3>1, <3>2
  <2>6. \E R : given' \in [TssThreads -> R]
    BY <2>3
  <2> QED
    BY <1>a, <2>1, <2>3, <2>5, <2>6 DEF TssInv
<1>5. CASE UNCHANGED tssVars
  <2>1. UNCHANGED <<dtors, tss, runs, given, held>>
    BY <1>5 DEF tssVars
  <2>2. TssExact'
    BY <1>f, <1>g, <2>1
  <2> QED
    BY <1>a, <1>b, <2>1, <2>2 DEF TssInv
<1> QED
  BY <1>1, <1>2, <1>3, <1>4, <1>5 DEF TssNext

-----------------------------------------------------------------------------
(* The union's steps are steps of threads and of their storage, or leave   *)
(* them alone.                                                             *)
LEMMA SyncSteps == [SyncNext]_syncVars => [ThrdNext]_thrdVars /\ [TssNext]_tssVars
<1> SUFFICES ASSUME [SyncNext]_syncVars PROVE [ThrdNext]_thrdVars /\ [TssNext]_tssVars
    OBVIOUS
<1>1. CASE Only("thrd") /\ ThrdNext
  BY <1>1 DEF Only
<1>2. CASE Only("tss") /\ TssNext
  BY <1>2 DEF Only
<1>3. CASE Only("mtx") \/ Only("lcqueue") \/ Only("cnd") \/ Only("boot")
  BY <1>3 DEF Only
<1>4. CASE UNCHANGED syncVars
  BY <1>4 DEF syncVars
<1> QED
  BY <1>1, <1>2, <1>3, <1>4 DEF SyncNext

(* No once_flag is set at the beginning.                                   *)
LEMMA InitOnceInv == ThrdInit => OnceInv
<1> SUFFICES ASSUME ThrdInit PROVE OnceInv
    OBVIOUS
<1>1. \A t \in Thr : thr[t].pc = "run"
  BY DEF ThrdInit, NoThread
<1>2. once \in [flag : {0, 1, 2}, ran : {0, 1}] /\ once.flag = 0 /\ once.ran = 0
  BY DEF ThrdInit
<1> QED
  BY <1>1, <1>2 DEF OnceInv

(***************************************************************************)
(* Where destructors wait for no mutex, thrd_join() succeeds for at most   *)
(* one of a thread's joiners, with the value the thread returned, and its  *)
(* stack is freed once, after the thread has left it; call_once() runs its *)
(* function once and returns after it; tss_get() returns what the thread   *)
(* itself has stored, and destructors are given just that.                 *)
(***************************************************************************)
THEOREM ThreadsAreSafe ==
  ASSUME ~DtorsWait
  PROVE  SyncSpec => []ThrdSafe
<1> DEFINE Inv == ThrInv /\ OnceInv /\ TssInv
<1>1. SyncInit => Inv
  BY InitThrInv, InitOnceInv, InitTssInv DEF SyncInit
<1>2. Inv /\ [SyncNext]_syncVars => Inv'
  BY SyncSteps, NextThrInv, NextOnceInv, NextTssInv
<1>3. Inv => ThrdSafe
  <2> SUFFICES ASSUME Inv PROVE ThrdSafe
      OBVIOUS
  <2>1. OnceExact
    BY DEF OnceInv, OnceExact, At
  <2> QED
    BY <2>1, ThrInvJoinExact DEF ThrdSafe, TssInv
<1> QED
  BY <1>1, <1>2, <1>3, PTL DEF SyncSpec

-----------------------------------------------------------------------------
(* Condition variables (Cnd). *)
(* What is in the variables.                                               *)
CndRecs == CndThreads \cup {0, EX}
Conds == CndThreads \cup {Shared}
CndPcs == {"idle", "take", "bring", "leave", "push", "unlock", "sleep", "relock", "load", "next", "cas", "poke"}
CndLocals == [pc : CndPcs, on : Conds, old : CndThreads \cup {0}, nx : CndRecs, all : BOOLEAN]
CndTypes ==
  /\ cond \in [Conds -> CndRecs] /\ cnext \in [CndThreads -> CndRecs] /\ cmtx \in CndThreads \cup {0}
  /\ cth \in [CndThreads -> CndLocals] /\ items \in Nat

(* The stack of condition c as a sequence: the links lead through it.      *)
Chain(q, r, next) ==
  /\ q = <<>> => r \in {0, EX}
  /\ q # <<>> => r = q[1] /\ next[q[Len(q)]] = 0
  /\ \A j \in 1..Len(q) - 1 : next[q[j]] = q[j + 1]
Disjoint(q) ==
  \A c, d \in Conds : \A j \in 1..Len(q[c]), k \in 1..Len(q[d]) : q[c][j] = q[d][k] => c = d /\ j = k
Stacked(q, c, t) == \E j \in 1..Len(q[c]) : q[c][j] = t
Stacks(q) == q \in [Conds -> Seq(CndThreads)] /\ Disjoint(q) /\ \A c \in Conds : Chain(q[c], cond[c], cnext)

(* Who waits is in a stack or about to be woken, by one thread.            *)
Poking(u, t) == cth[u].pc = "poke" /\ cth[u].old = t
Accounted(q) ==
  \A t \in CndThreads :
    /\ \A c \in Conds : Stacked(q, c, t) => Waits(t) /\ \A u \in CndThreads : ~Poking(u, t)
    /\ Waits(t) => (\E c \in Conds : Stacked(q, c, t)) \/ (\E u \in CndThreads : Poking(u, t))
    /\ \A u \in CndThreads : Poking(u, t) => Waits(t)

(* Who holds the mutex, and what that means.                               *)
Holders ==
  \A t \in CndThreads :
    /\ cth[t].pc \in {"take", "bring", "leave", "push", "unlock"} => cmtx = t
    /\ cth[t].pc \in {"push", "unlock"} => items = 0
    /\ cth[t].pc = "push" => cnext[t] # EX
    /\ cth[t].on # Shared => cth[t].on = t /\ cmtx = t /\ cth[t].all /\ Signalling(t) /\ cond[Shared] = EX

(* Of two threads that signal one has the mutex and has not begun.         *)
OneDequeues ==
  \A t, u \in CndThreads : t # u /\ Signalling(t) /\ Signalling(u) =>
    (cmtx = t /\ cth[t].pc = "load") \/ (cmtx = u /\ cth[u].pc = "load")

(* What dequeue() has read is still so, or the condition is destroyed.     *)
Knows(q, x) ==
  /\ x.pc \in {"next", "cas"} => cond[x.on] = EX \/ Stacked(q, x.on, x.old)
  /\ x.pc = "cas" => cond[x.on] = EX \/ x.nx = cnext[x.old]
  /\ x.pc \in {"next", "cas", "poke"} => x.old \in CndThreads
DequeueKnows(q) == \A t \in CndThreads : Knows(q, cth[t])

(* A destroyer's copy is empty once it is done.                            *)
CopiesEmptied ==
  \A u \in CndThreads : cond[u] # EX /\ (cond[u] # 0 => Signalling(u) /\ cth[u].on = u)

(* As long as somebody is in the stack, every item has a thread that will  *)
(* take it or wake one that does.                                          *)
SrcPcs == {"take", "relock", "load", "next", "cas", "poke"}
Sources == {t \in CndThreads : cth[t].pc \in SrcPcs}
ItemsMinded == cond[Shared] \in CndThreads => items <= Cardinality(Sources)

CndInv ==
  /\ CndTypes /\ Holders /\ OneDequeues /\ CopiesEmptied /\ ItemsMinded
  /\ \E q : Stacks(q) /\ Accounted(q) /\ DequeueKnows(q)

-----------------------------------------------------------------------------
(* One thread moves.                                                       *)
Moves(t, R) == cth' = [cth EXCEPT ![t] = R]
LEMMA QuietIs ==
  ASSUME NEW at \in CndPcs
  PROVE  /\ Quiet(at) \in CndLocals /\ Quiet(at).pc = at /\ Quiet(at).on = Shared /\ Quiet(at).all = FALSE
         /\ Quiet(at).old = 0
BY DEF Quiet, Locals, CndLocals, CndRecs, Conds
LEMMA LocalsAre ==
  ASSUME NEW at \in CndPcs, NEW c \in Conds, NEW o \in CndThreads \cup {0}, NEW x \in CndRecs, NEW all \in BOOLEAN
  PROVE  /\ Locals(at, c, o, x, all) \in CndLocals /\ Locals(at, c, o, x, all).pc = at /\ Locals(at, c, o, x, all).on = c
         /\ Locals(at, c, o, x, all).old = o /\ Locals(at, c, o, x, all).nx = x /\ Locals(at, c, o, x, all).all = all
BY DEF Locals, CndLocals
LEMMA OneMoves ==
  ASSUME CndTypes, NEW t \in CndThreads, NEW R \in CndLocals, Moves(t, R)
  PROVE  /\ cth' \in [CndThreads -> CndLocals] /\ cth'[t] = R
         /\ \A u \in CndThreads : u # t => cth'[u] = cth[u]
BY DEF CndTypes, Moves

(* How many threads will look after an item.                               *)
LEMMA SourcesCount ==
  IsFiniteSet(Sources) /\ Cardinality(Sources) \in Nat
BY CndAssumption, FS_Subset, FS_CardinalityType DEF Sources
LEMMA SourcesMove ==
  ASSUME CndTypes, NEW t \in CndThreads, NEW R \in CndLocals, Moves(t, R)
  PROVE  /\ Cardinality(Sources)' \in Nat
         /\ cth[t].pc \notin SrcPcs /\ R.pc \in SrcPcs => Cardinality(Sources)' = Cardinality(Sources) + 1
         /\ cth[t].pc \in SrcPcs /\ R.pc \notin SrcPcs => Cardinality(Sources)' = Cardinality(Sources) - 1
         /\ (cth[t].pc \in SrcPcs <=> R.pc \in SrcPcs) => Cardinality(Sources)' = Cardinality(Sources)
<1>1. /\ cth'[t] = R /\ \A u \in CndThreads : u # t => cth'[u] = cth[u]
  BY OneMoves
<1>2. PICK S : S = Sources
  OBVIOUS
<1>3. PICK T : T = {u \in CndThreads : cth'[u].pc \in SrcPcs}
  OBVIOUS
<1>4. IsFiniteSet(S) /\ Cardinality(S) \in Nat
  BY <1>2, SourcesCount
<1>5. Cardinality(Sources)' = Cardinality(T)
  BY <1>3 DEF Sources
<1>6. ASSUME cth[t].pc \notin SrcPcs, R.pc \in SrcPcs PROVE Cardinality(T) = Cardinality(S) + 1
  <2>1. T = S \cup {t} /\ t \notin S
    BY <1>1, <1>2, <1>3, <1>6 DEF Sources
  <2> QED
    BY <1>4, <2>1, FS_AddElement
<1>7. ASSUME cth[t].pc \in SrcPcs, R.pc \notin SrcPcs PROVE Cardinality(T) = Cardinality(S) - 1
  <2>1. T = S \ {t} /\ t \in S
    BY <1>1, <1>2, <1>3, <1>7 DEF Sources
  <2> QED
    BY <1>4, <2>1, FS_RemoveElement
<1>8. ASSUME cth[t].pc \in SrcPcs <=> R.pc \in SrcPcs PROVE Cardinality(T) = Cardinality(S)
  <2>1. T = S
    BY <1>1, <1>2, <1>3, <1>8 DEF Sources
  <2> QED
    BY <2>1
<1>9. Cardinality(T) \in Nat
  BY <1>3, CndAssumption, FS_Subset, FS_CardinalityType
<1> QED
  BY <1>2, <1>5, <1>6, <1>7, <1>8, <1>9

(* Steps that leave the stacks as they are.                                *)
LEMMA StacksStay ==
  ASSUME CndTypes, NEW t \in CndThreads, NEW R \in CndLocals, Moves(t, R),
         NEW q, Stacks(q), Accounted(q), DequeueKnows(q), Knows(q, R),
         cond' = cond, \A u \in CndThreads : Waits(u) => cnext'[u] = cnext[u],
         R.pc # "poke", cth[t].pc # "poke", Waits(t) <=> R.pc \in {"unlock", "sleep"},
         cnext' = cnext \/ R.pc \notin {"next", "cas"}
  PROVE  Stacks(q)' /\ Accounted(q)' /\ DequeueKnows(q)'
<1>1. /\ cth'[t] = R /\ \A u \in CndThreads : u # t => cth'[u] = cth[u]
  BY OneMoves
<1>2. q \in [Conds -> Seq(CndThreads)]
  BY DEF Stacks
<1>3. \A u \in CndThreads : Waits(u)' <=> Waits(u)
  BY <1>1 DEF Waits
<1>4. \A u, v \in CndThreads : Poking(u, v)' <=> Poking(u, v)
  BY <1>1 DEF Poking
<1>5. \A c \in Conds, u \in CndThreads : Stacked(q, c, u)' <=> Stacked(q, c, u)
  BY DEF Stacked
<1>6. \A c \in Conds : \A j \in 1..Len(q[c]) : q[c][j] \in CndThreads /\ Waits(q[c][j])
  BY <1>2 DEF Accounted, Stacked
<1>7. ASSUME NEW c \in Conds PROVE Chain(q[c], cond[c], cnext)'
  <2>1. Chain(q[c], cond[c], cnext) /\ Len(q[c]) \in Nat /\ (q[c] # <<>> => Len(q[c]) \in 1..Len(q[c]))
    BY <1>2 DEF Stacks
  <2>2. \A j \in 1..Len(q[c]) : cnext'[q[c][j]] = cnext[q[c][j]]
    BY <1>6
  <2>3. \A j \in 1..Len(q[c]) - 1 : j \in 1..Len(q[c])
    BY <2>1
  <2> QED
    BY <2>1, <2>2, <2>3 DEF Chain
<1>8. Stacks(q)'
  BY <1>2, <1>7 DEF Stacks, Disjoint
<1>9. Accounted(q)'
  BY <1>3, <1>4, <1>5 DEF Accounted
<1>10. ASSUME NEW u \in CndThreads PROVE Knows(q, cth[u])'
  <2>1. CASE u = t
    BY <1>1, <2>1 DEF Knows, Stacked
  <2>2. CASE u # t
    <3>1. cth'[u] = cth[u] /\ Knows(q, cth[u])
      BY <1>1, <2>2 DEF DequeueKnows
    <3>2. cth[u].pc = "cas" => cond[cth[u].on] = EX \/ Waits(cth[u].old)
      BY <1>6, <3>1 DEF Knows, Stacked, CndTypes, CndLocals
    <3> QED
      BY <3>1, <3>2 DEF Knows, Stacked
  <2> QED
    BY <2>1, <2>2
<1> QED
  BY <1>8, <1>9, <1>10 DEF DequeueKnows

(* Steps of a thread outside of dequeue(): from pc to another one.         *)
Simple == {"idle", "take", "bring", "leave", "push", "unlock", "sleep", "relock"}
LEMMA SimpleStep ==
  ASSUME CndInv, NEW t \in CndThreads, NEW R \in CndLocals, Moves(t, R), cth[t].pc \in Simple,
         R.pc \in Simple \cup {"load"}, R.on = Shared, cond' = cond,
         Waits(t) <=> R.pc \in {"unlock", "sleep"},
         cnext' = cnext \/ (~Waits(t) /\ \E r \in CndRecs : cnext' = [cnext EXCEPT ![t] = r]),
         cmtx' \in CndThreads \cup {0}, items' \in Nat,
         cmtx # cmtx' => (cmtx = 0 \/ cmtx = t) /\ (cmtx' = 0 \/ cmtx' = t),
         R.pc \in {"take", "bring", "leave", "push", "unlock"} => cmtx' = t,
         items' # items => cmtx = t,
         R.pc \in {"push", "unlock"} => items' = 0 /\ (R.pc = "push" => cnext'[t] # EX),
         R.pc = "load" => cmtx' = t \/ \A u \in CndThreads : ~Signalling(u),
         cond[Shared] \in CndThreads => items' <= Cardinality(Sources)'
  PROVE  CndInv'
<1>1. /\ cth' \in [CndThreads -> CndLocals] /\ cth'[t] = R
      /\ \A u \in CndThreads : u # t => cth'[u] = cth[u]
  BY OneMoves DEF CndInv
<1>2. CndTypes'
  BY <1>1 DEF CndInv, CndTypes
<1>3. \A u \in CndThreads : u # t => cnext'[u] = cnext[u]
  BY DEF CndInv, CndTypes
<1>4. Holders'
  <2>1. ASSUME NEW u \in CndThreads, u # t
        PROVE  /\ cth'[u].pc \in {"take", "bring", "leave", "push", "unlock"} => cmtx' = u
               /\ cth'[u].pc \in {"push", "unlock"} => items' = 0
               /\ cth'[u].pc = "push" => cnext'[u] # EX
               /\ cth'[u].on # Shared => cth'[u].on = u /\ cmtx' = u /\ cth'[u].all /\ Signalling(u)' /\ cond'[Shared] = EX
    <3>1. cth'[u] = cth[u] /\ (cmtx = u => cmtx' = u) /\ cnext'[u] = cnext[u] /\ (cmtx = u => items' = items)
      BY <1>1, <1>3, <2>1, CndAssumption
    <3> QED
      BY <3>1 DEF CndInv, Holders, Signalling
  <2> QED
    BY <1>1, <2>1 DEF Holders
<1>5. OneDequeues'
  <2>1. \A u \in CndThreads : u # t => (Signalling(u)' <=> Signalling(u))
    BY <1>1 DEF Signalling
  <2>2. ~Signalling(t)
    BY DEF Signalling, Simple
  <2>3. Signalling(t)' => R.pc = "load"
    BY <1>1 DEF Signalling, Simple
  <2>4. \A u \in CndThreads : u # t /\ cmtx = u => cmtx' = u
    BY CndAssumption
  <2>5. ASSUME NEW u \in CndThreads, NEW v \in CndThreads, u # v, Signalling(u)', Signalling(v)'
        PROVE  (cmtx' = u /\ cth'[u].pc = "load") \/ (cmtx' = v /\ cth'[v].pc = "load")
    <3>1. CASE u = t \/ v = t
      BY <1>1, <2>1, <2>3, <2>5, <3>1
    <3>2. CASE u # t /\ v # t
      BY <1>1, <2>1, <2>4, <2>5, <3>2 DEF CndInv, OneDequeues
    <3> QED
      BY <3>1, <3>2
  <2> QED
    BY <2>5 DEF OneDequeues
<1>6. CopiesEmptied'
  <2>1. \A u \in CndThreads : Signalling(u) => u # t
    BY DEF Signalling, Simple
  <2> QED
    BY <1>1, <2>1 DEF CndInv, CopiesEmptied, Signalling
<1>7. ItemsMinded'
  BY DEF ItemsMinded
<1>8. PICK q : Stacks(q) /\ Accounted(q) /\ DequeueKnows(q)
  BY DEF CndInv
<1>9. Stacks(q)' /\ Accounted(q)' /\ DequeueKnows(q)'
  <2>1. Knows(q, R)
    BY DEF Knows, Simple
  <2>2. R.pc \notin {"poke", "next", "cas"} /\ cth[t].pc # "poke"
    BY DEF Simple
  <2>3. \A u \in CndThreads : Waits(u) => cnext'[u] = cnext[u]
    BY <1>3
  <2> QED
    BY <1>8, <2>1, <2>2, <2>3, StacksStay DEF CndInv
<1> QED
  BY <1>2, <1>4, <1>5, <1>6, <1>7, <1>9 DEF CndInv

LEMMA StateIs ==
  ASSUME CndInv, NEW t \in CndThreads
  PROVE  /\ cth[t] \in CndLocals /\ cth[t].pc \in CndPcs /\ cth[t].on \in Conds /\ cth[t].old \in CndThreads \cup {0}
         /\ cth[t].nx \in CndRecs /\ cth[t].all \in BOOLEAN
         /\ items \in Nat /\ cmtx \in CndThreads \cup {0} /\ cnext[t] \in CndRecs /\ cond[Shared] \in CndRecs
         /\ t # 0 /\ t # EX /\ EX # 0
BY CndAssumption DEF CndInv, CndTypes, CndLocals, Conds, EX

LEMMA TakeMtxKeeps ==
  ASSUME CndInv, NEW t \in CndThreads, TakeMtx(t)
  PROVE  CndInv'
<1>1. PICK to \in {"take", "bring"} : (cth[t].pc = "idle" \/ (cth[t].pc = "relock" /\ to = "take")) /\ Moves(t, Quiet(to))
  BY DEF TakeMtx, Goes, Moves
<1>2. PICK R \in CndLocals : R = Quiet(to) /\ R.pc = to /\ R.on = Shared
  BY QuietIs DEF CndPcs
<1>3. cmtx = 0 /\ cmtx' = t /\ items' = items /\ cond' = cond /\ cnext' = cnext /\ items \in Nat
  BY StateIs DEF TakeMtx
<1>4. Cardinality(Sources)' \in Nat /\ Cardinality(Sources) \in Nat /\ Cardinality(Sources)' >= Cardinality(Sources)
  <2>1. Cardinality(Sources) \in Nat
    BY SourcesCount
  <2>2. cth[t].pc \in SrcPcs => R.pc \in SrcPcs
    BY <1>1, <1>2 DEF SrcPcs
  <2> QED
    BY <1>1, <1>2, <2>1, <2>2, SourcesMove DEF CndInv
<1>5. cond[Shared] \in CndThreads => items' <= Cardinality(Sources)'
  BY <1>3, <1>4 DEF CndInv, ItemsMinded
<1>6. cth[t].pc \in Simple /\ R.pc \in Simple /\ ~Waits(t) /\ R.pc \notin {"unlock", "sleep", "push", "load"}
  BY <1>1, <1>2 DEF Simple, Waits
<1> QED
  BY <1>1, <1>2, <1>3, <1>5, <1>6, SimpleStep

LEMMA TakeKeeps ==
  ASSUME CndInv, NEW t \in CndThreads, Take(t)
  PROVE  CndInv'
<1>1. PICK R \in CndLocals : R = Quiet("idle") /\ R.pc = "idle" /\ R.on = Shared
  BY QuietIs DEF CndPcs
<1>2. /\ cth[t].pc = "take" /\ items > 0 /\ items' = items - 1 /\ cmtx' = 0 /\ Moves(t, R) /\ cond' = cond /\ cnext' = cnext
      /\ items \in Nat /\ cmtx = t
  BY <1>1, StateIs DEF Take, Goes, Moves, CndInv, Holders
<1>3. Cardinality(Sources) \in Nat /\ Cardinality(Sources)' = Cardinality(Sources) - 1
  <2>1. cth[t].pc \in SrcPcs /\ R.pc \notin SrcPcs
    BY <1>1, <1>2 DEF SrcPcs
  <2> QED
    BY <1>2, <2>1, SourcesCount, SourcesMove DEF CndInv
<1>4. cond[Shared] \in CndThreads => items' <= Cardinality(Sources)'
  BY <1>2, <1>3 DEF CndInv, ItemsMinded
<1>5. cth[t].pc \in Simple /\ R.pc \in Simple /\ ~Waits(t)
  BY <1>1, <1>2 DEF Simple, Waits
<1>6. items' \in Nat
  BY <1>2
<1> QED
  BY <1>1, <1>2, <1>4, <1>5, <1>6, SimpleStep

LEMMA LeaveKeeps ==
  ASSUME CndInv, NEW t \in CndThreads, Leave(t)
  PROVE  CndInv'
<1>1. PICK R \in CndLocals : R = Quiet("idle") /\ R.pc = "idle" /\ R.on = Shared
  BY QuietIs DEF CndPcs
<1>2. /\ cth[t].pc = "leave" /\ items' = items /\ cmtx' = 0 /\ Moves(t, R) /\ cond' = cond /\ cnext' = cnext
      /\ items \in Nat /\ cmtx = t
  BY <1>1, StateIs DEF Leave, Goes, Moves, CndInv, Holders
<1>3. Cardinality(Sources)' = Cardinality(Sources)
  <2>1. cth[t].pc \notin SrcPcs /\ R.pc \notin SrcPcs
    BY <1>1, <1>2 DEF SrcPcs
  <2> QED
    BY <1>2, <2>1, SourcesMove DEF CndInv
<1>4. cond[Shared] \in CndThreads => items' <= Cardinality(Sources)'
  BY <1>2, <1>3 DEF CndInv, ItemsMinded
<1>5. cth[t].pc \in Simple /\ R.pc \in Simple /\ ~Waits(t)
  BY <1>1, <1>2 DEF Simple, Waits
<1> QED
  BY <1>1, <1>2, <1>4, <1>5, SimpleStep

LEMMA BrimfulKeeps ==
  ASSUME CndInv, NEW t \in CndThreads, Brimful(t)
  PROVE  CndInv'
<1>1. PICK R \in CndLocals : R = Quiet("leave") /\ R.pc = "leave" /\ R.on = Shared
  BY QuietIs DEF CndPcs
<1>2. /\ cth[t].pc = "bring" /\ items' = items /\ cmtx' = cmtx /\ Moves(t, R) /\ cond' = cond /\ cnext' = cnext
      /\ items \in Nat /\ cmtx = t
  BY <1>1, StateIs DEF Brimful, Goes, Moves, CndInv, Holders
<1>3. Cardinality(Sources)' = Cardinality(Sources)
  <2>1. cth[t].pc \notin SrcPcs /\ R.pc \notin SrcPcs
    BY <1>1, <1>2 DEF SrcPcs
  <2> QED
    BY <1>2, <2>1, SourcesMove DEF CndInv
<1>4. cond[Shared] \in CndThreads => items' <= Cardinality(Sources)'
  BY <1>2, <1>3 DEF CndInv, ItemsMinded
<1>5. cth[t].pc \in Simple /\ R.pc \in Simple /\ ~Waits(t)
  BY <1>1, <1>2 DEF Simple, Waits
<1> QED
  BY <1>1, <1>2, <1>4, <1>5, SimpleStep

LEMMA UnlockKeeps ==
  ASSUME CndInv, NEW t \in CndThreads, UnlockAndSleep(t)
  PROVE  CndInv'
<1>1. PICK R \in CndLocals : R = Quiet("sleep") /\ R.pc = "sleep" /\ R.on = Shared
  BY QuietIs DEF CndPcs
<1>2. /\ cth[t].pc = "unlock" /\ items' = items /\ cmtx' = 0 /\ Moves(t, R) /\ cond' = cond /\ cnext' = cnext
      /\ items \in Nat /\ cmtx = t
  BY <1>1, StateIs DEF UnlockAndSleep, Goes, Moves, CndInv, Holders
<1>3. Cardinality(Sources)' = Cardinality(Sources)
  <2>1. cth[t].pc \notin SrcPcs /\ R.pc \notin SrcPcs
    BY <1>1, <1>2 DEF SrcPcs
  <2> QED
    BY <1>2, <2>1, SourcesMove DEF CndInv
<1>4. cond[Shared] \in CndThreads => items' <= Cardinality(Sources)'
  BY <1>2, <1>3 DEF CndInv, ItemsMinded
<1>5. cth[t].pc \in Simple /\ R.pc \in Simple /\ Waits(t)
  BY <1>1, <1>2 DEF Simple, Waits
<1> QED
  BY <1>1, <1>2, <1>4, <1>5, SimpleStep

(* The load of cnd_wait(), and an exchange that fails.                     *)
LEMMA LoadsKeep ==
  ASSUME CndInv, NEW t \in CndThreads, cth[t].pc \in {"take", "push"}, items = 0, cnext' = [cnext EXCEPT ![t] = cond[Shared]],
         Goes(t, IF cond[Shared] = EX THEN "leave" ELSE "push"), UNCHANGED <<cond, cmtx, items>>
  PROVE  CndInv'
<1>1. PICK to \in {"leave", "push"} : to = IF cond[Shared] = EX THEN "leave" ELSE "push"
  OBVIOUS
<1>2. PICK R \in CndLocals : R = Quiet(to) /\ R.pc = to /\ R.on = Shared
  BY QuietIs DEF CndPcs
<1>3. Moves(t, R) /\ items' = 0 /\ cmtx' = cmtx /\ cond' = cond /\ cmtx = t
  BY <1>1, <1>2 DEF Goes, Moves, CndInv, Holders
<1>4. cnext'[t] = cond[Shared] /\ cond[Shared] \in CndRecs
  BY DEF CndInv, CndTypes, Conds
<1>5. Cardinality(Sources)' \in Nat
  BY <1>3, SourcesMove DEF CndInv
<1>6. items' <= Cardinality(Sources)' /\ items' \in Nat
  BY <1>3, <1>5
<1>7. cth[t].pc \in Simple /\ R.pc \in Simple /\ ~Waits(t) /\ R.pc \notin {"unlock", "sleep", "load"}
  BY <1>2 DEF Simple, Waits
<1>8. R.pc = "push" => cnext'[t] # EX
  BY <1>1, <1>2, <1>4
<1>9. cmtx' \in CndThreads \cup {0}
  BY <1>3
<1>10. \E r \in CndRecs : cnext' = [cnext EXCEPT ![t] = r]
  BY <1>4
<1> QED
  BY <1>2, <1>3, <1>6, <1>7, <1>8, <1>9, <1>10, SimpleStep
LEMMA WaitKeeps ==
  ASSUME CndInv, NEW t \in CndThreads, cnd_wait(t)
  PROVE  CndInv'
BY LoadsKeep DEF cnd_wait

LEMMA BringKeeps ==
  ASSUME CndInv, ~Racing, NEW t \in CndThreads, NEW all \in BOOLEAN, NEW locked \in BOOLEAN, Bring(t, all, locked)
  PROVE  CndInv'
<1>1. PICK R \in CndLocals : R = Locals("load", Shared, 0, 0, all) /\ R.pc = "load" /\ R.on = Shared
  <2>1. "load" \in CndPcs /\ Shared \in Conds /\ 0 \in CndThreads \cup {0} /\ 0 \in CndRecs
    BY DEF CndPcs, Conds, CndRecs
  <2>2. Locals("load", Shared, 0, 0, all) \in CndLocals
    BY Zenon, <2>1, LocalsAre
  <2>3. Locals("load", Shared, 0, 0, all).pc = "load" /\ Locals("load", Shared, 0, 0, all).on = Shared
    BY DEF Locals
  <2> QED
    BY <2>2, <2>3
<1>2. /\ cth[t].pc = "bring" /\ items' = items + 1 /\ Moves(t, R) /\ cond' = cond /\ cnext' = cnext
      /\ items \in Nat /\ cmtx = t /\ cmtx' \in {0, t}
  BY <1>1, StateIs DEF Bring, Moves, CndInv, Holders
<1>3. cmtx' = t \/ \A u \in CndThreads : ~Signalling(u)
  <2>1. locked => cmtx' = t
    BY DEF Bring
  <2>2. ~locked => \A u \in CndThreads : ~Signalling(u)
    BY DEF Bring
  <2> QED
    BY <2>1, <2>2
<1>4. Cardinality(Sources) \in Nat /\ Cardinality(Sources)' = Cardinality(Sources) + 1
  <2>1. cth[t].pc \notin SrcPcs /\ R.pc \in SrcPcs
    BY <1>1, <1>2 DEF SrcPcs
  <2> QED
    BY <1>2, <2>1, SourcesCount, SourcesMove DEF CndInv
<1>5. cond[Shared] \in CndThreads => items' <= Cardinality(Sources)'
  BY <1>2, <1>4 DEF CndInv, ItemsMinded
<1>6. cth[t].pc \in Simple /\ ~Waits(t)
  BY <1>1, <1>2 DEF Simple, Waits
<1>7. items' \in Nat
  BY <1>2
<1> QED
  BY <1>1, <1>2, <1>3, <1>5, <1>6, <1>7, SimpleStep

-----------------------------------------------------------------------------
(* The steps of dequeue() that leave the stack.                            *)
LEMMA DequeueStep ==
  ASSUME CndInv, ~Racing, NEW t \in CndThreads, NEW R \in CndLocals, Moves(t, R), UNCHANGED <<cond, cnext, cmtx, items>>,
         cth[t].pc \in {"load", "next", "cas"}, R.pc \in {"next", "cas", "idle", "leave"},
         R.pc = "leave" => cmtx = t, R.pc = "cas" => cth[t].pc = "next",
         R.pc \in {"next", "cas"} => R.on = cth[t].on /\ R.all = cth[t].all,
         R.pc \in {"idle", "leave"} => R.on = Shared /\ cond[cth[t].on] \in {0, EX},
         cth[t].pc = "load" => Alone(t),
         NEW q, Stacks(q), Accounted(q), DequeueKnows(q), Knows(q, R)
  PROVE  CndInv'
<1>1. /\ cth' \in [CndThreads -> CndLocals] /\ cth'[t] = R
      /\ \A u \in CndThreads : u # t => cth'[u] = cth[u]
  BY OneMoves DEF CndInv
<1>2. CndTypes'
  BY <1>1 DEF CndInv, CndTypes
<1>3. Signalling(t) /\ (Signalling(t)' <=> R.pc \in {"next", "cas"})
      /\ \A u \in CndThreads : u # t => (Signalling(u)' <=> Signalling(u))
  BY <1>1 DEF Signalling
<1>4. Holders'
  <2>1. ASSUME NEW u \in CndThreads
        PROVE  /\ cth'[u].pc \in {"take", "bring", "leave", "push", "unlock"} => cmtx' = u
               /\ cth'[u].pc \in {"push", "unlock"} => items' = 0
               /\ cth'[u].pc = "push" => cnext'[u] # EX
               /\ cth'[u].on # Shared => cth'[u].on = u /\ cmtx' = u /\ cth'[u].all /\ Signalling(u)' /\ cond'[Shared] = EX
    <3>1. CASE u = t
      BY <1>1, <1>3, <3>1 DEF CndInv, Holders
    <3>2. CASE u # t
      BY <1>1, <1>3, <3>2 DEF CndInv, Holders
    <3> QED
      BY <3>1, <3>2
  <2> QED
    BY <2>1 DEF Holders
<1>5. OneDequeues'
  <2>1. ASSUME NEW u \in CndThreads, u # t, Signalling(u), R.pc \in {"next", "cas"}
        PROVE  cmtx = u /\ cth[u].pc = "load"
    <3>1. (cmtx = t /\ cth[t].pc = "load") \/ (cmtx = u /\ cth[u].pc = "load")
      BY <1>3, <2>1 DEF CndInv, OneDequeues
    <3>2. cth[t].pc = "load" => cmtx = u
      BY <2>1 DEF Alone
    <3> QED
      BY <2>1, <3>1, <3>2
  <2>2. ASSUME NEW u \in CndThreads, NEW v \in CndThreads, u # v, Signalling(u)', Signalling(v)'
        PROVE  (cmtx' = u /\ cth'[u].pc = "load") \/ (cmtx' = v /\ cth'[v].pc = "load")
    <3>1. CASE u = t
      BY <1>1, <1>3, <2>1, <2>2, <3>1
    <3>2. CASE v = t
      BY <1>1, <1>3, <2>1, <2>2, <3>2
    <3>3. CASE u # t /\ v # t
      BY <1>1, <1>3, <2>2, <3>3 DEF CndInv, OneDequeues
    <3> QED
      BY <3>1, <3>2, <3>3
  <2> QED
    BY <2>2 DEF OneDequeues
<1>6. CopiesEmptied'
  <2>1. ASSUME NEW u \in CndThreads, u # t PROVE cond'[u] # EX /\ (cond'[u] # 0 => Signalling(u)' /\ cth'[u].on = u)
    BY <1>1, <1>3, <2>1 DEF CndInv, CopiesEmptied
  <2>2. cond'[t] # EX /\ (cond'[t] # 0 => Signalling(t)' /\ cth'[t].on = t)
    <3>1. cond[t] # EX /\ (cond[t] # 0 => cth[t].on = t)
      BY DEF CndInv, CopiesEmptied
    <3> QED
      BY <1>1, <1>3, <3>1
  <2> QED
    BY <2>1, <2>2 DEF CopiesEmptied
<1>7. ItemsMinded'
  <2>1. CASE R.pc \in {"next", "cas"}
    <3>1. cth[t].pc \in SrcPcs /\ R.pc \in SrcPcs
      BY <2>1 DEF SrcPcs
    <3>2. Cardinality(Sources)' = Cardinality(Sources)
      BY <3>1, SourcesMove DEF CndInv
    <3> QED
      BY <3>2 DEF ItemsMinded, CndInv
  <2>2. CASE R.pc \in {"idle", "leave"}
    <3>1. cond[Shared] \in {0, EX}
      BY <2>2 DEF CndInv, Holders
    <3>2. 0 \notin CndThreads /\ EX \notin CndThreads
      BY CndAssumption DEF EX
    <3> QED
      BY <3>1, <3>2 DEF ItemsMinded
  <2> QED
    BY <2>1, <2>2
<1>8. Stacks(q)' /\ Accounted(q)' /\ DequeueKnows(q)'
  <2>1. ~Waits(t)
    BY DEF Waits
  <2>2. cond' = cond /\ cnext' = cnext /\ R.pc \notin {"poke", "unlock", "sleep"}
    OBVIOUS
  <2> QED
    BY <2>1, <2>2, StacksStay DEF CndInv
<1> QED
  BY <1>2, <1>4, <1>5, <1>6, <1>7, <1>8 DEF CndInv

(* The thread has seen what is in the condition, by a load or by an        *)
(* exchange that failed.                                                   *)
LEMMA SeenKeeps ==
  ASSUME CndInv, ~Racing, NEW t \in CndThreads, cth[t].pc \in {"load", "cas"}, cth[t].pc = "load" => Alone(t),
         NEW old, old = cond[cth[t].on], Seen(t, old), UNCHANGED <<cond, cnext, cmtx, items>>
  PROVE  CndInv'
<1>1. PICK q : Stacks(q) /\ Accounted(q) /\ DequeueKnows(q)
  BY DEF CndInv
<1>2. cth[t].on \in Conds /\ cth[t].nx \in CndRecs /\ cth[t].all \in BOOLEAN /\ old \in CndRecs
  BY StateIs DEF CndInv, CndTypes
<1>3. CASE old \in {0, EX}
  <2>1. PICK to \in {"leave", "idle"} : to = After(t) /\ (to = "leave" => cmtx = t)
    BY DEF After
  <2>2. PICK R \in CndLocals : R = Quiet(to) /\ R.pc = to /\ R.on = Shared
    BY QuietIs DEF CndPcs
  <2>3. Moves(t, R)
    BY <1>3, <2>1, <2>2 DEF Seen, Goes, Moves
  <2>4. Knows(q, R)
    BY <2>2 DEF Knows
  <2> QED
    BY <1>1, <1>3, <2>1, <2>2, <2>3, <2>4, DequeueStep
<1>4. CASE old \notin {0, EX}
  <2>1. old \in CndThreads
    BY <1>2, <1>4 DEF CndRecs
  <2>2. PICK R : R = Locals("next", cth[t].on, old, cth[t].nx, cth[t].all)
    OBVIOUS
  <2>3. R \in CndLocals
    <3>1. "next" \in CndPcs /\ old \in CndThreads \cup {0}
      BY <2>1 DEF CndPcs
    <3> QED
      BY Zenon, <1>2, <2>2, <3>1, LocalsAre
  <2>4. R.pc = "next" /\ R.on = cth[t].on /\ R.old = old /\ R.all = cth[t].all
    BY <2>2 DEF Locals
  <2>5. Moves(t, R)
    BY <1>4, <2>2 DEF Seen, Moves
  <2>6. Stacked(q, cth[t].on, old)
    <3>1. PICK p \in Seq(CndThreads) : p = q[cth[t].on]
      BY <1>1, <1>2 DEF Stacks
    <3>2. Chain(p, old, cnext)
      BY <1>1, <1>2, <3>1 DEF Stacks
    <3>3. p # <<>> /\ old = p[1] /\ 1 \in 1..Len(p)
      BY <1>4, <3>2 DEF Chain
    <3> QED
      BY <3>1, <3>3 DEF Stacked
  <2>7. Knows(q, R)
    BY <2>1, <2>4, <2>6 DEF Knows
  <2> QED
    BY <1>1, <2>3, <2>4, <2>5, <2>7, DequeueStep
<1> QED
  BY <1>3, <1>4
LEMMA DqLoadKeeps ==
  ASSUME CndInv, ~Racing, NEW t \in CndThreads, DqLoad(t)
  PROVE  CndInv'
BY SeenKeeps DEF DqLoad
LEMMA DqNextKeeps ==
  ASSUME CndInv, ~Racing, NEW t \in CndThreads, DqNext(t)
  PROVE  CndInv'
<1>1. PICK q : Stacks(q) /\ Accounted(q) /\ DequeueKnows(q)
  BY DEF CndInv
<1>2. Knows(q, cth[t]) /\ cth[t].pc = "next"
  BY <1>1 DEF DequeueKnows, DqNext
<1>3. cth[t].old \in CndThreads
  BY <1>2 DEF Knows
<1>4. cth[t].on \in Conds /\ cnext[cth[t].old] \in CndRecs /\ cth[t].all \in BOOLEAN /\ cth[t].old \in CndThreads \cup {0}
  BY <1>3, StateIs DEF CndInv, CndTypes
<1>5. PICK R : R = Locals("cas", cth[t].on, cth[t].old, cnext[cth[t].old], cth[t].all)
  OBVIOUS
<1>6. R \in CndLocals
  <2>1. "cas" \in CndPcs
    BY DEF CndPcs
  <2> QED
    BY Zenon, <1>4, <1>5, <2>1, LocalsAre
<1>7. R.pc = "cas" /\ R.on = cth[t].on /\ R.old = cth[t].old /\ R.all = cth[t].all /\ R.nx = cnext[cth[t].old]
  BY <1>5 DEF Locals
<1>8. Moves(t, R) /\ UNCHANGED <<cond, cnext, cmtx, items>>
  BY <1>5 DEF DqNext, Moves
<1>9. Knows(q, R)
  BY <1>2, <1>3, <1>7 DEF Knows
<1> QED
  BY <1>1, <1>2, <1>6, <1>7, <1>8, <1>9, DequeueStep

-----------------------------------------------------------------------------
(* A record comes to a stack or goes.                                      *)
Pushed(t, q) == <<t>> \o q
PushedParts(p, t, q) ==
  /\ p \in Seq(CndThreads) /\ Len(p) = Len(q) + 1 /\ Len(q) \in Nat /\ p[1] = t
  /\ \A k \in 1..Len(q) : p[k + 1] = q[k] /\ k + 1 \in 1..Len(p)
  /\ \A j \in 1..Len(p) : j = 1 \/ (j - 1 \in 1..Len(q) /\ p[j] = q[j - 1])
LEMMA PushedIs ==
  ASSUME NEW t \in CndThreads, NEW q \in Seq(CndThreads), NEW p, p = Pushed(t, q)
  PROVE  PushedParts(p, t, q)
BY DEF Pushed, PushedParts
LEMMA ThreadIs == \A u \in CndThreads : u # 0 /\ u # EX /\ u # Shared
BY CndAssumption DEF EX, Shared
LEMMA PushChain ==
  ASSUME NEW t \in CndThreads, NEW q \in Seq(CndThreads), NEW p, p = Pushed(t, q),
         NEW next \in [CndThreads -> CndRecs], Chain(q, next[t], next), next[t] # EX
  PROVE  Chain(p, t, next)
<1>1. /\ p \in Seq(CndThreads) /\ Len(p) = Len(q) + 1 /\ Len(q) \in Nat /\ p[1] = t
      /\ \A k \in 1..Len(q) : p[k + 1] = q[k] /\ k + 1 \in 1..Len(p)
      /\ \A j \in 1..Len(p) : j = 1 \/ (j - 1 \in 1..Len(q) /\ p[j] = q[j - 1])
  <2>1. PushedParts(p, t, q)
    BY PushedIs
  <2> QED
    BY <2>1 DEF PushedParts
<1>2. p # <<>>
  BY <1>1
<1>3. next[p[Len(p)]] = 0
  <2>1. CASE q = <<>>
    BY <1>1, <2>1 DEF Chain
  <2>2. CASE q # <<>>
    <3>1. Len(q) \in 1..Len(q)
      BY <2>2
    <3>2. p[Len(q) + 1] = q[Len(q)]
      BY <1>1, <3>1
    <3> QED
      BY <1>1, <2>2, <3>2 DEF Chain
  <2> QED
    BY <2>1, <2>2
<1>4. ASSUME NEW j \in 1..Len(p) - 1 PROVE next[p[j]] = p[j + 1]
  <2>1. j \in 1..Len(q) /\ p[j + 1] = q[j]
    BY <1>1
  <2>2. CASE j = 1
    <3>1. q # <<>>
      BY <2>1
    <3> QED
      BY <1>1, <2>1, <2>2, <3>1 DEF Chain
  <2>3. CASE j # 1
    <3>1. j - 1 \in 1..Len(q) /\ p[j] = q[j - 1] /\ j - 1 \in 1..Len(q) - 1
      BY <1>1, <2>1, <2>3
    <3>2. next[q[j - 1]] = q[(j - 1) + 1]
      BY <3>1 DEF Chain
    <3> QED
      BY <2>1, <3>1, <3>2
  <2> QED
    BY <2>2, <2>3
<1> QED
  BY <1>1, <1>2, <1>3, <1>4 DEF Chain

PoppedParts(p, q) ==
  /\ p \in Seq(CndThreads) /\ Len(p) = Len(q) - 1 /\ Len(q) \in Nat /\ Len(q) >= 1 /\ Len(p) \in Nat /\ (p = <<>> <=> Len(p) = 0)
  /\ \A j \in 1..Len(p) : p[j] = q[j + 1] /\ j + 1 \in 1..Len(q)
  /\ \A k \in 1..Len(q) : k = 1 \/ (k - 1 \in 1..Len(p) /\ p[k - 1] = q[k])
LEMMA PoppedIs ==
  ASSUME NEW q \in Seq(CndThreads), q # <<>>, NEW p, p = Tail(q)
  PROVE  PoppedParts(p, q)
<1>1. PICK a \in Seq(CndThreads) : a = Tail(q)
  OBVIOUS
<1>2. Len(q) \in Nat /\ Len(q) >= 1 /\ Len(a) = Len(q) - 1 /\ \A j \in 1..Len(a) : a[j] = q[j + 1]
  BY <1>1
<1>3. a = <<>> <=> Len(a) = 0
  BY SMT
<1>4. \A k \in 1..Len(q) : k = 1 \/ (k - 1 \in 1..Len(a) /\ a[k - 1] = q[k])
  <2>1. ASSUME NEW k \in 1..Len(q), k # 1 PROVE k - 1 \in 1..Len(a) /\ a[k - 1] = q[k]
    <3>1. k - 1 \in 1..Len(a) /\ (k - 1) + 1 = k
      BY <1>2, <2>1
    <3>2. a[k - 1] = q[(k - 1) + 1]
      BY <1>2, <3>1
    <3> QED
      BY <3>1, <3>2
  <2> QED
    BY <2>1
<1>5. PoppedParts(a, q)
  BY <1>2, <1>3, <1>4 DEF PoppedParts
<1> QED
  BY <1>1, <1>5
LEMMA PopChain ==
  ASSUME NEW q \in Seq(CndThreads), q # <<>>, NEW p, p = Tail(q),
         NEW next \in [CndThreads -> CndRecs], NEW r, Chain(q, r, next)
  PROVE  r = q[1] /\ next[r] # EX /\ Chain(p, next[r], next)
<1>1. /\ p \in Seq(CndThreads) /\ Len(p) = Len(q) - 1 /\ Len(q) \in Nat /\ Len(q) >= 1 /\ Len(p) \in Nat
      /\ \A j \in 1..Len(p) : p[j] = q[j + 1] /\ j + 1 \in 1..Len(q)
      /\ p = <<>> <=> Len(p) = 0
  <2>1. PoppedParts(p, q)
    BY PoppedIs
  <2> QED
    BY <2>1 DEF PoppedParts
<1>2. r = q[1] /\ next[q[Len(q)]] = 0 /\ \A j \in 1..Len(q) - 1 : next[q[j]] = q[j + 1]
  BY DEF Chain
<1>3. CASE p = <<>>
  <2>1. Len(q) = 1
    <3>1. Len(p) = 0
      BY <1>1, <1>3
    <3> QED
      BY <1>1, <3>1
  <2>2. next[r] = 0
    BY <1>2, <2>1
  <2> QED
    BY <1>2, <1>3, <2>2, <1>1 DEF Chain, EX
<1>4. CASE p # <<>>
  <2>1. Len(p) \in 1..Len(p) /\ 1 \in 1..Len(p) /\ 1 \in 1..Len(q) - 1
    BY <1>1, <1>4
  <2>2. next[r] = p[1]
    BY <1>1, <1>2, <2>1
  <2>3. p[Len(p)] = q[Len(q)]
    <3>1. p[Len(p)] = q[Len(p) + 1]
      BY <1>1, <2>1
    <3>2. Len(p) + 1 = Len(q)
      BY <1>1
    <3> QED
      BY <3>1, <3>2
  <2>4. p[1] \in CndThreads
    BY <1>1, <2>1
  <2>5. p[1] # EX
    BY <2>4, ThreadIs
  <2>6. ASSUME NEW j \in 1..Len(p) - 1 PROVE next[p[j]] = p[j + 1]
    <3>1. j \in 1..Len(p) /\ j + 1 \in 1..Len(p) /\ j + 1 \in 1..Len(q) - 1
      BY <1>1
    <3> QED
      BY <1>1, <1>2, <3>1
  <2> QED
    BY <1>2, <1>4, <2>2, <2>3, <2>5, <2>6 DEF Chain
<1> QED
  BY <1>3, <1>4

(* atomic_compare_exchange_strong() of cnd_wait().                         *)
LEMMA PushStacks ==
  ASSUME CndInv, NEW t \in CndThreads, ~Waits(t), NEW q, Stacks(q), Accounted(q), DequeueKnows(q),
         NEW R \in CndLocals, Moves(t, R), R.pc = "unlock", cth[t].pc = "push", cnext[t] = cond[Shared], cnext[t] # EX,
         cond' = [cond EXCEPT ![Shared] = t], cnext' = cnext,
         NEW p, p = [q EXCEPT ![Shared] = Pushed(t, q[Shared])]
  PROVE  Stacks(p)' /\ Accounted(p)' /\ DequeueKnows(p)'
<1>1. /\ cth'[t] = R /\ \A u \in CndThreads : u # t => cth'[u] = cth[u]
  BY OneMoves DEF CndInv
<1>2. q \in [Conds -> Seq(CndThreads)] /\ Shared \in Conds
  BY DEF Stacks, Conds
<1>3. PICK o \in Seq(CndThreads) : o = q[Shared]
  BY <1>2
<1>4. PICK m : m = Pushed(t, o)
  OBVIOUS
<1>5. /\ m \in Seq(CndThreads) /\ Len(m) = Len(o) + 1 /\ Len(o) \in Nat /\ m[1] = t
      /\ \A k \in 1..Len(o) : m[k + 1] = o[k] /\ k + 1 \in 1..Len(m)
      /\ \A j \in 1..Len(m) : j = 1 \/ (j - 1 \in 1..Len(o) /\ m[j] = o[j - 1])
  <2>1. PushedParts(m, t, o)
    BY <1>4, PushedIs
  <2> QED
    BY <2>1 DEF PushedParts
<1>6. p \in [Conds -> Seq(CndThreads)] /\ p[Shared] = m /\ \A c \in Conds : c # Shared => p[c] = q[c]
  BY <1>2, <1>3, <1>4, <1>5
<1>7. \A c \in Conds : \A j \in 1..Len(q[c]) : q[c][j] # t
  BY DEF Accounted, Stacked
<1>8. \A c \in Conds, u \in CndThreads : Stacked(p, c, u) <=> Stacked(q, c, u) \/ (c = Shared /\ u = t)
  <2>1. ASSUME NEW u \in CndThreads PROVE Stacked(p, Shared, u) <=> Stacked(q, Shared, u) \/ u = t
    <3>1. Stacked(p, Shared, u) <=> \E j \in 1..Len(m) : m[j] = u
      BY <1>6 DEF Stacked
    <3>2. Stacked(q, Shared, u) <=> \E j \in 1..Len(o) : o[j] = u
      BY <1>3 DEF Stacked
    <3>3. 1 \in 1..Len(m)
      BY <1>5
    <3> QED
      BY <1>5, <3>1, <3>2, <3>3
  <2> QED
    BY <1>6, <2>1 DEF Stacked
<1>9. Disjoint(p)
  <2>1. Disjoint(q)
    BY DEF Stacks
  <2>2. \A c, d \in Conds : \A j \in 1..Len(q[c]), k \in 1..Len(q[d]) : q[c][j] = q[d][k] => c = d /\ j = k
    BY <2>1 DEF Disjoint
  <2>3. ASSUME NEW c \in Conds, c # Shared, NEW j \in 1..Len(m), NEW k \in 1..Len(q[c]), m[j] = q[c][k] PROVE FALSE
    <3>1. j # 1
      BY <1>5, <1>7, <2>3
    <3>2. j - 1 \in 1..Len(o) /\ m[j] = o[j - 1]
      BY <1>5, <3>1
    <3>3. j - 1 \in 1..Len(q[Shared]) /\ q[Shared][j - 1] = q[c][k]
      BY <1>3, <2>3, <3>2
    <3>4. PICK l \in 1..Len(q[Shared]) : q[Shared][l] = q[c][k]
      BY <3>3
    <3>5. Shared = c
      BY <1>2, <2>2, <2>3, <3>4
    <3> QED
      BY <2>3, <3>5
  <2>4. ASSUME NEW j \in 1..Len(m), NEW k \in 1..Len(m), m[j] = m[k] PROVE j = k
    <3>1. j = 1 <=> k = 1
      <4>1. \A l \in 1..Len(o) : o[l] # t
        BY <1>2, <1>3, <1>7
      <4>2. ASSUME NEW l \in 1..Len(m), m[l] = t PROVE l = 1
        <5>1. l = 1 \/ (l - 1 \in 1..Len(o) /\ m[l] = o[l - 1])
          BY <1>5
        <5> QED
          BY <4>1, <4>2, <5>1
      <4>3. m[1] = t
        BY <1>5
      <4> QED
        BY <2>4, <4>2, <4>3
    <3>2. ASSUME j # 1 PROVE j - 1 = k - 1
      <4>1. j - 1 \in 1..Len(o) /\ m[j] = o[j - 1] /\ k - 1 \in 1..Len(o) /\ m[k] = o[k - 1]
        BY <1>5, <3>1, <3>2
      <4>2. \A x, y \in 1..Len(o) : o[x] = o[y] => x = y
        BY <1>2, <1>3, <2>2
      <4> QED
        BY <2>4, <4>1, <4>2
    <3> QED
      BY <3>1, <3>2
  <2>5. ASSUME NEW c \in Conds, NEW d \in Conds, NEW j \in 1..Len(p[c]), NEW k \in 1..Len(p[d]), p[c][j] = p[d][k]
        PROVE  c = d /\ j = k
    <3>1. CASE c = Shared /\ d = Shared
      <4>1. p[c] = m /\ p[d] = m
        BY <1>6, <3>1
      <4>2. j \in 1..Len(m) /\ k \in 1..Len(m) /\ m[j] = m[k]
        BY <2>5, <4>1
      <4> QED
        BY <2>4, <3>1, <4>2
    <3>2. CASE c = Shared /\ d # Shared
      <4>1. p[c] = m /\ p[d] = q[d]
        BY <1>6, <3>2
      <4>2. j \in 1..Len(m) /\ k \in 1..Len(q[d]) /\ m[j] = q[d][k]
        BY <2>5, <4>1
      <4> QED
        BY <2>3, <3>2, <4>2
    <3>3. CASE c # Shared /\ d = Shared
      <4>1. p[c] = q[c] /\ p[d] = m
        BY <1>6, <3>3
      <4>2. j \in 1..Len(q[c]) /\ k \in 1..Len(m) /\ q[c][j] = m[k]
        BY <2>5, <4>1
      <4> QED
        BY <2>3, <3>3, <4>2
    <3>4. CASE c # Shared /\ d # Shared
      <4>1. p[c] = q[c] /\ p[d] = q[d]
        BY <1>6, <3>4
      <4>2. j \in 1..Len(q[c]) /\ k \in 1..Len(q[d]) /\ q[c][j] = q[d][k]
        BY <2>5, <4>1
      <4> QED
        BY <2>2, <4>2
    <3> QED
      BY <3>1, <3>2, <3>3, <3>4
  <2> QED
    BY <2>5 DEF Disjoint
<1>10. cond \in [Conds -> CndRecs] /\ cnext \in [CndThreads -> CndRecs]
  BY DEF CndInv, CndTypes
<1>11. cond'[Shared] = t /\ \A c \in Conds : c # Shared => cond'[c] = cond[c]
  BY <1>2, <1>10
<1>12. ASSUME NEW c \in Conds PROVE Chain(p[c], cond[c], cnext)'
  <2>1. Chain(q[c], cond[c], cnext)
    BY DEF Stacks
  <2>2. CASE c # Shared
    BY <1>6, <1>11, <2>1, <2>2 DEF Chain
  <2>3. CASE c = Shared
    <3>1. Chain(o, cnext[t], cnext)
      BY <1>3, <2>1, <2>3
    <3>2. Chain(m, t, cnext)
      BY <1>4, <1>10, <3>1, PushChain
    <3> QED
      BY <1>6, <1>11, <2>3, <3>2 DEF Chain
  <2> QED
    BY <2>2, <2>3
<1>13. Stacks(p)'
  BY <1>6, <1>9, <1>12 DEF Stacks, Disjoint
<1>14. \A u \in CndThreads : Waits(u)' <=> Waits(u) \/ u = t
  BY <1>1 DEF Waits
<1>15. \A u, v \in CndThreads : Poking(u, v)' <=> Poking(u, v)
  BY <1>1 DEF Poking
<1>16. \A u \in CndThreads : ~Poking(u, t)
  BY DEF Accounted
<1>17. Accounted(p)'
  <2>1. \A c \in Conds, u \in CndThreads : Stacked(p, c, u)' <=> Stacked(p, c, u)
    BY DEF Stacked
  <2>2. ASSUME NEW u \in CndThreads
        PROVE  /\ \A d \in Conds : Stacked(p, d, u)' => Waits(u)' /\ \A v \in CndThreads : ~Poking(v, u)'
               /\ Waits(u)' => (\E d \in Conds : Stacked(p, d, u)') \/ (\E v \in CndThreads : Poking(v, u)')
               /\ \A v \in CndThreads : Poking(v, u)' => Waits(u)'
    <3>1. CASE u = t
      <4>1. Waits(u)' /\ (\A v \in CndThreads : ~Poking(v, u)') /\ Stacked(p, Shared, u)'
        BY <1>2, <1>8, <1>14, <1>15, <1>16, <2>1, <3>1
      <4> QED
        BY <1>2, <4>1
    <3>2. CASE u # t
      <4>1. /\ \A d \in Conds : Stacked(q, d, u) => Waits(u) /\ \A v \in CndThreads : ~Poking(v, u)
            /\ Waits(u) => (\E d \in Conds : Stacked(q, d, u)) \/ (\E v \in CndThreads : Poking(v, u))
            /\ \A v \in CndThreads : Poking(v, u) => Waits(u)
        BY DEF Accounted
      <4>2. \A d \in Conds : Stacked(p, d, u)' <=> Stacked(q, d, u)
        BY <1>8, <2>1, <3>2
      <4>3. Waits(u)' <=> Waits(u)
        BY <1>14, <3>2
      <4> QED
        BY <1>15, <4>1, <4>2, <4>3
    <3> QED
      BY <3>1, <3>2
  <2> QED
    BY <2>2 DEF Accounted
<1>18. ASSUME NEW u \in CndThreads PROVE Knows(p, cth[u])'
  <2>1. CASE u = t
    BY <1>1, <2>1 DEF Knows
  <2>2. CASE u # t
    <3>1. cth'[u] = cth[u] /\ Knows(q, cth[u]) /\ cth[u].on \in Conds
      BY <1>1, <2>2, StateIs DEF DequeueKnows
    <3>2. cth[u].pc \in {"next", "cas"} => cth[u].old \in CndThreads
      BY <3>1 DEF Knows
    <3>3. cond[cth[u].on] = EX => cond'[cth[u].on] = EX
      BY <1>11, <3>1
    <3>4. cth[u].old \in CndThreads => (Stacked(q, cth[u].on, cth[u].old) => Stacked(p, cth[u].on, cth[u].old))
      BY <1>8, <3>1
    <3> QED
      BY <3>1, <3>2, <3>3, <3>4 DEF Knows, Stacked
  <2> QED
    BY <2>1, <2>2
<1> QED
  BY <1>13, <1>17, <1>18 DEF DequeueKnows
LEMMA PushKeeps ==
  ASSUME CndInv, NEW t \in CndThreads, Push(t)
  PROVE  CndInv'
<1>1. cth[t].pc = "push" /\ cmtx = t /\ items = 0 /\ cnext[t] # EX /\ UNCHANGED <<cmtx, items>>
  BY DEF Push, CndInv, Holders
<1>2. CASE cond[Shared] # cnext[t]
  BY <1>1, <1>2, LoadsKeep DEF Push
<1>3. CASE cond[Shared] = cnext[t]
  <2>1. PICK R \in CndLocals : R = Quiet("unlock") /\ R.pc = "unlock" /\ R.on = Shared
    BY QuietIs DEF CndPcs
  <2>2. Moves(t, R) /\ cond' = [cond EXCEPT ![Shared] = t] /\ cnext' = cnext
    BY <1>3, <2>1 DEF Push, Goes, Moves
  <2>3. PICK q : Stacks(q) /\ Accounted(q) /\ DequeueKnows(q)
    BY DEF CndInv
  <2>4. PICK p : p = [q EXCEPT ![Shared] = Pushed(t, q[Shared])]
    OBVIOUS
  <2>5. ~Waits(t)
    BY <1>1 DEF Waits
  <2>6. Stacks(p)' /\ Accounted(p)' /\ DequeueKnows(p)'
    BY <1>1, <1>3, <2>1, <2>2, <2>3, <2>4, <2>5, PushStacks
  <2>7. /\ cth' \in [CndThreads -> CndLocals] /\ cth'[t] = R
        /\ \A u \in CndThreads : u # t => cth'[u] = cth[u]
    BY <2>1, <2>2, OneMoves DEF CndInv
  <2>8. cond \in [Conds -> CndRecs] /\ Shared \in Conds /\ t \in CndRecs /\ Shared \notin CndThreads
    BY CndAssumption DEF CndInv, CndTypes, Conds, CndRecs, Shared
  <2>9. cond'[Shared] = t /\ (\A c \in Conds : c # Shared => cond'[c] = cond[c]) /\ cond' \in [Conds -> CndRecs]
    BY <2>2, <2>8
  <2>10. CndTypes'
    BY <1>1, <2>2, <2>7, <2>9 DEF CndInv, CndTypes
  <2>11. ~Signalling(t) /\ ~Signalling(t)' /\ \A u \in CndThreads : u # t => (Signalling(u)' <=> Signalling(u))
    BY <1>1, <2>1, <2>7 DEF Signalling
  <2>12. Holders'
    <3>1. ASSUME NEW u \in CndThreads, u # t PROVE cth[u].on = Shared /\ cth[u].pc \notin {"take", "bring", "leave", "push", "unlock"}
      BY <1>1, <3>1 DEF CndInv, Holders
    <3> QED
      BY <1>1, <2>1, <2>7, <3>1 DEF Holders
  <2>13. OneDequeues'
    BY <1>1, <2>7, <2>11 DEF CndInv, OneDequeues
  <2>14. CopiesEmptied'
    <3>1. \A u \in CndThreads : cond'[u] = cond[u]
      BY <2>8, <2>9 DEF Conds
    <3> QED
      BY <2>7, <2>11, <3>1 DEF CndInv, CopiesEmptied
  <2>15. ItemsMinded'
    <3>1. Cardinality(Sources)' \in Nat
      BY <2>1, <2>2, SourcesMove DEF CndInv
    <3> QED
      BY <1>1, <3>1 DEF ItemsMinded
  <2> QED
    BY <2>6, <2>10, <2>12, <2>13, <2>14, <2>15 DEF CndInv
<1> QED
  BY <1>2, <1>3

(* The exchange of dequeue().                                              *)
LEMMA PopStacks ==
  ASSUME CndInv, NEW t \in CndThreads, cth[t].pc = "cas", NEW c \in Conds, c = cth[t].on, NEW w \in CndThreads, w = cth[t].old,
         cond[c] = w, NEW q, Stacks(q), Accounted(q), DequeueKnows(q),
         NEW R \in CndLocals, Moves(t, R), R.pc = "poke", R.old = w,
         cond' = [cond EXCEPT ![c] = cth[t].nx], cnext' = cnext,
         NEW p, p = [q EXCEPT ![c] = Tail(q[c])]
  PROVE  cth[t].nx # EX /\ Stacks(p)' /\ Accounted(p)' /\ DequeueKnows(p)'
<1>1. /\ cth'[t] = R /\ \A u \in CndThreads : u # t => cth'[u] = cth[u]
  BY OneMoves DEF CndInv
<1>2. q \in [Conds -> Seq(CndThreads)] /\ Disjoint(q)
  BY DEF Stacks
<1>3. PICK o \in Seq(CndThreads) : o = q[c]
  BY <1>2
<1>4. Chain(o, w, cnext)
  BY <1>3 DEF Stacks
<1>5. o # <<>>
  BY <1>4, ThreadIs DEF Chain
<1>6. PICK m : m = Tail(o)
  OBVIOUS
<1>7. /\ m \in Seq(CndThreads) /\ Len(m) = Len(o) - 1 /\ Len(o) \in Nat /\ Len(o) >= 1
      /\ \A j \in 1..Len(m) : m[j] = o[j + 1] /\ j + 1 \in 1..Len(o)
      /\ \A k \in 1..Len(o) : k = 1 \/ (k - 1 \in 1..Len(m) /\ m[k - 1] = o[k])
  <2>1. PoppedParts(m, o)
    BY <1>5, <1>6, PoppedIs
  <2> QED
    BY <2>1 DEF PoppedParts
<1>8. cond \in [Conds -> CndRecs] /\ cnext \in [CndThreads -> CndRecs]
  BY DEF CndInv, CndTypes
<1>9. w = o[1] /\ cnext[w] # EX /\ Chain(m, cnext[w], cnext)
  <2>1. PICK next \in [CndThreads -> CndRecs] : next = cnext
    BY <1>8
  <2>2. Chain(o, w, next)
    BY <1>4, <2>1
  <2>3. w = o[1] /\ next[w] # EX /\ Chain(m, next[w], next)
    BY <1>5, <1>6, <2>2, PopChain
  <2> QED
    BY <2>1, <2>3
<1>10. cth[t].nx = cnext[w]
  <2>1. Knows(q, cth[t])
    BY DEF DequeueKnows
  <2> QED
    BY <2>1, ThreadIs DEF Knows
<1>11. p \in [Conds -> Seq(CndThreads)] /\ p[c] = m /\ \A d \in Conds : d # c => p[d] = q[d]
  BY <1>2, <1>3, <1>6, <1>7
<1>12. cond'[c] = cnext[w] /\ \A d \in Conds : d # c => cond'[d] = cond[d]
  BY <1>8, <1>10
<1>13. ASSUME NEW d \in Conds PROVE Chain(p[d], cond[d], cnext)'
  <2>1. Chain(q[d], cond[d], cnext)
    BY DEF Stacks
  <2>2. CASE d # c
    BY <1>11, <1>12, <2>1, <2>2 DEF Chain
  <2>3. CASE d = c
    BY <1>9, <1>11, <1>12, <2>3 DEF Chain
  <2> QED
    BY <2>2, <2>3
<1>14. \A a, d \in Conds : \A j \in 1..Len(q[a]), k \in 1..Len(q[d]) : q[a][j] = q[d][k] => a = d /\ j = k
  BY <1>2 DEF Disjoint
<1>15. \A d \in Conds, u \in CndThreads : Stacked(p, d, u) <=> Stacked(q, d, u) /\ ~(d = c /\ u = w)
  <2>1. ASSUME NEW u \in CndThreads PROVE Stacked(p, c, u) <=> Stacked(q, c, u) /\ u # w
    <3>1. Stacked(p, c, u) <=> \E j \in 1..Len(m) : m[j] = u
      BY <1>11 DEF Stacked
    <3>2. Stacked(q, c, u) <=> \E j \in 1..Len(o) : o[j] = u
      BY <1>3 DEF Stacked
    <3>3. 1 \in 1..Len(o)
      BY <1>7
    <3>4. \A x, y \in 1..Len(o) : o[x] = o[y] => x = y
      BY <1>3, <1>14
    <3>5. ASSUME NEW j \in 1..Len(m), m[j] = w PROVE FALSE
      <4>1. o[j + 1] = o[1] /\ j + 1 \in 1..Len(o)
        BY <1>7, <1>9, <3>5
      <4>2. j + 1 = 1
        BY <3>3, <3>4, <4>1
      <4> QED
        BY <1>7, <4>2
    <3>6. ASSUME NEW j \in 1..Len(m), m[j] = u PROVE u # w /\ \E k \in 1..Len(o) : o[k] = u
      <4>1. j + 1 \in 1..Len(o) /\ o[j + 1] = u
        BY <1>7, <3>6
      <4> QED
        BY <3>5, <3>6, <4>1
    <3>7. ASSUME NEW k \in 1..Len(o), o[k] = u, u # w PROVE \E j \in 1..Len(m) : m[j] = u
      <4>1. k # 1
        BY <1>9, <3>7
      <4>2. k - 1 \in 1..Len(m) /\ m[k - 1] = o[k]
        BY <1>7, <4>1
      <4> QED
        BY <3>7, <4>2
    <3> QED
      BY <3>1, <3>2, <3>6, <3>7
  <2>2. ASSUME NEW d \in Conds, d # c, NEW u \in CndThreads PROVE Stacked(p, d, u) <=> Stacked(q, d, u)
    <3>1. p[d] = q[d]
      BY <1>11, <2>2
    <3> QED
      BY <3>1 DEF Stacked
  <2> QED
    BY <2>1, <2>2
<1>16. Disjoint(p)
  <2>1. ASSUME NEW d \in Conds, d # c, NEW j \in 1..Len(m), NEW k \in 1..Len(q[d]), m[j] = q[d][k] PROVE FALSE
    <3>1. q[c][j + 1] = q[d][k] /\ j + 1 \in 1..Len(q[c])
      BY <1>3, <1>7, <2>1
    <3> QED
      BY <1>14, <2>1, <3>1
  <2>2. ASSUME NEW j \in 1..Len(m), NEW k \in 1..Len(m), m[j] = m[k] PROVE j = k
    <3>1. o[j + 1] = o[k + 1] /\ j + 1 \in 1..Len(o) /\ k + 1 \in 1..Len(o)
      BY <1>7, <2>2
    <3>2. \A x, y \in 1..Len(o) : o[x] = o[y] => x = y
      BY <1>3, <1>14
    <3>3. j + 1 = k + 1
      BY <3>1, <3>2
    <3> QED
      BY <1>7, <3>3
  <2>3. ASSUME NEW a \in Conds, NEW d \in Conds, NEW j \in 1..Len(p[a]), NEW k \in 1..Len(p[d]), p[a][j] = p[d][k]
        PROVE  a = d /\ j = k
    <3>1. CASE a = c /\ d = c
      <4>1. p[a] = m /\ p[d] = m
        BY <1>11, <3>1
      <4>2. j \in 1..Len(m) /\ k \in 1..Len(m) /\ m[j] = m[k]
        BY <2>3, <4>1
      <4> QED
        BY <2>2, <3>1, <4>2
    <3>2. CASE a = c /\ d # c
      <4>1. p[a] = m /\ p[d] = q[d]
        BY <1>11, <3>2
      <4>2. j \in 1..Len(m) /\ k \in 1..Len(q[d]) /\ m[j] = q[d][k]
        BY <2>3, <4>1
      <4> QED
        BY <2>1, <3>2, <4>2
    <3>3. CASE a # c /\ d = c
      <4>1. p[d] = m /\ p[a] = q[a]
        BY <1>11, <3>3
      <4>2. k \in 1..Len(m) /\ j \in 1..Len(q[a]) /\ m[k] = q[a][j]
        BY <2>3, <4>1
      <4> QED
        BY <2>1, <3>3, <4>2
    <3>4. CASE a # c /\ d # c
      <4>1. p[a] = q[a] /\ p[d] = q[d]
        BY <1>11, <3>4
      <4>2. j \in 1..Len(q[a]) /\ k \in 1..Len(q[d]) /\ q[a][j] = q[d][k]
        BY <2>3, <4>1
      <4> QED
        BY <1>14, <4>2
    <3> QED
      BY <3>1, <3>2, <3>3, <3>4
  <2> QED
    BY <2>3 DEF Disjoint
<1>17. Stacks(p)'
  BY <1>11, <1>13, <1>16 DEF Stacks, Disjoint
<1>18. Stacked(q, c, w)
  <2>1. 1 \in 1..Len(o)
    BY <1>7
  <2> QED
    BY <1>3, <1>9, <2>1 DEF Stacked
<1>19. Waits(w) /\ \A u \in CndThreads : ~Poking(u, w)
  BY <1>18 DEF Accounted
<1>20. \A d \in Conds : Stacked(q, d, w) => d = c
  BY <1>14, <1>18 DEF Stacked
<1>21. ~Waits(t) /\ \A u \in CndThreads : Waits(u)' <=> Waits(u)
  BY <1>1 DEF Waits
<1>22. \A u, v \in CndThreads : Poking(u, v)' <=> Poking(u, v) \/ (u = t /\ v = w)
  BY <1>1 DEF Poking
<1>23. Accounted(p)'
  <2>1. \A d \in Conds, u \in CndThreads : Stacked(p, d, u)' <=> Stacked(p, d, u)
    BY DEF Stacked
  <2>2. ASSUME NEW u \in CndThreads
        PROVE  /\ \A d \in Conds : Stacked(q, d, u) => Waits(u) /\ \A v \in CndThreads : ~Poking(v, u)
               /\ Waits(u) => (\E d \in Conds : Stacked(q, d, u)) \/ (\E v \in CndThreads : Poking(v, u))
               /\ \A v \in CndThreads : Poking(v, u) => Waits(u)
    BY DEF Accounted
  <2>3. ASSUME NEW u \in CndThreads
        PROVE  /\ \A d \in Conds : Stacked(p, d, u)' => Waits(u)' /\ \A v \in CndThreads : ~Poking(v, u)'
               /\ Waits(u)' => (\E d \in Conds : Stacked(p, d, u)') \/ (\E v \in CndThreads : Poking(v, u)')
               /\ \A v \in CndThreads : Poking(v, u)' => Waits(u)'
    <3>1. CASE u = w
      <4>1. \A d \in Conds : ~Stacked(p, d, u)'
        BY <1>15, <1>20, <2>1, <3>1
      <4>2. Waits(u)' /\ Poking(t, u)'
        BY <1>19, <1>21, <1>22, <3>1
      <4> QED
        BY <4>1, <4>2
    <3>2. CASE u # w
      <4>1. \A d \in Conds : Stacked(p, d, u)' <=> Stacked(q, d, u)
        BY <1>15, <2>1, <3>2
      <4>2. \A v \in CndThreads : Poking(v, u)' <=> Poking(v, u)
        BY <1>22, <3>2
      <4>3. Waits(u)' <=> Waits(u)
        BY <1>21
      <4> QED
        BY <2>2, <4>1, <4>2, <4>3
    <3> QED
      BY <3>1, <3>2
  <2> QED
    BY <2>3 DEF Accounted
<1>24. ASSUME NEW u \in CndThreads PROVE Knows(p, cth[u])'
  <2>1. CASE u = t
    BY <1>1, <2>1 DEF Knows
  <2>2. CASE u # t
    <3>1. Signalling(t) /\ cth[t].pc # "load"
      BY DEF Signalling
    <3>2. cth[u].pc \notin {"next", "cas", "poke"}
      BY <2>2, <3>1 DEF CndInv, OneDequeues, Signalling
    <3> QED
      BY <1>1, <2>2, <3>2 DEF Knows
  <2> QED
    BY <2>1, <2>2
<1> QED
  BY <1>9, <1>10, <1>17, <1>23, <1>24 DEF DequeueKnows
LEMMA DqCasKeeps ==
  ASSUME CndInv, ~Racing, NEW t \in CndThreads, DqCas(t)
  PROVE  CndInv'
<1>1. cth[t].pc = "cas" /\ UNCHANGED <<cnext, cmtx, items>>
  BY DEF DqCas
<1>2. CASE cond[cth[t].on] # cth[t].old
  BY <1>1, <1>2, SeenKeeps DEF DqCas
<1>3. CASE cond[cth[t].on] = cth[t].old
  <2>1. PICK q : Stacks(q) /\ Accounted(q) /\ DequeueKnows(q)
    BY DEF CndInv
  <2>2. PICK c \in Conds : c = cth[t].on
    BY StateIs
  <2>3. PICK w \in CndThreads : w = cth[t].old
    BY <1>1, <2>1 DEF DequeueKnows, Knows
  <2>4. PICK R : R = Locals("poke", c, w, 0, cth[t].all)
    OBVIOUS
  <2>5. R \in CndLocals
    <3>1. "poke" \in CndPcs /\ 0 \in CndRecs /\ w \in CndThreads \cup {0}
      BY DEF CndPcs, CndRecs
    <3>2. cth[t].all \in BOOLEAN
      BY StateIs
    <3> QED
      BY Zenon, <2>4, <3>1, <3>2, LocalsAre
  <2>6. R.pc = "poke" /\ R.on = c /\ R.old = w /\ R.all = cth[t].all
    BY <2>4 DEF Locals
  <2>7. Moves(t, R) /\ cond' = [cond EXCEPT ![c] = cth[t].nx]
    BY <1>3, <2>2, <2>3, <2>4 DEF DqCas, Moves
  <2>8. PICK p : p = [q EXCEPT ![c] = Tail(q[c])]
    OBVIOUS
  <2>9. cth[t].nx # EX /\ Stacks(p)' /\ Accounted(p)' /\ DequeueKnows(p)'
    BY <1>1, <1>3, <2>1, <2>2, <2>3, <2>5, <2>6, <2>7, <2>8, PopStacks
  <2>10. /\ cth' \in [CndThreads -> CndLocals] /\ cth'[t] = R
         /\ \A u \in CndThreads : u # t => cth'[u] = cth[u]
    BY <2>5, <2>7, OneMoves DEF CndInv
  <2>11. cth[t].nx \in CndRecs /\ cond \in [Conds -> CndRecs] /\ Shared \in Conds
    BY StateIs DEF CndInv, CndTypes, Conds
  <2>12. cond'[c] = cth[t].nx /\ (\A d \in Conds : d # c => cond'[d] = cond[d]) /\ cond' \in [Conds -> CndRecs]
    BY <2>7, <2>11
  <2>13. CndTypes'
    BY <1>1, <2>10, <2>12 DEF CndInv, CndTypes
  <2>14. Signalling(t) /\ Signalling(t)' /\ cth[t].pc # "load" /\ \A u \in CndThreads : u # t => (Signalling(u)' <=> Signalling(u))
    BY <1>1, <2>6, <2>10 DEF Signalling
  <2>15. Holders'
    <3>1. cond[Shared] = EX => cond'[Shared] = EX
      BY <1>3, <2>2, <2>3, <2>11, <2>12, ThreadIs
    <3>2. ASSUME NEW u \in CndThreads
          PROVE  /\ cth'[u].pc \in {"take", "bring", "leave", "push", "unlock"} => cmtx' = u
                 /\ cth'[u].pc \in {"push", "unlock"} => items' = 0
                 /\ cth'[u].pc = "push" => cnext'[u] # EX
                 /\ cth'[u].on # Shared => cth'[u].on = u /\ cmtx' = u /\ cth'[u].all /\ Signalling(u)' /\ cond'[Shared] = EX
      <4>1. CASE u = t
        BY <1>1, <2>2, <2>6, <2>10, <2>14, <3>1, <4>1 DEF CndInv, Holders
      <4>2. CASE u # t
        BY <1>1, <2>10, <2>14, <3>1, <4>2 DEF CndInv, Holders
      <4> QED
        BY <4>1, <4>2
    <3> QED
      BY <3>2 DEF Holders
  <2>16. OneDequeues'
    BY <1>1, <2>10, <2>14 DEF CndInv, OneDequeues
  <2>17. CopiesEmptied'
    <3>1. ASSUME NEW u \in CndThreads PROVE cond'[u] # EX /\ (cond'[u] # 0 => Signalling(u)' /\ cth'[u].on = u)
      <4>1. cond[u] # EX /\ (cond[u] # 0 => Signalling(u) /\ cth[u].on = u) /\ u \in Conds
        BY DEF CndInv, CopiesEmptied, Conds
      <4>2. CASE u = c
        <5>1. cond[u] # 0
          BY <1>3, <2>2, <2>3, <4>2, ThreadIs
        <5>2. u = t
          <6>1. cth[u].on = u /\ u # Shared
            BY <4>1, <5>1, ThreadIs
          <6>2. cth[t].on = u
            BY <2>2, <4>2
          <6> QED
            BY <6>1, <6>2 DEF CndInv, Holders
        <5> QED
          BY <2>6, <2>9, <2>10, <2>12, <2>14, <4>2, <5>2
      <4>3. CASE u # c
        <5>1. cond'[u] = cond[u]
          BY <2>12, <4>1, <4>3
        <5>2. u = t => cth'[u].on = cth[u].on
          BY <2>2, <2>6, <2>10
        <5> QED
          BY <2>10, <2>14, <4>1, <5>1, <5>2
      <4> QED
        BY <4>2, <4>3
    <3> QED
      BY <3>1 DEF CopiesEmptied
  <2>18. ItemsMinded'
    <3>1. cth[t].pc \in SrcPcs /\ R.pc \in SrcPcs
      BY <1>1, <2>6 DEF SrcPcs
    <3>2. Cardinality(Sources)' = Cardinality(Sources)
      BY <2>5, <2>7, <3>1, SourcesMove DEF CndInv
    <3>3. cond'[Shared] \in CndThreads => cond[Shared] \in CndThreads
      BY <1>3, <2>2, <2>3, <2>11, <2>12
    <3> QED
      BY <1>1, <3>2, <3>3 DEF ItemsMinded, CndInv
  <2> QED
    BY <2>9, <2>13, <2>15, <2>16, <2>17, <2>18 DEF CndInv
<1> QED
  BY <1>2, <1>3

-----------------------------------------------------------------------------
(* poke(): the thread that sleeps is awake, and the other one goes on.     *)
PokeParts(t, w, A) ==
  /\ cth[t].pc = "poke" /\ w = cth[t].old /\ cth[w].pc = "sleep" /\ t # w
  /\ cth' = [cth EXCEPT ![t] = A, ![w] = Quiet("relock")]
  /\ UNCHANGED <<cond, cnext, cmtx, items>>
  /\ A.pc \in {"load", "leave", "idle"} /\ (A.pc = "leave" => cmtx = t)
  /\ A.on = cth[t].on /\ (A.on # Shared => A.pc = "load" /\ A.all = TRUE)
LEMMA PokeIs ==
  ASSUME CndInv, NEW t \in CndThreads, cnd_poke(t)
  PROVE  \E w \in CndThreads, A \in CndLocals : PokeParts(t, w, A)
<1>1. cth[t].pc = "poke" /\ cth[cth[t].old].pc = "sleep" /\ UNCHANGED <<cond, cnext, cmtx, items>>
  BY DEF cnd_poke
<1>2. PICK w \in CndThreads : w = cth[t].old
  BY <1>1 DEF CndInv, DequeueKnows, Knows
<1>3. PICK A : A = IF cth[t].all THEN Locals("load", cth[t].on, 0, 0, TRUE) ELSE Quiet(After(t))
  OBVIOUS
<1>4. cth' = [cth EXCEPT ![t] = A, ![w] = Quiet("relock")]
  BY <1>2, <1>3 DEF cnd_poke
<1>5. cth[t].on \in Conds /\ cth[t].all \in BOOLEAN
  BY StateIs
<1>6. CASE cth[t].all
  <2>1. PICK c \in Conds : c = cth[t].on
    BY <1>5
  <2>2. A = Locals("load", c, 0, 0, TRUE)
    BY <1>3, <1>6, <2>1
  <2>3. "load" \in CndPcs /\ 0 \in CndThreads \cup {0} /\ 0 \in CndRecs /\ TRUE \in BOOLEAN
    BY DEF CndPcs, CndRecs
  <2>4. A \in CndLocals
    BY Zenon, <2>2, <2>3, LocalsAre
  <2>5. A.pc = "load" /\ A.on = c /\ A.all = TRUE
    BY <2>2 DEF Locals
  <2> QED
    BY <1>1, <1>2, <1>4, <2>1, <2>4, <2>5 DEF PokeParts
<1>7. CASE ~cth[t].all
  <2>1. PICK to \in {"leave", "idle"} : to = After(t) /\ (to = "leave" => cmtx = t)
    BY DEF After
  <2>2. A \in CndLocals /\ A.pc = to /\ A.on = Shared
    BY <1>3, <1>7, <2>1, QuietIs DEF CndPcs
  <2>3. cth[t].on = Shared
    BY <1>7 DEF CndInv, Holders
  <2> QED
    BY <1>1, <1>2, <1>4, <2>1, <2>2, <2>3 DEF PokeParts
<1> QED
  BY <1>5, <1>6, <1>7

LEMMA PokeKeeps ==
  ASSUME CndInv, NEW t \in CndThreads, cnd_poke(t)
  PROVE  CndInv'
<1>1. PICK w \in CndThreads, A \in CndLocals : PokeParts(t, w, A)
  BY PokeIs
<1>2. /\ cth[t].pc = "poke" /\ w = cth[t].old /\ cth[w].pc = "sleep" /\ t # w
      /\ UNCHANGED <<cond, cnext, cmtx, items>>
      /\ A.pc \in {"load", "leave", "idle"} /\ (A.pc = "leave" => cmtx = t)
      /\ A.on = cth[t].on /\ (A.on # Shared => A.pc = "load" /\ A.all = TRUE)
  BY <1>1 DEF PokeParts
<1>3. PICK B \in CndLocals : B = Quiet("relock") /\ B.pc = "relock" /\ B.on = Shared
  BY QuietIs DEF CndPcs
<1>4. /\ cth' \in [CndThreads -> CndLocals] /\ cth'[t] = A /\ cth'[w] = B
      /\ \A u \in CndThreads : u # t /\ u # w => cth'[u] = cth[u]
  <2>1. cth \in [CndThreads -> CndLocals] /\ cth' = [cth EXCEPT ![t] = A, ![w] = B] /\ t # w
    BY <1>1, <1>3 DEF CndInv, CndTypes, PokeParts
  <2> QED
    BY <2>1
<1>5. CndTypes'
  BY <1>2, <1>4 DEF CndInv, CndTypes
<1>6. /\ Signalling(t) /\ (Signalling(t)' <=> A.pc = "load") /\ ~Signalling(w) /\ ~Signalling(w)'
      /\ \A u \in CndThreads : u # t /\ u # w => (Signalling(u)' <=> Signalling(u))
  BY <1>2, <1>3, <1>4 DEF Signalling
<1>7. Holders'
  <2>1. ASSUME NEW u \in CndThreads
        PROVE  /\ cth'[u].pc \in {"take", "bring", "leave", "push", "unlock"} => cmtx' = u
               /\ cth'[u].pc \in {"push", "unlock"} => items' = 0
               /\ cth'[u].pc = "push" => cnext'[u] # EX
               /\ cth'[u].on # Shared => cth'[u].on = u /\ cmtx' = u /\ cth'[u].all /\ Signalling(u)' /\ cond'[Shared] = EX
    <3>1. CASE u = t
      <4>1. cth[t].on # Shared => cth[t].on = t /\ cmtx = t /\ cond[Shared] = EX
        BY DEF CndInv, Holders
      <4> QED
        BY <1>2, <1>4, <1>6, <3>1, <4>1
    <3>2. CASE u = w
      BY <1>3, <1>4, <3>2
    <3>3. CASE u # t /\ u # w
      BY <1>2, <1>4, <1>6, <3>3 DEF CndInv, Holders
    <3> QED
      BY <3>1, <3>2, <3>3
  <2> QED
    BY <2>1 DEF Holders
<1>8. ASSUME NEW u \in CndThreads, u # t, Signalling(u) PROVE cmtx = u /\ cth[u].pc = "load"
  BY <1>2, <1>6, <1>8 DEF CndInv, OneDequeues
<1>9. OneDequeues'
  <2>1. ASSUME NEW u \in CndThreads, NEW v \in CndThreads, u # v, Signalling(u)', Signalling(v)'
        PROVE  (cmtx' = u /\ cth'[u].pc = "load") \/ (cmtx' = v /\ cth'[v].pc = "load")
    <3>1. u # w /\ v # w
      BY <1>6, <2>1
    <3>2. CASE u = t
      BY <1>2, <1>4, <1>6, <1>8, <2>1, <3>1, <3>2
    <3>3. CASE u # t
      BY <1>2, <1>4, <1>6, <1>8, <2>1, <3>1, <3>3
    <3> QED
      BY <3>2, <3>3
  <2> QED
    BY <2>1 DEF OneDequeues
<1>10. CopiesEmptied'
  <2>1. ASSUME NEW u \in CndThreads PROVE cond'[u] # EX /\ (cond'[u] # 0 => Signalling(u)' /\ cth'[u].on = u)
    <3>1. cond[u] # EX /\ (cond[u] # 0 => Signalling(u) /\ cth[u].on = u) /\ u # Shared /\ cond'[u] = cond[u]
      BY <1>2, ThreadIs DEF CndInv, CopiesEmptied
    <3>2. CASE u = t
      BY <1>2, <1>4, <1>6, <3>1, <3>2
    <3>3. CASE u # t
      BY <1>4, <1>6, <3>1, <3>3
    <3> QED
      BY <3>2, <3>3
  <2> QED
    BY <2>1 DEF CopiesEmptied
<1>11. ItemsMinded'
  <2>1. PICK S : S = Sources
    OBVIOUS
  <2>2. PICK T : T = {u \in CndThreads : cth'[u].pc \in SrcPcs}
    OBVIOUS
  <2>3. IsFiniteSet(S) /\ Cardinality(S) \in Nat
    BY <2>1, SourcesCount
  <2>4. Cardinality(Sources)' = Cardinality(T)
    BY <2>2 DEF Sources
  <2>5. t \in S /\ w \notin S /\ w \in T /\ \A u \in CndThreads : u # t /\ u # w => (u \in T <=> u \in S)
    BY <1>2, <1>3, <1>4, <2>1, <2>2 DEF Sources, SrcPcs
  <2>6. S \subseteq CndThreads /\ T \subseteq CndThreads
    BY <2>1, <2>2 DEF Sources
  <2>7. Cardinality(T) >= Cardinality(S)
    <3>1. CASE t \in T
      <4>1. T = S \cup {w}
        BY <2>5, <2>6, <3>1
      <4>2. Cardinality(T) = Cardinality(S) + 1
        BY <2>3, <2>5, <4>1, FS_AddElement
      <4> QED
        BY <2>3, <4>2
    <3>2. CASE t \notin T
      <4>1. T = (S \ {t}) \cup {w}
        BY <1>2, <2>5, <2>6, <3>2
      <4>2. IsFiniteSet(S \ {t}) /\ Cardinality(S \ {t}) = Cardinality(S) - 1
        BY <2>3, <2>5, FS_RemoveElement
      <4>3. w \notin S \ {t}
        BY <2>5
      <4>4. Cardinality(T) = Cardinality(S \ {t}) + 1
        BY <4>1, <4>2, <4>3, FS_AddElement
      <4> QED
        BY <2>3, <4>2, <4>4
    <3> QED
      BY <3>1, <3>2
  <2>8. Cardinality(T) \in Nat
    <3>1. T \in SUBSET CndThreads /\ IsFiniteSet(CndThreads)
      BY <2>6, CndAssumption
    <3>2. IsFiniteSet(T)
      BY <3>1, FS_Subset
    <3> QED
      BY <3>2, FS_CardinalityType
  <2>9. items \in Nat /\ (cond[Shared] \in CndThreads => items <= Cardinality(S))
    BY <2>1, StateIs DEF CndInv, ItemsMinded
  <2>10. cond[Shared] \in CndThreads => items <= Cardinality(T)
    BY <2>3, <2>7, <2>8, <2>9
  <2> QED
    BY <1>2, <2>4, <2>10 DEF ItemsMinded
<1>12. PICK q : Stacks(q) /\ Accounted(q) /\ DequeueKnows(q)
  BY DEF CndInv
<1>13. Stacks(q)'
  BY <1>2, <1>12 DEF Stacks, Disjoint, Chain
<1>14. Accounted(q)'
  <2>1. \A d \in Conds, u \in CndThreads : Stacked(q, d, u)' <=> Stacked(q, d, u)
    BY DEF Stacked
  <2>2. \A u \in CndThreads : Waits(u)' <=> Waits(u) /\ u # w
    BY <1>2, <1>3, <1>4 DEF Waits
  <2>3. Poking(t, w) /\ \A u \in CndThreads : u # t => ~Poking(u, w)
    BY <1>2, <1>8 DEF Poking, Signalling
  <2>4. \A u, v \in CndThreads : Poking(u, v)' <=> Poking(u, v) /\ u # t
    BY <1>2, <1>3, <1>4 DEF Poking
  <2>5. \A d \in Conds : ~Stacked(q, d, w)
    BY <1>12, <2>3 DEF Accounted
  <2>6. \A v \in CndThreads : Poking(t, v) => v = w
    BY <1>2 DEF Poking
  <2>7. ASSUME NEW u \in CndThreads
        PROVE  /\ \A d \in Conds : Stacked(q, d, u)' => Waits(u)' /\ \A v \in CndThreads : ~Poking(v, u)'
               /\ Waits(u)' => (\E d \in Conds : Stacked(q, d, u)') \/ (\E v \in CndThreads : Poking(v, u)')
               /\ \A v \in CndThreads : Poking(v, u)' => Waits(u)'
    <3>1. CASE u = w
      BY <2>1, <2>2, <2>3, <2>4, <2>5, <3>1
    <3>2. CASE u # w
      <4>1. /\ \A d \in Conds : Stacked(q, d, u) => Waits(u) /\ \A v \in CndThreads : ~Poking(v, u)
            /\ Waits(u) => (\E d \in Conds : Stacked(q, d, u)) \/ (\E v \in CndThreads : Poking(v, u))
            /\ \A v \in CndThreads : Poking(v, u) => Waits(u)
        BY <1>12 DEF Accounted
      <4>2. \A v \in CndThreads : Poking(v, u)' <=> Poking(v, u)
        BY <2>4, <2>6, <3>2
      <4>3. Waits(u)' <=> Waits(u)
        BY <2>2, <3>2
      <4> QED
        BY <2>1, <4>1, <4>2, <4>3
    <3> QED
      BY <3>1, <3>2
  <2> QED
    BY <2>7 DEF Accounted
<1>15. ASSUME NEW u \in CndThreads PROVE Knows(q, cth[u])'
  <2>1. CASE u = t
    BY <1>2, <1>4, <2>1 DEF Knows
  <2>2. CASE u = w
    BY <1>3, <1>4, <2>2 DEF Knows
  <2>3. CASE u # t /\ u # w
    <3>1. cth'[u] = cth[u] /\ Knows(q, cth[u])
      BY <1>4, <1>12, <2>3 DEF DequeueKnows
    <3> QED
      BY <1>2, <3>1 DEF Knows, Stacked
  <2> QED
    BY <2>1, <2>2, <2>3
<1> QED
  BY <1>5, <1>7, <1>9, <1>10, <1>11, <1>13, <1>14, <1>15 DEF CndInv, DequeueKnows

-----------------------------------------------------------------------------
(* cnd_destroy() takes the whole stack.                                    *)
LEMMA TakenStacks ==
  ASSUME CndInv, NEW t \in CndThreads, cth[t].pc = "bring", cmtx = t, cond[Shared] # EX,
         cond' = [cond EXCEPT ![Shared] = EX, ![t] = cond[Shared]], cnext' = cnext,
         NEW R \in CndLocals, Moves(t, R), R.pc = "load",
         NEW q, Stacks(q), Accounted(q), DequeueKnows(q),
         NEW p, p = [q EXCEPT ![Shared] = <<>>, ![t] = q[Shared]]
  PROVE  Stacks(p)' /\ Accounted(p)' /\ DequeueKnows(p)'
<1>1. /\ cth'[t] = R /\ \A u \in CndThreads : u # t => cth'[u] = cth[u]
  BY OneMoves DEF CndInv
<1>2. q \in [Conds -> Seq(CndThreads)] /\ Shared \in Conds /\ t \in Conds /\ t # Shared /\ <<>> \in Seq(CndThreads)
  BY ThreadIs DEF Stacks, Conds
<1>3. cond \in [Conds -> CndRecs]
  BY DEF CndInv, CndTypes
<1>4. cond'[Shared] = EX /\ cond'[t] = cond[Shared] /\ \A d \in Conds : d # Shared /\ d # t => cond'[d] = cond[d]
  BY <1>2, <1>3
<1>5. PICK o \in Seq(CndThreads) : o = q[Shared]
  BY <1>2
<1>6. /\ p \in [Conds -> Seq(CndThreads)] /\ p[Shared] = <<>> /\ p[t] = o
      /\ \A d \in Conds : d # Shared /\ d # t => p[d] = q[d]
  <2>1. p = [q EXCEPT ![Shared] = <<>>, ![t] = o]
    BY <1>5
  <2> QED
    BY <1>2, <2>1
<1>7. q[t] = <<>>
  <2>1. ~Signalling(t)
    BY DEF Signalling
  <2>2. cond[t] = 0
    BY <2>1 DEF CndInv, CopiesEmptied
  <2>3. PICK e \in Seq(CndThreads) : e = q[t]
    BY <1>2
  <2>4. Chain(e, 0, cnext)
    BY <1>2, <2>2, <2>3 DEF Stacks
  <2>5. ASSUME e # <<>> PROVE FALSE
    <3>1. 0 = e[1] /\ 1 \in 1..Len(e)
      BY <2>4, <2>5 DEF Chain
    <3>2. e[1] \in CndThreads
      BY <3>1
    <3> QED
      BY <3>1, <3>2, ThreadIs
  <2> QED
    BY <2>3, <2>5
<1>8. ASSUME NEW d \in Conds PROVE Chain(p[d], cond[d], cnext)'
  <2>1. CASE d = Shared
    <3>1. \A j \in 1..Len(<<>>) - 1 : FALSE
      OBVIOUS
    <3> QED
      BY <1>4, <1>6, <2>1, <3>1 DEF Chain
  <2>2. CASE d = t
    <3>1. Chain(o, cond[Shared], cnext)
      BY <1>2, <1>5 DEF Stacks
    <3> QED
      BY <1>4, <1>6, <2>2, <3>1 DEF Chain
  <2>3. CASE d # Shared /\ d # t
    <3>1. Chain(q[d], cond[d], cnext)
      BY DEF Stacks
    <3> QED
      BY <1>4, <1>6, <2>3, <3>1 DEF Chain
  <2> QED
    BY <2>1, <2>2, <2>3
<1>9. \A a, d \in Conds : \A j \in 1..Len(q[a]), k \in 1..Len(q[d]) : q[a][j] = q[d][k] => a = d /\ j = k
  BY DEF Stacks, Disjoint
<1>10. ASSUME NEW d \in Conds, NEW j \in 1..Len(p[d])
       PROVE  d # Shared /\ \E e \in Conds : p[d] = q[e] /\ e = IF d = t THEN Shared ELSE d
  <2>1. d # Shared
    <3>1. CASE d = Shared
      <4>1. j \in 1..Len(<<>>)
        BY <1>6, <1>10, <3>1
      <4> QED
        BY <4>1
    <3> QED
      BY <3>1
  <2> QED
    BY <1>2, <1>5, <1>6, <2>1
<1>11. Disjoint(p)
  <2>1. ASSUME NEW a \in Conds, NEW d \in Conds, NEW j \in 1..Len(p[a]), NEW k \in 1..Len(p[d]), p[a][j] = p[d][k]
        PROVE  a = d /\ j = k
    <3>1. PICK b \in Conds : p[a] = q[b] /\ b = IF a = t THEN Shared ELSE a
      BY <1>10
    <3>2. PICK e \in Conds : p[d] = q[e] /\ e = IF d = t THEN Shared ELSE d
      BY <1>10
    <3>3. a # Shared /\ d # Shared
      BY <1>10
    <3>4. j \in 1..Len(q[b]) /\ k \in 1..Len(q[e]) /\ q[b][j] = q[e][k]
      BY <2>1, <3>1, <3>2
    <3>5. b = e /\ j = k
      BY <1>9, <3>4
    <3> QED
      BY <3>1, <3>2, <3>3, <3>5
  <2> QED
    BY <2>1 DEF Disjoint
<1>12. Stacks(p)'
  BY <1>6, <1>8, <1>11 DEF Stacks, Disjoint
<1>13. ASSUME NEW u \in CndThreads
       PROVE  /\ ~Stacked(p, Shared, u) /\ ~Stacked(q, t, u) /\ (Stacked(p, t, u) <=> Stacked(q, Shared, u))
              /\ \A d \in Conds : d # Shared /\ d # t => (Stacked(p, d, u) <=> Stacked(q, d, u))
  <2>1. ~\E j \in 1..Len(<<>>) : <<>>[j] = u
    <3>1. 1..Len(<<>>) = {}
      OBVIOUS
    <3> QED
      BY <3>1
  <2>2. ~Stacked(p, Shared, u) /\ ~Stacked(q, t, u)
    BY <1>6, <1>7, <2>1 DEF Stacked
  <2>3. Stacked(p, t, u) <=> Stacked(q, Shared, u)
    BY <1>5, <1>6 DEF Stacked
  <2>4. \A d \in Conds : d # Shared /\ d # t => (Stacked(p, d, u) <=> Stacked(q, d, u))
    BY <1>6 DEF Stacked
  <2> QED
    BY <2>2, <2>3, <2>4
<1>14. \A u \in CndThreads : Waits(u)' <=> Waits(u)
  BY <1>1 DEF Waits
<1>15. \A u, v \in CndThreads : Poking(u, v)' <=> Poking(u, v)
  BY <1>1 DEF Poking
<1>16. Accounted(p)'
  <2>1. ASSUME NEW u \in CndThreads
        PROVE  /\ \A d \in Conds : Stacked(p, d, u)' => Waits(u)' /\ \A v \in CndThreads : ~Poking(v, u)'
               /\ Waits(u)' => (\E d \in Conds : Stacked(p, d, u)') \/ (\E v \in CndThreads : Poking(v, u)')
               /\ \A v \in CndThreads : Poking(v, u)' => Waits(u)'
    <3>1. /\ \A d \in Conds : Stacked(q, d, u) => Waits(u) /\ \A v \in CndThreads : ~Poking(v, u)
          /\ Waits(u) => (\E d \in Conds : Stacked(q, d, u)) \/ (\E v \in CndThreads : Poking(v, u))
          /\ \A v \in CndThreads : Poking(v, u) => Waits(u)
      BY DEF Accounted
    <3>2. \A d \in Conds : Stacked(p, d, u)' <=> Stacked(p, d, u)
      BY DEF Stacked
    <3>3. (\E d \in Conds : Stacked(p, d, u)) <=> (\E d \in Conds : Stacked(q, d, u))
      BY <1>2, <1>13
    <3> QED
      BY <1>14, <1>15, <3>1, <3>2, <3>3
  <2> QED
    BY <2>1 DEF Accounted
<1>17. ASSUME NEW u \in CndThreads PROVE Knows(p, cth[u])'
  <2>1. CASE u = t
    BY <1>1, <2>1 DEF Knows
  <2>2. CASE u # t
    <3>1. cth'[u] = cth[u] /\ Knows(q, cth[u])
      BY <1>1, <2>2 DEF DequeueKnows
    <3>2. cth[u].on = Shared
      BY <2>2 DEF CndInv, Holders
    <3> QED
      BY <1>4, <3>1, <3>2 DEF Knows
  <2> QED
    BY <2>1, <2>2
<1> QED
  BY <1>12, <1>16, <1>17 DEF DequeueKnows
LEMMA DestroyKeeps ==
  ASSUME CndInv, NEW t \in CndThreads, cnd_destroy(t)
  PROVE  CndInv'
<1>1. /\ cth[t].pc = "bring" /\ cond[Shared] # EX /\ UNCHANGED <<cnext, cmtx, items>> /\ cmtx = t
      /\ cond' = [cond EXCEPT ![Shared] = EX, ![t] = cond[Shared]]
  BY DEF cnd_destroy, CndInv, Holders
<1>2. PICK R : R = Locals("load", t, 0, 0, TRUE)
  OBVIOUS
<1>3. R \in CndLocals
  <2>1. "load" \in CndPcs /\ t \in Conds /\ 0 \in CndThreads \cup {0} /\ 0 \in CndRecs /\ TRUE \in BOOLEAN
    BY DEF CndPcs, Conds, CndRecs
  <2> QED
    BY Zenon, <1>2, <2>1, LocalsAre
<1>4. R.pc = "load" /\ R.on = t /\ R.all = TRUE
  BY <1>2 DEF Locals
<1>5. Moves(t, R)
  BY <1>2 DEF cnd_destroy, Moves
<1>6. /\ cth' \in [CndThreads -> CndLocals] /\ cth'[t] = R
      /\ \A u \in CndThreads : u # t => cth'[u] = cth[u]
  BY <1>3, <1>5, OneMoves DEF CndInv
<1>7. PICK q : Stacks(q) /\ Accounted(q) /\ DequeueKnows(q)
  BY DEF CndInv
<1>8. PICK p : p = [q EXCEPT ![Shared] = <<>>, ![t] = q[Shared]]
  OBVIOUS
<1>9. Stacks(p)' /\ Accounted(p)' /\ DequeueKnows(p)'
  BY <1>1, <1>3, <1>4, <1>5, <1>7, <1>8, TakenStacks
<1>10. cond \in [Conds -> CndRecs] /\ Shared \in Conds /\ t \in Conds /\ EX \in CndRecs /\ cond[Shared] \in CndRecs /\ t # Shared
  BY StateIs, ThreadIs DEF CndInv, CndTypes, Conds, CndRecs
<1>11. /\ cond' \in [Conds -> CndRecs] /\ cond'[Shared] = EX /\ cond'[t] = cond[Shared]
       /\ \A d \in Conds : d # Shared /\ d # t => cond'[d] = cond[d]
  <2>1. PICK r \in CndRecs : r = cond[Shared]
    BY <1>10
  <2>2. cond' = [cond EXCEPT ![Shared] = EX, ![t] = r]
    BY <1>1, <2>1
  <2> QED
    BY <1>10, <2>1, <2>2
<1>12. CndTypes'
  BY <1>1, <1>6, <1>11 DEF CndInv, CndTypes
<1>13. ~Signalling(t) /\ Signalling(t)' /\ \A u \in CndThreads : u # t => (Signalling(u)' <=> Signalling(u))
  BY <1>1, <1>4, <1>6 DEF Signalling
<1>14. Holders'
  <2>1. ASSUME NEW u \in CndThreads, u # t PROVE cth[u].on = Shared /\ cth[u].pc \notin {"take", "bring", "leave", "push", "unlock"}
    BY <1>1, <2>1 DEF CndInv, Holders
  <2> QED
    BY <1>1, <1>4, <1>6, <1>11, <1>13, <2>1 DEF Holders
<1>15. OneDequeues'
  <2>1. ASSUME NEW u \in CndThreads, NEW v \in CndThreads, u # v, Signalling(u)', Signalling(v)'
        PROVE  (cmtx' = u /\ cth'[u].pc = "load") \/ (cmtx' = v /\ cth'[v].pc = "load")
    <3>1. CASE u = t \/ v = t
      BY <1>1, <1>4, <1>6, <3>1
    <3>2. CASE u # t /\ v # t
      BY <1>1, <1>6, <1>13, <2>1, <3>2 DEF CndInv, OneDequeues
    <3> QED
      BY <3>1, <3>2
  <2> QED
    BY <2>1 DEF OneDequeues
<1>16. CopiesEmptied'
  <2>1. ASSUME NEW u \in CndThreads PROVE cond'[u] # EX /\ (cond'[u] # 0 => Signalling(u)' /\ cth'[u].on = u)
    <3>1. CASE u = t
      BY <1>1, <1>4, <1>6, <1>11, <1>13, <3>1
    <3>2. CASE u # t
      <4>1. cond[u] # EX /\ (cond[u] # 0 => Signalling(u) /\ cth[u].on = u) /\ u \in Conds /\ u # Shared
        BY ThreadIs DEF CndInv, CopiesEmptied, Conds
      <4> QED
        BY <1>6, <1>11, <1>13, <3>2, <4>1
    <3> QED
      BY <3>1, <3>2
  <2> QED
    BY <2>1 DEF CopiesEmptied
<1>17. ItemsMinded'
  BY <1>11, ThreadIs DEF ItemsMinded
<1> QED
  BY <1>9, <1>12, <1>14, <1>15, <1>16, <1>17 DEF CndInv

-----------------------------------------------------------------------------
LEMMA CndInvAtStart ==
  ASSUME CndInit
  PROVE  CndInv
<1>1. PICK R \in CndLocals : R = Quiet("idle") /\ R.pc = "idle" /\ R.on = Shared
  BY QuietIs DEF CndPcs
<1>2. cth = [u \in CndThreads |-> R] /\ \A u \in CndThreads : cth[u] = R
  BY <1>1 DEF CndInit
<1>3. cond = [c \in Conds |-> 0] /\ cnext = [u \in CndThreads |-> 0] /\ cmtx = 0 /\ items = 0
  BY DEF CndInit, Conds
<1>4. CndTypes
  BY <1>2, <1>3 DEF CndTypes, CndRecs
<1>5. \A u \in CndThreads : ~Signalling(u) /\ ~Waits(u)
  BY <1>1, <1>2 DEF Signalling, Waits
<1>6. Holders
  BY <1>1, <1>2 DEF Holders
<1>7. OneDequeues
  BY <1>5 DEF OneDequeues
<1>8. CopiesEmptied
  BY <1>3 DEF CopiesEmptied, Conds, EX
<1>9. ItemsMinded
  <2>1. cond[Shared] = 0
    BY <1>3 DEF Conds
  <2> QED
    BY <2>1, ThreadIs DEF ItemsMinded
<1>10. PICK q : q = [c \in Conds |-> <<>>]
  OBVIOUS
<1>11. q \in [Conds -> Seq(CndThreads)] /\ (\A c \in Conds : q[c] = <<>>) /\ 1..Len(<<>>) = {} /\ 1..Len(<<>>) - 1 = {}
  BY <1>10
<1>12. Stacks(q)
  <2>1. Disjoint(q)
    BY <1>11 DEF Disjoint
  <2>2. \A c \in Conds : Chain(q[c], cond[c], cnext)
    BY <1>3, <1>11 DEF Chain
  <2> QED
    BY <1>11, <2>1, <2>2 DEF Stacks
<1>13. Accounted(q)
  <2>1. \A c \in Conds, u \in CndThreads : ~Stacked(q, c, u)
    BY <1>11 DEF Stacked
  <2>2. \A u, v \in CndThreads : ~Poking(u, v)
    BY <1>1, <1>2 DEF Poking
  <2> QED
    BY <1>5, <2>1, <2>2 DEF Accounted
<1>14. DequeueKnows(q)
  BY <1>1, <1>2 DEF DequeueKnows, Knows
<1> QED
  BY <1>4, <1>6, <1>7, <1>8, <1>9, <1>12, <1>13, <1>14 DEF CndInv
LEMMA CndInvStays ==
  ASSUME CndInv, ~Racing, [CndNext]_cndVars
  PROVE  CndInv'
<1>1. CASE UNCHANGED cndVars
  <2>1. cond' = cond /\ cnext' = cnext /\ cmtx' = cmtx /\ cth' = cth /\ items' = items
    BY <1>1 DEF cndVars
  <2>2. CndTypes' /\ Holders' /\ OneDequeues' /\ CopiesEmptied'
    BY <2>1 DEF CndInv, CndTypes, Holders, OneDequeues, CopiesEmptied, Signalling
  <2>3. ItemsMinded'
    BY <2>1 DEF CndInv, ItemsMinded, Sources
  <2>4. PICK q : Stacks(q) /\ Accounted(q) /\ DequeueKnows(q)
    BY DEF CndInv
  <2>5. Stacks(q)'
    BY <2>1, <2>4 DEF Stacks, Disjoint, Chain
  <2>6. Accounted(q)'
    BY <2>1, <2>4 DEF Accounted, Stacked, Poking, Waits
  <2>7. DequeueKnows(q)'
    BY <2>1, <2>4 DEF DequeueKnows, Knows, Stacked
  <2> QED
    BY <2>2, <2>3, <2>5, <2>6, <2>7 DEF CndInv
<1>2. CASE CndNext
  <2>1. PICK t \in CndThreads : TakeMtx(t) \/ CndStep(t) \/ cnd_destroy(t)
    BY <1>2 DEF CndNext
  <2>2. CASE CndStep(t)
    <3>1. CASE \E all, locked \in BOOLEAN : Bring(t, all, locked)
      BY <3>1, BringKeeps
    <3>2. CASE DqLoad(t) \/ DqNext(t) \/ DqCas(t) \/ cnd_poke(t)
      BY <3>2, DqLoadKeeps, DqNextKeeps, DqCasKeeps, PokeKeeps
    <3>3. CASE Take(t) \/ Leave(t) \/ cnd_wait(t) \/ Push(t) \/ UnlockAndSleep(t) \/ Brimful(t)
      BY <3>3, TakeKeeps, LeaveKeeps, WaitKeeps, PushKeeps, UnlockKeeps, BrimfulKeeps
    <3> QED
      BY <2>2, <3>1, <3>2, <3>3 DEF CndStep
  <2> QED
    BY <2>1, <2>2, TakeMtxKeeps, DestroyKeeps
<1> QED
  BY <1>1, <1>2

(* Following the links from c is walking along its sequence: Linked(c),    *)
(* which is chosen by its recursion, is the sequence followed by zeroes.   *)
Deep(x, r) == [n \in Depths |-> IF n < Len(x) THEN x[n + 1] ELSE IF n = 0 THEN r ELSE 0]
Follows(g, r) == g = [n \in Depths |-> IF n = 0 THEN r ELSE Down[g[n - 1]]]
LEMMA DeepFollows ==
  ASSUME CndInv, NEW x \in Seq(CndThreads), NEW r, Chain(x, r, cnext), NEW f, f = Deep(x, r)
  PROVE  Follows(f, r)
<1>1. Cardinality(CndThreads) \in Nat
  BY CndAssumption, FS_CardinalityType
<1>2. \A n \in Depths : n \in Nat /\ f[n] = IF n < Len(x) THEN x[n + 1] ELSE IF n = 0 THEN r ELSE 0
  BY <1>1 DEF Deep, Depths
<1>3. (\A u \in CndThreads : Down[u] = cnext[u]) /\ Down[0] = 0 /\ Down[EX] = 0
  BY ThreadIs DEF Down
<1>4. Len(x) \in Nat /\ (x = <<>> <=> Len(x) = 0) /\ \A j \in 1..Len(x) : x[j] \in CndThreads
  OBVIOUS
<1>5. ASSUME NEW n \in Depths PROVE f[n] = IF n = 0 THEN r ELSE Down[f[n - 1]]
  <2>1. CASE n = 0
    <3>1. CASE Len(x) = 0
      BY <1>2, <1>4, <2>1, <3>1
    <3>2. CASE Len(x) # 0
      BY <1>2, <1>4, <2>1, <3>2 DEF Chain
    <3> QED
      BY <3>1, <3>2
  <2>2. CASE n # 0
    <3>1. n - 1 \in Depths /\ n \in Nat /\ n - 1 \in Nat /\ (n - 1) + 1 = n
      BY <1>1, <2>2 DEF Depths
    <3>2. CASE n < Len(x)
      <4>1. f[n] = x[n + 1] /\ f[n - 1] = x[n]
        BY <1>2, <1>4, <3>1, <3>2
      <4>2. n \in 1..Len(x) - 1 /\ n \in 1..Len(x)
        BY <1>4, <2>2, <3>1, <3>2
      <4> QED
        BY <1>3, <1>4, <2>2, <4>1, <4>2 DEF Chain
    <3>3. CASE n = Len(x)
      <4>1. f[n] = 0 /\ f[n - 1] = x[Len(x)]
        BY <1>2, <1>4, <2>2, <3>1, <3>3
      <4>2. Len(x) \in 1..Len(x) /\ x # <<>>
        BY <1>4, <2>2, <3>1, <3>3
      <4> QED
        BY <1>3, <1>4, <2>2, <4>1, <4>2 DEF Chain
    <3>4. CASE n > Len(x)
      <4>1. f[n] = 0 /\ f[n - 1] = IF n - 1 = 0 THEN r ELSE 0
        BY <1>2, <1>4, <2>2, <3>1, <3>4
      <4>2. n - 1 = 0 => r \in {0, EX}
        BY <1>4, <3>1, <3>4 DEF Chain
      <4> QED
        BY <1>3, <2>2, <4>1, <4>2
    <3> QED
      BY <1>4, <3>1, <3>2, <3>3, <3>4
  <2> QED
    BY <2>1, <2>2
<1> QED
  BY <1>5 DEF Follows, Deep
LEMMA FollowsOnce ==
  ASSUME NEW r, NEW f, Follows(f, r), NEW g, Follows(g, r)
  PROVE  f = g
<1>1. Cardinality(CndThreads) \in Nat
  BY CndAssumption, FS_CardinalityType
<1>2. \A n \in Depths : f[n] = IF n = 0 THEN r ELSE Down[f[n - 1]]
  BY DEF Follows
<1>3. \A n \in Depths : g[n] = IF n = 0 THEN r ELSE Down[g[n - 1]]
  BY DEF Follows
<1>4. PICK Bad : Bad = {n \in Depths : f[n] # g[n]}
  OBVIOUS
<1>5. ASSUME Bad # {} PROVE FALSE
  <2>1. Bad \in SUBSET Nat
    BY <1>1, <1>4 DEF Depths
  <2>2. PICK k \in Bad : \A l \in Bad : k <= l
    BY <1>5, <2>1, LeastNumber
  <2>3. k \in Depths /\ f[k] # g[k]
    BY <1>4, <2>2
  <2>4. k # 0
    BY <1>2, <1>3, <2>3
  <2>5. k - 1 \in Depths /\ ~(k <= k - 1)
    BY <1>1, <2>3, <2>4 DEF Depths
  <2>6. k - 1 \notin Bad
    BY <2>2, <2>5
  <2>7. f[k - 1] = g[k - 1]
    BY <1>4, <2>5, <2>6
  <2> QED
    BY <1>2, <1>3, <2>3, <2>4, <2>7
<1>6. \A n \in Depths : f[n] = g[n]
  BY <1>4, <1>5
<1>7. f = [n \in Depths |-> f[n]] /\ g = [n \in Depths |-> g[n]]
  BY DEF Follows
<1> QED
  BY <1>6, <1>7
LEMMA LinkedIs ==
  ASSUME CndInv, NEW q, Stacks(q), NEW c \in Conds
  PROVE  Linked(c) = Deep(q[c], cond[c])
<1>1. PICK x \in Seq(CndThreads) : x = q[c]
  BY DEF Stacks
<1>2. PICK r : r = cond[c]
  OBVIOUS
<1>3. Chain(x, r, cnext)
  BY <1>1, <1>2 DEF Stacks
<1>4. PICK f : f = Deep(x, r)
  OBVIOUS
<1>5. Follows(f, r)
  BY <1>3, <1>4, DeepFollows
<1>6. Follows(Linked(c), r)
  <2>1. \E g : g = [n \in Depths |-> IF n = 0 THEN cond[c] ELSE Down[g[n - 1]]]
    BY <1>2, <1>5 DEF Follows
  <2>2. Linked(c) = CHOOSE g : g = [n \in Depths |-> IF n = 0 THEN cond[c] ELSE Down[g[n - 1]]]
    BY DEF Linked
  <2> QED
    BY <1>2, <2>1, <2>2 DEF Follows
<1> QED
  BY <1>1, <1>2, <1>4, <1>5, <1>6, FollowsOnce

(* A stack holds no more records than there are threads.                   *)
LEMMA StackFits ==
  ASSUME NEW q, Stacks(q), NEW c \in Conds
  PROVE  Len(q[c]) <= Cardinality(CndThreads)
<1>1. PICK x \in Seq(CndThreads) : x = q[c]
  BY DEF Stacks
<1>2. \A j, k \in 1..Len(x) : x[j] = x[k] => j = k
  BY <1>1 DEF Stacks, Disjoint
<1>3. x \in [1..Len(x) -> CndThreads] /\ Len(x) \in Nat
  OBVIOUS
<1>4. IsFiniteSet(1..Len(x)) /\ Cardinality(1..Len(x)) = Len(x)
  <2>1. PICK n \in Nat : n = Len(x)
    BY <1>3
  <2>2. 1 \in Int /\ n \in Int
    OBVIOUS
  <2>3. IsFiniteSet(1..n) /\ Cardinality(1..n) = IF 1 > n THEN 0 ELSE n - 1 + 1
    BY <2>2, FS_Interval
  <2>4. Cardinality(1..n) = n
    BY <2>1, <2>3
  <2> QED
    BY <2>1, <2>3, <2>4
<1>5. IsFiniteSet(CndThreads) /\ Cardinality(CndThreads) \in Nat
  BY CndAssumption, FS_CardinalityType
<1>6. ASSUME Cardinality(CndThreads) < Len(x) PROVE FALSE
  <2>1. PICK D : D = 1..Len(x)
    OBVIOUS
  <2>2. \E j, k \in D : j # k /\ x[j] = x[k]
    BY <1>3, <1>4, <1>5, <1>6, <2>1, FS_PigeonHole
  <2> QED
    BY <1>2, <2>1, <2>2
<1> QED
  BY <1>1, <1>3, <1>5, <1>6

(* The places of a record are those in the sequences.                      *)
LEMMA PlacesAre ==
  ASSUME CndInv, NEW q, Stacks(q), NEW t \in CndThreads
  PROVE  /\ (\A c \in Conds : ~Stacked(q, c, t)) => Places(t) = {}
         /\ (\E c \in Conds : Stacked(q, c, t)) => Cardinality(Places(t)) = 1
<1>1. Cardinality(CndThreads) \in Nat
  BY CndAssumption, FS_CardinalityType
<1>2. Places(t) = {cn \in Conds \X Depths : Linked(cn[1])[cn[2]] = t}
  BY DEF Places, Conds
<1>3. ASSUME NEW c \in Conds, NEW n \in Depths
      PROVE  Linked(c)[n] = t <=> n + 1 \in 1..Len(q[c]) /\ q[c][n + 1] = t
  <2>1. PICK x \in Seq(CndThreads) : x = q[c]
    BY DEF Stacks
  <2>2. Chain(x, cond[c], cnext)
    BY <2>1 DEF Stacks
  <2>3. Linked(c)[n] = IF n < Len(x) THEN x[n + 1] ELSE IF n = 0 THEN cond[c] ELSE 0
    BY <2>1, LinkedIs DEF Deep
  <2>4. n \in Nat /\ Len(x) \in Nat /\ (n < Len(x) <=> n + 1 \in 1..Len(x))
    BY <1>1 DEF Depths
  <2>5. CASE n < Len(x)
    BY <2>1, <2>3, <2>4, <2>5
  <2>6. CASE ~(n < Len(x))
    <3>1. n = 0 => cond[c] \in {0, EX}
      <4>1. n = 0 => x = <<>>
        BY <2>4, <2>6
      <4> QED
        BY <2>2, <4>1 DEF Chain
    <3> QED
      BY <2>1, <2>3, <2>4, <2>6, <3>1, ThreadIs
  <2> QED
    BY <2>5, <2>6
<1>4. ASSUME \A c \in Conds : ~Stacked(q, c, t) PROVE Places(t) = {}
  <2>1. ASSUME NEW cn \in Places(t) PROVE FALSE
    <3>1. PICK c \in Conds, n \in Depths : Linked(c)[n] = t
      BY <1>2, <2>1
    <3> QED
      BY <1>3, <1>4, <3>1 DEF Stacked
  <2> QED
    BY <2>1
<1>5. ASSUME NEW c \in Conds, Stacked(q, c, t) PROVE Cardinality(Places(t)) = 1
  <2>1. PICK j \in 1..Len(q[c]) : q[c][j] = t
    BY <1>5 DEF Stacked
  <2>2. Len(q[c]) \in Nat /\ Len(q[c]) <= Cardinality(CndThreads)
    BY StackFits DEF Stacks
  <2>3. PICK n : n = j - 1
    OBVIOUS
  <2>4. n \in Depths /\ n + 1 = j
    BY <1>1, <2>1, <2>2, <2>3 DEF Depths
  <2>5. Linked(c)[n] = t
    BY <1>3, <2>1, <2>4
  <2>6. <<c, n>> \in Places(t)
    BY <1>2, <2>4, <2>5
  <2>7. ASSUME NEW cn \in Places(t) PROVE cn = <<c, n>>
    <3>1. PICK d \in Conds, m \in Depths : cn = <<d, m>> /\ Linked(d)[m] = t
      BY <1>2, <2>7
    <3>2. m + 1 \in 1..Len(q[d]) /\ q[d][m + 1] = q[c][j]
      BY <1>3, <2>1, <3>1
    <3>3. d = c /\ m + 1 = j
      BY <2>1, <3>2 DEF Stacks, Disjoint
    <3>4. m = n
      BY <1>1, <2>3, <3>3 DEF Depths
    <3> QED
      BY <3>1, <3>3, <3>4
  <2>8. PICK y : y = <<c, n>>
    OBVIOUS
  <2>9. Places(t) = {y}
    BY <2>6, <2>7, <2>8
  <2> QED
    BY <2>9, FS_Singleton
<1> QED
  BY <1>4, <1>5

LEMMA CndInvIsSafe ==
  ASSUME CndInv
  PROVE  CndSafe
<1>1. PICK q : Stacks(q) /\ Accounted(q) /\ DequeueKnows(q)
  BY DEF CndInv
<1>2. WaitersListed
  <2>1. ASSUME NEW t \in CndThreads
        PROVE  Cardinality(Places(t)) + Cardinality(PokedBy(t)) = IF Waits(t) THEN 1 ELSE 0
    <3>1. /\ \A c \in Conds : Stacked(q, c, t) => Waits(t) /\ \A u \in CndThreads : ~Poking(u, t)
          /\ Waits(t) => (\E c \in Conds : Stacked(q, c, t)) \/ (\E u \in CndThreads : Poking(u, t))
          /\ \A u \in CndThreads : Poking(u, t) => Waits(t)
      BY <1>1 DEF Accounted
    <3>2. PokedBy(t) = {u \in CndThreads : Poking(u, t)}
      BY DEF PokedBy, Poking
    <3>3. Cardinality({}) = 0
      BY FS_EmptySet
    <3>4. CASE \E c \in Conds : Stacked(q, c, t)
      <4>1. PokedBy(t) = {} /\ Waits(t) /\ Cardinality(Places(t)) = 1
        BY <1>1, <3>1, <3>2, <3>4, PlacesAre
      <4> QED
        BY <3>3, <4>1
    <3>5. CASE \A c \in Conds : ~Stacked(q, c, t)
      <4>1. Cardinality(Places(t)) = 0
        BY <1>1, <3>3, <3>5, PlacesAre
      <4>2. CASE ~Waits(t)
        <5>1. PokedBy(t) = {}
          BY <3>1, <3>2, <4>2
        <5> QED
          BY <3>3, <4>1, <4>2, <5>1
      <4>3. CASE Waits(t)
        <5>1. PICK u \in CndThreads : Poking(u, t)
          BY <3>1, <3>5, <4>3
        <5>2. \A v \in CndThreads : Poking(v, t) => v = u
          BY <5>1 DEF CndInv, OneDequeues, Poking, Signalling
        <5>3. PokedBy(t) = {u}
          BY <3>2, <5>1, <5>2
        <5>4. Cardinality(PokedBy(t)) = 1
          BY <5>3, FS_Singleton
        <5> QED
          BY <4>1, <4>3, <5>4
      <4> QED
        BY <4>2, <4>3
    <3> QED
      BY <3>4, <3>5
  <2> QED
    BY <2>1 DEF WaitersListed
<1>3. SomeoneKnows
  <2>1. ASSUME items > 0, NEW t \in CndThreads, cth[t].pc = "sleep"
        PROVE  \E u \in CndThreads : cth[u].pc \notin {"sleep", "idle"}
    <3>1. (\E c \in Conds : Stacked(q, c, t)) \/ (\E u \in CndThreads : Poking(u, t))
      BY <1>1, <2>1 DEF Accounted, Waits
    <3>2. CASE \E u \in CndThreads : Poking(u, t)
      BY <3>2 DEF Poking
    <3>3. ASSUME NEW c \in Conds, Stacked(q, c, t) PROVE \E u \in CndThreads : cth[u].pc \notin {"sleep", "idle"}
      <4>1. PICK x \in Seq(CndThreads) : x = q[c]
        BY <1>1 DEF Stacks
      <4>2. Chain(x, cond[c], cnext)
        BY <1>1, <4>1 DEF Stacks
      <4>3. PICK j \in 1..Len(x) : x[j] = t
        BY <3>3, <4>1 DEF Stacked
      <4>4. x # <<>> /\ 1 \in 1..Len(x)
        BY <4>3
      <4>5. cond[c] \in CndThreads
        BY <4>2, <4>4 DEF Chain
      <4>6. CASE c = Shared
        <5>1. items <= Cardinality(Sources) /\ items \in Nat
          BY <4>5, <4>6, StateIs DEF CndInv, ItemsMinded
        <5>2. Cardinality(Sources) # 0
          BY <2>1, <5>1
        <5>3. Sources # {}
          BY <5>2, FS_EmptySet
        <5> QED
          BY <5>3 DEF Sources, SrcPcs
      <4>7. CASE c # Shared
        <5>1. c \in CndThreads /\ cond[c] # 0
          BY <4>5, <4>7, ThreadIs DEF Conds
        <5>2. Signalling(c)
          BY <5>1 DEF CndInv, CopiesEmptied
        <5> QED
          BY <5>1, <5>2 DEF Signalling
      <4> QED
        BY <4>6, <4>7
    <3> QED
      BY <3>1, <3>2, <3>3
  <2> QED
    BY <2>1 DEF SomeoneKnows
<1> QED
  BY <1>2, <1>3 DEF CndSafe

(***************************************************************************)
(* lib/cnd.c, for any number of threads: a thread in cnd_wait() is in the  *)
(* stack exactly once or about to be woken by exactly one thread, whatever *)
(* cnd_signal(), cnd_broadcast(), cnd_destroy() and the waits of others do *)
(* between the load, the read of the link and the exchange of dequeue();   *)
(* and no item waits with everyone asleep.  Without the rule that only     *)
(* one thread at a time signals outside of the mutex (~Racing) it is not   *)
(* so.                                                                     *)
(***************************************************************************)
THEOREM CndIsSafe ==
  ASSUME ~Racing
  PROVE  CndSpec => []CndSafe
<1>1. CndInit => CndInv
  BY CndInvAtStart
<1>2. CndInv /\ [CndNext]_cndVars => CndInv'
  BY CndInvStays
<1>3. CndInv => CndSafe
  BY CndInvIsSafe
<1> QED
  BY <1>1, <1>2, <1>3, PTL DEF CndSpec
=============================================================================
