------------------------------- MODULE MCSync -------------------------------
(* Threads and what they share: mutexes, condition variables, joining,      *)
(* thread-specific storage and the queue of lifecycle events; and the boot  *)
(* that starts them, one module at a time.  `part' says which, the others   *)
(* stay as they begin.                                                      *)
EXTENDS Mtx, LcQueue, Cnd, Thrd, Tss, Boot
VARIABLE part

MCRam == {0} \cup (2..25 \ {15})
MCSegments == <<[at |-> 4, filesz |-> 8, memsz |-> 8], [at |-> 6, filesz |-> 1, memsz |-> 3]>>
MCModules == <<<<7, 2>>, <<9, 1>>>>
MCBootScenes == {[low |-> b[1], high |-> b[2], due |-> b[3]] :
    b \in {<<13, 14, 17>>, <<16, 18, 14>>, <<17, 17, 17>>, <<23, 30, 10>>, <<30, 31, 17>>}}

MCJoins == {<<1, 2>>, <<1, 3>>, <<2, 3>>}

syncVars == <<part, vars, lcVars, cndVars, thrdVars, tssVars, bootVars>>
Only(p) ==
    /\ part = p /\ UNCHANGED part
    /\ p # "mtx" => UNCHANGED vars
    /\ p # "lcqueue" => UNCHANGED lcVars
    /\ p # "cnd" => UNCHANGED cndVars
    /\ p # "thrd" => UNCHANGED thrdVars
    /\ p # "tss" => UNCHANGED tssVars
    /\ p # "boot" => UNCHANGED bootVars

SyncInit ==
    /\ part \in {"mtx", "lcqueue", "cnd", "thrd", "tss", "boot"}
    /\ Init /\ LcInit /\ CndInit /\ ThrdInit /\ TssInit /\ BootInit
    /\ part # "boot" => bscene = CHOOSE b \in BootScenes : TRUE
SyncNext ==
    \/ Only("mtx") /\ Next
    \/ Only("lcqueue") /\ LcNext
    \/ Only("cnd") /\ CndNext
    \/ Only("thrd") /\ ThrdNext
    \/ Only("tss") /\ TssNext
    \/ Only("boot") /\ BootNext

(* Each module's fairness: as `part' does not change, a condition on steps  *)
(* of several modules is that of the module at work.                        *)
Worker(t) ==
    \/ Only("mtx") /\ ThreadStep(t)
    \/ Only("cnd") /\ CndStep(t)
    \/ Only("thrd") /\ ThrdStep(t)
Server ==
    \/ Only("mtx") /\ SerStep
    \/ Only("lcqueue") /\ HandlerStep
    \/ Only("boot") /\ BootStep
SyncSpec ==
    /\ SyncInit /\ [][SyncNext]_syncVars
    /\ \A t \in Threads : WF_syncVars(Worker(t)) /\ SF_syncVars(Only("mtx") /\ SerRecv(t))
    /\ WF_syncVars(Server) /\ WF_syncVars(Only("lcqueue") /\ SyncStep)

(* A thread's end, once-only calls and thread-specific values.              *)
ThrdSafe == JoinExact /\ OnceExact /\ TssExact

(* Nobody waits for ever: for a mutex, in a signal to a condition, in       *)
(* thrd_join() or call_once(), for the exit of a client to be applied, or   *)
(* for the boot to end.                                                     *)
SyncProgress ==
    WaiterGetsLock /\ SomeoneGetsLock /\ ExitGetsApplied /\ SignalsEnd /\ CallsReturn /\ BootCompletes
=============================================================================
