-------------------------------- MODULE Proc --------------------------------
(***************************************************************************)
(* Process lifecycle in the root task: fork, exit, fatal signals and       *)
(* waitid() of root/uapi.c and root/sig.c, with their bookkeeping of       *)
(* zombies, waiting threads and children.                                  *)
(*                                                                         *)
(* Every call is handled to its end by the one UAPI thread, so a handler   *)
(* is one step; the thread that made it may leave its receive phase at any *)
(* time to run a signal handler.  Processes have one thread.  Confirms     *)
(* work as Rollback shows.  PIDs are not used twice: alloc_process() does  *)
(* not get past its wraparound.                                            *)
(***************************************************************************)
EXTENDS Naturals, Sequences, FiniteSets, SequencesExt

CONSTANTS
  MaxPid,     \* bound: SNEKS_MAX_PID
  Catchers,   \* processes that catch signals
  Codes,      \* exit statuses
  MaxEntries, \* bound: entries of one thread in waitany_hash
  Victims,    \* processes that are sent fatal signals
  ZombieTargets,  \* those that are sent them after their death, too
  None        \* no process

ASSUME ProcAssumption ==
  /\ MaxPid \in Nat /\ MaxPid >= 1
  /\ Catchers \subseteq 1..MaxPid /\ ZombieTargets \subseteq Victims
  /\ Victims \subseteq 2..MaxPid
  /\ MaxEntries \in Nat \ {0}
  /\ None \notin 1..MaxPid /\ "killed" \notin Codes

VARIABLES
  s,          \* the root task's tables, and the threads it answers: State
  next,       \* next_user_pid
  confirm,    \* zombie to be destroyed when the reply to wait is confirmed
  died        \* history: the status each process died with

procVars == <<s, next, confirm, died>>

Pid == 1..MaxPid
PidOrNone == Pid \cup {None}
Code == Codes \cup {"killed", "none"}

(* What a process' thread is doing: running, asleep in waitid(P_ALL), in   *)
(* waitid(P_PID) for a child, in sigsuspend(), or gone.                    *)
Running == [pc |-> "run", child |-> None]
Gone == [pc |-> "gone", child |-> None]
Thread == [pc : {"run", "any", "pid", "suspend", "gone"}, child : PidOrNone]
Report == [to : Pid, code : Code, call : Thread]

(* The fields of <struct process>: st is free while utcb_area is nil and   *)
(* zombie while threads is empty; wait is wait_tid and anyFlag holds the   *)
(* processes with PF_WAIT_ANY; dead is dead_list, kids is                  *)
(* pid_to_child_hash and anyHash is waitany_hash.  reports is a history of *)
(* what waitid() has told.                                                 *)
State ==
  [st : [Pid -> {"free", "live", "zombie"}], ppid : [Pid -> 0..MaxPid],
   wait : [Pid -> PidOrNone], code : [Pid -> Code], dead : [Pid -> Seq(Pid)],
   kids : SUBSET (Pid \X Pid), anyFlag : SUBSET Pid,
   anyHash : [Pid -> 0..MaxEntries], th : [Pid -> Thread],
   reports : [Pid -> Seq(Report)]]

ProcInit ==
  /\ s = [st |-> [p \in Pid |-> IF p = 1 THEN "live" ELSE "free"],
          ppid |-> [p \in Pid |-> 0], wait |-> [p \in Pid |-> None],
          code |-> [p \in Pid |-> "none"], dead |-> [p \in Pid |-> <<>>],
          kids |-> {}, anyFlag |-> {}, anyHash |-> [p \in Pid |-> 0],
          th |-> [p \in Pid |-> IF p = 1 THEN Running ELSE Gone],
          reports |-> [p \in Pid |-> <<>>]]
  /\ next = 2
  /\ confirm = None
  /\ died = [p \in Pid |-> "none"]

-----------------------------------------------------------------------------
(* get_process(): zombies are processes, too. *)
Exists(x, p) == x.st[p] # "free"

destroy_process(x, p) ==
  [x EXCEPT !.kids = @ \ {<<x.ppid[p], p>>}, !.st[p] = "free"]

(* call_destroy_process(), run by the sync_confirm() in get_process(). *)
call_destroy_process(x, p) ==
  destroy_process([x EXCEPT !.dead[x.ppid[p]] = RemoveFirst(@, p)], p)

Synced == IF confirm = None THEN s ELSE call_destroy_process(s, confirm)

(* A reply of a child's status to thread q, which is in receive phase from *)
(* the UAPI thread.                                                        *)
Told(x, q, p) ==
  [x EXCEPT !.reports[p] = Append(@, [to |-> q, code |-> x.code[p], call |-> x.th[q]]),
            !.th[q] = Running]

Listening(x, q) == x.th[q].pc \in {"any", "pid", "suspend"}

-----------------------------------------------------------------------------
(* zombify(): the parent is found, or init takes its place.  *)
Adopter(x, p) == IF x.ppid[p] # 0 /\ Exists(x, x.ppid[p]) THEN x.ppid[p] ELSE 1

(* A mutation: nobody looks for those who wait for any child. *)
WaiterPidOnly(x, p) == x.wait[p]

(* The thread to tell: the one that waits for p, or else one that waits    *)
(* for any child of the parent.                                            *)
Waiter(x, p) ==
  IF x.wait[p] # None THEN x.wait[p]
  ELSE IF x.ppid[p] \in x.anyFlag /\ x.anyHash[x.ppid[p]] > 0 THEN x.ppid[p]
  ELSE None

(* The same loop takes the waiter's entry out of waitany_hash, and         *)
(* PF_WAIT_ANY goes when there are no more.                                *)
Dequeue(x, p) ==
  LET q == x.ppid[p]
      left == IF x.anyHash[q] > 0 THEN x.anyHash[q] - 1 ELSE 0
  IN IF x.wait[p] # None \/ q \notin x.anyFlag THEN x
     ELSE [x EXCEPT !.anyHash[q] = left,
                    !.anyFlag = IF left = 0 THEN @ \ {q} ELSE @]

(* SIGCHLD has been sent first; when the waiter catches it, that may have  *)
(* interrupted it before the reply.                                        *)
zombify(x0, p, code, interrupted) ==
  LET x == [x0 EXCEPT !.st[p] = "zombie", !.th[p] = Gone, !.code[p] = code,
                      !.ppid[p] = Adopter(x0, p)]
      q == Waiter(x, p)
      y == Dequeue(x, p)
      z == IF interrupted THEN [y EXCEPT !.th[q] = Running] ELSE y
  IN IF q # None /\ Listening(z, q)
     THEN destroy_process(Told(z, q, p), p)
     ELSE [z EXCEPT !.dead[x.ppid[p]] = Append(@, p)]

(* May the waiter be interrupted by the SIGCHLD of p's death? *)
MayBeInterrupted(x, p) ==
  LET q == Waiter([x EXCEPT !.ppid[p] = Adopter(x, p)], p)
  IN q # None /\ q \in Catchers /\ Listening(x, q)

Die(p, code) ==
  /\ \E intr \in {FALSE, TRUE} :
       /\ intr => MayBeInterrupted(Synced, p)
       /\ s' = zombify(Synced, p, code, intr)
  /\ died' = [died EXCEPT ![p] = IF @ = "none" THEN code ELSE @]
  /\ confirm' = None
  /\ UNCHANGED next

-----------------------------------------------------------------------------
(* A thread runs and makes the next call. *)
Caller(p) == s.st[p] = "live" /\ s.th[p].pc = "run"

uapi_exit(p, code) == Caller(p) /\ p # 1 /\ Die(p, code)

(* root_uapi_kill() with a signal whose default is to end the process.     *)
(* Nothing in sig_send() spares a zombie: zombify() runs again and puts it *)
(* into the dead_list a second time.  DeathReportedOnce and ZombieListed   *)
(* are for processes that are not killed when dead, i.e. empty             *)
(* ZombieTargets.                                                          *)
root_uapi_kill(p, q) ==
  /\ Caller(p)
  /\ q \in Victims /\ Exists(Synced, q)
  /\ Synced.st[q] = "zombie" => q \in ZombieTargets
  /\ Die(q, "killed")

alloc_process == next <= MaxPid /\ next' = next + 1

uapi_fork(p) ==
  /\ Caller(p)
  /\ alloc_process
  /\ s' = [Synced EXCEPT !.st[next] = "live", !.ppid[next] = p, !.wait[next] = None,
                         !.dead[next] = <<>>, !.kids = @ \cup {<<p, next>>},
                         !.th[next] = Running]
  /\ confirm' = None
  /\ UNCHANGED died

(* A mutation: the zombie goes whether or not the reply arrives. *)
ReapAtOnce(p, z, call) ==
  \/ /\ s' = call_destroy_process(Told([Synced EXCEPT !.th[p] = call], p, z), z)
     /\ confirm' = None
  \/ /\ p \in Catchers
     /\ s' = call_destroy_process(Synced, z)
     /\ confirm' = None

(* uapi_wait() has a zombie to report; it goes when the reply is confirmed *)
(* and stays when p, interrupted, does not take the reply.                 *)
Reap(p, z, call) ==
  \/ /\ s' = Told([Synced EXCEPT !.th[p] = call], p, z)
     /\ confirm' = z
  \/ /\ p \in Catchers
     /\ s' = Synced
     /\ confirm' = None

Return == s' = Synced /\ confirm' = None

(* waitid(P_PID, c): -ECHILD, the zombie, WNOHANG's nothing, or sleep. *)
WaitPid(p, c, nohang) ==
  /\ Caller(p)
  /\ IF ~Exists(Synced, c) \/ Synced.ppid[c] # p THEN Return
     ELSE IF Synced.st[c] = "zombie" THEN Reap(p, c, [pc |-> "pid", child |-> c])
     ELSE IF nohang THEN Return
     ELSE /\ s' = [Synced EXCEPT !.wait[c] = p, !.th[p] = [pc |-> "pid", child |-> c]]
          /\ confirm' = None
  /\ UNCHANGED <<next, died>>

has_children(x, p) == \E e \in x.kids : e[1] = p /\ x.ppid[e[2]] = p

(* waitid(P_ALL): -ECHILD, the first zombie, WNOHANG's nothing, or sleep. *)
WaitAny(p, nohang) ==
  LET x == Synced
  IN /\ Caller(p)
     /\ IF x.dead[p] # <<>> THEN Reap(p, Head(x.dead[p]), [pc |-> "any", child |-> None])
        ELSE IF ~has_children(x, p) \/ nohang THEN Return
        ELSE /\ x.anyHash[p] < MaxEntries
             /\ s' = [x EXCEPT !.anyFlag = @ \cup {p}, !.anyHash[p] = @ + 1,
                               !.th[p] = [pc |-> "any", child |-> None]]
             /\ confirm' = None
     /\ UNCHANGED <<next, died>>

(* root_uapi_sigsuspend() without a pending signal. *)
root_uapi_sigsuspend(p) ==
  /\ Caller(p) /\ p \in Catchers
  /\ s' = [Synced EXCEPT !.th[p] = [pc |-> "suspend", child |-> None]]
  /\ confirm' = None
  /\ UNCHANGED <<next, died>>

(* A signal handler takes the thread out of its receive phase.  Nothing in *)
(* the root task changes.                                                  *)
Interrupt(p) ==
  /\ p \in Catchers /\ Listening(s, p)
  /\ s' = [s EXCEPT !.th[p] = Running]
  /\ UNCHANGED <<next, confirm, died>>

ProcNext ==
  \E p \in Pid :
    \/ \E code \in Codes : uapi_exit(p, code)
    \/ \E q \in Pid : root_uapi_kill(p, q)
    \/ uapi_fork(p)
    \/ \E c \in Pid, nohang \in {FALSE, TRUE} : WaitPid(p, c, nohang)
    \/ \E nohang \in {FALSE, TRUE} : WaitAny(p, nohang)
    \/ root_uapi_sigsuspend(p)
    \/ Interrupt(p)

ProcSpec == ProcInit /\ [][ProcNext]_procVars

-----------------------------------------------------------------------------
ProcTypeOK ==
  /\ s \in State
  /\ next \in 2..(MaxPid + 1)
  /\ confirm \in PidOrNone
  /\ died \in [Pid -> Code]

(* Every death is reported to the parent at the time, once, with the       *)
(* status the process died with: a process that is no more has been        *)
(* reported, and a zombie has not, but for the reply to be confirmed,      *)
(* whatever replies were lost to interruptions.                            *)
DeathReportedOnce ==
  \A p \in Pid :
    /\ Len(s.reports[p]) =
         IF (p < next /\ s.st[p] = "free") \/ confirm = p THEN 1 ELSE 0
    /\ \A i \in DOMAIN s.reports[p] :
         s.reports[p][i].to = s.ppid[p] /\ s.reports[p][i].code = died[p]

(* Nobody sleeps in waitid() beside what it waits for: a thread asleep in  *)
(* P_ALL will be found in waitany_hash, has a child and no zombie; one     *)
(* asleep in P_PID is noted with a child that lives.  The exception is an  *)
(* orphan whose wait_tid is still a thread of its former parent's: that    *)
(* one keeps zombify() from looking for its new parent's threads.          *)
WaitNotMissed ==
  \A p \in Pid :
    /\ s.th[p].pc = "any" =>
         /\ p \in s.anyFlag /\ s.anyHash[p] > 0
         /\ \A z \in ToSet(s.dead[p]) : z = confirm \/ s.wait[z] \notin {None, p}
         /\ \E c \in Pid : s.ppid[c] = p /\ s.st[c] = "live"
    /\ s.th[p].pc = "pid" =>
         LET c == s.th[p].child
         IN s.st[c] = "live" /\ s.ppid[c] = p /\ s.wait[c] = p

(* A zombie that is not reported stays to be found: it is in the dead_list *)
(* of its parent and nowhere else, once; and a dead_list has nothing else. *)
(* (The parent may be a zombie, and then gone: its list goes with it.)     *)
ZombieListed ==
  \A p \in Pid :
    /\ IsInjective(s.dead[p])
    /\ \A z \in ToSet(s.dead[p]) : s.st[z] = "zombie" /\ s.ppid[z] = p
    /\ s.st[p] = "zombie" => s.ppid[p] # 0 /\ p \in ToSet(s.dead[s.ppid[p]])

(* Deaths are reported once, and zombies stay until they are.              *)
ProcBooks == ProcTypeOK /\ DeathReportedOnce /\ ZombieListed
=============================================================================
