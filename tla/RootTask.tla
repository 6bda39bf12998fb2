------------------------------ MODULE RootTask ------------------------------
(***************************************************************************)
(* Threads and tasks in the root task (root/uapi.c, root/sig.c): thread    *)
(* numbers, which all tasks share, places in each task's UTCB area, lists  *)
(* of threads, and the kernel's threads and VM's spaces that go with them. *)
(* Calls are handled one after the other by the UAPI thread.  Waiting for  *)
(* children is in Proc.                                                    *)
(***************************************************************************)
EXTENDS Integers, FiniteSets, SequencesExt
CONSTANTS RtUsers,     \* PIDs of processes, 1 .. n; 1 is init
          RtSystasks,  \* PIDs of system tasks
          Maps,        \* bitmaps of thread numbers, 0 .. n
          MapOf,       \* the one a process takes its numbers from
          Bits,        \* thread numbers in a map
          Burnt,       \* numbers in map 0 that are never given out
          Slots,       \* places in a UTCB area
          RtThreaded,  \* tasks that make threads
          RtCatchers,  \* processes that handle SIGCHLD
          RtOrphans,   \* a process may die while its parent is a zombie that handled SIGCHLD
          RtExecs,     \* processes that may exec while a signal helper runs
          RtLateSignals \* signals are sent to zombies and others without a thread
VARIABLE rt
Tasks == RtUsers \cup RtSystasks
ASSUME RtAssumption ==
    /\ RtUsers \cap RtSystasks = {} /\ RtUsers \cup RtSystasks \cup Maps \cup Bits \cup Slots \subseteq Nat
    /\ 1 \in RtUsers /\ 0 \notin RtUsers /\ RtSystasks # {} /\ Slots # {}
    /\ 0 \in Maps /\ MapOf \in [RtUsers -> Maps] /\ Burnt \subseteq Bits
    /\ IsFiniteSet(Bits) /\ Cardinality(Bits \ Burnt) >= 2   \* for the first system task, and init

NoTid == <<>>   \* no thread

(* What may be found wrong: a number given back that is free, a thread the  *)
(* kernel has or has not, a UTCB place given back that is free, a list with *)
(* what is no thread, a helper for a process without threads.               *)
Asserts == {"number", "created", "deleted", "place", "list", "helper"}
Unless(P, what) == IF P THEN {} ELSE {what}

Lowest(S) == CHOOSE x \in S : \A y \in S : x <= y
NoTask == [on |-> FALSE, threads |-> <<>>, utcb_free |-> {}]
NoProcess == [st |-> "none", ppid |-> 0, helper |-> NoTid, hslot |-> 0]
Live(ppid) == [st |-> "live", ppid |-> ppid, helper |-> NoTid, hslot |-> 0]

(* uapi_init(); init and the first system task are there.  `kern' is the    *)
(* kernel's threads, `space' VM's address spaces and `half' the processes   *)
(* that a call which failed has left behind; `bad' is what was found wrong. *)
RtFirst ==
    [free |-> [m \in Maps |-> IF m = 0 THEN Bits \ Burnt ELSE Bits],
     count |-> [m \in Maps |-> Cardinality(IF m = 0 THEN Bits \ Burnt ELSE Bits)],
     task |-> [p \in Tasks |-> NoTask], proc |-> [p \in RtUsers |-> NoProcess],
     kern |-> {}, space |-> {}, next_user_pid |-> 1, half |-> {}, bad |-> {}]

get_task(r, pid) == r.task[pid].on
task_common_ctor(r, pid) == [r EXCEPT !.task[pid] = [on |-> TRUE, threads |-> <<>>, utcb_free |-> Slots]]
Tid(map, bit, pid) == <<map, bit, pid>>

free_threadno(r, tid) ==
    [r EXCEPT !.free[tid[1]] = @ \cup {tid[2]}, !.count[tid[1]] = @ + 1,
              !.bad = @ \cup Unless(tid[2] \notin r.free[tid[1]], "number")]

(* A system task takes a number from any map, a process from its own.       *)
MapFor(r, pid) ==
    IF pid \in RtUsers THEN {m \in {MapOf[pid]} : r.count[m] > 0}
    ELSE LET some == {m \in Maps : r.count[m] > 0} IN IF some = {} THEN {} ELSE {Lowest(some)}

NoSlot(r, map, bit) == r
allocate_thread(r, pid) ==
    LET map == Lowest(MapFor(r, pid))
        bit == Lowest(r.free[map])
        x == r.task[pid]
        slot == Lowest(x.utcb_free)
        tid == Tid(map, bit, pid)
    IN IF MapFor(r, pid) = {} \/ ~get_task(r, pid) THEN [r |-> r, tid |-> NoTid, slot |-> 0]
       ELSE IF x.utcb_free = {} THEN [r |-> NoSlot(r, map, bit), tid |-> NoTid, slot |-> 0]
       ELSE [r |-> [r EXCEPT !.free[map] = @ \ {bit}, !.count[map] = @ - 1,
                             !.task[pid] = [on |-> x.on, threads |-> Append(x.threads, tid), utcb_free |-> x.utcb_free \ {slot}]],
             tid |-> tid, slot |-> slot]

(* L4_ThreadControl: one thread of a number, and in a space one of a place; *)
(* what is deleted must be there.                                           *)
Fits(r, tid, slot) ==
    \A k \in r.kern : <<k.tid[1], k.tid[2]>> # <<tid[1], tid[2]>> /\ (k.tid[3] = tid[3] => k.slot # slot)
Create(r, tid, slot) ==
    [r EXCEPT !.kern = @ \cup {[tid |-> tid, slot |-> slot]}, !.bad = @ \cup Unless(Fits(r, tid, slot), "created")]
Delete(r, tid) ==
    [r EXCEPT !.kern = {k \in @ : k.tid # tid}, !.bad = @ \cup Unless(\E k \in r.kern : k.tid = tid, "deleted")]
SlotOf(r, tid) == (CHOOSE k \in r.kern : k.tid = tid).slot

tidlist_remove_from(ts, tid) ==
    LET found == CHOOSE j \in 1 .. Len(ts) : ts[j] = tid
    IN IF tid \notin ToSet(ts) THEN ts
       ELSE [j \in 1 .. Len(ts) - 1 |-> IF j = found THEN Last(ts) ELSE ts[j]]
free_thread(r, pid, tid, slot) ==
    LET x == r.task[pid]
    IN [r EXCEPT !.task[pid] = [on |-> x.on, threads |-> tidlist_remove_from(x.threads, tid), utcb_free |-> x.utcb_free \cup {slot}],
                 !.bad = @ \cup Unless(slot \notin x.utcb_free, "place")]

(* Every thread of the list is deleted and its number given back.           *)
AllThere(r, pid) ==
    LET ts == r.task[pid].threads
    IN /\ r.task[pid].on
       /\ \A i \in 1 .. Len(ts) : (\E k \in r.kern : k.tid = ts[i]) /\ ts[i][2] \notin r.free[ts[i][1]]
       /\ \A i, j \in 1 .. Len(ts) : i # j => <<ts[i][1], ts[i][2]>> # <<ts[j][1], ts[j][2]>>
task_common_dtor(r, pid) ==
    LET ts == r.task[pid].threads
        nos(m) == {tid[2] : tid \in {u \in ToSet(ts) : u[1] = m}}
    IN [r EXCEPT !.kern = {k \in @ : k.tid \notin ToSet(ts)},
                 !.free = [m \in Maps |-> @[m] \cup nos(m)],
                 !.count = [m \in Maps |-> @[m] + Cardinality(nos(m))],
                 !.task[pid] = [on |-> @.on, threads |-> <<>>, utcb_free |-> {}],
                 !.bad = @ \cup Unless(AllThere(r, pid), "list")]

process_dtor(r, pid) == LET d == task_common_dtor(r, pid) IN [d EXCEPT !.space = @ \ {pid}]

-----------------------------------------------------------------------------
(* sig_remove_helper() and sig_deliver(). *)
WithHelper(x, tid, slot) == [st |-> x.st, ppid |-> x.ppid, helper |-> tid, hslot |-> slot]
(* A mutation: the helper stays in the list of threads. *)
HelperStaysListed(r, p) ==
    LET h == r.proc[p].helper
        d == free_threadno(Delete(r, h), h)
    IN [d EXCEPT !.task[p].utcb_free = @ \cup {r.proc[p].hslot}, !.proc[p].helper = NoTid, !.proc[p].hslot = 0]
sig_remove_helper(r, p) ==
    LET h == r.proc[p].helper
        d == free_threadno(free_thread(Delete(r, h), p, h, r.proc[p].hslot), h)
    IN [d EXCEPT !.proc[p] = WithHelper(@, NoTid, 0)]
sig_deliver(r, p) ==
    LET a == allocate_thread(r, p)
        c == Create(a.r, a.tid, a.slot)
    IN IF r.proc[p].helper # NoTid THEN r
       ELSE IF r.task[p].threads = <<>> THEN [r EXCEPT !.bad = @ \cup {"helper"}]
       ELSE IF a.tid = NoTid THEN a.r
       ELSE [c EXCEPT !.proc[p] = WithHelper(@, a.tid, a.slot)]

(* zombify(): a parent that is gone is replaced by init, and is sent        *)
(* SIGCHLD.                                                                 *)
Parent(r, p) == LET q == r.proc[p].ppid IN IF q # 0 /\ r.task[q].on THEN q ELSE 1
Zombie(x, q) == [st |-> "zombie", ppid |-> q, helper |-> x.helper, hslot |-> x.hslot]
(* A mutation: the helper is removed after all threads. *)
ZombifyHelperLast(r, p) ==
    LET a == process_dtor(r, p)
        b == IF r.proc[p].helper # NoTid THEN sig_remove_helper(a, p) ELSE a
        q == Parent(b, p)
        c == [b EXCEPT !.proc[p] = Zombie(@, q)]
    IN IF q \in RtCatchers THEN sig_deliver(c, q) ELSE c
rt_zombify(r, p) ==
    LET a == IF r.proc[p].helper # NoTid THEN sig_remove_helper(r, p) ELSE r
        b == process_dtor(a, p)
        q == Parent(b, p)
        c == [b EXCEPT !.proc[p] = Zombie(@, q)]
    IN IF q \in RtCatchers THEN sig_deliver(c, q) ELSE c

(* alloc_process(): PIDs count up; what happens past the last is not here.  *)
Alloc(r) == [r EXCEPT !.next_user_pid = @ + 1]
(* launch_process(): make_space() and the first thread.                     *)
launch_process(r, p) ==
    LET a == allocate_thread(r, p) IN [a EXCEPT !.r = IF a.tid = NoTid THEN a.r ELSE Create(a.r, a.tid, a.slot)]

-----------------------------------------------------------------------------
RtRunning(pid) == rt.task[pid].on /\ rt.task[pid].threads # <<>>

(* create_systask() of root/main.c, for spawn_systask(). *)
create_systask(pid) ==
    /\ pid \in RtSystasks /\ ~rt.task[pid].on
    /\ LET l == launch_process(task_common_ctor(rt, pid), pid)
       IN l.tid # NoTid /\ rt' = l.r
destroy_systask(pid) ==
    /\ pid \in RtSystasks /\ RtRunning(pid)
    /\ rt' = LET d == task_common_dtor(rt, pid) IN [d EXCEPT !.task[pid] = NoTask]

uapi_create_thread(pid) ==
    /\ RtRunning(pid) /\ pid \in RtThreaded
    /\ LET a == allocate_thread(rt, pid) IN rt' = IF a.tid = NoTid THEN a.r ELSE Create(a.r, a.tid, a.slot)

Own(pid) == ToSet(rt.task[pid].threads) \ (IF pid \in RtUsers THEN {rt.proc[pid].helper} ELSE {})
(* The thread library names a thread and the UTCB it has.  The last thread  *)
(* of a task does not leave this way.                                       *)
uapi_remove_thread(pid, tid) ==
    /\ RtRunning(pid) /\ tid \in Own(pid) /\ Own(pid) # {tid}
    /\ rt' = Delete(free_threadno(free_thread(rt, pid, tid, SlotOf(rt, tid)), tid), tid)

(* uapi_spawn(): `fail' is the step that does not succeed.  Its clean-up    *)
(* forgets the process and leaves VM's space.                               *)
Forget(r, p) == [r EXCEPT !.task[p] = NoTask, !.half = IF p \in r.space THEN @ \cup {p} ELSE @]
uapi_spawn(parent, p, fail) ==
    /\ RtRunning(parent) /\ p = rt.next_user_pid /\ p \in RtUsers
    /\ LET a == Alloc(rt)
           b == [a EXCEPT !.space = @ \cup {p}]
           c == launch_process(task_common_ctor(b, p), p)
           from == IF parent \in RtSystasks THEN 0 ELSE parent
       IN rt' = CASE fail = "fork" -> Forget(a, p)
                  [] fail = "load" -> Forget(b, p)
                  [] c.tid = NoTid -> Forget(c.r, p)
                  [] OTHER -> [c.r EXCEPT !.proc[p] = Live(from)]

(* uapi_exec() past the point of no return.  When a step fails the process  *)
(* stays, without a thread.                                                 *)
uapi_exec(p, fail) ==
    /\ p \in RtUsers /\ RtRunning(p) /\ (rt.proc[p].helper = NoTid \/ p \in RtExecs)
    /\ LET a == process_dtor(rt, p)
           b == [a EXCEPT !.space = @ \cup {p}]
           c == launch_process(task_common_ctor(b, p), p)
           left(r) == [r EXCEPT !.half = @ \cup {p}]
       IN rt' = CASE fail = "fork" -> left(a)
                  [] fail = "load" -> left(b)
                  [] c.tid = NoTid -> left(c.r)
                  [] OTHER -> c.r

(* uapi_fork(): with no thread number left it aborts, which is not here.    *)
rt_fork(q, p, fail) ==
    /\ q \in RtUsers /\ RtRunning(q) /\ p = rt.next_user_pid /\ p \in RtUsers /\ MapFor(rt, p) # {}
    /\ LET a == task_common_ctor(Alloc(rt), p)
           b == [a EXCEPT !.proc[p] = Live(q)]
       IN rt' = IF fail = "fork" THEN [b EXCEPT !.half = @ \cup {p}]
                ELSE launch_process([b EXCEPT !.space = @ \cup {p}], p).r

(* A SIGCHLD that is handled goes to a parent with a thread.  The code does *)
(* not look: sig_deliver()'s assertion on p->task.threads fails for a       *)
(* zombie, and for what a failed exec or fork has left.                     *)
Minded(p) ==
    LET q == Parent(rt, p)
    IN q \in RtCatchers => \/ rt.task[q].threads # <<>> \/ RtLateSignals
                           \/ RtOrphans /\ rt.proc[q].st = "zombie"
rt_exit(p) ==
    /\ p \in RtUsers /\ p # 1 /\ RtRunning(p) /\ Minded(p)
    /\ rt' = rt_zombify(rt, p)

(* waitid() reports a zombie: destroy_process(). *)
rt_destroy(p) ==
    /\ p \in RtUsers /\ rt.proc[p].st = "zombie"
    /\ rt' = [rt EXCEPT !.task[p] = NoTask, !.proc[p] = NoProcess]

(* root_uapi_kill() of a signal that is handled.  It only asks whether the  *)
(* process is in the table, where zombies are as well.                      *)
kill(p) ==
    /\ p \in RtUsers /\ get_task(rt, p)
    /\ RtRunning(p) \/ RtLateSignals
    /\ rt' = sig_deliver(rt, p)

(* root_uapi_sigset() of the helper, when nothing is pending. *)
sigset_ends(p) ==
    /\ p \in RtUsers /\ RtRunning(p) /\ rt.proc[p].helper \in ToSet(rt.task[p].threads)
    /\ rt' = sig_remove_helper(rt, p)

Fails == {"none", "fork", "load"}
RtInit ==
    rt = LET sys == Lowest(RtSystasks)
             a == launch_process(task_common_ctor(RtFirst, sys), sys).r
             b == task_common_ctor([a EXCEPT !.space = {1}, !.next_user_pid = 2, !.proc[1] = Live(0)], 1)
         IN launch_process(b, 1).r
RtNext ==
    /\ rt.bad = {}
    /\ \E p \in Tasks :
         \/ create_systask(p) \/ destroy_systask(p) \/ uapi_create_thread(p)
         \/ \E tid \in ToSet(rt.task[p].threads) : uapi_remove_thread(p, tid)
         \/ \E f \in Fails, q \in RtUsers : uapi_spawn(p, q, f)
         \/ \E f \in Fails : uapi_exec(p, f)
         \/ \E f \in Fails \ {"load"}, q \in RtUsers : rt_fork(p, q, f)
         \/ rt_exit(p) \/ rt_destroy(p) \/ kill(p) \/ sigset_ends(p)
RtSpec == RtInit /\ [][RtNext]_rt

-----------------------------------------------------------------------------
RtTypeOK ==
    /\ rt.free \in [Maps -> SUBSET Bits] /\ rt.count \in [Maps -> Nat]
    /\ rt.task \in [Tasks -> [on : BOOLEAN, threads : Seq(Maps \X Bits \X Tasks), utcb_free : SUBSET Slots]]
    /\ rt.space \subseteq RtUsers /\ rt.half \subseteq RtUsers /\ rt.bad \subseteq Asserts

(***************************************************************************)
(* The root task's assertions hold and the kernel refuses none of its      *)
(* calls: no thread is made twice or deleted when it is not there, however *)
(* exits, exec, helpers and failures mix.  It does not hold where exec     *)
(* leaves a helper (RtExecs) or a process without a thread is sent a       *)
(* signal that is handled (RtOrphans, RtLateSignals).                      *)
(***************************************************************************)
RtAssertsHold == rt.bad = {}

(***************************************************************************)
(* Every thread number is free, never given out, or that of exactly one    *)
(* thread of the kernel's: none is lost when a call fails half-way or a    *)
(* task ends with threads and a helper, and the counts agree.              *)
(***************************************************************************)
TnosExact ==
    rt.bad = {} =>
    \A m \in Maps :
      /\ rt.count[m] = Cardinality(rt.free[m])
      /\ \A b \in Bits :
           LET of == {k \in rt.kern : k.tid[1] = m /\ k.tid[2] = b}
           IN Cardinality(of) = IF b \in rt.free[m] \/ (m = 0 /\ b \in Burnt) THEN 0 ELSE 1

(***************************************************************************)
(* A task's list of threads and its map of UTCB places say what the kernel *)
(* has, and what is no task has no threads.                                *)
(***************************************************************************)
ThreadsExact ==
    rt.bad = {} =>
    \A p \in Tasks :
      LET mine == {k \in rt.kern : k.tid[3] = p}
      IN /\ ToSet(rt.task[p].threads) = {k.tid : k \in mine} /\ IsInjective(rt.task[p].threads)
         /\ rt.task[p].threads # <<>> => rt.task[p].on /\ rt.task[p].utcb_free = Slots \ {k.slot : k \in mine}

(***************************************************************************)
(* A process has an address space as long as it has a thread, and none     *)
(* after, but for what a spawn or an exec that failed has left.            *)
(***************************************************************************)
SpacesExact ==
    \A p \in RtUsers \ rt.half : p \in rt.space <=> rt.task[p].threads # <<>>

(***************************************************************************)
(* The books of root/uapi.c on thread numbers, UTCB places and spaces.     *)
(***************************************************************************)
RtBooks == RtTypeOK /\ TnosExact /\ ThreadsExact /\ SpacesExact
=============================================================================
