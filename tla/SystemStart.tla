---------------------------- MODULE SystemStart -----------------------------
(* How the system comes up: main() of root/main.c, the threads it starts in *)
(* the root task, the system tasks (sys/crt/crt1.c and their own main()),   *)
(* and the first steps of init.  Each is a script of the operations through *)
(* which they meet: threads are created, joined and sent to, calls wait for *)
(* a server that is receiving and for its reply, and addresses are passed   *)
(* on in variables of root and in the information blocks of sysmem.  Sysmem *)
(* and the threads that receive broadcasts answer at once: they call nobody *)
(* meanwhile.  What becomes of memory during this is module Boot.           *)
EXTENDS Integers, Sequences, FiniteSets, FiniteSetsExt, SequencesExt
CONSTANTS
    SsSlots,    \* UTCB slots of the root task
    SsChoices   \* what may be asked for besides init: "late" a boot module at
                \* the end, "null" a device whose server an open() starts
ASSUME SsAssumption == SsSlots \subseteq Nat /\ SsChoices \subseteq {"late", "null"}
VARIABLES
    extras,     \* what is asked for in this behaviour
    todo,       \* thread -> the operations before it
    born,       \* threads that run
    client,     \* server -> whose call it handles
    call,       \* thread -> whose reply it waits for
    utcb,       \* [early: next_early_utcb_slot, used: slots marked in root's systask,
                \*  slot: thread of root -> its UTCB]
    known,      \* names of variables and information blocks that have been set
    nilReads,   \* <<thread, name>>: what was read before it was set
    inside      \* threads within the allocator of tasks and threads
ssVars == <<extras, todo, born, client, call, utcb, known, nilReads, inside>>

RootThreads == {"main", "helper", "pager", "con", "kmsg", "uapi", "rootserv", "devices",
                "rootpath", "bit", "mounter"}
SsTasks == {"vm", "squashfs", "sysmsg", "pipeserv", "late", "null", "init", "child"}
Threads == RootThreads \cup SsTasks
SsUsers == {"init", "child"}
Nobody == "nobody"
(* Those that end in a dispatch loop.                                       *)
Dispatchers == Threads \ {"main", "helper", "bit", "mounter", "late", "init", "child"}

Op(o, x) == <<[op |-> o, x |-> x, req |-> "", arg |-> ""]>>
Call(s, r) == <<[op |-> "call", x |-> s, req |-> r, arg |-> ""]>>
Forward(s, r) == <<[op |-> "forward", x |-> s, req |-> r, arg |-> ""]>>
CallFor(s, r, a) == <<[op |-> "call", x |-> s, req |-> r, arg |-> a]>>

-----------------------------------------------------------------------------
(* The scripts.                                                             *)

(* The helper takes an exception from the boot thread, restarts it under    *)
(* its new name, and ends when it is told to.                               *)
rename_helper_fn == Op("wait", "main") \o Op("reply", "main") \o Op("wait", "main")
rename_first_threads ==
    Op("create", "helper") \o Call("helper", "rename") \o Op("send", "helper") \o Op("join", "helper")

(* spawn_systask(): a boot module is read in place, a file through the file *)
(* system, whose thread is root's rootfs_tid.  spawn_systask_fv() and       *)
(* create_systask(): an entry and a thread from the allocator, whose lock   *)
(* lock_uapi() is empty; pages are sent with sysmem, which then starts it.  *)
create_systask_ops(s) == Op("enter", s) \o Op("alloc", s) \o Op("leave", s)
spawn_systask_fv(s) == create_systask_ops(s) \o Op("start", s)
fopen == Op("use", "rootfs_tid") \o Call("squashfs", "resolve") \o Call("squashfs", "open")
fclose == Call("squashfs", "close")
spawn_systask(s, bootmod) ==
    IF bootmod THEN spawn_systask_fv(s) ELSE fopen \o spawn_systask_fv(s) \o fclose

(* sys/crt: kmsg and uapi come from sysmem's blocks.                        *)
init_kmsg_tid == Op("use", "kmsg") \o Call("kmsg", "putstr")

__crt1_entry == init_kmsg_tid \o Op("use", "uapi")

(* io_run() starts the poke thread before it receives anything.             *)
spawn_poke_thrd == CallFor("uapi", "create_thread", "poke")

(* squashfs takes its image from root in two calls, then looks up rootfs.   *)
boot_initrd_protocol == Call("bit", "introduce") \o Call("bit", "start")
fs_initialize == Op("use", "rootfs")
squashfs_main == boot_initrd_protocol \o fs_initialize \o spawn_poke_thrd
boot_initrd_fn ==
    Op("wait", "squashfs") \o Op("reply", "squashfs") \o Op("wait", "squashfs") \o Op("reply", "squashfs")

(* initialize() of sys/crt/msg.c with sysmsg_listen(), at the first user.   *)
sysmsg_listen(first) ==
    (IF first THEN Op("use", "sysmsg") \o CallFor("uapi", "create_thread", "receiver") ELSE <<>>)
        \o Call("sysmsg", "setmask") \o Call("sysmsg", "add_filter")

(* do_mount() for the initrd, in the thread that filsys_mount() starts, and *)
(* async_reply() to the caller in the name of the root path's thread.       *)
do_mount ==
    Op("use", "devices_tid") \o Op("use", "device_cookie_key")
        \o spawn_systask("squashfs", TRUE) \o Op("set", "rootfs_tid")
        \o Call("squashfs", "resolve") \o Call("squashfs", "resolve")
async_mount_fn == do_mount \o Op("answer", "main")
mount_initrd == Op("create", "bit") \o Call("rootpath", "mount") \o Op("join", "bit")

launch_init == Call("con", "dup_to") \o Call("con", "dup_to") \o Call("con", "dup_to") \o CallFor("uapi", "spawn", "init")
run_waitmods == IF "late" \in extras THEN spawn_systask("late", TRUE) ELSE <<>>

(* main() in its three stages: the task of its own and its memory; the      *)
(* servers of root; the tasks that come from files.                         *)
SsFirst == rename_first_threads \o Op("create", "pager") \o Op("create", "con")
    \o Op("create", "kmsg") \o Op("set", "kmsg") \o Op("configure_uapi", "uapi")
    \o Op("create", "uapi") \o Op("send", "uapi") \o Op("set", "uapi") \o Op("set", "uapi_tid")

SsServers == Op("create", "rootserv") \o Op("set", "rootserv")
    \o spawn_systask("vm", TRUE) \o Call("vm", "physmem") \o Op("set", "vm_tid") \o Op("set", "vm")
    \o Op("create", "devices") \o Op("send", "devices") \o Op("set", "device_cookie_key")
    \o Op("create", "rootpath") \o Op("set", "rootfs")
SsFiles == mount_initrd
    \o spawn_systask("sysmsg", FALSE) \o Op("set", "sysmsg_tid") \o Op("set", "sysmsg")
    \o spawn_systask("pipeserv", FALSE) \o Op("set", "pipe") \o Op("set", "sysinfo")
    \o launch_init \o run_waitmods

(* A user process: its first instruction is a page of a file, and without a *)
(* working directory it opens the root through the root path.  init then    *)
(* starts a process of its inittab and waits for it; that one opens a file  *)
(* or a device, forks and exits.                                            *)
__init_crt == Call("vm", "fault") \o Op("use", "sysinfo")
    \o Call("rootpath", "resolve") \o Call("squashfs", "open") \o Call("squashfs", "dup") \o Call("squashfs", "close")
a_wait == CallFor("uapi", "spawn", "child") \o Call("uapi", "wait")
SsChild == Call("rootpath", "resolve")
    \o (IF "null" \in extras THEN Call("squashfs", "open_device") ELSE Call("squashfs", "open"))
    \o Call("uapi", "fork") \o Call("uapi", "exit")

(* uapi_loop(): its own slot comes first.                                   *)
uapi_loop == Op("set", "uapi_tid") \o Op("reserve_utcb", "uapi")

SsScript(t) ==
    CASE t = "main"     -> SsFirst \o SsServers \o SsFiles
      [] t = "helper"   -> rename_helper_fn
      [] t = "uapi"     -> uapi_loop
      [] t = "devices"  -> Op("set", "devices_tid")
      [] t = "rootpath" -> Op("set", "filsys_tid")
      [] t = "bit"      -> boot_initrd_fn
      [] t = "mounter"  -> async_mount_fn
      [] t = "vm"       -> __crt1_entry \o Op("wait", "main") \o Op("reply", "main")
      [] t = "squashfs" -> __crt1_entry \o squashfs_main
      [] t \in {"pipeserv", "null"} -> __crt1_entry \o spawn_poke_thrd
      [] t \in {"sysmsg", "late"}   -> __crt1_entry
      [] t = "init"     -> __init_crt \o a_wait
      [] t = "child"    -> __init_crt \o SsChild
      [] OTHER          -> <<>>

-----------------------------------------------------------------------------
(* A mutation: the file is closed when the process has been started.        *)
CloseLast(s) == Op("use", "vm_tid") \o fopen \o Call("vm", "fork") \o Call("squashfs", "dup_to")
    \o Call("vm", "mmap") \o create_systask_ops(s) \o CallFor("vm", "breath_of_life", s) \o fclose
(* What a server does for a request.  uapi_spawn() reads and maps the file, *)
(* closes it, and only then starts the process.                             *)
uapi_spawn_ops(s) == Op("use", "vm_tid") \o fopen \o Call("vm", "fork") \o Call("squashfs", "dup_to")
    \o Call("vm", "mmap") \o fclose \o create_systask_ops(s) \o CallFor("vm", "breath_of_life", s)

(* zombify(): the waiting parent is answered last, the caller not at all.   *)
zombify_ops == Call("vm", "erase") \o Op("set", "exited") \o Op("use", "sysmsg_tid") \o Call("sysmsg", "broadcast")
    \o (IF call["init"] = "uapi" THEN Op("answer", "init") ELSE <<>>) \o Op("noreply", "child")

Handler(s, req, arg, c) ==
    CASE s = "uapi" /\ req = "create_thread"  -> Op("enter", arg) \o Op("alloc", arg) \o Op("leave", arg)
      [] s = "uapi" /\ req = "remove_thread"  -> Op("free", arg)
      [] s = "uapi" /\ req = "spawn"          -> uapi_spawn_ops(arg)
      [] s = "uapi" /\ req = "fork"           -> Op("use", "sysmsg_tid") \o Call("vm", "fork") \o Call("sysmsg", "broadcast") \o Call("vm", "restart")
      [] s = "uapi" /\ req = "wait" /\ "exited" \notin known -> Op("noreply", "init")
      [] s = "uapi" /\ req = "exit"           -> zombify_ops
      [] s = "rootpath" /\ req = "mount"      -> Op("create", "mounter") \o Op("noreply", "main")
      [] s = "rootpath" /\ req = "resolve"    -> Op("use", "rootfs_tid") \o Forward("squashfs", "resolve")
      [] s = "squashfs" /\ req = "resolve" /\ c \in SsUsers /\ "first_user" \notin known ->
            sysmsg_listen(TRUE) \o Op("set", "first_user")
      [] s = "squashfs" /\ req = "open" /\ c \in SsUsers /\ "first_client" \notin known ->
            sysmsg_listen(FALSE) \o Op("set", "first_client")
      [] s = "squashfs" /\ req = "open_device" -> Forward("devices", "open")
      [] s = "devices"  -> spawn_systask("null", FALSE) \o Forward("null", "open")
      [] s = "vm" /\ req = "breath_of_life"   -> Op("start", arg)
      [] s = "vm" /\ req = "mmap"             -> Call("squashfs", "touch")
      [] s = "vm" /\ req = "fault"            -> Call("squashfs", "read")
      [] OTHER -> <<>>

-----------------------------------------------------------------------------
SsInit ==
    /\ extras \in SUBSET SsChoices
    /\ born = {"main"} /\ todo = [t \in Threads |-> IF t = "main" THEN SsScript(t) ELSE <<>>]
    /\ client = [t \in Threads |-> Nobody] /\ call = [t \in Threads |-> Nobody]
    /\ utcb = [early |-> 1, used |-> {}, slot |-> [t \in RootThreads |-> IF t = "main" THEN 0 ELSE -1]]
    /\ known = {} /\ nilReads = {} /\ inside = {}

Next1(t) == Head(todo[t])
At(t, o) == t \in born /\ call[t] = Nobody /\ todo[t] # <<>> /\ Next1(t).op = o
Past(t) == [todo EXCEPT ![t] = Tail(@)]
Instead(t, ops) == [todo EXCEPT ![t] = ops \o Tail(@)]
(* s receives from t: in its loop, or in a receive of its own.              *)
Receives(s, t) ==
    /\ s \in born /\ client[s] = Nobody
    /\ \/ s \in Dispatchers /\ todo[s] = <<>>
       \/ todo[s] # <<>> /\ Next1(s).op = "wait" /\ Next1(s).x = t
Taken(s, td, ops) == IF td[s] = <<>> THEN [td EXCEPT ![s] = ops] ELSE [td EXCEPT ![s] = Tail(@)]

(* __thrd_new() before there is a UAPI: the next slot.  Later it asks.      *)
ThrdEarly(t) ==
    /\ At(t, "create") /\ "uapi_tid" \notin known
    /\ LET x == Next1(t).x IN
        /\ utcb' = [utcb EXCEPT !.early = @ + 1, !.slot[x] = utcb.early]
        /\ born' = born \cup {x}
        /\ todo' = [Past(t) EXCEPT ![x] = SsScript(x)]
    /\ UNCHANGED <<extras, client, call, known, nilReads, inside>>
ThrdAsk(t) ==
    /\ At(t, "create") /\ "uapi_tid" \in known
    /\ todo' = Instead(t, CallFor("uapi", "create_thread", Next1(t).x) \o Op("start", Next1(t).x))
    /\ UNCHANGED <<extras, born, client, call, utcb, known, nilReads, inside>>
(* The register exchange of thrd_create(), and breath_of_life().            *)
Start(t) ==
    /\ At(t, "start")
    /\ born' = born \cup {Next1(t).x}
    /\ todo' = [Past(t) EXCEPT ![Next1(t).x] = SsScript(Next1(t).x)]
    /\ UNCHANGED <<extras, client, call, utcb, known, nilReads, inside>>

(* thrd_join() of a thread that has ended, with __thrd_destroy().           *)
ThrdJoin(t) ==
    /\ At(t, "join")
    /\ LET x == Next1(t).x IN
        /\ x \in born /\ todo[x] = <<>>
        /\ born' = born \ {x}
        /\ todo' = IF "uapi_tid" \in known THEN Instead(t, CallFor("uapi", "remove_thread", x)) ELSE Past(t)
    /\ UNCHANGED <<extras, client, call, utcb, known, nilReads, inside>>

(* configure_uapi(): add_systask() for root marks the slots of the early    *)
(* threads that are alive.                                                  *)
Marked(u) == {u.slot[t] : t \in {r \in RootThreads \cap born : u.slot[r] < u.early}}
configure_uapi(t) ==
    /\ At(t, "configure_uapi")
    /\ utcb' = [utcb EXCEPT !.used = Marked(utcb)]
    /\ todo' = Past(t)
    /\ UNCHANGED <<extras, born, client, call, known, nilReads, inside>>
(* A mutation: uapi forgets itself.                                         *)
NotReserved(u) == u.used
(* reserve_utcb_for_uapi(): it was created after that and before the loop.  *)
Reserved(u) == u.used \cup {u.slot["uapi"]}
reserve_utcb_for_uapi(t) ==
    /\ At(t, "reserve_utcb")
    /\ utcb' = [utcb EXCEPT !.used = Reserved(utcb)]
    /\ todo' = Past(t)
    /\ UNCHANGED <<extras, born, client, call, known, nilReads, inside>>

(* allocate_thread() and its callers, from one of which and to the other    *)
(* the allocator's bitmaps are not protected.                               *)
Allocator(t) ==
    /\ \/ At(t, "enter") /\ inside' = inside \cup {t} /\ UNCHANGED utcb
       \/ At(t, "leave") /\ inside' = inside \ {t} /\ UNCHANGED utcb
       \/ /\ At(t, "alloc")
          /\ utcb' = IF Next1(t).x \notin RootThreads THEN utcb
                     ELSE LET s == Min(SsSlots \ utcb.used)
                          IN [utcb EXCEPT !.used = @ \cup {s}, !.slot[Next1(t).x] = s]
          /\ UNCHANGED inside
       \/ /\ At(t, "free")
          /\ utcb' = [utcb EXCEPT !.used = @ \ {utcb.slot[Next1(t).x]}, !.slot[Next1(t).x] = -1]
          /\ UNCHANGED inside
    /\ todo' = Past(t)
    /\ UNCHANGED <<extras, born, client, call, known, nilReads>>

(* Variables of root, put_sysinfo() and the block it ends in, and what      *)
(* reads them.                                                              *)
Names(t) ==
    /\ \/ At(t, "set") /\ known' = known \cup {Next1(t).x} /\ UNCHANGED nilReads
       \/ /\ At(t, "use") /\ UNCHANGED known
          /\ nilReads' = nilReads \cup (IF Next1(t).x \in known THEN {} ELSE {<<t, Next1(t).x>>})
    /\ todo' = Past(t)
    /\ UNCHANGED <<extras, born, client, call, utcb, inside>>

(* stupid_sync() and the helper's last message: sent, never answered.       *)
Send(t) ==
    /\ At(t, "send") /\ Receives(Next1(t).x, t)
    /\ todo' = Taken(Next1(t).x, Past(t), <<>>)
    /\ UNCHANGED <<extras, born, client, call, utcb, known, nilReads, inside>>
SsCall(t) ==
    /\ At(t, "call")
    /\ LET s == Next1(t).x IN
        /\ Receives(s, t)
        /\ call' = [call EXCEPT ![t] = s] /\ client' = [client EXCEPT ![s] = t]
        /\ todo' = Taken(s, Past(t), Handler(s, Next1(t).req, Next1(t).arg, t))
    /\ UNCHANGED <<extras, born, utcb, known, nilReads, inside>>
(* The caller is passed on, as if it had called the other.                  *)
SsForward(t) ==
    /\ At(t, "forward")
    /\ LET s == Next1(t).x
           c == client[t]
       IN /\ Receives(s, c)
          /\ call' = [call EXCEPT ![c] = s] /\ client' = [client EXCEPT ![t] = Nobody, ![s] = c]
          /\ todo' = Taken(s, Past(t), Handler(s, Next1(t).req, Next1(t).arg, c))
    /\ UNCHANGED <<extras, born, utcb, known, nilReads, inside>>
(* The end of a handler; a reply in between; no reply; a reply by another.  *)
SsReply(t) ==
    /\ t \in born /\ call[t] = Nobody /\ client[t] # Nobody
    /\ \/ t \in Dispatchers /\ todo[t] = <<>> /\ UNCHANGED todo
       \/ At(t, "reply") /\ todo' = Past(t)
    /\ call' = [call EXCEPT ![client[t]] = Nobody] /\ client' = [client EXCEPT ![t] = Nobody]
    /\ UNCHANGED <<extras, born, utcb, known, nilReads, inside>>
NoReply(t) ==
    /\ At(t, "noreply")
    /\ client' = [client EXCEPT ![t] = Nobody] /\ todo' = Past(t)
    /\ UNCHANGED <<extras, born, call, utcb, known, nilReads, inside>>
async_reply(t) ==
    /\ At(t, "answer")
    /\ call' = [call EXCEPT ![Next1(t).x] = Nobody] /\ todo' = Past(t)
    /\ UNCHANGED <<extras, born, client, utcb, known, nilReads, inside>>

SsNext ==
    \E t \in Threads :
        \/ ThrdEarly(t) \/ ThrdAsk(t) \/ Start(t) \/ ThrdJoin(t)
        \/ configure_uapi(t) \/ reserve_utcb_for_uapi(t) \/ Allocator(t) \/ Names(t)
        \/ Send(t) \/ SsCall(t) \/ SsForward(t) \/ SsReply(t) \/ NoReply(t) \/ async_reply(t)
SsSpec == SsInit /\ [][SsNext]_ssVars

-----------------------------------------------------------------------------
(* Two threads of the root task never have the same UTCB, although the      *)
(* slots of the first ones are counted, later ones come from a bitmap, and  *)
(* the two meet while uapi starts.                                          *)
SlotsDistinct ==
    \A r, s \in RootThreads \cap born : r # s => utcb.slot[r] # utcb.slot[s]
(* No address is read before it is there: neither root's variables (the     *)
(* assertions on vm_tid and sysmsg_tid in root/uapi.c) nor a block that a   *)
(* task reads once and keeps (the assertion in __crt1_entry(), "sysmsg is   *)
(* only available after the first userspace process has started").          *)
AddressesKnown == nilReads = {}
(* The start never comes to a halt with threads that wait for each other:   *)
(* whatever the order, init is reached, and gets on.                        *)
StartGoesOn ==
    \/ "init" \in born /\ \A t \in born : todo[t] = <<>> /\ (call[t] = Nobody \/ t = "child")
    \/ ENABLED SsNext
(* Before tasks are started by others than main(), one thread at a time is  *)
(* within the allocator of tasks and threads, which main() and uapi share   *)
(* without a lock.                                                          *)
OneAllocates == extras = {} => Cardinality(inside) <= 1

(* What the order of main() in root/main.c is for.                          *)
StartSafe == SlotsDistinct /\ AddressesKnown /\ OneAllocates
=============================================================================
