-------------------------------- MODULE Mounts --------------------------------
(***************************************************************************)
(* Mounting and unmounting: the worker thread of root/filsys.c, the table  *)
(* it keeps, the broadcast that tells the file system mounted upon, and    *)
(* that file system's own tables of what is mounted in it (add_subfs(),    *)
(* rm_subfs(), sync_subfs(), mount_handler_fn(), attach_super() and        *)
(* squashfs_shutdown() of sys/fs.squashfs/squashfs.c).                     *)
(*                                                                         *)
(* A broadcast runs on the file system's receiver thread, beside the main  *)
(* thread that resolves paths and re-reads the table, one IPC an entry.    *)
(***************************************************************************)
EXTENDS Naturals, Sequences, SequencesExt, FiniteSets

CONSTANTS
    RootFs,     \* the root file system
    NewFs,      \* those that may be spawned
    MountDirs,  \* the directories of each that may be mounted on
    Scenes,     \* the scenes to look at, see MountScene
    ConfirmTries \* the 20 rounds of the confirming loops

AllFs == {RootFs} \cup NewFs

VARIABLES
    mscene,     \* the paths mounted on and whether files are kept open
    fsst,       \* file system -> "free", "starting", "up", "gone"
    minfo,      \* mountinfo_fs: file system -> [super, join], and whether the super listened
    subs,       \* file system -> its mount_info's subs
    gen,        \* mountinfo_gen
    dtype,      \* file system -> directory -> the type of its dentry
    otherfs,    \* file system -> <<directory, file system>> -> entries in otherfs_hash
    needSync,   \* file system -> need_subfs_sync
    listening,  \* file system -> it has subscribed to the broadcasts
    syncing,    \* file system -> where its main thread is in sync_subfs()
    handles,    \* file system -> who has directories of it open
    busy,       \* file systems with other files open
    cutOff,     \* those that closed their parent directory for an unmount that was refused
    worker,     \* the asynchronous operation
    aborted     \* the root task has given up

mountVars == <<mscene, fsst, minfo, subs, gen, dtype, otherfs, needSync, listening, syncing,
               handles, busy, cutOff, worker, aborted>>
tables == <<minfo, subs, gen>>
fsTables == <<dtype, otherfs, needSync>>

NotSyncing == [ix |-> -1, first |-> 0]
WorkerIdle == [pc |-> "idle"]

MountInit ==
    /\ mscene \in Scenes
    /\ fsst = [f \in AllFs |-> IF f = RootFs THEN "up" ELSE "free"]
    /\ minfo = <<>> /\ subs = [f \in AllFs |-> <<>>] /\ gen = 1
    /\ dtype = [f \in AllFs |-> [d \in MountDirs |-> "dir"]]
    /\ otherfs = [f \in AllFs |-> [x \in MountDirs \X NewFs |-> 0]]
    /\ needSync = [f \in AllFs |-> FALSE]
    /\ listening = [f \in AllFs |-> f = RootFs]
    /\ syncing = [f \in AllFs |-> NotSyncing]
    /\ handles = [f \in AllFs |-> {}]
    /\ busy = {} /\ cutOff = {} /\ worker = WorkerIdle /\ aborted = FALSE

-----------------------------------------------------------------------------
(* The file system's tables. *)

\* add_subfs(): whatever there is already.
AddSubfs(f, fs, d) ==
    /\ dtype' = [dtype EXCEPT ![f][d] = "otherfs"]
    /\ otherfs' = [otherfs EXCEPT ![f][<<d, fs>>] = @ + 1]

RmSubfs(f, d) ==
    /\ dtype' = [dtype EXCEPT ![f][d] = "dir"]
    /\ IF \E fs \in NewFs : otherfs[f][<<d, fs>>] > 0
       THEN \E fs \in NewFs : otherfs[f][<<d, fs>>] > 0 /\ otherfs' = [otherfs EXCEPT ![f][<<d, fs>>] = @ - 1]
       ELSE otherfs' = otherfs

\* A step of sync_subfs() in f's main thread, on behalf of a resolve: get_fs_tree() for one
\* entry (locked_get_fs_free()), and the entry added; or the end of the list.
SyncStep(f) ==
    /\ fsst[f] = "up"
    /\ LET s == syncing[f]
           ix == IF s = NotSyncing THEN 0 ELSE s.ix
       IN  /\ s = NotSyncing => needSync[f]
           /\ IF ix < Len(subs[f])
              THEN IF ix > 0 /\ s.first # gen
                   THEN syncing' = [syncing EXCEPT ![f] = NotSyncing] /\ UNCHANGED fsTables
                   ELSE /\ syncing' = [syncing EXCEPT ![f] =
                               [ix |-> ix + 1, first |-> IF ix = 0 THEN gen ELSE s.first]]
                        /\ AddSubfs(f, subs[f][ix + 1], minfo[subs[f][ix + 1]].join)
                        /\ UNCHANGED needSync
              ELSE /\ syncing' = [syncing EXCEPT ![f] = NotSyncing]
                   /\ needSync' = [needSync EXCEPT ![f] = FALSE]
                   /\ UNCHANGED <<dtype, otherfs>>
    /\ UNCHANGED <<mscene, fsst, tables, listening, handles, busy, cutOff, worker, aborted>>

\* The first resolve for a user process subscribes the file system to the broadcasts.
FirstUser(f) ==
    /\ fsst[f] = "up" /\ ~listening[f] /\ ~needSync[f] /\ syncing[f] = NotSyncing
    /\ listening' = [listening EXCEPT ![f] = TRUE]
    /\ UNCHANGED <<mscene, fsst, tables, fsTables, syncing, handles, busy, cutOff, worker, aborted>>

\* A process opens or closes a file.
UserFile(f) ==
    /\ mscene.busy /\ fsst[f] = "up" /\ f # RootFs
    /\ busy' = IF f \in busy THEN busy \ {f} ELSE busy \cup {f}
    /\ UNCHANGED <<mscene, fsst, tables, fsTables, listening, syncing, handles, cutOff, worker, aborted>>

\* attach_super() of a file system that starts: it asks for its superior and takes over the
\* handle of its parent directory, or exits.
Attached(f, super) == handles' = [handles EXCEPT ![super] = (@ \ {"dup"}) \cup {f}]

Attach(f) ==
    /\ fsst[f] = "starting"
    /\ IF f \in DOMAIN minfo
       THEN fsst' = [fsst EXCEPT ![f] = "up"] /\ Attached(f, minfo[f].super)
       ELSE fsst' = [fsst EXCEPT ![f] = "gone"] /\ UNCHANGED handles
    /\ UNCHANGED <<mscene, tables, fsTables, listening, syncing, busy, cutOff, worker, aborted>>

-----------------------------------------------------------------------------
(***************************************************************************)
(* Resolution of a path of directories from the root, as Resolve models    *)
(* it: the set of possible answers, one for each of the entries that       *)
(* htable_get() may find.                                                  *)
(***************************************************************************)
Answer(f, d) == [err |-> "", fs |-> f, dir |-> d]
Failure(e) == [err |-> e, fs |-> RootFs, dir |-> "none"]

RECURSIVE Resolved(_, _)
Resolved(f, path) ==
    IF path = <<>> THEN {Answer(f, "root")}
    ELSE IF fsst[f] # "up" THEN {Failure("ESRCH")}
    ELSE IF dtype[f][Head(path)] = "dir"
    THEN {IF Len(path) = 1 THEN Answer(f, Head(path)) ELSE Failure("ENOENT")}
    ELSE LET to == {fs \in NewFs : otherfs[f][<<Head(path), fs>>] > 0}
         IN  IF to = {} THEN {Failure("EINVAL")}
             ELSE UNION {IF fsst[fs] = "up" THEN Resolved(fs, Tail(path)) ELSE {Failure("ESRCH")} : fs \in to}

\* A server answers once it has read what was mounted since.
Ready == \A f \in AllFs : fsst[f] = "up" => ~needSync[f] /\ syncing[f] = NotSyncing

Step(pc) == worker' = [worker EXCEPT !.pc = pc]
Reply(n) == worker' = [pc |-> "reply", n |-> n]

(* filsys_mount() and filsys_umount(): one operation at a time. *)
async_completed == worker.pc = "idle"

AsyncBegin(op) ==
    /\ async_completed
    /\ \E p \in mscene.paths : worker' = [pc |-> op, path |-> p]
    /\ UNCHANGED <<mscene, fsst, tables, fsTables, listening, syncing, handles, busy, cutOff, aborted>>

\* async_reply(): the caller has its answer.
AsyncReply ==
    /\ worker.pc = "reply" /\ worker' = WorkerIdle
    /\ UNCHANGED <<mscene, fsst, tables, fsTables, listening, syncing, handles, busy, cutOff, aborted>>

(* do_mount() *)
\* Resolve the target and open its parent directory: once for root, once for the new server.
\* (Directories that something is mounted on already are left out.)
MountResolve ==
    /\ worker.pc = "mount" /\ Ready
    /\ \E r \in Resolved(RootFs, worker.path) :
        IF r.err # "" \/ r.dir = "root" THEN Reply(r.err) /\ UNCHANGED handles
        ELSE /\ worker' = [pc |-> "spawn", path |-> worker.path, super |-> r.fs, join |-> r.dir]
             /\ handles' = [handles EXCEPT ![r.fs] = @ \cup {"root", "dup"}]
    /\ UNCHANGED <<mscene, fsst, tables, fsTables, listening, syncing, busy, cutOff, aborted>>

MountSpawn ==
    /\ worker.pc = "spawn"
    /\ \/ \E f \in NewFs :
            /\ fsst[f] = "free"
            /\ fsst' = [fsst EXCEPT ![f] = "starting"]
            /\ worker' = [worker EXCEPT !.pc = "add"] @@ [fs |-> f]
       \/ Reply("spawn") /\ UNCHANGED fsst      \* the handles stay open
    /\ UNCHANGED <<mscene, tables, fsTables, listening, syncing, handles, busy, cutOff, aborted>>

\* add_mount_info(), under the lock.
SubsWith(s, f) == [subs EXCEPT ![s] = Append(@, f)]

MountAdd ==
    /\ worker.pc = "add"
    /\ minfo' = minfo @@ (worker.fs :> [super |-> worker.super, join |-> worker.join,
                                        heard |-> listening[worker.super]])
    /\ subs' = SubsWith(worker.super, worker.fs)
    /\ gen' = gen + 1
    /\ worker' = [worker EXCEPT !.pc = "bcast"] @@ [unmount |-> FALSE]
    /\ UNCHANGED <<mscene, fsst, fsTables, listening, syncing, handles, busy, cutOff, aborted>>

\* The broadcast: mount_handler_fn() on the receiver thread of the file system mounted upon.
\* A mutation: the broadcast of a mount is taken for granted.
NeedsNothing(f) == needSync

NeedsSync(f) == [needSync EXCEPT ![f] = TRUE]

Broadcast ==
    /\ worker.pc = "bcast"
    /\ IF ~listening[worker.super] \/ fsst[worker.super] # "up" THEN UNCHANGED fsTables
       ELSE IF worker.unmount THEN RmSubfs(worker.super, worker.join) /\ UNCHANGED needSync
       ELSE needSync' = NeedsSync(worker.super) /\ UNCHANGED <<dtype, otherfs>>
    /\ Step(IF worker.unmount THEN "wait" ELSE "root")
    /\ UNCHANGED <<mscene, fsst, tables, listening, syncing, handles, busy, cutOff, aborted>>

\* The first resolve within the new file system waits until it serves, then root closes its
\* handles; where the server has exited, root aborts.
MountRoot ==
    /\ worker.pc = "root" /\ fsst[worker.fs] # "starting"
    /\ IF fsst[worker.fs] = "up"
       THEN /\ Step("confirm") /\ UNCHANGED aborted
            /\ handles' = [handles EXCEPT ![worker.super] = @ \ {"root"}]
       ELSE aborted' = TRUE /\ worker' = WorkerIdle /\ UNCHANGED handles
    /\ UNCHANGED <<mscene, fsst, tables, fsTables, listening, syncing, busy, cutOff>>

\* The rounds that confirm a mount or an unmount end when the path leads (no longer) to the
\* file system, and after the last of them in any case.
Confirm ==
    /\ worker.pc \in {"confirm", "gone"} /\ Ready
    /\ LET tries == IF "tries" \in DOMAIN worker THEN worker.tries ELSE 0
       IN  \E r \in Resolved(RootFs, worker.path) :
            IF r.err \notin {"", "ESRCH"} THEN Reply(r.err)
            ELSE IF r.err = "" /\ ((r.fs = worker.fs) = (worker.pc = "confirm")) THEN Reply("")
            ELSE IF tries + 1 = ConfirmTries THEN Reply("")
            ELSE worker' = [tries |-> tries + 1] @@ worker
    /\ UNCHANGED <<mscene, fsst, tables, fsTables, listening, syncing, handles, busy, cutOff, aborted>>

(* do_umount() *)
UmountResolve ==
    /\ worker.pc = "umount" /\ Ready
    /\ \E r \in Resolved(RootFs, worker.path) :
        IF r.err # "" THEN Reply(r.err)
        ELSE IF r.dir # "root" THEN Reply("EINVAL")
        ELSE worker' = [pc |-> "shutdown", path |-> worker.path, fs |-> r.fs]
    /\ UNCHANGED <<mscene, fsst, tables, fsTables, listening, syncing, handles, busy, cutOff, aborted>>

StillUsed(f) == f \in busy \/ handles[f] # {}

\* squashfs_shutdown(): the handle of the parent directory is closed first, whether or not
\* the file system then refuses because files of it are open.
UmountShutdown ==
    /\ worker.pc = "shutdown"
    /\ LET f == worker.fs
       IN  /\ handles' = [s \in AllFs |-> handles[s] \ {f}]
           /\ \/ StillUsed(f) /\ Reply("EBUSY") /\ cutOff' = cutOff \cup {f} /\ UNCHANGED fsst
              \/ ~StillUsed(f) /\ fsst' = [fsst EXCEPT ![f] = "gone"] /\ Step("rm") /\ UNCHANGED cutOff
    /\ UNCHANGED <<mscene, tables, fsTables, listening, syncing, busy, aborted>>

\* rm_mount_info()
UmountRm ==
    /\ worker.pc = "rm"
    /\ LET f == worker.fs
           mi == minfo[f]
       IN  IF subs[f] # <<>> THEN Reply("EBUSY") /\ UNCHANGED tables
           ELSE /\ minfo' = [x \in DOMAIN minfo \ {f} |-> minfo[x]]
                /\ subs' = [subs EXCEPT ![mi.super] = SelectSeq(@, LAMBDA x : x # f)]
                /\ gen' = gen + 1
                /\ worker' = [worker EXCEPT !.pc = "bcast"] @@
                             [unmount |-> TRUE, super |-> mi.super, join |-> mi.join]
    /\ UNCHANGED <<mscene, fsst, fsTables, listening, syncing, handles, busy, cutOff, aborted>>

wait_until_gone(f) == fsst[f] = "gone"

UmountWait ==
    /\ worker.pc = "wait" /\ wait_until_gone(worker.fs) /\ Step("gone")
    /\ UNCHANGED <<mscene, fsst, tables, fsTables, listening, syncing, handles, busy, cutOff, aborted>>

WorkerStep ==
    \/ MountResolve \/ MountSpawn \/ MountAdd \/ Broadcast \/ MountRoot \/ Confirm
    \/ UmountResolve \/ UmountShutdown \/ UmountRm \/ UmountWait \/ AsyncReply

MountNext ==
    /\ ~aborted
    /\ \/ AsyncBegin("mount") \/ AsyncBegin("umount")
       \/ WorkerStep
       \/ \E f \in AllFs : SyncStep(f) \/ FirstUser(f) \/ UserFile(f) \/ Attach(f)

-----------------------------------------------------------------------------
MountTypeOK ==
    /\ fsst \in [AllFs -> {"free", "starting", "up", "gone"}]
    /\ DOMAIN minfo \subseteq NewFs /\ gen \in Nat
    /\ dtype \in [AllFs -> [MountDirs -> {"dir", "otherfs"}]]
    /\ otherfs \in [AllFs -> [MountDirs \X NewFs -> Nat]]
    /\ needSync \in [AllFs -> BOOLEAN] /\ listening \in [AllFs -> BOOLEAN]
    /\ busy \subseteq AllFs

Quiet == worker.pc = "idle" /\ Ready

\* Once a mount has been answered, the file system mounted upon (if it was listening) sends
\* paths through that directory on to it: the entry is there, and the directory's type says so,
\* though other threads read, set and cleared need_subfs_sync and the tables meanwhile.
\* (Whether what it leads to still serves is MountedServes.)
MountVisible ==
    Quiet /\ ~aborted => \A f \in DOMAIN minfo :
        minfo[f].heard /\ fsst[minfo[f].super] = "up" =>
            /\ dtype[minfo[f].super][minfo[f].join] = "otherfs"
            /\ otherfs[minfo[f].super][<<minfo[f].join, f>>] > 0

\* A directory that nothing is mounted on any more is a directory again.
UnmountedInvisible ==
    Quiet => \A s \in AllFs, d \in MountDirs :
        fsst[s] = "up" /\ dtype[s][d] = "otherfs" => \E f \in DOMAIN minfo : minfo[f].super = s /\ minfo[f].join = d

\* Every file system in the table serves, and those that serve hold their parent directory
\* open, so that nothing is shut down while files of it are open or something is mounted in it.
\* It ends where the code breaks it: an unmount that was refused has closed the parent's handle,
\* so that the file system above can be shut down under the one that went on.
MountedServes ==
    Quiet /\ ~aborted => \A f \in DOMAIN minfo :
        /\ fsst[f] \in {"starting", "up"} \/ \E g \in cutOff \cap DOMAIN minfo : minfo[g].super = f
        /\ fsst[f] = "up" /\ f \notin cutOff => f \in handles[minfo[f].super]

\* Every request to mount or unmount is answered, or the root task aborts.
MountsAnswered == worker.pc # "idle" ~> (worker.pc = "idle" \/ aborted)
=============================================================================
