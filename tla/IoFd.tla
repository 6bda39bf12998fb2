-------------------------------- MODULE IoFd --------------------------------
(***************************************************************************)
(* Descriptors of sys/io servers (sys/io/io.c): handles, the fork          *)
(* indirection tables, transfers between processes and the processing of   *)
(* lifecycle events.                                                       *)
(*                                                                         *)
(* Beside the server's own state the model keeps what POSIX says the       *)
(* processes should see: view[p][d] is the open file that descriptor d of  *)
(* process p stands for.  Processes fork, exec and exit on their own; the  *)
(* server learns of it through the queue of lifecycle events, which it     *)
(* drains when it looks up a descriptor or a client (lifecycle_sync(); the *)
(* queue itself is modelled in LcQueue).  A call's reply may fail: what it *)
(* did is undone, and what an answered close() or read() deferred is done  *)
(* at the start of the next operation.  The rollback of an answered open() *)
(* or dup() stays set, as in lib/rollback.c, until a failed reply clears   *)
(* it or, by mistake, runs it (StaleReply); `stale' remembers the latter.  *)
(*                                                                         *)
(* Arrays of handles are sets here: the order of darrays and the           *)
(* back-indexes client_ix and file_ix are abstracted away.                 *)
(***************************************************************************)
EXTENDS Naturals, Sequences, FiniteSets, SequencesExt

CONSTANTS
  Pids,        \* processes
  InitLive,    \* those that exist at the start
  Files,       \* open file descriptions
  MaxFd,       \* ids of the rangealloc fd_ra: 1..MaxFd
  None,        \* null pointer, no process, no file
  MaxGen,      \* bound: a process of this generation does not fork
  MaxPending,  \* bound: lifecycle events in the queue
  Receivers    \* processes that descriptors are transferred to

ASSUME IoFdAssumption ==
  /\ InitLive \subseteq Pids /\ None \notin Pids \cup Files
  /\ MaxFd \in Nat /\ MaxGen \in Nat /\ MaxPending \in Nat
  /\ Receivers \subseteq Pids

VARIABLES
  io,       \* the server's state: fds, table, clients, xfer, crashed
  confirm,  \* the confirm handler that is set, or NoConfirm
  rollback, \* the rollback handler that is set, or NoRollback
  stale,    \* ghost: has a rollback undone a call that was answered?
  dup,      \* internal_dup() between its two lifecycle_sync()s, or NoDup
  events,   \* lifecycle events not yet applied
  proc,     \* state of each process: unborn, live or dead
  gen,      \* its generation
  view      \* its descriptors as POSIX has them

envVars == <<proc, gen, view>>
rbkVars == <<rollback, stale>>
ioVars == <<io, confirm, rbkVars, dup, events, envVars>>

Ids == 1..MaxFd
YesNo == {"yes", "no"}

(* <struct fd>; owner is None when the id is free. *)
Fd == [file : Files \cup {None}, owner : Pids \cup {None}, shadow : YesNo,
       transfer : YesNo, cloexec : YesNo, orig : 0..MaxFd]
FreeFd == [file |-> None, owner |-> None, shadow |-> "no",
           transfer |-> "no", cloexec |-> "no", orig |-> 0]

NoConfirm == [fn |-> "none", pid |-> None, fd |-> 0]
NoRollback == [fn |-> "none", fd |-> 0, file |-> None]
NoDup == [pid |-> None, file |-> None, cloexec |-> "no", target |-> None]
NoDesc == [file |-> None, cloexec |-> "no"]

IoFdInit ==
  /\ io = [fds |-> [d \in Ids |-> FreeFd],
           table |-> [p \in Pids |-> [d \in Ids |-> 0]],
           clients |-> {}, xfer |-> {}, crashed |-> "no"]
  /\ confirm = NoConfirm
  /\ rollback = NoRollback /\ stale = "no"
  /\ dup = NoDup
  /\ events = <<>>
  /\ proc = [p \in Pids |-> IF p \in InitLive THEN "live" ELSE "unborn"]
  /\ gen = [p \in Pids |-> 0]
  /\ view = [p \in Pids |-> [d \in Ids |-> NoDesc]]

-----------------------------------------------------------------------------
(***************************************************************************)
(* The server's data structures.  The operators take and return a state of *)
(* the server, or the set of states it may end up in.                      *)
(***************************************************************************)
Handles(s, p) == {d \in Ids : s.fds[d].owner = p}
FreeIds(s) == {d \in Ids : s.fds[d].owner = None}
Crash(s, why) == [s EXCEPT !.crashed = why]

(* get_fd_nosync(): the id of the handle, or 0. *)
GetFd(s, p, d) ==
  IF s.fds[d].owner = p
    THEN IF s.fds[d].shadow = "yes" THEN 0 ELSE d
    ELSE s.table[p][d]

(* alloc_fd(): ids that rangealloc may come up with, without those that    *)
(* have an indirection entry in the client; none when it is exhausted.     *)
AllocFd(s, p) == {d \in FreeIds(s) : s.table[p][d] = 0}

(* fd_dtor() of every handle in D, transfers included.  A file whose last  *)
(* handle goes is closed by the callback and freed.                        *)
FdDtor(s, D) ==
  [s EXCEPT !.fds = [d \in Ids |-> IF d \in D THEN FreeFd ELSE @[d]],
            !.xfer = {t \in @ : t.fd \notin D}]

(* late_close_fd() of every handle in D. *)
LateClose(s, D) ==
  FdDtor([s EXCEPT !.table = [p \in Pids |-> [d \in Ids |->
            IF \E f \in D : /\ s.fds[f].shadow = "yes"
                            /\ s.fds[f].owner = p /\ s.fds[f].orig = d
              THEN 0 ELSE @[p][d]]]], D)

(* client_dtor() *)
ClientDtor(s, p) ==
  LET s1 == FdDtor(s, Handles(s, p))
  IN  [s1 EXCEPT !.clients = @ \ {p}, !.table[p] = [d \in Ids |-> 0]]

(* get_client() with create set *)
AddClient(s, p) == [s EXCEPT !.clients = @ \cup {p}]

(***************************************************************************)
(* fork_client().  The first loop copies the parent's own handles, the     *)
(* second one those that the parent has indirections for, which it looks   *)
(* up by the index i of the indirection rather than by its value.  Copies  *)
(* get new ids from alloc_fd(), never one that already has an entry in the *)
(* child's table; running out of ids ends in abort().                      *)
(***************************************************************************)
OwnHandles(s, p) == {d \in Handles(s, p) : s.fds[d].shadow = "no"}
Indirects(s, p) == {i \in Ids : s.table[p][i] > 0 /\ s.fds[i].owner # None}

(* fork_handle() *)
ForkHandle(s, d, child) ==
  [s.fds[d] EXCEPT !.orig = d, !.owner = child,
                   !.transfer = "no", !.shadow = "yes"]

(* The copies m[d] of the handles d, and the child's record. *)
ForkInto(s, child, m) ==
  LET D == DOMAIN m
      ids == {m[d] : d \in D}
  IN  [s EXCEPT
        !.fds = [f \in Ids |-> IF f \in ids
                   THEN ForkHandle(s, CHOOSE d \in D : m[d] = f, child)
                   ELSE @[f]],
        !.table[child] = [d \in Ids |-> IF d \in D THEN m[d] ELSE 0],
        !.clients = @ \cup {child}]

ForkClient(s, p, child) ==
  IF child \in s.clients THEN {s}
  ELSE IF OwnHandles(s, p) \cap Indirects(s, p) # {}
  THEN {Crash(s, "fork_clash")}
  ELSE LET own == OwnHandles(s, p)
           ind == Indirects(s, p)
           maps == {m \in [own \cup ind -> FreeIds(s)] :
                      /\ IsInjective(m)
                      /\ \A i, j \in ind : j < i => m[i] # j}
       IN  IF maps = {} THEN {Crash(s, "fork_enomem")}
           ELSE {ForkInto(s, child, m) : m \in maps}

(***************************************************************************)
(* One event of lifecycle_sync(), and all of them in order.                *)
(***************************************************************************)

(* A mutation: exec closes nothing. *)
ApplyEventKeepCloexec(s, e) ==
  IF e.pid \notin s.clients THEN {s}
  ELSE IF e.tag = "MPL_FORK" THEN ForkClient(s, e.pid, e.child)
  ELSE IF e.tag = "MPL_EXEC" THEN {s}
  ELSE {ClientDtor(s, e.pid)}

ApplyEvent(s, e) ==
  IF e.pid \notin s.clients \/ s.crashed # "no" THEN {s}
  ELSE CASE e.tag = "MPL_FORK" -> ForkClient(s, e.pid, e.child)
         [] e.tag = "MPL_EXEC" ->
              {LateClose(s, {d \in Handles(s, e.pid) :
                               s.fds[d].cloexec = "yes"})}
         [] e.tag = "MPL_EXIT" -> {ClientDtor(s, e.pid)}

LifecycleSync(s) ==
  LET after[n \in 0..Len(events)] ==
        IF n = 0 THEN {s} ELSE UNION {ApplyEvent(t, events[n]) : t \in after[n - 1]}
  IN  after[Len(events)]

(* sync_confirm(): late_close_fd() or io_confirm(); both rely on the       *)
(* descriptor still being there.                                           *)
SyncConfirm(s) ==
  CASE confirm.fn = "none" -> s
    [] confirm.fn = "late_close_fd" ->
         IF s.fds[confirm.fd].owner = None THEN Crash(s, "confirm")
         ELSE LateClose(s, {confirm.fd})
    [] confirm.fn = "io_confirm" ->
         IF \/ confirm.pid \notin s.clients
            \/ GetFd(s, confirm.pid, confirm.fd) = 0
           THEN Crash(s, "confirm") ELSE s

(* A mutation: lifecycle events are applied before the confirm handler. *)
StartWrongOrder(s) == {SyncConfirm(t) : t \in LifecycleSync(s)}

(* How every operation starts: sync_confirm(), then lifecycle_sync() from  *)
(* get_fd() or get_client().                                               *)
Start(s) == LifecycleSync(SyncConfirm(s))

(* A process may be in a call to the server when it lives, or when it has  *)
(* been killed and the server does not know yet.                           *)
MayCall(p) ==
  \/ proc[p] = "live"
  \/ proc[p] = "dead" /\ \E k \in DOMAIN events :
       events[k].tag = "MPL_EXIT" /\ events[k].pid = p

(* The reply of a call can succeed only while the caller is there. *)
Outcome(p) == IF proc[p] = "live" THEN {"ok", "failed"} ELSE {"failed"}

Idle == io.crashed = "no" /\ dup = NoDup

(***************************************************************************)
(* Operations.  Each takes one of the states that Start() may leave; where *)
(* that was abort() or a failed assertion nothing else happens (Abort).    *)
(***************************************************************************)
Running(s) == {t \in Start(s) : t.crashed = "no"}

Abort ==
  /\ Idle
  /\ \E s \in Start(io) : s.crashed # "no" /\ io' = s
  /\ events' = <<>> /\ confirm' = NoConfirm
  /\ UNCHANGED <<dup, rbkVars, envVars>>

(* get_fd_nosync() for a caller that was removed by the lifecycle_sync()   *)
(* just before: assert(c != NULL).                                         *)
CallerGone(p) ==
  /\ Idle /\ MayCall(p) /\ proc[p] = "dead" /\ p \in io.clients
  /\ \E s \in Running(io) :
       p \notin s.clients /\ io' = Crash(s, "no_client")
  /\ events' = <<>> /\ confirm' = NoConfirm
  /\ UNCHANGED <<dup, rbkVars, envVars>>

(* io_run() is poked: sync_confirm(); lifecycle_sync(). *)
Poke ==
  /\ Idle
  /\ io' \in Running(io)
  /\ events' = <<>> /\ confirm' = NoConfirm
  /\ UNCHANGED <<dup, rbkVars, envVars>>

(* io_add_fd(): the handle d of client p. *)
AddFd(s, p, d, f, cx, tr) ==
  [s EXCEPT !.fds[d] = [FreeFd EXCEPT !.file = f, !.owner = p,
                                      !.cloexec = cx, !.transfer = tr]]

(* iof_undo_new() *)
iof_undo_new(s, f) == FdDtor(s, {d \in Ids : s.fds[d].file = f})

(* chrdev_rollback(): the close callback, then the file goes. *)
chrdev_rollback(s, f) == iof_undo_new(s, f)

(* The rollback handler's work.  Run for a call long answered, it meets a  *)
(* handle or a file that is gone (the assertion in late_close_fd(), freed  *)
(* memory in chrdev_rollback()), or copies that forks have made, whose     *)
(* fd_table entries iof_undo_new() leaves behind: its invariants() fails.  *)
Undo(s) ==
  LET D == {d \in Ids : s.fds[d].file = rollback.file}
  IN  CASE rollback.fn = "late_close_fd" ->
             IF s.fds[rollback.fd].owner = None THEN Crash(s, "stale_rollback")
             ELSE LateClose(s, {rollback.fd})
        [] rollback.fn = "chrdev_rollback" ->
             IF D = {} \/ \E d \in D : s.fds[d].shadow = "yes"
               THEN Crash(s, "stale_rollback")
             ELSE chrdev_rollback(s, rollback.file)

(* Handlers that may be set after a call was answered: one that has set r, *)
(* or r = rollback for one that has set none.  When the server's next      *)
(* receive fails check_rollback() crosses it off.                          *)
Leftovers(r) == {r, NoRollback}

(* The end of a call that has set no rollback.  When its reply fails, and  *)
(* so whenever the caller is gone, check_rollback() forgets the handler    *)
(* that is set.                                                            *)
PlainReply(p, s) ==
  /\ io' = s
  /\ rollback' \in IF "ok" \in Outcome(p) THEN Leftovers(rollback) ELSE {NoRollback}
  /\ UNCHANGED stale

(* Its reply fails, but check_rollback() finds the sender and the tag of   *)
(* this call: set_confirm() has put them there, or the thread has made the *)
(* same call before.  The handler runs, though the call that set it,       *)
(* perhaps another process's, was answered.                                *)
StaleReply(s) ==
  /\ rollback # NoRollback
  /\ io' = Undo(s) /\ rollback' = NoRollback /\ stale' = "yes"

(* An open: chrdev_open(), or one end of chrdev_pipe().  When the reply    *)
(* fails chrdev_rollback() undoes it; when no id is left the file goes at  *)
(* once and the caller is told so (as in CallFails).                       *)
Open(p, f, cx) ==
  /\ Idle /\ MayCall(p)
  /\ \E s0 \in Running(io), out \in Outcome(p) :
       LET s == AddClient(s0, p) IN
       /\ \A d \in Ids : s.fds[d].file # f
       /\ \/ AllocFd(s, p) = {} /\ PlainReply(p, s) /\ UNCHANGED view
          \/ AllocFd(s, p) = {} /\ StaleReply(s) /\ UNCHANGED view
          \/ \E d \in AllocFd(s, p) :
               LET opened == AddFd(s, p, d, f, cx, "no") IN
               /\ UNCHANGED stale
               /\ IF out = "ok"
                    THEN /\ io' = opened
                         /\ rollback' \in Leftovers(
                              [NoRollback EXCEPT !.fn = "chrdev_rollback",
                                                 !.file = f])
                         /\ view' = [view EXCEPT ![p][d] =
                                       [file |-> f, cloexec |-> cx]]
                    ELSE /\ io' = chrdev_rollback(opened, f)
                         /\ rollback' = NoRollback /\ UNCHANGED view
  /\ events' = <<>> /\ confirm' = NoConfirm
  /\ UNCHANGED <<dup, proc, gen>>

(* Any of the calls below finds no such handle, or is a close(), read() or *)
(* write() whose reply fails: nothing of its own is left to be done.       *)
CallFails(p) ==
  /\ Idle /\ MayCall(p)
  /\ \E s \in Running(io) : p \in s.clients /\ (PlainReply(p, s) \/ StaleReply(s))
  /\ events' = <<>> /\ confirm' = NoConfirm
  /\ UNCHANGED <<dup, envVars>>

(* io_impl_close(): the handle goes when the reply is confirmed. *)
Close(p, d) ==
  /\ Idle /\ MayCall(p) /\ "ok" \in Outcome(p)
  /\ \E s \in Running(io) :
       /\ p \in s.clients /\ GetFd(s, p, d) # 0
       /\ io' = s
       /\ confirm' = [fn |-> "late_close_fd", pid |-> None, fd |-> GetFd(s, p, d)]
  /\ view' = [view EXCEPT ![p][d] = NoDesc]
  /\ events' = <<>>
  /\ UNCHANGED <<dup, rbkVars, proc, gen>>

(* io_impl_read() and io_impl_write() that move data: wr_confirm(). *)
ReadWrite(p, d) ==
  /\ Idle /\ MayCall(p) /\ "ok" \in Outcome(p)
  /\ \E s \in Running(io) : p \in s.clients /\ GetFd(s, p, d) # 0 /\ io' = s
  /\ confirm' = [fn |-> "io_confirm", pid |-> p, fd |-> d]
  /\ events' = <<>>
  /\ UNCHANGED <<dup, rbkVars, envVars>>

(* io_impl_set_handle_flags(); it is not undone when the reply fails. *)
SetHandleFlags(p, d, cx) ==
  /\ Idle /\ MayCall(p)
  /\ \E s \in Running(io) :
       /\ p \in s.clients /\ GetFd(s, p, d) # 0
       /\ PlainReply(p, [s EXCEPT !.fds[GetFd(s, p, d)].cloexec = cx])
  /\ view' = [view EXCEPT ![p][d].cloexec = IF proc[p] = "live" THEN cx ELSE @]
  /\ events' = <<>> /\ confirm' = NoConfirm
  /\ UNCHANGED <<dup, proc, gen>>

(* internal_dup() up to the call of io_add_fd(): it has the file and the   *)
(* flags of the new handle, and lifecycle events may yet arrive.           *)
DupStart(p, d, cx, target) ==
  /\ Idle /\ MayCall(p)
  /\ target # None => proc[target] = "live"
  /\ \E s \in Running(io) :
       /\ p \in s.clients /\ GetFd(s, p, d) # 0
       /\ io' = s
       /\ dup' = [pid |-> p, file |-> s.fds[GetFd(s, p, d)].file,
                  cloexec |-> cx, target |-> target]
  /\ events' = <<>> /\ confirm' = NoConfirm
  /\ UNCHANGED <<rbkVars, envVars>>

(* An exec in the meantime has done away with the calling thread. *)
DupOutcome ==
  IF \E k \in DOMAIN events :
       events[k].tag = "MPL_EXEC" /\ events[k].pid = dup.pid
    THEN {"failed"} ELSE Outcome(dup.pid)

(* The rest of it: get_client() applies lifecycle events again, which may  *)
(* destroy the file it holds; then io_add_fd(), the transfer and the       *)
(* reply, with late_close_fd() as its rollback.                            *)
DupFinish ==
  /\ io.crashed = "no" /\ dup # NoDup
  /\ \E s0 \in LifecycleSync(io), out \in DupOutcome :
       LET p == dup.pid
           s == AddClient(s0, p)
           gone == s0.crashed # "no" \/ \A d \in Ids : s.fds[d].file # dup.file
           tr == IF dup.target = None THEN "no" ELSE "yes" IN
       \/ /\ gone
          /\ io' = (IF s0.crashed # "no" THEN s0 ELSE Crash(s, "stale_file"))
          /\ UNCHANGED <<rbkVars, view>>
       \/ ~gone /\ AllocFd(s, p) = {} /\ PlainReply(p, s) /\ UNCHANGED view
       \/ ~gone /\ AllocFd(s, p) = {} /\ StaleReply(s) /\ UNCHANGED view
       \/ /\ ~gone /\ AllocFd(s, p) # {} /\ out = "failed"
          /\ io' = s /\ rollback' = NoRollback /\ UNCHANGED <<stale, view>>
       \/ /\ ~gone /\ out = "ok"
          /\ \E d \in AllocFd(s, p) :
               /\ io' = [AddFd(s, p, d, dup.file, dup.cloexec, tr) EXCEPT
                           !.xfer = @ \cup
                             (IF dup.target = None THEN {}
                              ELSE {[fd |-> d, target |-> dup.target]})]
               /\ rollback' \in Leftovers(
                    [NoRollback EXCEPT !.fn = "late_close_fd", !.fd = d])
               /\ view' = [view EXCEPT ![p][d] =
                             [file |-> dup.file, cloexec |-> dup.cloexec]]
          /\ UNCHANGED stale
  /\ dup' = NoDup
  /\ events' = <<>>
  /\ UNCHANGED <<confirm, proc, gen>>

(* io_impl_touch(): the receiver takes over; not undone either. *)
Touch(p, d) ==
  /\ Idle /\ MayCall(p)
  /\ \E s0 \in Running(io) :
       LET s == AddClient(s0, p)
           t == [fd |-> d, target |-> p]
       IN  IF t \notin s.xfer \/ s.fds[d].transfer = "no"
             THEN PlainReply(p, s) /\ UNCHANGED view
             ELSE /\ PlainReply(p, [s EXCEPT !.xfer = @ \ {t},
                                                !.fds[d].owner = p,
                                                !.fds[d].transfer = "no"])
                  /\ view' = [q \in Pids |-> [view[q] EXCEPT ![d] =
                       IF q = p /\ proc[p] = "live"
                         THEN [file |-> s.fds[d].file,
                               cloexec |-> s.fds[d].cloexec]
                       ELSE IF q = s.fds[d].owner THEN NoDesc ELSE @]]
  /\ events' = <<>> /\ confirm' = NoConfirm
  /\ UNCHANGED <<dup, proc, gen>>

-----------------------------------------------------------------------------
(* The server's debug checks. *)
transfer_hash_invariants(s) == \A t \in s.xfer : s.fds[t.fd].transfer = "yes"
fd_table_invariants(s, p) ==
  \A i \in Ids : LET f == s.table[p][i] IN
    f > 0 => /\ s.table[p][f] = 0
             /\ s.fds[f].owner = p
             /\ s.fds[f].shadow = "yes"
invariants(s) ==
  /\ \A d \in Ids \ FreeIds(s) :
       /\ s.fds[d].owner \in s.clients
       /\ s.fds[d].file # None
       /\ s.fds[d].transfer = "yes"
            <=> Cardinality({t \in s.xfer : t.fd = d}) = 1
  /\ \A p \in s.clients : fd_table_invariants(s, p)
  /\ transfer_hash_invariants(s)

-----------------------------------------------------------------------------
(***************************************************************************)
(* Processes.  Root broadcasts each of these as a lifecycle message before *)
(* the process can tell the difference.                                    *)
(***************************************************************************)
Announce(tag, p, q) ==
  /\ io.crashed = "no"
  /\ proc[p] = "live"
  /\ Len(events) < MaxPending
  /\ events' = Append(events, [tag |-> tag, pid |-> p, child |-> q])
  /\ UNCHANGED <<io, confirm, rbkVars, dup>>

Fork(p, q) ==
  /\ proc[q] = "unborn" /\ gen[p] < MaxGen
  /\ Announce("MPL_FORK", p, q)
  /\ proc' = [proc EXCEPT ![q] = "live"]
  /\ gen' = [gen EXCEPT ![q] = gen[p] + 1]
  /\ view' = [view EXCEPT ![q] = view[p]]

Exec(p) ==
  /\ Announce("MPL_EXEC", p, None)
  /\ view' = [view EXCEPT ![p] = [d \in Ids |->
                IF @[d].cloexec = "yes" THEN NoDesc ELSE @[d]]]
  /\ UNCHANGED <<proc, gen>>

Exit(p) ==
  /\ Announce("MPL_EXIT", p, None)
  /\ proc' = [proc EXCEPT ![p] = "dead"]
  /\ view' = [view EXCEPT ![p] = [d \in Ids |-> NoDesc]]
  /\ UNCHANGED gen

IoFdNext ==
  \/ Abort \/ Poke \/ DupFinish
  \/ \E p \in Pids :
       \/ CallFails(p) \/ CallerGone(p) \/ Exec(p) \/ Exit(p)
       \/ \E q \in Pids : Fork(p, q)
       \/ \E f \in Files, cx \in YesNo : Open(p, f, cx)
       \/ \E d \in Ids :
            \/ Close(p, d) \/ ReadWrite(p, d)
            \/ p \in Receivers /\ Touch(p, d)
            \/ \E cx \in YesNo : \/ SetHandleFlags(p, d, cx)
                                 \/ DupStart(p, d, cx, None)
            \/ \E q \in Receivers : DupStart(p, d, "no", q)

IoFdSpec == IoFdInit /\ [][IoFdNext]_ioVars

-----------------------------------------------------------------------------
(* The server's structures, the queue and the processes keep their types.  *)
IoFdTypeOK ==
  /\ io.fds \in [Ids -> Fd]
  /\ io.table \in [Pids -> [Ids -> 0..MaxFd]]
  /\ io.clients \subseteq Pids
  /\ io.xfer \subseteq [fd : Ids, target : Pids]
  /\ io.crashed \in {"no", "confirm", "no_client", "stale_file",
                     "stale_rollback", "fork_enomem", "fork_clash"}
  /\ confirm \in [fn : {"none", "late_close_fd", "io_confirm"},
                  pid : Pids \cup {None}, fd : 0..MaxFd]
  /\ \/ rollback = NoRollback
     \/ rollback.fn = "late_close_fd" /\ rollback.fd \in Ids
     \/ rollback.fn = "chrdev_rollback" /\ rollback.file \in Files
  /\ stale \in YesNo
  /\ dup \in [pid : Pids \cup {None}, file : Files \cup {None},
              cloexec : YesNo, target : Pids \cup {None}]
  /\ events \in Seq([tag : {"MPL_FORK", "MPL_EXEC", "MPL_EXIT"},
                     pid : Pids, child : Pids \cup {None}])
  /\ proc \in [Pids -> {"unborn", "live", "dead"}]
  /\ gen \in [Pids -> 0..MaxGen]
  /\ view \in [Pids -> [Ids -> [file : Files \cup {None}, cloexec : YesNo]]]

(* Nothing is deferred: the server has caught up with the processes, and   *)
(* has not undone a call that was answered, after which it cannot.         *)
Settled == Idle /\ confirm = NoConfirm /\ events = <<>> /\ stale = "no"

(* Once the server has caught up, each live process finds under each       *)
(* descriptor number the file and the close-on-exec flag that POSIX says,  *)
(* and nothing under the others: through forks, whose shadowed handles are *)
(* resolved by fd_table[], exec, lazy close and dup, with events and       *)
(* confirms arriving late (private.h: "fork(2) copies descriptors but they *)
(* retain their values in the resulting child").                           *)
DescriptorsAgree ==
  Settled => \A p \in Pids, d \in Ids : proc[p] = "live" =>
    LET f == GetFd(io, p, d) IN
    IF view[p][d].file = None THEN f = 0
    ELSE /\ f # 0
         /\ io.fds[f].file = view[p][d].file
         /\ io.fds[f].cloexec = view[p][d].cloexec

(* The server keeps no file open that no process can reach any more, so    *)
(* that close callbacks (a pipe's hangup) come when they should.  The      *)
(* exception is a process killed during its own touch(): get_client()      *)
(* applies its exit and then creates a client record for it once more,     *)
(* which nothing will remove.                                              *)
NoFileLeaks ==
  Settled => {io.fds[d].file : d \in {d \in Ids \ FreeIds(io) :
                                        proc[io.fds[d].owner] = "live"}}
               \subseteq {view[p][d].file : p \in Pids, d \in Ids}

(* invariants(), the checks compiled in under DEBUG_ME_HARDER, hold while  *)
(* the server runs: owners, files, indirections and transfers point at one *)
(* another through forks, transfers, rollbacks and exits applied late.     *)
Invariants == io.crashed = "no" => invariants(io)

(* No client has a descriptor of its own under a number that it also has   *)
(* an indirection for, which get_fd_nosync() would hide; alloc_fd() is     *)
(* there "to avoid creating descriptors for which an indirection entry     *)
(* exists".                                                                *)
NoNumberClash ==
  \A d \in Ids \ FreeIds(io) :
    io.fds[d].shadow = "no" => io.table[io.fds[d].owner][d] = 0

(* Confirm handlers find their descriptor: the assertion in io_confirm(),  *)
(* whose comment demands that confirms execute before lifecycle events are *)
(* processed, and the one in late_close_fd().                              *)
ConfirmTargetsValid == io.crashed # "confirm"

(* The records of sys/io/io.c agree with one another through operations,   *)
(* failed replies and events applied late.                                 *)
IoFdBooks == IoFdTypeOK /\ Invariants /\ NoNumberClash /\ ConfirmTargetsValid

(* Once the server has caught up, processes find the files that POSIX says *)
(* under their descriptors, and the server keeps no other file open: until *)
(* a failed reply has run the rollback of a call that was answered.        *)
FilesAgree == DescriptorsAgree /\ NoFileLeaks
=============================================================================
