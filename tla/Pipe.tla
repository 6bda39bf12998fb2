-------------------------------- MODULE Pipe --------------------------------
(***************************************************************************)
(* The pipe server: pipe_read(), pipe_write(), pipe_confirm() and          *)
(* pipe_close() of sys/pipe/pipeserv.c, under the read, write and close    *)
(* handlers of sys/io/io.c and the sleeping and waking of                  *)
(* sys/io/pollimpl.c, with the clients' retry loops of user/crt/file.c.    *)
(*                                                                         *)
(* One pipe and single-threaded client processes.  Clients do not use      *)
(* Sneks::Poll here, so CF_NOTIFY is clear and send_poll_event() does      *)
(* nothing.  Descriptor numbers, fork and transfer are the business of     *)
(* IoFd; the lifecycle queue is LcQueue's and is a plain sequence here;    *)
(* the confirm mechanism is used as Rollback shows it to work: a confirm   *)
(* callback runs before the next operation if the reply was delivered, and *)
(* is dropped if it was not.  The model begins once pipe() was answered    *)
(* and its rollback, which add_rollback() has set, was crossed off; what   *)
(* happens when it is not is in IoFd.                                      *)
(***************************************************************************)
EXTENDS Naturals, Sequences, FiniteSets, SequencesExt

CONSTANTS
  Proc,       \* client processes, one thread each
  Layouts,    \* who may hold which end after pipe(), fork() and close()
  Interrupted,\* those that catch signals
  Killed,     \* those that may be killed
  PipeSz,     \* PIPESZ, in bytes
  NonBlock,   \* sets of ends that may have been made O_NONBLOCK
  MaxChunk,   \* bound: bytes moved by one read or write
  Nobody      \* not a process: the server is serving no-one

ASSUME PipeAssumption ==
  /\ Layouts \subseteq [{"r", "w"} -> SUBSET Proc]
  /\ Interrupted \subseteq Proc /\ Killed \subseteq Proc /\ NonBlock \subseteq SUBSET {"r", "w"}
  /\ PipeSz \in Nat \ {0} /\ MaxChunk \in Nat \ {0}
  /\ Nobody \notin Proc

VARIABLES
  st,         \* what the server's operations transform, see ServerState
  serving,    \* the reply about to be made
  pipeConfirm,\* the confirm callback set by the last operation
  exits,      \* lifecycle queue: processes that have exited
  poke,       \* the poke thread is on its way to the dispatch thread
  nonblock,   \* ends with IOF_NONBLOCK
  open,       \* descriptors as the clients know them
  sent,       \* history: bytes whose write was reported done
  received    \* history: bytes that reads have returned

pipeVars == <<st, serving, pipeConfirm, exits, poke, nonblock, open, sent, received>>

End == {"r", "w"}

(* The bytes of the stream are numbered in the order they are written,     *)
(* modulo a number that tells apart as many as a full pipe has, and one.   *)
Byte == 0..PipeSz
From(b, n) == [i \in 1..n |-> (b + i - 1) % (PipeSz + 1)]
Plus(b, n) == (b + n) % (PipeSz + 1)

Op == {"read", "write", "close"}

(* A client thread: out of the server's sight, queued to send to it, in    *)
(* receive phase from it, or gone.                                         *)
PipeIdle == [pc |-> "idle", op |-> "read", end |-> "r", n |-> 0]
Dead == [PipeIdle EXCEPT !.pc = "dead"]
Thread == [pc : {"idle", "send", "await", "dead"}, op : Op, end : End,
           n : 0..MaxChunk]

(* data and start are the membuf; ends has the descriptors of either file, *)
(* an empty set standing for readf or writef being NULL; asleep and        *)
(* writing are client.blocker and CF_WRITE_BLOCKED, the flag forgotten     *)
(* where it is not looked at; th is what the kernel knows of the clients'  *)
(* threads.                                                                *)
ServerState ==
  [data : Seq(Byte), start : 0..PipeSz, ends : [End -> SUBSET Proc],
   asleep : SUBSET Proc, writing : SUBSET Proc, th : [Proc -> Thread]]

NoPipeConfirm == [kind |-> "none", proc |-> Nobody, end |-> "r", bytes |-> <<>>]
NotServing == [proc |-> Nobody, op |-> "read", bytes |-> <<>>]

-----------------------------------------------------------------------------
(* ccan/membuf with a fixed buffer: room is only found behind the data,    *)
(* which is moved to the front when it fills less than half of the buffer. *)
Space(s) == PipeSz - s.start - Len(s.data)

PrepareSpace(s, n) ==
  IF s.data = <<>> \/ (Space(s) < n /\ 2 * Len(s.data) < PipeSz)
  THEN [s EXCEPT !.start = 0] ELSE s

IsFull(s) == Space(s) = 0
IsEmpty(s) == s.data = <<>>

-----------------------------------------------------------------------------
(* maybe_unblock(): an EAGAIN reply reaches any thread in receive phase    *)
(* from the server.  read() and write() then repeat the call; close() and  *)
(* fcntl() take it for their answer.                                       *)
Eagain(t) == IF t.op \in {"read", "write"} THEN [t EXCEPT !.pc = "send"]
             ELSE PipeIdle

MaybeUnblock(s, p, mask) ==
  /\ p \in s.asleep
  /\ (p \in s.writing) <=> (mask = "OUT")
  /\ s.th[p].pc = "await"

io_notify(s, end, mask) ==
  LET woken == {p \in s.ends[end] : MaybeUnblock(s, p, mask)}
  IN [s EXCEPT !.asleep = @ \ woken, !.writing = @ \ woken,
               !.th = [p \in Proc |-> IF p \in woken THEN Eagain(@[p]) ELSE @[p]]]

_nopoll_add_blocker(s, p, wr) ==
  [s EXCEPT !.asleep = @ \cup {p},
            !.writing = IF wr THEN @ \cup {p} ELSE @ \ {p}]

-----------------------------------------------------------------------------
pipe_close(s, end) ==
  IF end = "w" /\ s.ends["r"] # {} THEN io_notify(s, "r", "HUP") ELSE s

(* late_close_fd(), fd_dtor(): the file goes with its last descriptor. *)
fd_dtor(s, p, end) ==
  LET gone == [s EXCEPT !.ends[end] = @ \ {p}]
  IN IF p \in s.ends[end] /\ gone.ends[end] = {}
     THEN pipe_close(gone, end) ELSE gone

(* client_dtor() of each client in gone: their descriptors go as in        *)
(* fd_dtor(), and the last writer's wakes readers, of which the dead no    *)
(* longer listen.                                                          *)
client_dtor(s, gone) ==
  LET left == [s EXCEPT !.ends = [e \in End |-> @[e] \ gone],
                        !.asleep = @ \ gone, !.writing = @ \ gone]
  IN IF s.ends["w"] # {} /\ left.ends["w"] = {} THEN pipe_close(left, "w") ELSE left

lifecycle_sync(s) == client_dtor(s, ToSet(exits))

pipe_confirm(s, c) ==
  CASE c.kind = "write" -> [s EXCEPT !.data = @ \o c.bytes]
    [] c.kind = "read" ->
         [s EXCEPT !.data = SubSeq(@, Len(c.bytes) + 1, Len(@)),
                   !.start = @ + Len(c.bytes)]
    [] c.kind = "close" -> fd_dtor(s, c.proc, c.end)
    [] OTHER -> s

(* What every handler begins with: sync_confirm(), then get_fd(). *)
Synced(s) == lifecycle_sync(pipe_confirm(s, pipeConfirm))

-----------------------------------------------------------------------------
(* The client's side: read(), write(), close() and fcntl(F_SETFL).  The    *)
(* descriptor is gone once close() is called, whatever it returns.         *)
Call(p, op, end, n) ==
  /\ st.th[p].pc = "idle"
  /\ p \in open[end]
  /\ op = "read" => end = "r"
  /\ op = "write" => end = "w"
  /\ n > 0 <=> op \in {"read", "write"}
  /\ st' = [st EXCEPT !.th[p] = [pc |-> "send", op |-> op, end |-> end, n |-> n]]
  /\ open' = IF op = "close" THEN [open EXCEPT ![end] = @ \ {p}] ELSE open
  /\ UNCHANGED <<serving, pipeConfirm, exits, poke, nonblock, sent, received>>

(* A signal breaks the receive phase that read() has opened up to it. *)
Interrupt(p) ==
  /\ p \in Interrupted
  /\ st.th[p].pc \in {"send", "await"} /\ st.th[p].op = "read"
  /\ st' = [st EXCEPT !.th[p] = PipeIdle]
  /\ UNCHANGED <<serving, pipeConfirm, exits, poke, nonblock, open, sent, received>>

(* Death from anywhere; lifecycle_handler_fn() queues it and pokes. *)
Die(p) ==
  /\ p \in Killed /\ st.th[p].pc # "dead"
  /\ st' = [st EXCEPT !.th[p] = Dead]
  /\ exits' = Append(exits, p)
  /\ poke' = TRUE
  /\ open' = [e \in End |-> open[e] \ {p}]
  /\ UNCHANGED <<serving, pipeConfirm, nonblock, sent, received>>

-----------------------------------------------------------------------------
(* The message of p is received, and what its handler then works on. *)
Begin(p, op) ==
  /\ serving = NotServing
  /\ st.th[p].pc = "send" /\ st.th[p].op = op
  /\ exits' = <<>>

Received(p) == Synced([st EXCEPT !.th[p].pc = "await"])

Answer(p, bytes) ==
  serving' = [proc |-> p, op |-> st.th[p].op, bytes |-> bytes]

(* -EWOULDBLOCK: the caller sleeps, or is told so with O_NONBLOCK. *)
WouldBlock(s, p, end) ==
  /\ IF end \in nonblock
     THEN st' = s /\ Answer(p, <<>>)
     ELSE st' = _nopoll_add_blocker(s, p, end = "w") /\ serving' = NotServing
  /\ pipeConfirm' = NoPipeConfirm

(* A mutation of pipe_read(): writers are told when the pipe runs empty rather *)
(* than when it stops being full.                                          *)
ReadTellsWhenEmpty(p, s) ==
  LET got == SubSeq(s.data, 1, IF st.th[p].n < Len(s.data) THEN st.th[p].n
                               ELSE Len(s.data))
  IN IF IsEmpty(s)
     THEN IF s.ends["w"] # {} THEN WouldBlock(s, p, "r")
          ELSE st' = s /\ Answer(p, <<>>) /\ pipeConfirm' = NoPipeConfirm
     ELSE /\ st' = IF got = s.data THEN io_notify(s, "w", "OUT") ELSE s
          /\ Answer(p, got)
          /\ pipeConfirm' = [kind |-> "read", proc |-> p, end |-> "r", bytes |-> got]

(* A mutation of pipe_read(): the bytes are taken before the reply is known to *)
(* have arrived.                                                           *)
ReadTakesEarly(p, s) ==
  LET sp == PrepareSpace(s, 1)
      got == SubSeq(s.data, 1, IF st.th[p].n < Len(s.data) THEN st.th[p].n
                               ELSE Len(s.data))
      sn == IF IsFull(sp) THEN io_notify(sp, "w", "OUT") ELSE sp
  IN IF IsEmpty(s)
     THEN IF s.ends["w"] # {} THEN WouldBlock(s, p, "r")
          ELSE st' = s /\ Answer(p, <<>>) /\ pipeConfirm' = NoPipeConfirm
     ELSE /\ st' = [sn EXCEPT !.data = SubSeq(@, Len(got) + 1, Len(@)),
                              !.start = @ + Len(got)]
          /\ Answer(p, got)
          /\ pipeConfirm' = NoPipeConfirm

(* pipe_read(): end of file, sleep, or a copy of the first bytes, whose    *)
(* removal waits for the confirm.                                          *)
pipe_read(p, s) ==
  LET sp == PrepareSpace(s, 1)
      got == SubSeq(s.data, 1, IF st.th[p].n < Len(s.data) THEN st.th[p].n
                               ELSE Len(s.data))
  IN IF IsEmpty(s)
     THEN IF s.ends["w"] # {} THEN WouldBlock(s, p, "r")
          ELSE st' = s /\ Answer(p, <<>>) /\ pipeConfirm' = NoPipeConfirm
     ELSE /\ st' = IF s.ends["w"] # {} /\ IsFull(sp)
                   THEN io_notify(sp, "w", "OUT") ELSE sp
          /\ Answer(p, got)
          /\ pipeConfirm' = [kind |-> "read", proc |-> p, end |-> "r", bytes |-> got]

HandleRead(p) ==
  /\ Begin(p, "read")
  /\ pipe_read(p, Received(p))
  /\ UNCHANGED <<poke, nonblock, open, sent, received>>

(* pipe_write(): broken pipe, sleep, or as many bytes as there is room for *)
(* behind the data; they become part of it at the confirm.                 *)
pipe_write(p, s) ==
  LET sp == PrepareSpace(s, st.th[p].n)
      put == IF st.th[p].n < Space(sp) THEN st.th[p].n ELSE Space(sp)
      bytes == From(sent, put)
  IN IF s.ends["r"] = {}
     THEN st' = s /\ Answer(p, <<>>) /\ pipeConfirm' = NoPipeConfirm
     ELSE IF IsFull(sp) THEN WouldBlock(sp, p, "w")
     ELSE /\ st' = IF IsEmpty(sp) THEN io_notify(sp, "r", "IN") ELSE sp
          /\ Answer(p, bytes)
          /\ pipeConfirm' = [kind |-> "write", proc |-> p, end |-> "w", bytes |-> bytes]

HandleWrite(p) ==
  /\ Begin(p, "write")
  /\ pipe_write(p, Received(p))
  /\ UNCHANGED <<poke, nonblock, open, sent, received>>

(* io_impl_close(): the descriptor goes when the reply is confirmed, and   *)
(* IO_CONFIRM_CLOSE sees to it that that is soon.                          *)
io_impl_close(p, s) ==
  /\ st' = s
  /\ Answer(p, <<>>)
  /\ pipeConfirm' = [kind |-> "close", proc |-> p, end |-> st.th[p].end, bytes |-> <<>>]
  /\ poke' = TRUE

HandleClose(p) ==
  /\ Begin(p, "close")
  /\ io_impl_close(p, Received(p))
  /\ UNCHANGED <<nonblock, open, sent, received>>

(* The reply, which fails when the caller no longer waits for one; then    *)
(* check_rollback() drops the confirm.                                     *)
Reply ==
  LET p == serving.proc
      got == st.th[p].pc = "await"
  IN /\ serving # NotServing
     /\ serving' = NotServing
     /\ pipeConfirm' = IF got THEN pipeConfirm ELSE NoPipeConfirm
     /\ st' = IF got THEN [st EXCEPT !.th[p] = PipeIdle] ELSE st
     /\ sent' = IF got /\ serving.op = "write" THEN Plus(sent, Len(serving.bytes))
                ELSE sent
     /\ received' = IF got /\ serving.op = "read" THEN Plus(received, Len(serving.bytes))
                    ELSE received
     /\ UNCHANGED <<exits, poke, nonblock, open>>

(* The dispatch loop of io_run() takes the poke thread's message. *)
Poked ==
  /\ serving = NotServing
  /\ poke
  /\ poke' = FALSE
  /\ st' = Synced(st)
  /\ pipeConfirm' = NoPipeConfirm
  /\ exits' = <<>>
  /\ UNCHANGED <<serving, nonblock, open, sent, received>>

PipeInit ==
  /\ open \in Layouts
  /\ st = [data |-> <<>>, start |-> 0, ends |-> open,
           asleep |-> {}, writing |-> {}, th |-> [p \in Proc |-> PipeIdle]]
  /\ nonblock \in NonBlock
  /\ serving = NotServing
  /\ pipeConfirm = NoPipeConfirm
  /\ exits = <<>>
  /\ poke = FALSE
  /\ sent = 0
  /\ received = 0

Handle(p) == HandleRead(p) \/ HandleWrite(p) \/ HandleClose(p)

PipeNext ==
  \/ \E p \in Proc :
       \/ \E op \in Op, end \in End, n \in 0..MaxChunk : Call(p, op, end, n)
       \/ Interrupt(p)
       \/ Die(p)
       \/ HandleRead(p)
       \/ HandleWrite(p)
       \/ HandleClose(p)
  \/ Reply
  \/ Poked

PipeSpec == PipeInit /\ [][PipeNext]_pipeVars

-----------------------------------------------------------------------------
PipeTypeOK ==
  /\ st \in ServerState
  /\ serving \in [proc : Proc \cup {Nobody}, op : Op, bytes : Seq(Byte)]
  /\ pipeConfirm \in [kind : {"none", "read", "write", "close"},
                  proc : Proc \cup {Nobody}, end : End, bytes : Seq(Byte)]
  /\ exits \in Seq(Proc)
  /\ poke \in BOOLEAN
  /\ nonblock \in NonBlock
  /\ open \in [End -> SUBSET Proc]
  /\ sent \in Byte /\ received \in Byte
  /\ st.start + Len(st.data) <= PipeSz

(* A read is answered with the bytes that follow what readers have got,    *)
(* and the pipe holds the rest of what writers were told has been written: *)
(* nothing is lost, repeated or reordered when a reply fails, a reader     *)
(* dies with its data, or a caller is interrupted and tries again.         *)
StreamIntact ==
  /\ serving.op = "read" => serving.bytes = From(received, Len(serving.bytes))
  /\ serving = NotServing =>
       LET data == pipe_confirm(st, pipeConfirm).data
       IN data = From(received, Len(data)) /\ Plus(received, Len(data)) = sent

Asleep(p) == st.th[p].pc = "await" /\ serving.proc # p

(* No wakeup is lost: whoever sleeps in read() or write() is remembered as *)
(* doing so, a sleeping reader has nothing to read and someone to wait     *)
(* for, and a sleeping writer has no room, also after the pending confirm. *)
NoLostWakeup ==
  \A p \in Proc : Asleep(p) =>
    /\ p \in st.asleep
    /\ st.th[p].op \in {"read", "write"}
    /\ p \in st.writing <=> st.th[p].op = "write"
    /\ st.th[p].op = "read" =>
         st.data = <<>> /\ pipeConfirm.kind # "write" /\ st.ends["w"] # {}
    /\ st.th[p].op = "write" =>
         IsFull(PrepareSpace(st, st.th[p].n)) /\ pipeConfirm.kind # "read"

(* When the last writer has closed its descriptor or died, a sleeping      *)
(* reader does not depend on anyone's next call for its end of file: until *)
(* it is told, the close is still on its way to the server or the poke     *)
(* thread is.                                                              *)
HangupOnItsWay ==
  \A p \in Proc :
    Asleep(p) /\ st.th[p].op = "read" /\ open["w"] = {} =>
      \/ poke
      \/ \E q \in Proc : /\ st.th[q].pc \in {"send", "await"}
                         /\ st.th[q].op = "close" /\ st.th[q].end = "w"

(* Sleepers in read() and write() are woken.                               *)
PipeWakes == PipeTypeOK /\ NoLostWakeup /\ HangupOnItsWay
=============================================================================
