------------------------------ MODULE Rollback ------------------------------
(***************************************************************************)
(* Confirm and rollback handlers of IDL servers (lib/rollback.c), driven   *)
(* by the dispatch loop of sys/io (io_run() in sys/io/io.c).               *)
(*                                                                         *)
(* A server answers a call with one ReplyWait: the reply half may fail,    *)
(* because the caller was interrupted and left its receive phase, and so   *)
(* may the receive half.  A handler that destroys something defers this to *)
(* a confirm handler, run once the reply is known to have gone out; one    *)
(* that creates something sets a rollback handler, run when its reply      *)
(* fails.  Both are kept in one per-thread <struct rbctx>, with a single   *)
(* sender and tag for the two.                                             *)
(*                                                                         *)
(* Calls are numbered as they arrive; a handler stands for the number of   *)
(* the call that set it and 0 for a null function pointer.                 *)
(***************************************************************************)
EXTENDS Naturals, Sequences

CONSTANTS Senders,   \* threads that call the server
          NilThread,    \* the nil thread, in a fresh context
          MaxCalls   \* bound: calls in a behaviour

ASSUME RollbackAssumption == NilThread \notin Senders /\ MaxCalls \in Nat

(* Operations, told apart by their tags, and what an implementation may do *)
(* before it returns: an early return is plain, close() and read() set a   *)
(* confirm handler, dup() a rollback, and a read() that has to wait raises *)
(* muidl's NoReply.                                                        *)
OpKinds == [close |-> {"plain", "confirm"},
            dup |-> {"plain", "rollback"},
            read |-> {"plain", "confirm", "noreply"},
            touch |-> {"plain"}]
Tags == DOMAIN OpKinds
Kinds == {"plain", "confirm", "rollback", "noreply"}

VARIABLES
  ctx,        \* the thread's <struct rbctx>
  log,        \* the calls so far: sender, tag and kind of each
  pc,         \* wait: in the receive half; run: in a handler; reply
  ok,         \* calls whose reply went out
  failed,     \* calls whose reply half failed
  confirmed,  \* calls whose confirm handler has run
  rolled      \* calls whose rollback handler has run

rbVars == <<ctx, log, pc, ok, failed, confirmed, rolled>>

Cur == Len(log)   \* muidl's idea of the ongoing call

RbInit ==
  /\ ctx = [sender |-> NilThread, tag |-> "none", r |-> 0, c |-> 0]
  /\ log = <<>>
  /\ pc = "wait"
  /\ ok = {}
  /\ failed = {}
  /\ confirmed = {}
  /\ rolled = {}

(***************************************************************************)
(* sync_confirm(): the context it leaves and the handler it runs.          *)
(***************************************************************************)
RbSynced(cx) == [cx EXCEPT !.c = 0]
RunConfirm(cx) == confirmed' = confirmed \cup ({cx.c} \ {0})

(* _set_rollback() and _set_confirm(), for the ongoing call. *)
SetRollback(cx) == [cx EXCEPT !.r = Cur, !.sender = log[Cur].sender,
                              !.tag = log[Cur].tag]

SetConfirm(cx) == [cx EXCEPT !.c = Cur, !.sender = log[Cur].sender,
                             !.tag = log[Cur].tag]

(* The next call is received. *)
Receive(s, t, k) ==
  /\ pc = "wait"
  /\ Cur < MaxCalls
  /\ log' = Append(log, [sender |-> s, tag |-> t, kind |-> k])
  /\ pc' = "run"
  /\ UNCHANGED <<ctx, ok, failed, confirmed, rolled>>

(* An operation: sync_confirm() first, then the operation's own work,      *)
(* which may set handlers or raise muidl's NoReply.                        *)
HandleCall ==
  /\ pc = "run"
  /\ LET cx == RbSynced(ctx) IN
     ctx' = CASE log[Cur].kind = "confirm" -> SetConfirm(cx)
              [] log[Cur].kind = "rollback" -> SetRollback(cx)
              [] OTHER -> cx
  /\ RunConfirm(ctx)
  /\ pc' = IF log[Cur].kind = "noreply" THEN "wait" ELSE "reply"
  /\ UNCHANGED <<log, ok, failed, rolled>>

(* The reply half succeeds. *)
ReplyOk ==
  /\ pc = "reply"
  /\ ok' = ok \cup {Cur}
  /\ pc' = "wait"
  /\ UNCHANGED <<ctx, log, failed, confirmed, rolled>>

(***************************************************************************)
(* check_rollback() with an even status: the reply half failed.            *)
(***************************************************************************)
Matches == ctx.tag = log[Cur].tag /\ ctx.sender = log[Cur].sender

(* A mutation: the rollback handler is not popped when it is run. *)
ReplyFailKeepRollback ==
  /\ pc = "reply"
  /\ failed' = failed \cup {Cur}
  /\ rolled' = IF Matches THEN rolled \cup ({ctx.r} \ {0}) ELSE rolled
  /\ ctx' = [ctx EXCEPT !.c = IF Matches THEN 0 ELSE @]
  /\ pc' = "wait"
  /\ UNCHANGED <<log, ok, confirmed>>

ReplyFail ==
  /\ pc = "reply"
  /\ failed' = failed \cup {Cur}
  /\ rolled' = IF Matches THEN rolled \cup ({ctx.r} \ {0}) ELSE rolled
  /\ ctx' = [ctx EXCEPT !.r = 0, !.c = IF Matches THEN 0 ELSE @]
  /\ pc' = "wait"
  /\ UNCHANGED <<log, ok, confirmed>>

(* check_rollback() with an odd status: the receive half failed. *)
ReceiveFail ==
  /\ pc = "wait"
  /\ ctx' = [RbSynced(ctx) EXCEPT !.r = 0]
  /\ RunConfirm(ctx)
  /\ UNCHANGED <<log, pc, ok, failed, rolled>>

(* io_run()'s branch for the poke of io_set_fast_confirm(). *)
RbPoke ==
  /\ pc = "wait"
  /\ ctx' = RbSynced(ctx)
  /\ RunConfirm(ctx)
  /\ UNCHANGED <<log, pc, ok, failed, rolled>>

RbNext ==
  \/ \E s \in Senders, t \in Tags : \E k \in OpKinds[t] : Receive(s, t, k)
  \/ HandleCall \/ ReplyOk \/ ReplyFail \/ ReceiveFail \/ RbPoke

RbSpec == RbInit /\ [][RbNext]_rbVars

-----------------------------------------------------------------------------
Calls == 1..Cur
Confirms == {i \in Calls : log[i].kind = "confirm"}
Rollbacks == {i \in Calls : log[i].kind = "rollback"}

(* The context, the call log and the outcomes keep their types.            *)
RbTypeOK ==
  /\ ctx \in [sender : Senders \cup {NilThread}, tag : Tags \cup {"none"},
              r : 0..Cur, c : 0..Cur]
  /\ log \in Seq([sender : Senders, tag : Tags, kind : Kinds])
  /\ pc \in {"wait", "run", "reply"}
  /\ ok \subseteq Calls /\ failed \subseteq Calls
  /\ confirmed \subseteq Calls /\ rolled \subseteq Calls

(* A confirm handler runs at most once, and only for a call whose own      *)
(* reply went out: a close() is carried out exactly when the caller has    *)
(* heard of it, whatever other calls, failures and pokes follow            *)
(* (sync_confirm(), check_rollback()).                                     *)
ConfirmMeansReplied ==
  /\ confirmed \subseteq ok \cap Confirms
  /\ ctx.c \notin confirmed

(* When the operation after it has run, no confirm handler of a call whose *)
(* reply went out is still pending or lost: operations never work on state *)
(* that an answered call was to change.                                    *)
ConfirmBeforeNext ==
  pc = "reply" => Confirms \cap ok \subseteq confirmed

(* A call whose reply failed, and which had set a rollback handler, is     *)
(* undone before the server receives again, and never twice                *)
(* (check_rollback() pops the handler).  That only such calls are undone   *)
(* does not hold: set_confirm() notes its own call beside the rollback of  *)
(* an answered one, which then runs when the reply to the later call fails *)
(* (IoFd and SquashDir show what follows).                                 *)
FailureIsUndone ==
  /\ Rollbacks \cap failed \subseteq rolled
  /\ ctx.r \notin failed

(* lib/rollback.c carries out what was answered and undoes what was not.   *)
RollbackExact ==
  RbTypeOK /\ ConfirmMeansReplied /\ ConfirmBeforeNext /\ FailureIsUndone
=============================================================================
