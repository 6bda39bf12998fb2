------------------------------- MODULE Signals -------------------------------
(***************************************************************************)
(* Signals of one process: its sets in the root task (root/sig.c), and the *)
(* runtime's part (user/crt/sigaction.c, signal.c).                        *)
(*                                                                         *)
(* A signal from outside makes root start a helper thread in the process,  *)
(* which runs __sig_bottom() over and over: fetch what is pending, divert  *)
(* the main thread into the first handler, queue the rest.  Root removes   *)
(* it when nothing is pending.  The main thread runs __sig_bottom() too,   *)
(* after kill() of itself and after unmasking.  Between the two threads    *)
(* stand recv_break_flag, n_calls, block_set and the queue.  Nothing       *)
(* orders the two threads.                                                 *)
(***************************************************************************)
EXTENDS Integers, Sequences, SequencesExt, FiniteSets, FiniteSetsExt

CONSTANTS
    Sigs,          \* signal numbers
    RtMin,         \* SIGRTMIN
    Chld, Fatal,   \* signals that are ignored by default, that kill by default
    SaMask,        \* sa_mask of each signal's handler, without SA_NODEFER
    QSlots,        \* QSBLKMAX + 1
    SigScenes      \* what the program and others do: see SigInit

VARIABLES
    sgs,                                      \* the scene
    pending_set, mask_set, saved_mask_set,    \* struct process in root
    ign_set, dfl_set,                         \* the same in root and in the runtime (see sigaction)
    helper,                                   \* the helper's __sig_bottom(), or none
    recv_break_flag, block_set, n_calls, sigq,
    op, bot,                                  \* the main thread: what it does, its __sig_bottom()
    stk,                                      \* its __sig_invoke() frames
    deferred,                                 \* frames it enters once its receive phase ends
    sgfail, dead,                             \* an assertion failed; the process was killed
    sigDue, mymask, nsent, taken, handled, dropped,
    tangled                                 \* see Tangles

rootSigVars == <<pending_set, mask_set, saved_mask_set, ign_set, dfl_set, helper, dead>>
mainVars == <<op, bot, stk, deferred>>
ghostVars == <<sigDue, mymask, nsent, taken, handled, dropped>>
sigState == <<sgs, rootSigVars, recv_break_flag, block_set, n_calls, sigq, mainVars, sgfail, ghostVars>>
sigVars == <<sigState, tangled>>

NotSaved == {-1}
Bot0 == [pc |-> "b1", rbo |-> FALSE, got |-> {}, call |-> 0, sig |-> 0]
NoHelper == [Bot0 EXCEPT !.pc = "none"]
Rt == {s \in Sigs : s >= RtMin}

(* A scene: signals that others send, that the program sends itself, the most that are sent,  *)
(* masks it sets and suspends with, dispositions it changes, whether it reads, pauses, and     *)
(* leaves handlers by longjmp().                                                               *)
SigInit ==
    /\ sgs \in SigScenes
    /\ pending_set = {} /\ mask_set = sgs.mask /\ saved_mask_set = NotSaved
    /\ ign_set = {} /\ dfl_set = {s \in Sigs : s \in {Chld, Fatal}}
    /\ helper = NoHelper
    /\ recv_break_flag = FALSE /\ block_set = {} /\ n_calls = 0
    /\ sigq = [rel |-> {}, rt |-> [i \in 0..QSlots - 1 |-> {}], head |-> 0, tail |-> 0]
    /\ op = "run" /\ bot = Bot0 /\ stk = <<>> /\ deferred = <<>>
    /\ sgfail = "" /\ dead = FALSE
    /\ sigDue = {} /\ mymask = sgs.mask /\ nsent = 0
    /\ taken = [s \in Rt |-> 0] /\ handled = [s \in Rt |-> 0] /\ dropped = FALSE
    /\ tangled = FALSE

Alive == ~dead /\ sgfail = ""

-----------------------------------------------------------------------------
(***************************************************************************)
(* root/sig.c.  Operators on the record of root's sets, with what else     *)
(* happens: the helper started, the process killed, root's assertion.      *)
(***************************************************************************)
RootSets == [pending |-> pending_set, mask |-> mask_set, started |-> FALSE, died |-> FALSE,
             due |-> sigDue, fail |-> FALSE]

\* The bit that the assertion looks at is that of the next signal.
sig_default(r, s) ==
    IF s = Fatal THEN [r EXCEPT !.died = TRUE] ELSE [r EXCEPT !.fail = s + 1 \in r.pending]

sig_deliver(r, s, self) ==
    [r EXCEPT !.pending = @ \cup {s}, !.due = @ \cup {s}, !.started = @ \/ ~self]

sig_send(r, s, self) ==
    IF s \in r.mask THEN [r EXCEPT !.pending = @ \cup {s}]
    ELSE IF s \in r.pending THEN r
    ELSE IF s \in dfl_set THEN sig_default(r, s)
    ELSE IF s \in ign_set THEN r
    ELSE sig_deliver(r, s, self)

Apply(r) ==
    /\ pending_set' = r.pending /\ mask_set' = r.mask /\ sigDue' = r.due
    /\ dead' = r.died
    /\ helper' = IF r.died THEN NoHelper
                 ELSE IF r.started /\ helper.pc = "none" THEN Bot0 ELSE helper
    /\ sgfail' = IF r.fail THEN "sig_default" ELSE sgfail

\* root_uapi_kill() by another process.
Kill(s) ==
    /\ Alive /\ s \in sgs.send /\ nsent < sgs.max /\ nsent' = nsent + 1
    /\ Apply(sig_send(RootSets, s, FALSE))
    /\ UNCHANGED <<sgs, saved_mask_set, ign_set, dfl_set, recv_break_flag, block_set, n_calls, sigq,
                   mainVars, mymask, taken, handled, dropped>>

\* root_uapi_sigset(2, or, and): what was unmasked is sent again, as though by the process itself.
sigset_mask(r, or, and) ==
    LET trig == r.pending \cap (r.mask \ and)
        send(x, s) == sig_send(x, s, TRUE)
    IN  FoldLeft(send, [r EXCEPT !.mask = (@ \cap and) \cup or, !.pending = @ \ trig],
                 SetToSortSeq(trig \ ign_set, <))

\* root_uapi_sigset(4, 0, 0): the pending signals that are not masked; one, if that ends sigsuspend().
Fetched ==
    LET got == pending_set \ mask_set
    IN  IF saved_mask_set # NotSaved /\ got # {} THEN {Min(got)} ELSE got

EndSuspend(got) == IF got # {} THEN NotSaved ELSE saved_mask_set

sigset_fetch ==
    /\ pending_set' = pending_set \ Fetched
    /\ saved_mask_set' = EndSuspend(Fetched)
    /\ mask_set' = IF saved_mask_set' = NotSaved /\ saved_mask_set # NotSaved THEN saved_mask_set ELSE mask_set
    /\ taken' = [s \in Rt |-> taken[s] + (IF s \in Fetched THEN 1 ELSE 0)]

-----------------------------------------------------------------------------
(* The queue: queue_signals() and next_signal(). *)
\* A result has ok = FALSE for -EAGAIN, where the status word was not stored.
\* A mutation: what the slot had already is not stored again.
LeftNone(slot, sigs) == {}

Left(slot, sigs) == sigs \cap slot

RECURSIVE Deposit(_, _, _)
Deposit(q, tail, sigs) ==
    LET left == Left(q.rt[tail], sigs)
        nq == [q EXCEPT !.rt[tail] = @ \cup sigs]
        next == (tail + 1) % QSlots
    IN  IF left = {} THEN [q |-> [nq EXCEPT !.tail = tail], ok |-> TRUE]
        ELSE IF next = q.head THEN [q |-> nq, ok |-> FALSE]
        ELSE Deposit(nq, next, left)

queue_signals(q, sigs) ==
    LET d == Deposit(q, q.tail, sigs \cap Rt)
    IN  IF d.ok THEN [d EXCEPT !.q.rel = @ \cup (sigs \ Rt)] ELSE d

\* The slot of the first signal, from the head towards the tail.
\* A mutation: only the head's slot is looked at.
OccupiedAtHead(q) == {k \in {0} : q.rt[q.head] # {}}

Occupied(q) == {k \in 0..((q.tail - q.head) % QSlots) : q.rt[(q.head + k) % QSlots] # {}}

next_signal(q) ==
    IF q.rel # {} THEN [got |-> Min(q.rel), q |-> [q EXCEPT !.rel = @ \ {Min(@)}]]
    ELSE IF Occupied(q) = {} THEN [got |-> 0, q |-> q]
    ELSE LET h == (q.head + Min(Occupied(q))) % QSlots
         IN  [got |-> Min(q.rt[h]), q |-> [q EXCEPT !.rt[h] = @ \ {Min(@)}, !.head = h]]

-----------------------------------------------------------------------------
(***************************************************************************)
(* __sig_bottom(), of the helper and of the main thread, in five steps.    *)
(***************************************************************************)
\* The flag is taken.
Bottom1(b) == [b EXCEPT !.pc = "b2", !.rbo = recv_break_flag]

\* One that is not blocked is run directly, by whoever is alone; the rest is queued.
Direct(got, call) == IF call = 0 /\ got \ block_set # {} THEN Min(got \ block_set) ELSE 0

\* The call is counted and a signal chosen by the handlers' blocks of that moment...
After3(b) ==
    LET s == Direct(b.got, n_calls)
    IN  [b EXCEPT !.pc = "queue", !.call = n_calls, !.sig = s, !.got = @ \ {s}]

\* ...and the rest is queued, perhaps after those blocks have changed.
QueueRest(b) ==
    LET d == queue_signals(sigq, b.got)
    IN  sigq' = d.q /\ dropped' = (dropped \/ ~d.ok)

Queued(b) == [b EXCEPT !.pc = "b4", !.got = {}]

HelperStep1 ==
    /\ Alive /\ helper.pc = "b1"
    /\ helper' = Bottom1(helper) /\ recv_break_flag' = FALSE
    /\ UNCHANGED <<sgs, pending_set, mask_set, saved_mask_set, ign_set, dfl_set, dead, block_set, n_calls,
                   sigq, mainVars, sgfail, ghostVars>>

\* Root's terminating condition for the helper is that nothing at all is pending.
HelperStep2 ==
    /\ Alive /\ helper.pc = "b2"
    /\ IF pending_set = {}
       THEN helper' = NoHelper /\ UNCHANGED <<pending_set, mask_set, saved_mask_set, taken>>
       ELSE helper' = [helper EXCEPT !.pc = "b3", !.got = Fetched] /\ sigset_fetch
    /\ UNCHANGED <<sgs, ign_set, dfl_set, dead, recv_break_flag, block_set, n_calls, sigq, mainVars, sgfail,
                   sigDue, mymask, nsent, handled, dropped>>

HelperStep3 ==
    /\ Alive /\ helper.pc = "b3"
    /\ helper' = After3(helper) /\ n_calls' = n_calls + 1
    /\ sgfail' = IF helper.got \cap (ign_set \cup dfl_set) # {} THEN "fetched" ELSE sgfail
    /\ UNCHANGED <<sgs, pending_set, mask_set, saved_mask_set, ign_set, dfl_set, dead, recv_break_flag,
                   block_set, sigq, mainVars, ghostVars>>

HelperQueue ==
    /\ Alive /\ helper.pc = "queue"
    /\ helper' = Queued(helper) /\ QueueRest(helper)
    /\ UNCHANGED <<sgs, pending_set, mask_set, saved_mask_set, ign_set, dfl_set, dead, recv_break_flag,
                   block_set, n_calls, mainVars, sgfail, sigDue, mymask, nsent, taken, handled>>

\* The main thread is sent into __sig_invoke(): out of a send phase always, out of a receive phase
\* where that is permitted, and otherwise once that has ended.
Frame(s, rbo, to) == [sig |-> s, rbo |-> rbo, masked |-> {}, op |-> to, bot |-> bot]

Receiving == op \in {"recv", "susp"}

\* A mutation: a receive phase is never broken off.
BreakableNever(rbo) == FALSE

Breakable(rbo) == rbo

Divert(s, rbo) ==
    IF Receiving /\ ~Breakable(rbo)
    THEN /\ deferred' = Append(deferred, Frame(s, rbo, "broken"))
         /\ UNCHANGED <<op, bot, stk>>
    ELSE /\ stk' = Append(stk, Frame(s, rbo, IF Receiving THEN "broken" ELSE IF op = "pause" THEN "run" ELSE op))
         /\ op' = "enter" /\ bot' = Bot0
         /\ UNCHANGED deferred

\* n_calls is reset, and the helper goes round again.
FlagBack(b) == IF b.sig = 0 THEN b.rbo ELSE recv_break_flag

HelperStep4 ==
    /\ Alive /\ helper.pc = "b4"
    /\ helper' = Bot0 /\ n_calls' = 0
    /\ recv_break_flag' = FlagBack(helper)
    /\ IF helper.sig # 0 THEN Divert(helper.sig, helper.rbo) ELSE UNCHANGED mainVars
    /\ sgfail' = IF helper.call # 0 THEN "call" ELSE sgfail
    /\ UNCHANGED <<sgs, pending_set, mask_set, saved_mask_set, ign_set, dfl_set, dead, block_set, sigq, ghostVars>>

(* The same in the main thread. *)
MainBottom1 ==
    /\ Alive /\ op = "bottom" /\ bot.pc = "b1"
    /\ bot' = Bottom1(bot) /\ recv_break_flag' = FALSE
    /\ UNCHANGED <<sgs, rootSigVars, block_set, n_calls, sigq, op, stk, deferred, sgfail, ghostVars>>

MainBottom2 ==
    /\ Alive /\ op = "bottom" /\ bot.pc = "b2"
    /\ bot' = [bot EXCEPT !.pc = "b3", !.got = Fetched] /\ sigset_fetch
    /\ UNCHANGED <<sgs, ign_set, dfl_set, helper, dead, recv_break_flag, block_set, n_calls, sigq, op, stk,
                   deferred, sgfail, sigDue, mymask, nsent, handled, dropped>>

MainBottom3 ==
    /\ Alive /\ op = "bottom" /\ bot.pc = "b3"
    /\ bot' = After3(bot) /\ n_calls' = n_calls + 1
    /\ sgfail' = IF bot.got \cap (ign_set \cup dfl_set) # {} THEN "fetched" ELSE sgfail
    /\ UNCHANGED <<sgs, rootSigVars, recv_break_flag, block_set, sigq, op, stk, deferred, ghostVars>>

MainQueue ==
    /\ Alive /\ op = "bottom" /\ bot.pc = "queue"
    /\ bot' = Queued(bot) /\ QueueRest(bot)
    /\ UNCHANGED <<sgs, rootSigVars, recv_break_flag, block_set, n_calls, op, stk, deferred, sgfail,
                   sigDue, mymask, nsent, taken, handled>>

\* __invoke_sig_sync(), with the end of __sig_bottom() after it.
MainBottom4 ==
    /\ Alive /\ op = "bottom" /\ bot.pc = "b4"
    /\ n_calls' = 0 /\ recv_break_flag' = FlagBack(bot)
    /\ sgfail' = IF bot.call # 0 THEN "call" ELSE sgfail
    /\ LET b == [Bot0 EXCEPT !.pc = IF n_calls > 1 THEN "b1" ELSE "end"]
       IN  IF bot.sig # 0
           THEN /\ stk' = Append(stk, [Frame(bot.sig, bot.rbo, "bottom") EXCEPT !.bot = b])
                /\ op' = "enter" /\ bot' = Bot0
           ELSE bot' = b /\ UNCHANGED <<op, stk>>
    /\ UNCHANGED <<sgs, rootSigVars, block_set, sigq, deferred, ghostVars>>

MainBottomEnd ==
    /\ Alive /\ op = "bottom" /\ bot.pc = "end"
    /\ op' = "run" /\ bot' = Bot0
    /\ UNCHANGED <<sgs, rootSigVars, recv_break_flag, block_set, n_calls, sigq, stk, deferred, sgfail, ghostVars>>

-----------------------------------------------------------------------------
(* __sig_invoke(): mask, handler, unmask, the next in the queue, leave. *)
Top == Last(stk)
SetTop(f) == Front(stk) \o <<f>>

MaskedBy(s) == (SaMask[s] \cup {s}) \ block_set

EnterHandler ==
    /\ Alive /\ op = "enter"
    /\ stk' = SetTop([Top EXCEPT !.masked = MaskedBy(Top.sig)])
    /\ block_set' = block_set \cup SaMask[Top.sig] \cup {Top.sig}
    /\ op' = "run" /\ sigDue' = sigDue \ {Top.sig}
    /\ handled' = IF Top.sig \in Rt THEN [handled EXCEPT ![Top.sig] = @ + 1] ELSE handled
    /\ sgfail' = IF Top.sig \in ign_set \cup dfl_set THEN "entered" ELSE sgfail
    /\ UNCHANGED <<sgs, rootSigVars, recv_break_flag, n_calls, sigq, bot, deferred, mymask, nsent, taken, dropped>>

\* The handler returns, or leaves by longjmp(): the outermost context goes on elsewhere, which
\* only shows once the handlers beneath have returned too.
HandlerReturn(jump) ==
    /\ Alive /\ op = "run" /\ stk # <<>>
    /\ jump => sgs.jump
    /\ block_set' = block_set \ Top.masked
    /\ LET f == [Top EXCEPT !.masked = {}]
       IN  stk' = IF jump THEN [SetTop(f) EXCEPT ![1].op = "run"] ELSE SetTop(f)
    /\ op' = "next"
    /\ UNCHANGED <<sgs, rootSigVars, recv_break_flag, n_calls, sigq, bot, deferred, sgfail, ghostVars>>

FlagOf(f) == f.rbo

NextSignal ==
    /\ Alive /\ op = "next"
    /\ LET n == next_signal(sigq)
       IN  /\ sigq' = n.q
           /\ IF n.got # 0
              THEN /\ stk' = SetTop([Top EXCEPT !.sig = n.got]) /\ op' = "enter"
                   /\ UNCHANGED <<bot, recv_break_flag, sgfail>>
              ELSE /\ stk' = Front(stk) /\ op' = Top.op /\ bot' = Top.bot
                   /\ recv_break_flag' = FlagOf(Top)
                   /\ sgfail' = IF recv_break_flag THEN "invoke flag" ELSE sgfail
    /\ UNCHANGED <<sgs, rootSigVars, block_set, n_calls, deferred, ghostVars>>

-----------------------------------------------------------------------------
(* What the program, or a handler of it, calls. *)
KillSelf(s) ==
    /\ Alive /\ op = "run" /\ s \in sgs.self /\ nsent < sgs.max /\ nsent' = nsent + 1
    /\ Apply(sig_send(RootSets, s, TRUE))
    /\ op' = "bottom"
    /\ UNCHANGED <<sgs, saved_mask_set, ign_set, dfl_set, recv_break_flag, block_set, n_calls, sigq, bot, stk,
                   deferred, mymask, taken, handled, dropped>>

sigprocmask(how, set) ==
    /\ Alive /\ op = "run" /\ set \in sgs.masks
    /\ LET or == IF how = "unblock" THEN {} ELSE set
           and == IF how = "block" THEN Sigs ELSE IF how = "unblock" THEN Sigs \ set ELSE {}
       IN  /\ Apply(sigset_mask(RootSets, or, and))
           /\ mymask' = (mymask \cap and) \cup or
    /\ op' = IF how = "block" THEN "run" ELSE "bottom"
    /\ UNCHANGED <<sgs, saved_mask_set, ign_set, dfl_set, recv_break_flag, block_set, n_calls, sigq, bot, stk,
                   deferred, nsent, taken, handled, dropped>>

DefaultAfter(s, act) == IF act = "dfl" THEN dfl_set \cup {s} ELSE dfl_set \ {s}

\* sigaction(), while no signal is on its way.
sigaction(s, act) ==
    /\ Alive /\ op = "run" /\ stk = <<>> /\ <<s, act>> \in sgs.acts
    /\ helper.pc = "none" /\ pending_set = {}
    /\ ign_set' = IF act = "ign" THEN ign_set \cup {s} ELSE ign_set \ {s}
    /\ dfl_set' = DefaultAfter(s, act)
    /\ UNCHANGED <<sgs, pending_set, mask_set, saved_mask_set, helper, dead, recv_break_flag, block_set, n_calls,
                   sigq, mainVars, sgfail, ghostVars>>

\* __permit_recv_interrupt() of read() and sigsuspend() (not from within a handler).
Permit(to) ==
    /\ Alive /\ op = "run" /\ stk = <<>>
    /\ to = "read" => sgs.reads
    /\ to = "suspend" => sgs.suspend # {}
    /\ recv_break_flag' = TRUE /\ sgfail' = IF recv_break_flag THEN "permit" ELSE sgfail
    /\ op' = to
    /\ UNCHANGED <<sgs, rootSigVars, block_set, n_calls, sigq, bot, stk, deferred, ghostVars>>

Read ==
    /\ Alive /\ op = "read" /\ op' = "recv"
    /\ UNCHANGED <<sgs, rootSigVars, recv_break_flag, block_set, n_calls, sigq, bot, stk, deferred, sgfail, ghostVars>>

\* The read is answered; frames that waited for this are entered.
ReadAnswered ==
    /\ Alive /\ op = "recv"
    /\ op' = IF deferred = <<>> THEN "broken" ELSE "enter"
    /\ stk' = stk \o [i \in 1..Len(deferred) |-> IF i = 1 THEN deferred[1] ELSE [deferred[i] EXCEPT !.op = "enter"]]
    /\ deferred' = <<>>
    /\ UNCHANGED <<sgs, rootSigVars, recv_break_flag, block_set, n_calls, sigq, bot, sgfail, ghostVars>>

\* root_uapi_sigsuspend(): a pending signal at once (then `bot.sig`), or the mask until one comes.
SigSuspend(mask) ==
    /\ Alive /\ op = "suspend" /\ mask \in sgs.suspend
    /\ IF pending_set \ mask # {}
       THEN /\ bot' = [Bot0 EXCEPT !.sig = Min(pending_set \ mask)]
            /\ taken' = [s \in Rt |-> taken[s] + (IF s = bot'.sig THEN 1 ELSE 0)]
            /\ pending_set' = pending_set \ {bot'.sig} /\ op' = "broken"
            /\ UNCHANGED <<mask_set, saved_mask_set>>
       ELSE /\ saved_mask_set' = mask_set /\ mask_set' = mask /\ op' = "susp"
            /\ UNCHANGED <<pending_set, bot, taken>>
    /\ UNCHANGED <<sgs, ign_set, dfl_set, helper, dead, recv_break_flag, block_set, n_calls, sigq, stk, deferred,
                   sgfail, sigDue, mymask, nsent, handled, dropped>>

\* __forbid_recv_interrupt(), and the handler that sigsuspend() got at once.
Forbid ==
    /\ Alive /\ op = "broken"
    /\ recv_break_flag' = FALSE /\ sgfail' = IF ~recv_break_flag THEN "forbid" ELSE sgfail
    /\ bot' = Bot0
    /\ IF bot.sig = 0 THEN op' = "run" /\ UNCHANGED stk
       ELSE op' = "enter" /\ stk' = Append(stk, [Frame(bot.sig, FALSE, "run") EXCEPT !.bot = Bot0])
    /\ UNCHANGED <<sgs, rootSigVars, block_set, n_calls, sigq, deferred, ghostVars>>

Pause ==
    /\ Alive /\ op = "run" /\ stk = <<>> /\ sgs.pause /\ op' = "pause"
    /\ UNCHANGED <<sgs, rootSigVars, recv_break_flag, block_set, n_calls, sigq, bot, stk, deferred, sgfail, ghostVars>>

HelperRuns == HelperStep1 \/ HelperStep2 \/ HelperStep3 \/ HelperQueue \/ HelperStep4

BottomRuns == MainBottom1 \/ MainBottom2 \/ MainBottom3 \/ MainQueue \/ MainBottom4 \/ MainBottomEnd

\* What the main thread does by itself; a handler returns in the end.
MainRuns ==
    \/ BottomRuns
    \/ EnterHandler \/ HandlerReturn(FALSE) \/ NextSignal
    \/ Read \/ Forbid \/ (\E m \in sgs.suspend : SigSuspend(m))

(***************************************************************************)
(* The two threads get into each other's way: the main thread comes to     *)
(* recv_break_flag while the helper has taken it, and it was set or is set *)
(* now; root removes the helper with the flag; the main thread finds the   *)
(* queue empty while the helper is about to queue something, or suspends   *)
(* itself while the helper has a signal already, which ends the receive    *)
(* but not the suspension in root; or one of the two comes to n_calls      *)
(* while the other is past it.                                             *)
(***************************************************************************)
ComesToFlag ==
    \/ op = "run" /\ op' \in {"read", "suspend"}
    \/ op = "broken" /\ op' # op
    \/ op = "next" /\ op' \notin {op, "enter"}
    \/ op = "bottom" /\ bot.pc \in {"b1", "b4"} /\ bot' # bot

Tangles ==
    \/ /\ helper.pc \notin {"none", "b1"} /\ helper' = helper
       /\ ComesToFlag /\ TRUE \in {helper.rbo, recv_break_flag, recv_break_flag'}
    \/ helper.pc = "b2" /\ helper'.pc = "none" /\ helper.rbo
    \/ helper.pc = "queue" /\ helper.got # {} /\ op = "next" /\ op' \notin {op, "enter"}
    \/ (helper.got # {} \/ helper.sig # 0) /\ op = "suspend" /\ op' = "susp"
    \/ n_calls > 0 /\ n_calls' > n_calls

SigStep ==
    \/ HelperRuns \/ MainRuns
    \/ HandlerReturn(TRUE) \/ ReadAnswered \/ Pause
    \/ \E s \in Sigs : Kill(s) \/ KillSelf(s) \/ \E act \in {"ign", "dfl", "fn"} : sigaction(s, act)
    \/ \E how \in {"block", "unblock", "setmask"}, set \in sgs.masks : sigprocmask(how, set)
    \/ \E to \in {"read", "suspend"} : Permit(to)

SigNext == SigStep /\ tangled' = (tangled \/ Tangles)

\* Both threads are scheduled, and handlers return: they call things finitely often.
SigFairness == WF_sigState(HelperRuns) /\ WF_sigState(MainRuns) /\ SF_sigState(HandlerReturn(FALSE))

-----------------------------------------------------------------------------
SigTypeOK ==
    /\ pending_set \subseteq Sigs /\ mask_set \subseteq Sigs /\ block_set \subseteq Sigs
    /\ ign_set \cap dfl_set = {}
    /\ n_calls \in 0..3 /\ recv_break_flag \in BOOLEAN
    /\ helper.pc \in {"none", "b1", "b2", "b3", "queue", "b4"}
    /\ op \in {"run", "enter", "next", "bottom", "read", "recv", "suspend", "susp", "broken", "pause"}
    /\ sigq.head \in 0..QSlots - 1 /\ sigq.tail \in 0..QSlots - 1

\* No signal without a handler comes out of the queue and root's assertion holds, whatever the
\* order of the two threads.  The others hold until the threads are tangled: the flag of receive
\* phases is taken, put back and handed through nested handlers in pairs, and no two threads are
\* in __sig_bottom() at once.
SigAssertsHold ==
    /\ sgfail \notin {"fetched", "entered", "sig_default"}
    /\ sgfail = "" \/ tangled

\* What handlers block is what the running ones have blocked, each bit by one of them; so it is
\* given back exactly, however they nest and whether they return or jump.
BlockSetExact ==
    /\ block_set = UNION {stk[i].masked : i \in 1..Len(stk)}
    /\ \A i, j \in 1..Len(stk) : i # j => stk[i].masked \cap stk[j].masked = {}

\* Every realtime signal that was fetched is handled once, or is on its way: in the queue, in a
\* __sig_bottom() or about to be entered.  (Unless the queue ran full.)
Copies(s) ==
    LET in(set) == Cardinality({x \in {s} : x \in set})
        one(b) == in(b.got) + in({b.sig})
    IN  MapThenSumSet(LAMBDA i : in(sigq.rt[i]), 0..QSlots - 1)
        + one(helper) + one(bot) + (IF op = "enter" THEN in({Top.sig}) ELSE 0)
        + MapThenSumSet(LAMBDA i : one(stk[i].bot), 1..Len(stk))
        + Cardinality({i \in 1..Len(stk) - 1 : stk[i + 1].op = "enter" /\ stk[i].sig = s})
        + Cardinality({i \in 1..Len(deferred) : deferred[i].sig = s})

RtHandledOnce == sgfail = "" /\ ~dropped => \A s \in Rt : taken[s] = handled[s] + Copies(s)

\* The process's mask is what it set, also after sigsuspend() put another one in its place for a
\* while, whichever way that ended (until the threads are tangled).
MaskRestored == tangled \/ IF saved_mask_set = NotSaved THEN mask_set = mymask ELSE saved_mask_set = mymask

\* proc.idl on sigsuspend: "the caller regains control by signal delivery EINTR status".
SuspendReturns == op = "susp" /\ saved_mask_set = NotSaved ~> op # "susp" \/ ~Alive

\* A signal that was delivered and is not masked meanwhile is handled, out of root's set, the helper's hands or the queue, and
\* sigsuspend() returns once root has ended it, for as long as the threads are not tangled.  (A
\* tangled helper may leave a signal in the queue with no handler to drain it, or a receive
\* phase that no signal breaks: see suspend_hangs.)
SignalsGetThrough ==
    /\ \A s \in Sigs : s \in sigDue ~> s \notin sigDue \/ s \in mask_set \/ ~Alive \/ tangled
    /\ op = "susp" /\ saved_mask_set = NotSaved ~> op # "susp" \/ ~Alive \/ tangled

\* Signals are blocked, queued and handled as sigaction() and its masks say.
SigExact == SigTypeOK /\ SigAssertsHold /\ BlockSetExact /\ RtHandledOnce /\ MaskRestored
==============================================================================
