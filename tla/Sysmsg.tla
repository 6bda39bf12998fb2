------------------------------- MODULE Sysmsg -------------------------------
(***************************************************************************)
(* Broadcasts between system tasks: the server sys/msg/sysmsg.c with its   *)
(* subscription masks and counting bloom filters, and the runtime's side   *)
(* of it, sys/crt/msg.c: a receiver thread per task that runs the handlers *)
(* listening to each bit, beside the threads that listen, close and        *)
(* broadcast.                                                              *)
(*                                                                         *)
(* The server is one thread: while it calls a task's receiver it serves    *)
(* nobody but that receiver, whose handlers may call back.                 *)
(***************************************************************************)
EXTENDS Naturals, Sequences, SequencesExt, FiniteSets, FiniteSetsExt

CONSTANTS
    MsgTasks,      \* process IDs, which order the recipients
    MsgBits,       \* the bits of a mask
    Labels,        \* first words of messages, which filters look at
    Slots(_, _),   \* get_slots(): the three slots of a label and a bit
    MsgHandlers,   \* handler functions
    FilterMax,     \* the saturated count, 15
    MsgScenes,     \* what tasks do: see MsgInit
    WantMax,       \* times one label is added to a filter
    ArrayMax       \* entries of a bit's array of handlers, holes included

\* masks: handlers call setmask.  The slots of a label are a word's three fields.
ASSUME MsgAssumption ==
    /\ MsgTasks \subseteq Nat /\ MsgBits \subseteq Nat /\ IsFiniteSet(MsgBits) /\ IsFiniteSet(Labels)
    /\ \A l \in Labels, b \in MsgBits : Slots(l, b) \in Seq(Nat) /\ Len(Slots(l, b)) = 3
    /\ "hole" \notin MsgHandlers /\ FilterMax \in Nat \ {0} /\ WantMax \in Nat /\ ArrayMax \in Nat
    /\ \A sc \in MsgScenes :
        /\ sc.masks \in BOOLEAN /\ sc.nested \in BOOLEAN /\ (sc.masks => 0 \in MsgBits)
        /\ \A c \in sc.casts : c.from \in MsgTasks /\ c.maskp \subseteq MsgBits /\ c.maskn \subseteq MsgBits /\ c.label \in Labels

VARIABLES
    msc,           \* the scene
    subs_mask, filter_mask, filter, n_filters,   \* struct msgclient of each task
    cast,          \* the broadcast the server is sending
    handlers,      \* task -> bit -> its handlers, or holes
    caller,        \* task -> what its main thread is in the middle of
    receiver,      \* task -> its receiver thread
    called,        \* task -> it jumped to a handler that is not there
    given,         \* task -> the bits that a filter was given for since they were listened to
    want,          \* task -> bit -> label -> how often it was added to the filter
    due, heard,    \* of the current or last broadcast: who should hear it, who did
    staged         \* a handler said its effect comes later

srvVars == <<subs_mask, filter_mask, filter, n_filters>>
msgVars == <<msc, srvVars, cast, handlers, caller, receiver, called, want, given, due, heard, staged>>

Hole == "hole"
NoFilter == [s \in {} |-> 0]
NoCast == [st |-> "none"]
CallerIdle == [op |-> "none"]
ReceiverIdle == [bits |-> {}, i |-> 1, imm |-> TRUE]

MsgInit ==
    /\ msc \in MsgScenes
    /\ subs_mask = [t \in MsgTasks |-> {}] /\ filter_mask = [t \in MsgTasks |-> {}]
    /\ filter = [t \in MsgTasks |-> NoFilter] /\ n_filters = [t \in MsgTasks |-> 0]
    /\ cast = NoCast
    /\ handlers = [t \in MsgTasks |-> [b \in MsgBits |-> <<>>]]
    /\ caller = [t \in MsgTasks |-> CallerIdle]
    /\ receiver = [t \in MsgTasks |-> ReceiverIdle]
    /\ called = [t \in MsgTasks |-> FALSE]
    /\ want = [t \in MsgTasks |-> [b \in MsgBits |-> [l \in Labels |-> 0]]]
    /\ given = [t \in MsgTasks |-> {}] /\ due = {} /\ heard = <<>> /\ staged = FALSE

-----------------------------------------------------------------------------
(***************************************************************************)
(* The server's operations on one client.  The table of subscriptions is   *)
(* kept in step with the mask by addsub() and rmsub(): a task has an entry *)
(* for each bit of its mask.                                               *)
(***************************************************************************)
FilterMaskAfter(t, new) == [filter_mask EXCEPT ![t] = @ \ (subs_mask[t] \ new)]

setmask(t, or, and) ==
    LET new == (subs_mask[t] \cap and) \cup or
    IN  /\ subs_mask' = [subs_mask EXCEPT ![t] = new]
        /\ filter_mask' = FilterMaskAfter(t, new)
        /\ UNCHANGED <<filter, n_filters>>

filter_inc(f, s) == [f EXCEPT ![s] = IF @ < FilterMax THEN @ + 1 ELSE @]
\* A mutation: a saturated count is counted down.
FilterDecSaturated(f, s) == [f EXCEPT ![s] = IF @ = 0 THEN @ ELSE @ - 1]

filter_dec(f, s) == [f EXCEPT ![s] = IF @ \in {0, FilterMax} THEN @ ELSE @ - 1]

\* The three slots one after the other; one slot may be there twice.
IncAll(f, q) == filter_inc(filter_inc(filter_inc(f, q[1]), q[2]), q[3])
DecAll(f, q) == filter_dec(filter_dec(filter_dec(f, q[1]), q[2]), q[3])

filter_query(f, slots) == \A s \in Range(slots) : f[s] > 0

AllSlots == UNION {Range(Slots(l, b)) : l \in Labels, b \in MsgBits}

add_filter(t, b, l) ==
    LET f == IF filter[t] = NoFilter THEN [s \in AllSlots |-> 0] ELSE filter[t]
    IN  /\ filter' = [filter EXCEPT ![t] = IncAll(f, Slots(l, b))]
        /\ filter_mask' = [filter_mask EXCEPT ![t] = @ \cup {b}]
        /\ n_filters' = [n_filters EXCEPT ![t] = @ + 1]
        /\ UNCHANGED subs_mask

LastOne(t) == n_filters[t] = 1

rm_filter(t, b, l) ==
    IF filter[t] = NoFilter \/ ~filter_query(filter[t], Slots(l, b)) THEN UNCHANGED srvVars
    ELSE /\ n_filters' = [n_filters EXCEPT ![t] = @ - 1]
         /\ filter' = [filter EXCEPT ![t] =
                IF LastOne(t) THEN NoFilter ELSE DecAll(@, Slots(l, b))]
         /\ UNCHANGED <<subs_mask, filter_mask>>

filter_pass(t, bits, l) ==
    filter[t] = NoFilter \/ \E b \in bits : filter_query(filter[t], Slots(l, b))

(* impl_broadcast() *)
Recipients(maskp, maskn) ==
    {t \in MsgTasks : subs_mask[t] \cap maskp # {} /\ subs_mask[t] \cap maskn = {}}

Filtered(t, maskp, l) ==
    maskp \subseteq filter_mask[t] /\ ~filter_pass(t, maskp \cap filter_mask[t], l)

ServerFree == cast.st # "sending"

-----------------------------------------------------------------------------
(***************************************************************************)
(* The runtime's functions, called from a task's main thread.  A call to   *)
(* the server waits in `caller` until the server is free.                  *)
(***************************************************************************)
Handle(t, b, h) == \E i \in 1..Len(handlers[t][b]) : handlers[t][b][i] = h

Pushed(t, b, h) == [handlers EXCEPT ![t][b] = Append(@, h)]

\* sysmsg_listen(): the first one of a bit sets the mask before it is in the array.
Listen(t, b, h) ==
    /\ <<t, b, h>> \in msc.listens /\ ~called[t]
    /\ caller[t] = CallerIdle /\ ~Handle(t, b, h) /\ Len(handlers[t][b]) < ArrayMax
    /\ IF handlers[t][b] = <<>>
       THEN caller' = [caller EXCEPT ![t] = [op |-> "listen", bit |-> b, h |-> h]] /\ UNCHANGED handlers
       ELSE handlers' = Pushed(t, b, h) /\ UNCHANGED caller
    /\ UNCHANGED <<msc, srvVars, cast, receiver, called, want, given, due, heard, staged>>

ListenCall(t) ==
    /\ caller[t].op = "listen" /\ ServerFree
    /\ setmask(t, {caller[t].bit}, MsgBits)
    /\ handlers' = Pushed(t, caller[t].bit, caller[t].h)
    /\ caller' = [caller EXCEPT ![t] = CallerIdle]
    /\ UNCHANGED <<msc, cast, receiver, called, want, given, due, heard, staged>>

\* sysmsg_close(): a hole where the handle was, holes at the end cut off, and the bit given up
\* where nothing is left.
Trimmed(s) == SubSeq(s, 1, Max({0} \cup {i \in 1..Len(s) : s[i] # Hole}))

CloseHandle(t, b, h) ==
    /\ caller[t] = CallerIdle /\ ~called[t]
    /\ \E i \in 1..Len(handlers[t][b]) :
        /\ handlers[t][b][i] = h /\ h # Hole
        /\ LET left == Trimmed([handlers[t][b] EXCEPT ![i] = Hole])
           IN  /\ handlers' = [handlers EXCEPT ![t][b] = left]
               /\ caller' = IF left = <<>> THEN [caller EXCEPT ![t] = [op |-> "close", bit |-> b]] ELSE caller
    /\ due' = due \ {<<t, b, h>>}
    /\ UNCHANGED <<msc, srvVars, cast, receiver, called, want, given, heard, staged>>

KeepOthers(b) == MsgBits \ {b}

CloseCall(t) ==
    /\ caller[t].op = "close" /\ ServerFree
    /\ setmask(t, {}, KeepOthers(caller[t].bit))
    /\ caller' = [caller EXCEPT ![t] = CallerIdle]
    /\ given' = [given EXCEPT ![t] = @ \ {caller[t].bit}]
    /\ UNCHANGED <<msc, cast, handlers, receiver, called, want, due, heard, staged>>

\* sysmsg_add_filter() and sysmsg_rm_filter() for an open handle, from the main thread or from
\* within a handler, which the server serves in recursive_sysmsg_call().
MayCall(t) ==
    \/ caller[t] = CallerIdle /\ ServerFree
    \/ msc.nested /\ receiver[t].bits # {}

FilterCall(t, b, l) ==
    /\ <<t, b, l>> \in msc.filters /\ handlers[t][b] # <<>> /\ MayCall(t) /\ ~called[t]
    /\ \/ /\ want[t][b][l] < WantMax /\ add_filter(t, b, l)
          /\ want' = [want EXCEPT ![t][b][l] = @ + 1] /\ given' = [given EXCEPT ![t] = @ \cup {b}]
       \/ /\ want[t][b][l] > 0 /\ rm_filter(t, b, l)
          /\ want' = [want EXCEPT ![t][b][l] = @ - 1] /\ UNCHANGED given
    /\ UNCHANGED <<msc, cast, handlers, caller, receiver, called, due, heard, staged>>

\* recursive_sysmsg_call() of setmask, as a handler's sysmsg_listen() makes it: the operation's
\* code is taken for the bits to set, those for the bits to keep.  (Label 1 is bit 0.)
NestedSetmask(t, b) ==
    /\ msc.masks /\ receiver[t].bits # {} /\ caller[t] = CallerIdle
    /\ handlers[t][b] = <<>>
    /\ setmask(t, {0}, {b})
    /\ handlers' = Pushed(t, b, "n")
    /\ UNCHANGED <<msc, cast, caller, receiver, called, want, given, due, heard, staged>>

-----------------------------------------------------------------------------
(* A broadcast. *)
\* Who has to hear it: handlers that are listening now, if the bit was never given a filter, or
\* one that has the message's label.
Accepts(t, b, l) == want[t][b][l] > 0 \/ b \notin given[t]

Due(maskp, maskn, l) ==
    {x \in UNION {{<<t, b, handlers[t][b][i]>> : i \in 1..Len(handlers[t][b])} : t \in Recipients(maskp, maskn), b \in maskp} :
        x[3] # Hole /\ Accepts(x[1], x[2], l)}

\* The server calls the receiver of the first of those left, or has called them all.
SendTo(from, maskp, todo, imm) ==
    IF todo = {}
    THEN /\ cast' = [st |-> "done", imm |-> imm]
         /\ caller' = [caller EXCEPT ![from] = CallerIdle] /\ UNCHANGED receiver
    ELSE /\ cast' = [st |-> "sending", from |-> from, maskp |-> maskp, to |-> Min(todo),
                     todo |-> todo \ {Min(todo)}, imm |-> imm]
         /\ caller' = [caller EXCEPT ![from] = [op |-> "broadcast"]]
         /\ receiver' = [receiver EXCEPT ![Min(todo)] = [bits |-> maskp, i |-> 1, imm |-> TRUE]]

\* sysmsg_broadcast() (in a handler's own thread it is refused with EDEADLK).
Broadcast(c) ==
    /\ c \in msc.casts /\ ServerFree /\ caller[c.from] = CallerIdle /\ ~called[c.from]
    /\ SendTo(c.from, c.maskp,
              {t \in Recipients(c.maskp, c.maskn) : ~called[t] /\ ~Filtered(t, c.maskp, c.label)}, TRUE)
    /\ due' = Due(c.maskp, c.maskn, c.label) /\ heard' = <<>> /\ staged' = FALSE
    /\ UNCHANGED <<msc, srvVars, handlers, called, want, given>>

\* invoke_handlers(): the next handler of the lowest bit left, or the next bit.
NextBit(r) == [bits |-> r.bits \ {Min(r.bits)}, i |-> 1, imm |-> r.imm]

Invoke(t) ==
    LET r == receiver[t]
        b == Min(r.bits)
    IN  /\ r.bits # {} /\ ~called[t]
        /\ IF r.i > Len(handlers[t][b])
           THEN receiver' = [receiver EXCEPT ![t] = NextBit(r)] /\ UNCHANGED <<heard, staged, called>>
           ELSE IF handlers[t][b][r.i] = Hole
           THEN called' = [called EXCEPT ![t] = TRUE] /\ UNCHANGED <<receiver, heard, staged>>
           ELSE \E immediate \in BOOLEAN :
                /\ receiver' = [receiver EXCEPT ![t] = [bits |-> r.bits, i |-> r.i + 1, imm |-> r.imm /\ immediate]]
                /\ heard' = Append(heard, <<t, b, handlers[t][b][r.i]>>)
                /\ staged' = (staged \/ ~immediate)
                /\ UNCHANGED called
        /\ UNCHANGED <<msc, srvVars, cast, handlers, caller, want, given, due>>

WithAnswer(imm, st) == imm /\ st

Answered(t) == receiver[t].bits = {} \/ called[t]

SendNext ==
    /\ cast.st = "sending" /\ Answered(cast.to)
    /\ SendTo(cast.from, cast.maskp, cast.todo,
              IF called[cast.to] THEN cast.imm ELSE WithAnswer(cast.imm, receiver[cast.to].imm))
    /\ UNCHANGED <<msc, srvVars, handlers, called, want, given, due, heard, staged>>

MsgServing ==
    \/ SendNext
    \/ \E t \in MsgTasks : Invoke(t) \/ ListenCall(t) \/ CloseCall(t)

MsgNext ==
    \/ MsgServing
    \/ \E c \in msc.casts : Broadcast(c)
    \/ \E t \in MsgTasks, b \in MsgBits :
        \/ NestedSetmask(t, b)
        \/ \E h \in MsgHandlers : Listen(t, b, h) \/ CloseHandle(t, b, h)
        \/ \E l \in Labels : FilterCall(t, b, l)

MsgSpec == MsgInit /\ [][MsgNext]_msgVars

-----------------------------------------------------------------------------
MsgTypeOK ==
    /\ subs_mask \in [MsgTasks -> SUBSET MsgBits] /\ filter_mask \in [MsgTasks -> SUBSET MsgBits]
    /\ \A t \in MsgTasks : filter[t] = NoFilter \/ filter[t] \in [AllSlots -> 0..FilterMax]
    /\ n_filters \in [MsgTasks -> Nat]
    /\ cast.st \in {"none", "sending", "done"}
    /\ called \in [MsgTasks -> BOOLEAN]

\* Once a broadcast has been answered, every handler that was listening when it began, was not
\* closed meanwhile and did not filter it out has heard it, once for its bit; though filters are
\* approximate, counts saturate, and handlers change their filters in the middle of it.  (A
\* filter belongs to the bit: handles of one bit have it together.)
HeardByAll ==
    cast.st = "done" =>
        \A x \in due : ~called[x[1]] => Cardinality({i \in 1..Len(heard) : heard[i] = x}) = 1

\* The broadcaster is told "processed immediately" exactly if every handler said so.
AnswerIsAll == cast.st = "done" /\ (\A t \in MsgTasks : ~called[t]) => cast.imm = ~staged

\* A task is subscribed to the bits it has handlers for, while none of its threads is in
\* between and no handler of it has called setmask (see NestedSetmask).
MasksAgree ==
    ~msc.masks => \A t \in MsgTasks : caller[t].op \in {"none", "broadcast"} /\ ~called[t] =>
        subs_mask[t] = {b \in MsgBits : handlers[t][b] # <<>>}

\* A filter that was removed whole is no filter, and one that has labels left is never dropped.
FilterCounted ==
    \A t \in MsgTasks : filter[t] = NoFilter <=> n_filters[t] = 0

\* A broadcast ends: the server does not go on waiting for a recipient that died in the middle of
\* its handlers, and each recipient's bits come to an end.
BroadcastEnds == cast.st = "sending" ~> cast.st = "done"

\* A broadcast reaches whoever has asked for it, and the masks and filters are what was asked.
BroadcastExact == MsgTypeOK /\ HeardByAll /\ AnswerIsAll /\ MasksAgree /\ FilterCounted
=============================================================================
