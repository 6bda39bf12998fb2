-------------------------------- MODULE Epoll --------------------------------
(***************************************************************************)
(* epoll, poll() and select() in a user process: the main thread, the      *)
(* runtime's poll thread (poll_notify_fn() of user/crt/epoll.c) with its   *)
(* queue of events, and a server's side of it (sys/io/pollimpl.c), which   *)
(* sends an event without waiting and raises SIGIO when the poll thread is *)
(* not listening. A signal ends the main thread's wait; so does a timeout. *)
(***************************************************************************)
EXTENDS Integers, Sequences, SequencesExt, FiniteSets, FiniteSetsExt, Functions

CONSTANTS
    Handles,     \* handles at the server, one for each descriptor
    EpIds,       \* epoll instances
    EpScenes,    \* what the program does: see MCUser
    QueueCap     \* bound: events queued when an interest is added

VARIABLES
    epScene,
    status,      \* server: handle -> bits that hold
    nmask,       \* server: handle -> bits to be told of (IOD_EPOLL_MASK of its flags)
    tidSet,      \* server: notify_tid of this process is known
    eps,         \* epoll -> [open, fds: handle -> interest, stale: last_sync < sigio_sync_count, waiter]
    evq,         \* the poll thread's events: sequence of [h, mask]
    pt,          \* the poll thread: [st, ep, max, nohang, got, ls]
    mainTh,      \* the main thread: [st, ep, max, time, prog, h, mask]
    sigio,       \* SIGIO is pending
    edges,       \* history: handle -> bit -> changes not reported yet to the one
                 \* edge-triggered interest in it
    epBad,       \* an assertion failed
    loose,       \* history: what a signal was raised for may be gone when an instance looks again
    disarmed,    \* history: handles whose edges another instance's poll_levels() made the server forget
    nraise

epVars == <<epScene, status, nmask, tidSet, eps, evq, pt, mainTh, sigio, edges, epBad, loose, disarmed, nraise>>

Bits == {"in", "hup"}
NoInterest == [ev |-> {}, et |-> FALSE]
NoEpoll == [open |-> FALSE, fds |-> [h \in Handles |-> NoInterest], stale |-> FALSE, waiter |-> FALSE]
Ready == [st |-> "ready", ep |-> 0, max |-> 0, nohang |-> FALSE, got |-> <<>>, ls |-> {}]
Run == [st |-> "run", ep |-> 0, max |-> 0, time |-> "", prog |-> "", h |-> 0, mask |-> {}]

Wants(ep, h) == eps[ep].fds[h].ev
Interests(ep) == {h \in Handles : Wants(ep, h) # {}}
Levels(ep) == {h \in Interests(ep) : ~eps[ep].fds[h].et}
InOrder(hs) == SetToSortSeq(hs, <)

EpInit ==
    /\ epScene \in EpScenes
    /\ status = [h \in Handles |-> {}] /\ nmask = [h \in Handles |-> {}] /\ tidSet = FALSE
    /\ eps = [e \in EpIds |-> NoEpoll] /\ evq = <<>> /\ pt = Ready /\ mainTh = Run /\ sigio = FALSE
    /\ edges = [h \in Handles |-> [b \in Bits |-> 0]] /\ epBad = FALSE
    /\ loose = FALSE /\ disarmed = {} /\ nraise = 0

-----------------------------------------------------------------------------

Taken(e, hit) == [e EXCEPT !.mask = @ \ hit]

Visit(ep, q, max) ==
    LET take(a, e) ==
          IF Len(a.got) = max THEN [a EXCEPT !.left = Append(@, e)]
          ELSE LET hit == Wants(ep, e.h) \cap e.mask
               IN  IF hit = {} THEN [a EXCEPT !.left = Append(@, e), !.seen = @ + 1]
                   ELSE [got |-> Append(a.got, [h |-> e.h, ev |-> hit]), hits |-> a.hits \cup {e.h},
                         left |-> Append(a.left, Taken(e, hit)), seen |-> a.seen + 1]
    IN  FoldLeft(take, [got |-> <<>>, hits |-> {}, left |-> <<>>, seen |-> 0], q)

\* An iteration that gets to its end empties the queue, events that nobody took included.
QueueAfter(v, q) == IF v.seen = Len(q) THEN <<>> ELSE v.left

\* epoll_consume(): levels are asked for only when there is room and not all were hit.
LevelsToPoll(ep, v, room) == IF Len(v.got) < room THEN Levels(ep) \ v.hits ELSE {}

Room(p) == p.max - Len(p.got)

\* evq_first() asserts that the heads it passes have events.
EmptyHead == [h |-> 0, mask |-> {}]
EmptyFirst(q) == q # <<>> /\ Head(q) = EmptyHead

epoll_consume(p, q) ==
    LET room == Room(p)
        v == Visit(p.ep, q, room)
        ls == LevelsToPoll(p.ep, v, room)
    IN  IF EmptyFirst(q) THEN epBad' = TRUE /\ UNCHANGED <<evq, pt>>
        ELSE /\ evq' = QueueAfter(v, q)
             /\ pt' = [p EXCEPT !.got = @ \o v.got, !.ls = ls, !.st = IF ls = {} THEN "reply" ELSE "levels"]
             /\ UNCHANGED epBad

-----------------------------------------------------------------------------
(* The poll thread. *)

\* An epoll_wait request is taken; a resync reads the whole queue and then asks the server.
PtRequest ==
    /\ ~epBad /\ pt.st = "ready" /\ mainTh.st = "call"
    /\ LET e == mainTh.ep
           p == [Ready EXCEPT !.ep = e, !.max = mainTh.max, !.nohang = mainTh.time = "nohang"]
       IN  /\ eps' = [eps EXCEPT ![e].waiter = FALSE, ![e].stale = FALSE]
           /\ IF eps[e].stale /\ ~EmptyFirst(evq)
              THEN /\ evq' = <<>> /\ UNCHANGED epBad
                   /\ pt' = [p EXCEPT !.got = Visit(e, evq, p.max).got,
                                      !.st = IF Interests(e) = {} THEN "reply" ELSE "resync"]
              ELSE epoll_consume(p, evq)
    /\ mainTh' = [mainTh EXCEPT !.st = "recv"]
    /\ UNCHANGED <<epScene, status, nmask, tidSet, sigio, edges, loose, disarmed, nraise>>

\* Every interest has EPOLLEXCLUSIVE, so that no event found in the queue is all that one wants:
\* all are asked about.
Asked(e) == Interests(e)

poll_handles ==
    /\ ~epBad /\ pt.st = "resync"
    /\ LET hs == InOrder({h \in Asked(pt.ep) : status[h] # {}})
           q == [i \in 1..Len(hs) |-> [h |-> hs[i], mask |-> status[hs[i]]]]
       IN  IF Len(pt.got) < pt.max THEN epoll_consume(pt, IF hs = <<>> THEN <<EmptyHead>> ELSE q)
           ELSE /\ evq' = IF hs = <<>> THEN <<EmptyHead>> ELSE q
                /\ pt' = [pt EXCEPT !.st = "reply"]
                /\ UNCHANGED epBad
    /\ UNCHANGED <<epScene, status, nmask, tidSet, eps, mainTh, sigio, edges, loose, disarmed, nraise>>

MaskOf(h) == Wants(pt.ep, h)

poll_levels ==
    /\ ~epBad /\ pt.st = "levels"
    /\ LET add(g, h) == LET hit == (Wants(pt.ep, h) \cup {"hup"}) \cap status[h]
                        IN  IF hit = {} \/ Len(g) = pt.max THEN g ELSE Append(g, [h |-> h, ev |-> hit])
       IN  pt' = [pt EXCEPT !.got = FoldLeft(add, @, InOrder(pt.ls)), !.ls = {}, !.st = "reply"]
    /\ nmask' = [h \in Handles |-> IF h \in pt.ls THEN MaskOf(h) ELSE nmask[h]]
    /\ disarmed' = disarmed \cup {h \in pt.ls : \E e \in EpIds \ {pt.ep} : eps[e].fds[h].et}
    /\ UNCHANGED <<epScene, status, tidSet, eps, evq, mainTh, sigio, edges, epBad, loose, nraise>>

\* Events of edge-triggered interests that reach the caller.
EdgesAfter(ep, got) ==
    LET count(h, b) == Cardinality({i \in DOMAIN got : got[i].h = h /\ b \in got[i].ev})
    IN  [h \in Handles |-> [b \in Bits |->
            IF ~eps[ep].fds[h].et \/ ~epScene.single THEN edges[h][b]
            ELSE IF epScene.prompt THEN edges[h][b] - count(h, b)
            ELSE Max({0, edges[h][b] - count(h, b)})]]

\* select() and poll() close what they opened.
Returned == IF mainTh.prog = "poll" THEN [mainTh EXCEPT !.st = "close"] ELSE Run

\* Nothing to report: the caller waits. Else it is answered, if it is still there.
PtReply ==
    /\ ~epBad /\ pt.st = "reply"
    /\ pt' = Ready
    /\ IF pt.got = <<>> /\ ~pt.nohang
       THEN /\ eps' = [eps EXCEPT ![pt.ep].waiter = TRUE]
            /\ UNCHANGED <<mainTh, edges>>
       ELSE IF mainTh.st = "recv"
       THEN mainTh' = Returned /\ edges' = EdgesAfter(pt.ep, pt.got) /\ UNCHANGED eps
       ELSE UNCHANGED <<eps, mainTh, edges>>
    /\ UNCHANGED <<epScene, status, nmask, tidSet, evq, sigio, epBad, loose, disarmed, nraise>>

\* epoll_wake() for one event, and the event queued: a waiter is told to ask again, and if it
\* cannot be told remains one.
Waiting(h, mask) == {e \in EpIds : eps[e].waiter /\ Wants(e, h) \cap mask # {}}

WokenEps(es) ==
    IF mainTh.st = "recv" /\ es # {} THEN [eps EXCEPT ![Min(es)].waiter = FALSE] ELSE eps

Notified(h, mask) ==
    /\ evq' = Append(evq, [h |-> h, mask |-> mask])
    /\ eps' = WokenEps(Waiting(h, mask))
    /\ mainTh' = IF mainTh.st = "recv" /\ Waiting(h, mask) # {} THEN [mainTh EXCEPT !.st = "call"] ELSE mainTh

-----------------------------------------------------------------------------
(* The server: io_notify() at a change of status, send_poll_event(). *)
Raise(h, b) ==
    /\ ~epBad /\ b \notin status[h] /\ nraise < epScene.raises
    /\ epScene.prompt => pt.st = "ready"
    /\ nraise' = nraise + 1
    /\ status' = [status EXCEPT ![h] = @ \cup {b}]
    /\ edges' = IF epScene.single /\ \E e \in EpIds : eps[e].fds[h].et /\ b \in Wants(e, h)
                THEN [edges EXCEPT ![h][b] = @ + 1] ELSE edges
    /\ IF b \in nmask[h] /\ tidSet
       THEN IF pt.st = "ready" THEN Notified(h, {b}) /\ UNCHANGED sigio
            ELSE sigio' = TRUE /\ UNCHANGED <<evq, eps, mainTh>>
       ELSE UNCHANGED <<evq, eps, mainTh, sigio>>
    /\ UNCHANGED <<epScene, nmask, tidSet, pt, epBad, loose, disarmed>>

-----------------------------------------------------------------------------
(* The main thread. While the poll thread works on a wait that ended in a signal or a timeout,  *)
(* the program does not change the interests it works on.                                       *)
Idle == ~epBad /\ mainTh.st = "run"
IdleBoth == Idle /\ pt.st = "ready"

\* A signal was raised and some instance has still to look again; what the program then reads or
\* takes off, and an interest of another instance, may leave that look nothing to find.
Unsynced == sigio \/ pt.st = "resync" \/ \E e \in EpIds : eps[e].stale
TakesAway == loose' = (loose \/ Unsynced)
Shares(es) == loose' = (loose \/ Cardinality({e \in EpIds : \E h \in Handles : es[e].fds[h].ev # {}}) > 1)

epoll_create1(e) ==
    /\ Idle /\ ~eps[e].open
    /\ eps' = [eps EXCEPT ![e] = [NoEpoll EXCEPT !.open = TRUE]]
    /\ UNCHANGED <<epScene, status, nmask, tidSet, evq, pt, mainTh, sigio, edges, epBad, loose, disarmed, nraise>>

\* refresh_notify(): all the interests of the process in one handle, and Poll::set_notify.
\* A mutation: those of one instance.
MaskOfOne(es, h, e) == es[e].fds[h].ev

MaskOfAll(es, h, e) == UNION {es[x].fds[h].ev : x \in {y \in EpIds : es[y].open}}

refresh_notify(es, h, e) ==
    nmask' = [nmask EXCEPT ![h] = MaskOfAll(es, h, e)] /\ tidSet' = TRUE /\ disarmed' = disarmed \ {h}
Existing(es, h, e) == (MaskOfAll(es, h, e) \cup {"hup"}) \cap status[h]

NotEdge(es, h) == [b \in Bits |-> IF \E e \in EpIds : es[e].fds[h].et /\ b \in es[e].fds[h].ev THEN edges[h][b] ELSE 0]

\* The server was told once where to send events.
check_notify == tidSet

\* EPOLL_CTL_ADD: a level-triggered interest is not told to the server, save the first.
ctl_add(e, h, ev, et) ==
    /\ IdleBoth /\ eps[e].open /\ Wants(e, h) = {} /\ Len(evq) < QueueCap
    /\ LET es == [eps EXCEPT ![e].fds[h] = [ev |-> ev \cup {"hup"}, et |-> et]]
       IN  /\ eps' = es /\ Shares(es)
           /\ IF ~et /\ check_notify
              THEN UNCHANGED <<nmask, tidSet, disarmed, mainTh, edges>>
              ELSE /\ refresh_notify(es, h, e)
                   /\ LET ex == Existing(es, h, e)
                      IN  /\ mainTh' = IF ex = {} THEN Run ELSE [Run EXCEPT !.st = "send", !.h = h, !.mask = ex]
                          /\ edges' = IF et /\ epScene.single THEN [edges EXCEPT ![h] = [b \in Bits |-> @[b] + IF b \in ex THEN 1 ELSE 0]]
                                      ELSE edges
    /\ UNCHANGED <<epScene, status, evq, pt, sigio, epBad, nraise>>

\* Events that held already are sent to the poll thread.
MainSend ==
    /\ ~epBad /\ mainTh.st = "send" /\ pt.st = "ready"
    /\ evq' = Append(evq, [h |-> mainTh.h, mask |-> mainTh.mask])
    /\ mainTh' = IF mainTh.prog = "poll" THEN [mainTh EXCEPT !.st = "call", !.h = 0, !.mask = {}] ELSE Run
    /\ UNCHANGED <<epScene, status, nmask, tidSet, eps, pt, sigio, edges, epBad, loose, disarmed, nraise>>

ctl_del(e, h) ==
    /\ IdleBoth /\ Wants(e, h) # {}
    /\ LET es == [eps EXCEPT ![e].fds[h] = NoInterest]
       IN  eps' = es /\ refresh_notify(es, h, e) /\ edges' = [edges EXCEPT ![h] = NotEdge(es, h)]
    /\ TakesAway
    /\ UNCHANGED <<epScene, status, evq, pt, mainTh, sigio, epBad, nraise>>

ctl_mod(e, h, ev) ==
    /\ IdleBoth /\ Wants(e, h) # {} /\ Wants(e, h) # ev \cup {"hup"}
    /\ LET es == [eps EXCEPT ![e].fds[h].ev = ev \cup {"hup"}]
       IN  eps' = es /\ refresh_notify(es, h, e) /\ edges' = [edges EXCEPT ![h] = NotEdge(es, h)]
    /\ TakesAway
    /\ UNCHANGED <<epScene, status, evq, pt, mainTh, sigio, epBad, nraise>>

epoll_wait(e, max, time) ==
    /\ Idle /\ eps[e].open
    /\ mainTh' = [Run EXCEPT !.st = "call", !.ep = e, !.max = max, !.time = time]
    /\ UNCHANGED <<epScene, status, nmask, tidSet, eps, evq, pt, sigio, edges, epBad, loose, disarmed, nraise>>

\* poll() and select(): an instance of their own with level-triggered interests.
poll(e, hs, time) ==
    /\ IdleBoth /\ ~eps[e].open
    /\ LET es == [eps EXCEPT ![e] = [NoEpoll EXCEPT !.open = TRUE,
                    !.fds = [h \in Handles |-> IF h \in hs THEN [ev |-> Bits, et |-> FALSE] ELSE NoInterest]]]
           p == [Run EXCEPT !.st = "call", !.ep = e, !.max = Cardinality(hs), !.time = time, !.prog = "poll"]
           h == Min(hs)
       IN  /\ eps' = es /\ Shares(es)
           /\ IF check_notify THEN mainTh' = p /\ UNCHANGED <<nmask, tidSet>>
              ELSE /\ nmask' = [nmask EXCEPT ![h] = Bits] /\ tidSet' = TRUE
                   /\ mainTh' = IF status[h] = {} THEN p ELSE [p EXCEPT !.st = "send", !.h = h, !.mask = status[h]]
    /\ UNCHANGED <<epScene, status, evq, pt, sigio, edges, epBad, disarmed, nraise>>

close_epoll(e) ==
    /\ Idle /\ eps[e].open
    /\ mainTh' = [Run EXCEPT !.st = "close", !.ep = e]
    /\ UNCHANGED <<epScene, status, nmask, tidSet, eps, evq, pt, sigio, edges, epBad, loose, disarmed, nraise>>

epoll_close ==
    /\ ~epBad /\ mainTh.st = "close" /\ pt.st = "ready"
    /\ LET e == mainTh.ep
           es == [eps EXCEPT ![e] = NoEpoll]
       IN  /\ eps' = es
           /\ nmask' = [h \in Handles |-> IF h \in Interests(e) THEN MaskOfAll(es, h, e) ELSE nmask[h]]
           /\ edges' = [h \in Handles |-> NotEdge(es, h)]
           /\ disarmed' = disarmed \ Interests(e)
    /\ mainTh' = Run /\ TakesAway
    /\ UNCHANGED <<epScene, status, tidSet, evq, pt, sigio, epBad, nraise>>

\* The receive phase of a wait ends: by timeout, or by SIGIO, whose handler runs in any case.
Timeout ==
    /\ ~epBad /\ mainTh.st = "recv" /\ mainTh.time = "timed"
    /\ epScene.race \/ pt.st = "ready"
    /\ mainTh' = Returned
    /\ UNCHANGED <<epScene, status, nmask, tidSet, eps, evq, pt, sigio, edges, epBad, loose, disarmed, nraise>>

\* A mutation: instances are not told to look again.
NotStale == eps

AllStale == [e \in EpIds |-> [eps[e] EXCEPT !.stale = eps[e].open]]

sigio_handler ==
    /\ ~epBad /\ sigio /\ sigio' = FALSE
    /\ eps' = AllStale
    /\ mainTh' = IF mainTh.st = "recv" THEN Returned ELSE mainTh
    /\ UNCHANGED <<epScene, status, nmask, tidSet, evq, pt, edges, epBad, loose, disarmed, nraise>>

\* The program reads what it was told of; where an event may be lost to a signal, what is read
\* need not be reported any more.
EpRead(h) ==
    /\ Idle /\ epScene.reads /\ "in" \in status[h]
    /\ status' = [status EXCEPT ![h] = @ \ {"in"}]
    /\ edges' = IF epScene.prompt THEN edges ELSE [edges EXCEPT ![h]["in"] = 0]
    /\ TakesAway
    /\ UNCHANGED <<epScene, nmask, tidSet, eps, evq, pt, mainTh, sigio, epBad, disarmed, nraise>>

EpSystem == PtRequest \/ poll_handles \/ poll_levels \/ PtReply \/ MainSend \/ epoll_close \/ sigio_handler

EpNext ==
    \/ EpSystem \/ Timeout
    \/ \E h \in epScene.hs, b \in Bits : Raise(h, b)
    \/ \E h \in Handles : EpRead(h)
    \/ \E e \in epScene.eps :
         \/ epoll_create1(e)
         \/ \E max \in 1..2, t \in epScene.times : epoll_wait(e, max, t)
         \/ \E h \in epScene.hs :
              \/ ctl_add(e, h, {"in"}, <<e, h>> \in epScene.et)
              \/ epScene.change /\ (ctl_add(e, h, {}, <<e, h>> \in epScene.et) \/ ctl_del(e, h) \/ ctl_mod(e, h, {"in"}) \/ ctl_mod(e, h, {}))
         \/ epScene.change /\ close_epoll(e)
    \/ epScene.poll /\ \E e \in EpIds \ epScene.eps, hs \in SUBSET epScene.hs \ {{}}, t \in epScene.times : poll(e, hs, t)

-----------------------------------------------------------------------------
EpTypeOK ==
    /\ pt.st \in {"ready", "resync", "levels", "reply"} /\ Len(pt.got) <= pt.max
    /\ mainTh.st \in {"run", "call", "recv", "send", "close"}
    /\ \A e \in EpIds : eps[e].waiter => eps[e].open

\* There is something to report to a caller.
EpDue(e) ==
    \E h \in Interests(e) :
       IF eps[e].fds[h].et THEN \E b \in Wants(e, h) : edges[h][b] > 0 ELSE status[h] \cap Wants(e, h) # {}

\* A thread that waits while nobody works on its request, and no signal is on its way to it, has
\* nothing to be told: no change at a server falls between the look at the queue, the question
\* about levels, the registration as a waiter and a signal for a message that could not be sent.
NoSleepOnEvent ==
    epScene.single /\ mainTh.st = "recv" /\ pt.st = "ready" /\ ~sigio /\ ~epBad => ~EpDue(mainTh.ep)

\* A change that an edge-triggered interest is reported happened, once for each report (as long
\* as no queued event outlives its interest, and no resync repeats it).
EdgeNotInvented == epScene.prompt /\ ~epScene.change => \A h \in Handles, b \in Bits : edges[h][b] >= 0

\* The server tells of every bit that some instance wants to know the edges of, whatever was
\* added, modified, removed and closed in other instances; save where the status of the handle was
\* asked for another instance, whose own mask Poll::get_status then leaves (io_impl_get_status()),
\* until the next refresh_notify().
EdgesArmed ==
    \A h \in Handles \ disarmed, e \in EpIds : eps[e].fds[h].et => Wants(e, h) \subseteq nmask[h] /\ tidSet

\* The assertion in evq_first(), that no head is without events: a look at every handle after a
\* signal finds the event that the signal was raised for, unless the program took it away before
\* (read it, gave up the interest) or the instance that looks is not the one that had the interest.
HeadsNotEmpty == epBad => loose

\* A wait with something to report ends (or the poll thread met the assertion).
WaitEnds == \A e \in EpIds : (epScene.single /\ mainTh.st \in {"call", "recv"} /\ mainTh.ep = e /\ EpDue(e)) ~> (mainTh.st = "run" \/ epBad)

\* Events between servers, the poll thread and epoll_wait().
EpollExact == EpTypeOK /\ NoSleepOnEvent /\ EdgeNotInvented /\ EdgesArmed /\ HeadsNotEmpty
==============================================================================
