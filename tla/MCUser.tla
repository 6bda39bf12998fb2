------------------------------- MODULE MCUser -------------------------------
(* Broadcasts of system messages, and epoll, one module at a time.  `part'  *)
(* says which, the other stays as it begins.                                *)
EXTENDS Sysmsg, Epoll
VARIABLE part

\* x and y share a slot on bit 0; y has one slot twice
MCSlots(l, b) == IF l = "x" THEN <<1, 2, b + 3>> ELSE <<2, 2, 4>>
Cast(f, p, n, l) == [from |-> f, maskp |-> p, maskn |-> n, label |-> l]
MCMsgScenes == {
    \* one listener with two handles and a filter
    [listens |-> {<<1, 0, "g">>, <<1, 0, "h">>}, filters |-> {<<1, 0, "x">>, <<1, 0, "y">>}, nested |-> TRUE, masks |-> FALSE,
     casts |-> {Cast(2, {0}, {}, "x"), Cast(2, {0}, {}, "y")}],
    \* two tasks, two bits, both broadcast
    [listens |-> {<<1, 0, "g">>, <<1, 1, "h">>, <<2, 0, "g">>, <<2, 1, "g">>}, filters |-> {<<2, 0, "x">>}, nested |-> FALSE, masks |-> FALSE,
     casts |-> {Cast(1, {0, 1}, {}, "x"), Cast(2, {0}, {1}, "y")}],
    \* filters on both bits
    [listens |-> {<<1, 0, "g">>, <<1, 1, "h">>}, filters |-> {<<1, 0, "x">>, <<1, 1, "x">>, <<1, 1, "y">>}, nested |-> FALSE, masks |-> FALSE,
     casts |-> {Cast(2, {0, 1}, {}, "x"), Cast(2, {0, 1}, {}, "y"), Cast(2, {1}, {}, "x")}],
    \* a handler that listens
    [listens |-> {<<1, 0, "g">>, <<1, 1, "h">>}, filters |-> {}, nested |-> TRUE, masks |-> TRUE,
     casts |-> {Cast(2, {0, 1}, {}, "x"), Cast(2, {1}, {}, "x")}]}

\* raises: bound on the events at the server, fewer than EVBUFSZ; et: instance and handle of the edge-triggered interests; prompt: no server runs while the poll thread works;
\* reads: the program reads; race: a timeout may fall while the poll thread works; single: one
\* instance at a time has interests; change: removals, changes and closes.
Scene(raises, hs, prompt, reads, race, et, es, change, pl, times) ==
    [raises |-> raises, hs |-> hs, prompt |-> prompt, reads |-> reads, race |-> race, et |-> et, eps |-> es, single |-> Cardinality(es) < 2,
     change |-> change, poll |-> pl, times |-> times]
All == {"", "nohang", "timed"}

At(es, hs) == es \X hs

MCEpScenes ==
    {Scene(3, Handles, TRUE, TRUE, FALSE, At({1}, Handles), {1}, FALSE, FALSE, All),
     Scene(2, Handles, TRUE, TRUE, FALSE, At({1}, {1}), {1}, TRUE, FALSE, {""}),
     Scene(2, {1}, TRUE, FALSE, FALSE, At({1, 2}, {1}), {1, 2}, TRUE, FALSE, {"nohang"}),
     Scene(2, Handles, FALSE, FALSE, TRUE, {}, {1}, FALSE, FALSE, {"", "timed"}),
     Scene(2, Handles, FALSE, FALSE, FALSE, At({1}, {1}), {1}, FALSE, FALSE, All),
     Scene(2, Handles, FALSE, FALSE, FALSE, At({1}, Handles), {1}, FALSE, FALSE, {"", "timed"}),
     Scene(2, Handles, TRUE, TRUE, TRUE, {}, {}, FALSE, TRUE, All),
     \* signals, and a program that reads and changes its interests
     Scene(2, Handles, FALSE, TRUE, FALSE, At({1}, {1}), {1}, FALSE, FALSE, {""}),
     Scene(2, {1}, FALSE, TRUE, FALSE, At({1}, {1}), {1}, TRUE, FALSE, {"", "nohang"}),
     \* an edge-triggered interest beside another instance's level-triggered one, with signals
     Scene(1, {1}, FALSE, TRUE, FALSE, At({1}, {1}), {1, 2}, TRUE, FALSE, {"nohang"})}

userVars == <<part, msgVars, epVars>>

UserInit ==
    /\ part \in {"sysmsg", "epoll"}
    /\ MsgInit /\ EpInit
    /\ part # "sysmsg" => msc = CHOOSE x \in MsgScenes : TRUE
    /\ part # "epoll" => epScene = CHOOSE x \in EpScenes : TRUE
UserNext ==
    /\ UNCHANGED part
    /\ \/ part = "sysmsg" /\ MsgNext /\ UNCHANGED epVars
       \/ part = "epoll" /\ EpNext /\ UNCHANGED msgVars

(* Each module's fairness; `part' does not change, so that this is the      *)
(* condition on the module at work.                                         *)
UserSystem ==
    /\ UNCHANGED part
    /\ \/ part = "sysmsg" /\ MsgServing /\ UNCHANGED epVars
       \/ part = "epoll" /\ EpSystem /\ UNCHANGED msgVars
UserSpec == UserInit /\ [][UserNext]_userVars /\ WF_userVars(UserSystem)

(* Broadcasts end, and a wait for an event that has happened does.          *)
UserProgress == BroadcastEnds /\ WaitEnds
=============================================================================
