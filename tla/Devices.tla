------------------------------- MODULE Devices -------------------------------
(***************************************************************************)
(* Opening a device node: the cookies of lib/cookie.c, the hand-over from  *)
(* the file system that resolved the node (squashfs_open() and             *)
(* propagate_open() of sys/fs.squashfs/squashfs.c) to the devices thread   *)
(* of root/devices.c, and that thread's table of drivers, which it starts, *)
(* waits for and gives up on.                                              *)
(*                                                                         *)
(* Time is what cookies see of it: how many period boundaries have passed  *)
(* since a cookie was made.                                                *)
(***************************************************************************)
EXTENDS Naturals, Integers, FiniteSets

CONSTANTS
    DevClients,
    Nodes,       \* the device nodes of /dev
    Driver,      \* node -> the driver's path, as in resolve_device()
    NoDriver,    \* what resolve_device() has for an unknown node
    DevServers,  \* the driver processes that can ever be spawned
    MaxTicks,    \* period boundaries other than those passed in a timed-out send
    MaxWedges,   \* drivers that stop answering, or start to again
    MaxTimeouts  \* 5 timeouts make a driver dead

VARIABLES
    dc,          \* each client: where its open is
    fsSends,     \* the client whose open the file system is sending on, or NoClient
    ents,        \* the dev_entry records in devno_ht and devname_ht
    dstate,      \* driver process -> "none", "up", "wedged" or "dead"
    serving,     \* the devices thread: the open it is at
    ticks, wedges

devVars == <<dc, fsSends, ents, dstate, serving, ticks, wedges>>

NoClient == "none"
DevIdle == [st |-> "idle"]
NotServing == [c |-> NoClient]

DevInit ==
    /\ dc = [c \in DevClients |-> DevIdle] /\ fsSends = NoClient
    /\ ents = {} /\ dstate = [s \in DevServers |-> "none"] /\ serving = NotServing
    /\ ticks = 0 /\ wedges = 0

-----------------------------------------------------------------------------
(***************************************************************************)
(* A cookie's age is the number of boundaries passed since gen_cookie();   *)
(* beyond 2 they are alike.  validate_cookie() makes the cookie of now and *)
(* that of one period later, whose age would be -1.                        *)
(***************************************************************************)
OldAge == 2
validate_cookie(age) == age \in {0, -1}

Aged(k) == [c \in DevClients |->
    IF "age" \in DOMAIN dc[c] THEN [dc[c] EXCEPT !.age = IF @ + k > OldAge THEN OldAge ELSE @ + k] ELSE dc[c]]

DevResult(c, n, result) == [dc EXCEPT ![c] = [st |-> "done", node |-> n, age |-> dc[c].age, result |-> result]]

Tick ==
    /\ ticks < MaxTicks /\ ticks' = ticks + 1 /\ dc' = Aged(1)
    /\ UNCHANGED <<fsSends, ents, dstate, serving, wedges>>

\* openat() of a device node, up to the resolved path: squashfs_resolve() ends in gen_cookie().
DevResolve(c) ==
    /\ dc[c] = DevIdle
    /\ \E n \in Nodes : dc' = [dc EXCEPT ![c] = [st |-> "resolved", node |-> n, age |-> 0]]
    /\ UNCHANGED <<fsSends, ents, dstate, serving, ticks, wedges>>

FsFree == fsSends = NoClient

\* squashfs_stat_object(), which openat() calls for what is not a file or directory.
DevStat(c) ==
    /\ dc[c].st = "resolved" /\ FsFree
    /\ dc' = IF validate_cookie(dc[c].age) THEN [dc EXCEPT ![c].st = "statted"]
             ELSE DevResult(c, dc[c].node, "EINVAL")
    /\ UNCHANGED <<fsSends, ents, dstate, serving, ticks, wedges>>

\* squashfs_open(): the file system makes a cookie of its own and is blocked in
\* propagate_open() until the devices thread takes the message.
DevOpen(c) ==
    /\ dc[c].st = "statted" /\ FsFree
    /\ IF validate_cookie(dc[c].age)
       THEN dc' = [dc EXCEPT ![c].st = "sent", ![c].age = 0] /\ fsSends' = c
       ELSE dc' = DevResult(c, dc[c].node, "EINVAL") /\ UNCHANGED fsSends
    /\ UNCHANGED <<ents, dstate, serving, ticks, wedges>>

-----------------------------------------------------------------------------
(***************************************************************************)
(* devices_open().  The entries of the node's number are tried first, then *)
(* those of the driver's path; an entry may be tried in both rounds.       *)
(***************************************************************************)
ByDevno(n) == {e \in ents : e.node = n}

ByName(n) == {e \in ents : e.name = Driver[n]}

DevReceive(c) ==
    /\ serving = NotServing /\ fsSends = c
    /\ fsSends' = NoClient
    /\ IF validate_cookie(dc[c].age)
       THEN /\ serving' = [c |-> c, node |-> dc[c].node, round |-> "devno", todo |-> ByDevno(dc[c].node), live |-> FALSE]
            /\ dc' = [dc EXCEPT ![c] = [st |-> "served", node |-> dc[c].node, age |-> dc[c].age]]
       ELSE dc' = DevResult(c, dc[c].node, "EINVAL") /\ UNCHANGED serving
    /\ UNCHANGED <<ents, dstate, ticks, wedges>>

DevDone(result) == dc' = DevResult(serving.c, serving.node, result) /\ serving' = NotServing

\* propagate_devnode_open(): the driver takes the message, and answers the client itself.
Propagate(e) ==
    /\ dstate[e.server] = "up"
    /\ DevDone("opened")
    /\ UNCHANGED <<fsSends, ents, dstate, ticks, wedges>>

GivenUp(e) == e.timeouts + 1 >= MaxTimeouts

\* The send times out, after one or two boundaries; or the driver does not exist.  An entry
\* that is dead is taken out of both tables.
Expired(e) ==
    \/ /\ dstate[e.server] = "wedged"
       /\ \E k \in {1, 2} : dc' = Aged(k)
       /\ ents' = IF GivenUp(e) THEN ents \ {e} ELSE (ents \ {e}) \cup {[e EXCEPT !.timeouts = @ + 1]}
       /\ serving' = [serving EXCEPT !.todo = @ \ {e}, !.live = @ \/ ~GivenUp(e)]
    \/ /\ dstate[e.server] = "dead"
       /\ ents' = ents \ {e} /\ serving' = [serving EXCEPT !.todo = @ \ {e}] /\ UNCHANGED dc

TryEntry ==
    /\ serving # NotServing
    /\ \E e \in serving.todo :
        \/ Propagate(e)
        \/ Expired(e) /\ UNCHANGED <<fsSends, dstate, ticks, wedges>>

RoundOver == serving # NotServing /\ serving.todo = {}

\* The second round begins, for nodes of a known driver.
LookByName ==
    /\ RoundOver /\ serving.round = "devno"
    /\ IF Driver[serving.node] = NoDriver THEN DevDone("ENODEV")
       ELSE serving' = [serving EXCEPT !.round = "name", !.todo = ByName(serving.node)] /\ UNCHANGED dc
    /\ UNCHANGED <<fsSends, ents, dstate, ticks, wedges>>

\* A mutation: a driver is started only beside one that did not answer.
StartsBeside == serving.live

MayStart == ~serving.live

\* Neither round found a driver: a fresh one is spawned and tried; or there were some.
StartAnew ==
    /\ RoundOver /\ serving.round = "name"
    /\ \/ /\ ~MayStart /\ DevDone("ETIMEDOUT") /\ UNCHANGED <<ents, dstate>>
       \/ /\ MayStart /\ DevDone("ENODEV") /\ UNCHANGED <<ents, dstate>>     \* spawn_systask() fails
          /\ \A s \in DevServers : dstate[s] # "none"
       \/ /\ MayStart
          /\ \E s \in DevServers :
              LET e == [node |-> serving.node, name |-> Driver[serving.node], server |-> s, timeouts |-> 0]
              IN  /\ dstate[s] = "none" /\ dstate' = [dstate EXCEPT ![s] = "up"]
                  /\ ents' = ents \cup {e}
                  /\ serving' = [serving EXCEPT !.round = "fresh", !.todo = {e}]
                  /\ UNCHANGED dc
    /\ UNCHANGED <<fsSends, ticks, wedges>>

FreshFailed ==
    /\ RoundOver /\ serving.round = "fresh" /\ DevDone("ETIMEDOUT")
    /\ UNCHANGED <<fsSends, ents, dstate, ticks, wedges>>

\* A driver stops or starts to receive, or ends.
DriverTurns(s) ==
    /\ wedges < MaxWedges /\ wedges' = wedges + 1
    /\ \/ dstate[s] = "up" /\ \E t \in {"wedged", "dead"} : dstate' = [dstate EXCEPT ![s] = t]
       \/ dstate[s] = "wedged" /\ dstate' = [dstate EXCEPT ![s] = "up"]
    /\ UNCHANGED <<dc, fsSends, ents, serving, ticks>>

\* A client that got an error opens the path again.
Retry(c) ==
    /\ dc[c].st = "done" /\ dc[c].result # "opened"
    /\ Driver[dc[c].node] # NoDriver
    /\ dc' = [dc EXCEPT ![c] = [st |-> "resolved", node |-> dc[c].node, age |-> 0]]
    /\ UNCHANGED <<fsSends, ents, dstate, serving, ticks, wedges>>

DevThread == TryEntry \/ LookByName \/ StartAnew \/ FreshFailed \/ \E c \in DevClients : DevReceive(c)

DevNext ==
    \/ Tick \/ DevThread
    \/ \E c \in DevClients : DevResolve(c) \/ DevStat(c) \/ DevOpen(c) \/ Retry(c)
    \/ \E s \in DevServers : DriverTurns(s)

-----------------------------------------------------------------------------
DevTypeOK ==
    /\ dc \in [DevClients -> {DevIdle} \cup [st : {"resolved", "statted", "sent", "served"}, node : Nodes, age : 0..OldAge]
                  \cup [st : {"done"}, node : Nodes, age : 0..OldAge, result : {"opened", "EINVAL", "ENODEV", "ETIMEDOUT"}]]
    /\ fsSends \in DevClients \cup {NoClient}
    /\ ents \subseteq [node : Nodes, name : {Driver[n] : n \in Nodes}, server : DevServers, timeouts : 0..(MaxTimeouts - 1)]
    /\ dstate \in [DevServers -> {"none", "up", "wedged", "dead"}]

\* There is one driver for all nodes it is responsible for: a second one is started only after
\* the first one's entry was given up, though nodes, clients and timeouts differ.
OneDriverPerName ==
    \A d, e \in ents : d.name = e.name => d = e

\* devices.c: a wedged driver does not keep the client waiting for ever, and one that keeps
\* trying gets the device as long as drivers can be spawned at all.
DeviceOpens ==
    \A c \in DevClients :
        (dc[c].st = "resolved" /\ Driver[dc[c].node] # NoDriver) ~>
            \/ dc[c].st = "done" /\ dc[c].result = "opened"
            \/ \A s \in DevServers : dstate[s] # "none"
=============================================================================
