------------------------------ MODULE TaskMem ------------------------------
(* What sysmem promises to system tasks: a page keeps what its task last     *)
(* stored there, wherever sysmem moves it, until the task gives it away,     *)
(* lowers its break below it, or is removed; a page that is given away       *)
(* arrives as it was. A page that was not there appears when it is touched;  *)
(* nothing is said of what it holds.                                         *)
EXTENDS Integers

CONSTANTS
  Tasks,      \* system task IDs
  Pages,      \* page numbers
  Values,     \* what a page can hold
  Stores,     \* what a task stores
  NoPage      \* there is no such page

VARIABLE view \* view[t][a]: what task t has at page a

TypeOK == view \in [Tasks -> [Pages -> Values \cup {NoPage}]]

Init == view = [t \in Tasks |-> [a \in Pages |-> NoPage]]

Appear(t, a, v) ==
  /\ view[t][a] = NoPage
  /\ view' = [view EXCEPT ![t][a] = v]

Store(t, a, v) ==
  /\ view[t][a] # NoPage
  /\ view' = [view EXCEPT ![t][a] = v]

(* The page leaves its task; a page in its new place is replaced.            *)
Send(t, a, u, b) ==
  /\ <<t, a>> # <<u, b>>
  /\ view' = [view EXCEPT ![t][a] = NoPage, ![u][b] = view[t][a]]

(* The pages from a to z go.                                                 *)
Shrink(t, a, z) ==
  view' = [view EXCEPT ![t] = [b \in Pages |-> IF b \in a..z THEN NoPage ELSE @[b]]]

Next ==
  \E t \in Tasks, a \in Pages :
    \/ \E v \in Values : Appear(t, a, v)
    \/ \E v \in Stores : Store(t, a, v)
    \/ \E u \in Tasks, b \in Pages : Send(t, a, u, b)
    \/ \E z \in Pages : Shrink(t, a, z)

Spec == Init /\ [][Next]_view
=============================================================================
