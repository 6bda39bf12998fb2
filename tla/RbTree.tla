------------------------------- MODULE RbTree -------------------------------
(***************************************************************************)
(* The red-black trees of lib/rbtree.c, in which the memory servers keep   *)
(* their maps, pages and tasks.  The C code has every case twice, once for *)
(* each side; here the side is a parameter.  A node's key stands for the   *)
(* structure it is embedded in; two nodes may have one key, as a map and   *)
(* the map that replaces it.                                               *)
(***************************************************************************)
EXTENDS Integers, FiniteSets, SequencesExt
CONSTANTS RbNodes,   \* structures with an rb_node in them
          RbKey      \* the key each of them has
VARIABLE rb          \* the tree: its root, each node's children, parent, colour
NIL == 0
ASSUME RbAssumption == NIL \notin RbNodes /\ RbKey \in [RbNodes -> Int]

Sides == {"left", "right"}
Opp(s) == IF s = "left" THEN "right" ELSE "left"

(* RB_ROOT. *)
RbInit == rb = [root |-> NIL, kid |-> [n \in RbNodes |-> [s \in Sides |-> NIL]],
                up |-> [n \in RbNodes |-> NIL], red |-> [n \in RbNodes |-> FALSE]]

rb_set_parent(t, n, p) == IF n = NIL THEN t ELSE [t EXCEPT !.up[n] = p]
rb_set_black(t, n) == IF n = NIL THEN t ELSE [t EXCEPT !.red[n] = FALSE]
rb_set_red(t, n) == [t EXCEPT !.red[n] = TRUE]
rb_is_red(t, n) == n # NIL /\ t.red[n]
SideOf(t, n) == IF t.kid[t.up[n]]["left"] = n THEN "left" ELSE "right"

(* What pointed at `n' from above points at `by'. *)
Relink(t, n, by) ==
    IF t.up[n] = NIL THEN [t EXCEPT !.root = by]
    ELSE [t EXCEPT !.kid[t.up[n]][SideOf(t, n)] = by]

(* __rb_rotate_left() and __rb_rotate_right(). *)
Rotate(t, n, s) ==
    LET pivot == t.kid[n][Opp(s)]
        inner == t.kid[pivot][s]
        t1 == Relink(t, n, pivot)
        t2 == rb_set_parent([t1 EXCEPT !.kid[n][Opp(s)] = inner], inner, n)
        t3 == rb_set_parent([t2 EXCEPT !.kid[pivot][s] = n], pivot, t2.up[n])
    IN rb_set_parent(t3, n, pivot)

(* The node's uncle is black: one or two rotations end the loop. *)
InsertRotated(t, node, parent, s) ==
    LET gparent == t.up[parent]
        inner == t.kid[parent][Opp(s)] = node
        t1 == IF inner THEN Rotate(t, parent, s) ELSE t
        top == IF inner THEN node ELSE parent
    IN Rotate(rb_set_red(rb_set_black(t1, top), gparent), gparent, Opp(s))

RECURSIVE rb_insert_color(_, _)
rb_insert_color(t, node) ==
    LET parent == t.up[node] IN
    IF ~rb_is_red(t, parent) THEN rb_set_black(t, t.root)
    ELSE LET gparent == t.up[parent]
             s == SideOf(t, parent)
             uncle == t.kid[gparent][Opp(s)]
         IN IF rb_is_red(t, uncle)
            THEN rb_insert_color(
                   rb_set_red(rb_set_black(rb_set_black(t, uncle), parent), gparent), gparent)
            ELSE LET t1 == InsertRotated(t, node, parent, s) IN rb_set_black(t1, t1.root)

(* The callers' descent: where a key belongs, or the node that has it. *)
RECURSIVE Descend(_, _, _, _, _)
Descend(t, key, at, parent, s) ==
    IF at = NIL THEN [found |-> NIL, parent |-> parent, side |-> s]
    ELSE IF key = RbKey[at] THEN [found |-> at, parent |-> parent, side |-> s]
    ELSE LET to == IF key < RbKey[at] THEN "left" ELSE "right"
         IN Descend(t, key, t.kid[at][to], at, to)

rb_link_node(t, n, parent, s) ==
    LET t1 == [t EXCEPT !.up[n] = parent, !.red[n] = TRUE, !.kid[n] = [x \in Sides |-> NIL]]
    IN IF parent = NIL THEN [t1 EXCEPT !.root = n] ELSE [t1 EXCEPT !.kid[parent][s] = n]

(* A mutation: the sibling does not take the parent's colour. *)
EraseColourLost(t, parent, s) ==
    LET other == t.kid[parent][Opp(s)]
        bend == ~rb_is_red(t, t.kid[other][Opp(s)])
        t1 == IF bend THEN Rotate(rb_set_red(rb_set_black(t, t.kid[other][s]), other), other, Opp(s))
              ELSE t
        o == t1.kid[parent][Opp(s)]
        t2 == rb_set_black(rb_set_black(t1, o), parent)
    IN Rotate(rb_set_black(t2, t2.kid[o][Opp(s)]), parent, s)

(* The sibling is black and has a red child: up to two rotations end it. *)
EraseRotated(t, parent, s) ==
    LET other == t.kid[parent][Opp(s)]
        bend == ~rb_is_red(t, t.kid[other][Opp(s)])
        t1 == IF bend THEN Rotate(rb_set_red(rb_set_black(t, t.kid[other][s]), other), other, Opp(s))
              ELSE t
        o == t1.kid[parent][Opp(s)]
        t2 == rb_set_black([t1 EXCEPT !.red[o] = t1.red[parent]], parent)
    IN Rotate(rb_set_black(t2, t2.kid[o][Opp(s)]), parent, s)

RECURSIVE rb_erase_color(_, _, _)
rb_erase_color(t, node, parent) ==
    IF rb_is_red(t, node) \/ node = t.root THEN rb_set_black(t, node)
    ELSE LET s == IF t.kid[parent]["left"] = node THEN "left" ELSE "right"
             sib == t.kid[parent][Opp(s)]
             t1 == IF rb_is_red(t, sib)
                   THEN Rotate(rb_set_red(rb_set_black(t, sib), parent), parent, s) ELSE t
             other == t1.kid[parent][Opp(s)]
         IN IF \A x \in Sides : ~rb_is_red(t1, t1.kid[other][x])
            THEN rb_erase_color(rb_set_red(t1, other), parent, t1.up[parent])
            ELSE LET t2 == EraseRotated(t1, parent, s) IN rb_set_black(t2, t2.root)

RECURSIVE Outermost(_, _, _)
Outermost(t, n, s) == IF n = NIL \/ t.kid[n][s] = NIL THEN n ELSE Outermost(t, t.kid[n][s], s)

(* A removed node's fields are never read again. *)
Cleared(t, n) == [t EXCEPT !.kid[n] = [s \in Sides |-> NIL], !.up[n] = NIL, !.red[n] = FALSE]

(* __rb_erase() of a node with one child or none. *)
EraseSimple(t, n) ==
    LET child == IF t.kid[n]["left"] = NIL THEN t.kid[n]["right"] ELSE t.kid[n]["left"]
        t1 == rb_set_parent(Relink(t, n, child), child, t.up[n])
    IN IF t.red[n] THEN t1 ELSE rb_erase_color(t1, child, t.up[n])

(* __rb_erase() of a node with two: its successor takes its place. *)
EraseInner(t, old) ==
    LET node == Outermost(t, t.kid[old]["right"], "left")
        child == t.kid[node]["right"]
        below == t.up[node] = old
        parent == IF below THEN node ELSE t.up[node]
        t1 == rb_set_parent(t, child, t.up[node])
        t2 == IF below THEN [t1 EXCEPT !.kid[old]["right"] = child]
              ELSE [t1 EXCEPT !.kid[parent]["left"] = child]
        t3 == Relink([t2 EXCEPT !.kid[node] = t2.kid[old], !.up[node] = t2.up[old],
                                !.red[node] = t2.red[old]], old, node)
        t4 == rb_set_parent(rb_set_parent(t3, t3.kid[old]["left"], node), t3.kid[old]["right"], node)
    IN IF t.red[node] THEN t4 ELSE rb_erase_color(t4, child, parent)

rb_erase(t, n) ==
    Cleared(IF \E s \in Sides : t.kid[n][s] = NIL THEN EraseSimple(t, n) ELSE EraseInner(t, n), n)

(* __rb_first(), __rb_last(); __rb_next(), __rb_prev(). *)
rb_first(t) == Outermost(t, t.root, "left")
rb_last(t) == Outermost(t, t.root, "right")
RECURSIVE Climb(_, _, _)
Climb(t, n, s) ==
    IF t.up[n] # NIL /\ t.kid[t.up[n]][s] = n THEN Climb(t, t.up[n], s) ELSE t.up[n]
Step(t, n, s) ==
    IF t.kid[n][s] # NIL THEN Outermost(t, t.kid[n][s], Opp(s)) ELSE Climb(t, n, s)
rb_next(t, n) == Step(t, n, "right")
rb_prev(t, n) == Step(t, n, "left")

rb_replace_node(t, victim, new) ==
    LET t1 == Relink(t, victim, new)
        t2 == rb_set_parent(rb_set_parent(t1, t1.kid[victim]["left"], new), t1.kid[victim]["right"], new)
    IN [t2 EXCEPT !.kid[new] = t2.kid[victim], !.up[new] = t2.up[victim], !.red[new] = t2.red[victim]]

(* A mutation: the next node is looked up after the current one is gone. *)
StepAfterErase(t, n, D) ==
    LET t1 == IF n \in D THEN rb_erase(t, n) ELSE t IN [t |-> t1, next |-> rb_next(t1, n)]

(* One turn of the loop of RB_FOREACH_SAFE(): the body may remove `n'. *)
SafeStep(t, n, D) ==
    [t |-> IF n \in D THEN rb_erase(t, n) ELSE t, next |-> rb_next(t, n)]
RECURSIVE SafeLoop(_, _, _)
SafeLoop(t, n, D) ==
    IF n = NIL THEN t ELSE LET r == SafeStep(t, n, D) IN SafeLoop(r.t, r.next, D)

RECURSIVE Linked(_, _)
Linked(t, n) == IF n = NIL THEN {} ELSE {n} \cup UNION {Linked(t, t.kid[n][s]) : s \in Sides}
InTree == Linked(rb, rb.root)

insert(n) ==
    /\ n \notin InTree
    /\ LET d == Descend(rb, RbKey[n], rb.root, NIL, "left")
       IN /\ d.found = NIL
          /\ rb' = rb_insert_color(rb_link_node(rb, n, d.parent, d.side), n)

erase(n) == n \in InTree /\ rb' = rb_erase(rb, n)

replace(victim, new) ==
    /\ victim \in InTree /\ new \notin InTree /\ RbKey[victim] = RbKey[new]
    /\ rb' = Cleared(rb_replace_node(rb, victim, new), victim)

(* The servers remove what lies in a range this way: munmap, a task's end. *)
InRange(lo, hi) == {n \in InTree : lo <= RbKey[n] /\ RbKey[n] <= hi}
foreach_safe(lo, hi) == rb' = SafeLoop(rb, rb_first(rb), InRange(lo, hi))

RbNext ==
    \/ \E n \in RbNodes : insert(n) \/ erase(n)
    \/ \E v, n \in RbNodes : replace(v, n)
    \/ \E a, b \in InTree : foreach_safe(RbKey[a], RbKey[b])
RbSpec == RbInit /\ [][RbNext]_rb

RECURSIVE Walk(_, _, _)
Walk(n, s, left) ==
    IF n = NIL \/ left = 0 THEN <<>> ELSE <<n>> \o Walk(Step(rb, n, s), s, left - 1)
RECURSIVE BlackHeights(_)
BlackHeights(n) ==
    IF n = NIL THEN {0}
    ELSE {h + (IF rb.red[n] THEN 0 ELSE 1) : h \in UNION {BlackHeights(rb.kid[n][s]) : s \in Sides}}

(***************************************************************************)
(* The walks forwards and backwards meet every node of the tree once, in   *)
(* the order of the keys, and the descent finds each: what the memory      *)
(* servers' lookups and loops over ranges of addresses rest on.            *)
(***************************************************************************)
RbOrdered ==
    LET fwd == Walk(rb_first(rb), "right", Cardinality(RbNodes) + 1)
    IN /\ ToSet(fwd) = InTree /\ Len(fwd) = Cardinality(InTree)
       /\ \A i \in 1 .. Len(fwd) - 1 :
            RbKey[fwd[i]] < RbKey[fwd[i + 1]] /\ rb_prev(rb, fwd[i + 1]) = fwd[i]
       /\ Reverse(fwd) = Walk(rb_last(rb), "left", Cardinality(RbNodes) + 1)
       /\ \A n \in InTree : Descend(rb, RbKey[n], rb.root, NIL, "left").found = n

(***************************************************************************)
(* No red node has a red child and every path to a leaf has as many black  *)
(* nodes: the tree's height, and so the servers' stack of comparisons per  *)
(* fault, stays within twice the logarithm of its size.                    *)
(***************************************************************************)
RbBalanced ==
    /\ ~rb_is_red(rb, rb.root)
    /\ \A n \in InTree, s \in Sides : ~(rb.red[n] /\ rb_is_red(rb, rb.kid[n][s]))
    /\ Cardinality(BlackHeights(rb.root)) = 1

(***************************************************************************)
(* A loop that removes some of what it meets, having looked at the next    *)
(* node before, visits all the others too and leaves exactly them, though  *)
(* every removal turns the tree around it.                                 *)
(***************************************************************************)
ForeachExact ==
    [][\A a, b \in InTree : foreach_safe(RbKey[a], RbKey[b]) =>
          Linked(rb', rb'.root) = InTree \ InRange(RbKey[a], RbKey[b])]_rb
=============================================================================
