------------------------------ MODULE PosixMem ------------------------------
(* What VM promises to programs about private memory: a page keeps what its  *)
(* own process last stored there, whatever other processes do, until that    *)
(* process remaps or unmaps it; fork gives the child the parent's contents.  *)
(* Pages of MAP_SHARED maps are the single value Shared: nothing is said of  *)
(* their contents.                                                           *)
EXTENDS Integers

CONSTANTS
  Spaces,     \* process IDs
  Pages,      \* user pages, by number
  Contents,   \* what a page can hold
  Initial,    \* what a freshly mapped private page can hold
  Images,     \* what a loader puts into a page
  NoMem,      \* a page that is not mapped
  Shared,     \* a page of a shared map
  Dead,       \* the same, of a process that does not exist
  Stores,     \* what a program stores
  Put(_, _)   \* Put(c, v): page contents c after a store of v

VARIABLE mem

DeadMem == [a \in Pages |-> Dead]

Init == mem = [p \in Spaces |-> DeadMem]

(* Steps are told as relations between a process's memory before and after.  *)

Spawn(old, new) ==
  /\ old = DeadMem
  /\ new = [a \in Pages |-> NoMem]

Erase(old, new) ==
  /\ old # DeadMem
  /\ new = DeadMem

(* fork(): the child, which did not exist, has what the parent p has.        *)
Fork(old, new, p) ==
  /\ old = DeadMem
  /\ mem[p] # DeadMem
  /\ new = mem[p]

Changed(old, new) == {a \in Pages : new[a] # old[a]}

(* The pages from the first that changed to the last.                        *)
Hull(D) == {a \in Pages : \E x, y \in D : x <= a /\ a <= y}

Store(old, new, a, v) ==
  /\ old[a] \in Contents
  /\ new[a] = Put(old[a], v)

(* mmap(): one range gets fresh pages, or shared ones.                       *)
Map(new, range) ==
  \/ \A a \in range : new[a] \in Initial
  \/ \A a \in range : new[a] = Shared

(* munmap()                                                                  *)
Unmap(new, range) == \A a \in range : new[a] = NoMem

(* A page image put into place by a loader.                                  *)
Upload(new, a) == new[a] \in Images

Step(old, new) ==
  \/ Spawn(old, new)
  \/ Erase(old, new)
  \/ \E p \in Spaces : Fork(old, new, p)
  \/ /\ old # DeadMem /\ new # DeadMem
     /\ LET D == Changed(old, new)
        IN  \/ \E a \in D : /\ D = {a}
                            /\ Upload(new, a) \/ \E v \in Stores : Store(old, new, a, v)
            \/ Map(new, Hull(D))
            \/ Unmap(new, Hull(D))

(* One process's memory changes in a step, and all others' stay.             *)
Next ==
  \E p \in Spaces :
    LET old == mem[p]
        new == mem'[p]
    IN  /\ old # new
        /\ \A q \in Spaces \ {p} : mem'[q] = mem[q]
        /\ Step(old, new)

Spec == Init /\ [][Next]_mem
=============================================================================
