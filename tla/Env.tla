-------------------------------- MODULE Env ---------------------------------
(***************************************************************************)
(* The environment of a process, lib/env.c: the program's array environ,   *)
(* which the program may also assign, and a hash table over it that knows  *)
(* which strings setenv() allocated.  A string is its name, its value and  *)
(* the block it is in: "s" for one that is not the library's.              *)
(***************************************************************************)
EXTENDS Integers, FiniteSets, SequencesExt
CONSTANTS EnvNames, EnvValues, EnvBlocks,
          EnvPrefix  \* pairs of names of which the first begins the second
VARIABLES environ,  \* <<>>-or-more strings; NoEnv for the null pointer
          heap,     \* environ is null or an array that realloc() and free() may be given
          our_environ,
          cached,   \* cached_environ: "null", "cur" (is environ), "old" (is not)
          table,    \* env_ht: entries of a string and whether it is `ours'
          live,     \* allocated strings
          lost,     \* a refresh() failed: it lost track of what was ours
          trouble,  \* how a call went beyond what is modelled, "" if none did
          assigned, \* history: the program has assigned environ
          envok     \* the assertions have held
evars == <<environ, heap, our_environ, cached, table, live, lost, trouble, assigned, envok>>
NoEnv == <<[name |-> "", val |-> "", block |-> "null"]>>

Str(n, v, b) == [name |-> n, val |-> v, block |-> b]
Static == {Str(n, v, "s") : n \in EnvNames, v \in EnvValues}
Entry(s) == [str |-> s, ours |-> s.block # "s"]
Array == IF environ = NoEnv THEN <<>> ELSE environ
Distinct(q) == \A i, j \in 1 .. Len(q) : q[i].name = q[j].name => i = j

(* A program starts with the strings its parent passed. *)
EnvInit ==
    /\ environ \in {q \in {<<>>} \cup {<<s>> : s \in Static} \cup {<<s, t>> : s, t \in Static} : Distinct(q)}
    /\ heap = FALSE /\ our_environ = FALSE
    /\ cached = "null" /\ table = {} /\ live = {} /\ lost = FALSE /\ trouble = "" /\ assigned = FALSE /\ envok = TRUE

Synced == cached = "cur" \/ (cached = "null" /\ environ = NoEnv)

(* What ends the program, or leaves it in a state that is not modelled:     *)
(* "array": realloc() or free() of an array that is not from malloc();      *)
(* "entry": setenv() goes on with an entry that its refresh() freed;        *)
(* "twice": it adds a name that the table did not have and environ has;     *)
(* "nomem": its error path reads through a null pointer;                    *)
(* "abort": unsetenv() without memory.                                      *)
Stops(why) ==
    /\ trouble' = why
    /\ UNCHANGED <<environ, heap, our_environ, cached, table, live, lost, assigned, envok>>

(* our_environ is set for good: environ goes to realloc() and free() after  *)
(* the program has assigned it, too.                                        *)
NotItsArray == our_environ /\ ~heap

(* refresh(): what is in environ is entered again, as ours when it was; our *)
(* strings that are not in it are freed.  When memory ends the table is     *)
(* given up, and with it the knowledge of which strings are ours.           *)
Ours == {e \in table : e.ours}
Kept == {e \in Ours : e.str \in ToSet(Array)}
(* A mutation: our strings are freed though environ still has them. *)
RefreshedBlindly ==
    [table |-> {[str |-> s, ours |-> FALSE] : s \in ToSet(Array)},
     live |-> live \ {e.str : e \in Ours}, cached |-> IF environ = NoEnv THEN "null" ELSE "cur"]
Refreshed ==
    [table |-> Kept \cup {[str |-> s, ours |-> FALSE] : s \in ToSet(Array) \ {e.str : e \in Kept}},
     live |-> live \ {e.str : e \in Ours \ Kept}, cached |-> IF environ = NoEnv THEN "null" ELSE "cur"]
Current == IF Synced THEN [table |-> table, live |-> live, cached |-> cached] ELSE Refreshed
refresh_fails ==
    /\ ~Synced /\ table' = {} /\ cached' = "null" /\ lost' = (lost \/ Ours # {})
    /\ UNCHANGED <<environ, heap, our_environ, live, trouble, assigned, envok>>
refreshes ==
    /\ LET r == Current IN table' = r.table /\ live' = r.live /\ cached' = r.cached
    /\ UNCHANGED <<environ, heap, our_environ, lost, trouble, assigned, envok>>

getenv == refreshes \/ refresh_fails

(* What it would answer: by the table, or by a search whose comparison ends *)
(* with the name in environ, so that one that begins the name is taken.     *)
Hashed(n) == {e.str.val : e \in {x \in table : x.str.name = n}}
First(hits) == IF hits = <<>> THEN {} ELSE {hits[1].val}
Linear(n) == First(SelectSeq(Array, LAMBDA s : s.name = n \/ <<s.name, n>> \in EnvPrefix))
Answer(n) == IF cached = "null" THEN Linear(n) ELSE Hashed(n)
ValueOf(n) == First(SelectSeq(Array, LAMBDA s : s.name = n))

Find(t, n) == {e \in t : e.str.name = n}

Freed(strs, olds) == strs \ {e.str : e \in {x \in olds : x.ours}}
Without(q, olds) == SelectSeq(q, LAMBDA s : s \notin {e.str : e \in olds})

Keeps(olds, overwrite) == olds # {} /\ ~overwrite

(* setenv() looks the old value up before it refreshes the table: what it   *)
(* found may be freed by then, and what it did not may be there.            *)
FreedMeanwhile(olds) == ~Synced /\ ~(olds \subseteq Kept)
Overlooked(olds, n) == olds = {} /\ ValueOf(n) # {}

setenv(n, v, overwrite, b) ==
    LET olds == Find(table, n)
        r == Current
        new == Str(n, v, b)
    IN IF Keeps(olds, overwrite) THEN UNCHANGED evars
       ELSE IF NotItsArray THEN Stops("array")
       ELSE IF FreedMeanwhile(olds) THEN Stops("entry")
       ELSE IF Overlooked(olds, n) THEN Stops("twice")
       ELSE /\ \A s \in r.live : s.block # b
            /\ environ' = Without(Append(Array, new), olds)
            /\ table' = (r.table \ olds) \cup {Entry(new)}
            /\ live' = Freed(r.live \cup {new}, olds)
            /\ cached' = "cur" /\ heap' = TRUE /\ our_environ' = TRUE
            /\ envok' = (envok /\ \A e \in olds : e.str \in ToSet(Array))
            /\ UNCHANGED <<lost, trouble, assigned>>

(* No memory for the string, the table or the array: the table is current.  *)
(* None for refresh() or the entry itself: `ent' is null in the error path. *)
setenv_fails == refreshes \/ Stops("nomem")

unsetenv(n) ==
    \/ /\ LET r == Current
              olds == Find(r.table, n)
          IN /\ environ' = IF olds = {} THEN environ ELSE Without(Array, olds)
             /\ table' = r.table \ olds /\ live' = Freed(r.live, olds) /\ cached' = r.cached
             /\ envok' = (envok /\ (olds # {} => environ # NoEnv))
       /\ UNCHANGED <<heap, our_environ, lost, trouble, assigned>>
    \/ ~Synced /\ Stops("abort")

PutArray(r, s) ==
    LET olds == {e.str : e \in Find(r.table, s.name)}
    IN IF olds = {} THEN Append(Array, s)
       ELSE [i \in 1 .. Len(Array) |-> IF Array[i] \in olds THEN s ELSE Array[i]]
putenv(s) ==
    \/ LET r == Current
           olds == Find(r.table, s.name)
       IN IF olds = {} /\ NotItsArray THEN Stops("array")
          ELSE /\ environ' = PutArray(r, s)
               /\ table' = (r.table \ olds) \cup {[str |-> s, ours |-> FALSE]}
               /\ live' = Freed(r.live, olds)
               /\ IF olds = {} THEN cached' = "cur" /\ heap' = TRUE /\ our_environ' = TRUE
                  ELSE cached' = r.cached /\ UNCHANGED <<heap, our_environ>>
               /\ envok' = (envok /\ \A e \in olds : e.str \in ToSet(Array))
               /\ UNCHANGED <<lost, trouble, assigned>>
    \/ refreshes \/ refresh_fails

Emptied(r) == {}
clearenv ==
    IF NotItsArray THEN Stops("array")
    ELSE /\ \/ LET r == Current IN live' = Freed(r.live, r.table) /\ table' = Emptied(r) /\ UNCHANGED lost
            \/ ~Synced /\ table' = {} /\ lost' = (lost \/ Ours # {}) /\ UNCHANGED live
         /\ environ' = NoEnv /\ heap' = TRUE /\ cached' = "null"
         /\ UNCHANGED <<our_environ, trouble, assigned, envok>>

(* The program assigns environ: null, or an array of its own, from malloc() *)
(* or not, with strings of the old one and with its own.                    *)
assign(q, fromHeap) ==
    /\ environ' = q /\ heap' = (fromHeap \/ q = NoEnv) /\ assigned' = TRUE
    /\ cached' = IF cached = "null" THEN "null" ELSE "old"
    /\ UNCHANGED <<our_environ, table, live, lost, trouble, envok>>
OfOld(keep, s) == Append(SelectSeq(Array, LAMBDA x : x.name \in keep /\ x.name # s.name), s)

EnvNext ==
    /\ trouble = ""
    /\ \/ getenv \/ setenv_fails \/ clearenv
       \/ \E n \in EnvNames : unsetenv(n)
       \/ \E n \in EnvNames, v \in EnvValues, o \in BOOLEAN, b \in EnvBlocks : setenv(n, v, o, b)
       \/ \E s \in Static : putenv(s)
       \/ \E s \in Static, keep \in SUBSET EnvNames, h \in BOOLEAN : assign(OfOld(keep, s), h)
       \/ assign(NoEnv, FALSE)
EnvSpec == EnvInit /\ [][EnvNext]_evars

(***************************************************************************)
(* No string that environ or the table points to has been freed: not when  *)
(* a value is replaced, not when the program assigns environ and the table *)
(* is built again.                                                         *)
(***************************************************************************)
NoDangling ==
    /\ envok
    /\ \A i \in 1 .. Len(Array) : Array[i].block # "s" => Array[i] \in live
    /\ Synced => \A e \in table : e.str.block # "s" => e.str \in live

(***************************************************************************)
(* getenv() by the table gives the value environ has, and so does the      *)
(* search that stands in for it when memory has run out, unless a name     *)
(* that begins the one asked for comes first; no name is there twice.      *)
(***************************************************************************)
BegunBefore(n) ==
    \E i \in 1 .. Len(Array) : <<Array[i].name, n>> \in EnvPrefix /\ \A j \in 1 .. i : Array[j].name # n
GetenvExact ==
    /\ Distinct(Array)
    /\ \A n \in EnvNames :
         Synced \/ (cached = "null" /\ ~BegunBefore(n)) => Answer(n) = ValueOf(n)

(***************************************************************************)
(* After setenv() the name has the new value if it was asked to overwrite  *)
(* or there was none, and else the one it had; the table it looked in      *)
(* being that of environ, as far as the name goes.  (The test of evars is  *)
(* that of the subscript, made before the rest.)                           *)
(***************************************************************************)
OverwritesIffAsked ==
    [][evars' # evars => \A n \in EnvNames, v \in EnvValues, o \in BOOLEAN, b \in EnvBlocks :
          /\ setenv(n, v, o, b) /\ trouble' = ""
          /\ (Find(table, n) = {}) = (ValueOf(n) = {})
          => ValueOf(n)' = IF o \/ ValueOf(n) = {} THEN {v} ELSE ValueOf(n)]_evars

(***************************************************************************)
(* Only a program that assigns environ meets a block that is not the       *)
(* library's in realloc() or free(), or an entry freed under setenv(); and *)
(* a name is overlooked only then, or while there is no table.             *)
(***************************************************************************)
TroubleByAssignment ==
    /\ trouble \in {"array", "entry"} => assigned
    /\ trouble = "twice" => assigned \/ cached = "null"

(***************************************************************************)
(* Unless a refresh() failed, every string the library allocated is in     *)
(* environ or is freed: "never free()ing statically-allocated environment  *)
(* values ... or leaking memory".                                          *)
(***************************************************************************)
NoEnvLeak == Synced /\ ~lost => live \subseteq ToSet(Array)

(***************************************************************************)
(* The table of lib/env.c and environ stay one environment.                *)
(***************************************************************************)
EnvExact == NoDangling /\ GetenvExact /\ NoEnvLeak /\ TroubleByAssignment
=============================================================================
