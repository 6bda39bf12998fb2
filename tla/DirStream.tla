------------------------------ MODULE DirStream ------------------------------
(***************************************************************************)
(* Directory streams of user/crt/directory.c: readdir() out of chunks that *)
(* the file system returns, with seekdir(), telldir(), several streams on  *)
(* one descriptor, and scandir(). A position is the number of entries      *)
(* before it. Where a chunk ends is the file system's choice.              *)
(***************************************************************************)
EXTENDS Integers, Sequences, SequencesExt, FiniteSets

CONSTANTS
    DirLen,      \* entries in the directory
    ChunkMax,    \* entries that fit in DENTSBUF_MAX
    Streams,     \* DIR pointers
    Hidden       \* entries that scandir()'s filter drops

ASSUME DirAssumption == DirLen \in Nat /\ ChunkMax \in Nat \ {0} /\ Hidden \subseteq 1..DirLen

VARIABLES
    dirp,        \* stream -> its state, or Closed
    told,        \* a position that telldir() returned
    got,         \* stream -> [from: where it was opened or put, seq: entries since]
    scan         \* scandir(): [s: its stream or 0, list, result]

dsVars == <<dirp, told, got, scan>>

Closed == [open |-> FALSE, tellpos |-> 0, end |-> FALSE, remain |-> 0, next |-> 0]
Opened0 == [Closed EXCEPT !.open = TRUE]

\* chunk entries not yet returned: next is the first of them, 0 if there is no chunk.
DsInit ==
    /\ dirp = [s \in Streams |-> Closed] /\ told = 0
    /\ got = [s \in Streams |-> [from |-> 0, seq |-> <<>>]]
    /\ scan = [s |-> "none", list |-> <<>>, result |-> "none"]

opendir(s) ==
    /\ ~dirp[s].open
    /\ dirp' = [dirp EXCEPT ![s] = Opened0]
    /\ got' = [got EXCEPT ![s] = [from |-> 0, seq |-> <<>>]]
    /\ UNCHANGED <<told, scan>>

closedir(s) ==
    /\ dirp[s].open /\ scan.s # s
    /\ dirp' = [dirp EXCEPT ![s] = Closed]
    /\ got' = [got EXCEPT ![s] = [from |-> 0, seq |-> <<>>]]
    /\ UNCHANGED <<told, scan>>

\* Sneks::Directory/getdents: entries from a position on, at least one unless there are none.
getdents(pos) == IF pos = DirLen THEN {0} ELSE 1..(IF DirLen - pos < ChunkMax THEN DirLen - pos ELSE ChunkMax)

\* One entry out of the chunk.
TakeEntry(d) == [d EXCEPT !.tellpos = d.next, !.remain = @ - 1, !.next = IF d.remain = 1 THEN 0 ELSE @ + 1]

DsFetched(d, n) == IF n = 0 THEN [d EXCEPT !.remain = 0, !.end = TRUE]
                 ELSE [d EXCEPT !.remain = n, !.next = d.tellpos + 1]

\* What readdir() may leave and return: an entry, 0 at the end, -1 if the file system fails.
Answers(d) ==
    IF d.end THEN {<<d, 0>>}
    ELSE IF d.next > 0 THEN {<<TakeEntry(d), d.next>>}
    ELSE {<<d, -1>>} \cup
         {LET f == DsFetched(d, n)
          IN  IF n = 0 THEN <<f, 0>> ELSE <<TakeEntry(f), f.next>> : n \in getdents(d.tellpos)}

ReadInto(s, a) ==
    /\ dirp' = [dirp EXCEPT ![s] = a[1]]
    /\ got' = IF a[2] > 0 THEN [got EXCEPT ![s].seq = Append(@, a[2])] ELSE got

readdir(s) ==
    /\ dirp[s].open /\ scan.s # s
    /\ \E a \in Answers(dirp[s]) : ReadInto(s, a)
    /\ UNCHANGED <<told, scan>>

SeekTo(d, loc) == [d EXCEPT !.tellpos = loc, !.next = 0, !.remain = 0, !.end = FALSE]

seekdir(s, loc) ==
    /\ dirp[s].open /\ scan.s # s
    /\ dirp' = [dirp EXCEPT ![s] = SeekTo(@, loc)]
    /\ got' = [got EXCEPT ![s] = [from |-> loc, seq |-> <<>>]]
    /\ UNCHANGED <<told, scan>>

telldir(s) ==
    /\ dirp[s].open /\ scan.s # s
    /\ told' = dirp[s].tellpos
    /\ UNCHANGED <<dirp, got, scan>>

\* scandir(): a stream of its own, read to the end or to a failure.
scandir(s) ==
    /\ ~dirp[s].open /\ scan.result = "none"
    /\ dirp' = [dirp EXCEPT ![s] = Opened0]
    /\ scan' = [s |-> s, list |-> <<>>, result |-> "reading"]
    /\ UNCHANGED <<told, got>>

ScanResult(e) == IF e = 0 THEN "list" ELSE "error"

ScanRead ==
    /\ scan.result = "reading"
    /\ \E a \in Answers(dirp[scan.s]) :
          LET e == a[2]
          IN  IF e > 0
              THEN /\ dirp' = [dirp EXCEPT ![scan.s] = a[1]]
                   /\ scan' = IF e \in Hidden THEN scan ELSE [scan EXCEPT !.list = Append(@, e)]
              ELSE /\ dirp' = [dirp EXCEPT ![scan.s] = Closed]
                   /\ scan' = [scan EXCEPT !.s = "none", !.result = ScanResult(e)]
    /\ UNCHANGED <<told, got>>

\* The caller has looked at the list.
ScanDone ==
    /\ scan.result \in {"list", "error"}
    /\ scan' = [s |-> "none", list |-> <<>>, result |-> "none"]
    /\ UNCHANGED <<dirp, told, got>>

DsNext ==
    \/ \E s \in Streams : opendir(s) \/ closedir(s) \/ readdir(s) \/ telldir(s) \/ scandir(s)
                          \/ \E loc \in {0, told} : seekdir(s, loc)
    \/ ScanRead \/ ScanDone

-----------------------------------------------------------------------------
\* Entries come in order from where the stream was put, none left out or repeated, wherever the
\* chunks end and whatever was fetched before a seekdir(); only the last entry is followed by
\* the end.
DsInOrder ==
    \A s \in Streams :
       LET from == got[s].from
       IN  /\ got[s].seq = [i \in 1..Len(got[s].seq) |-> from + i]
           /\ dirp[s].end /\ scan.s # s => dirp[s].tellpos = DirLen

\* telldir() is a position that comes back: reading on from it gives what the stream that told
\* it would have given.
DsTellExact == \A s \in Streams : dirp[s].open /\ scan.s # s => dirp[s].tellpos = got[s].from + Len(got[s].seq)

\* A list that scandir() returns is complete.
ScanComplete == scan.result = "list" => ToSet(scan.list) = (1..DirLen) \ Hidden /\ IsInjective(scan.list)
==============================================================================
