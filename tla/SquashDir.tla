------------------------------ MODULE SquashDir ------------------------------
(***************************************************************************)
(* Directories of the squashfs server (sys/fs.squashfs/squashfs.c):        *)
(* reading them off the image through each open file's cursor, the cache   *)
(* of directory entries that all files share, looking names up, listing,   *)
(* and finding the path of an inode again.                                 *)
(*                                                                         *)
(* The image is what mksquashfs leaves: a directory is a run of headers,   *)
(* each followed by the entries it counts, in strcmp() order of the names. *)
(* A name is a number that stands for its place in that order; Dot and     *)
(* DotDot are those of "." and "..".                                       *)
(***************************************************************************)
EXTENDS Integers, Sequences, SequencesExt, FiniteSetsExt

CONSTANTS
    Image,       \* directory inode -> sequence of groups of [name, ino, len]
    Parent,      \* directory inode -> parent_inode
    Dot, DotDot, \* the names "." and ".."
    DirFiles,    \* open files
    DirLimit,    \* entries that one getdents reply has room for, at most 2
    PathMaxes,     \* SNEKS_PATH_PATH_MAX
    DirSeeks,    \* positions that readers ask for
    DirNoMem     \* the entries whose allocation may fail, once in a run

ASSUME ImageAssumption ==
    \A d \in DOMAIN Image :
        /\ Image[d] # <<>> /\ \A g \in Range(Image[d]) : g # <<>>
        /\ LET es == FlattenSeq(Image[d])
           IN  /\ \A i, j \in 1..Len(es) : i < j => es[i].name < es[j].name
               /\ \A i \in 1..Len(es) : es[i].name \notin {Dot, DotDot}

RootDir == 1
HdrSize == 12           \* sizeof(struct squashfs_dir_header)
DentSize == 8           \* sizeof(struct squashfs_dir_entry)
IntMax == 2147483647

VARIABLES
    dfile,      \* open file -> its inode, position and cursor
    maxIndex,   \* inode -> dir.max_index
    dentries,   \* dentry_index_hash and dentry_name_hash: <<dir, index>> -> entry
    located,    \* the inodes whose place is in ino_to_blkoffset
    dirFails,   \* allocations failed
    dirRb,      \* the pending rollback: what it undoes, and the call it is noted with
    listed,     \* open file -> what its reader was told since it last took a position, and
                \* whether a rollback of an answered call has moved that position since
    looked      \* the lookup just made and its answer

dirVars == <<dfile, maxIndex, dentries, located, dirFails, dirRb, listed, looked>>

-----------------------------------------------------------------------------
(* The directory as a run of items in the metadata, and the size the inode gives it:  *)
(* three bytes more than the items take.                                              *)
Items == [d \in DOMAIN Image |->
    FlattenSeq([g \in 1..Len(Image[d]) |->
        <<[hdr |-> TRUE, count |-> Len(Image[d][g]) - 1]>> \o
        [i \in 1..Len(Image[d][g]) |-> [hdr |-> FALSE, ent |-> Image[d][g][i]]]])]
SizeOf(item) == IF item.hdr THEN HdrSize ELSE DentSize + item.ent.len
file_size == [d \in DOMAIN Image |-> FoldLeft(LAMBDA n, item : n + SizeOf(item), 3, Items[d])]

rewind_directory(f) ==
    [f EXCEPT !.cur_index = -1, !.bytes_read = 0, !.count = 0, !.cur_hdr = 1, !.at = 1]

Cursors == [ino : Nat, pos : Nat, cur_index : Int, bytes_read : Nat, count : Nat, cur_hdr : Nat, at : Nat]

Fresh(ino) == [ino |-> ino, pos |-> 0, cur_index |-> -1, bytes_read |-> 0, count |-> 0, cur_hdr |-> 1, at |-> 1]

\* One turn of read_dentry()'s loop: the header of the next group where one is due, then an entry.
HeaderDue(f) == f.cur_hdr = f.count + 1

Stashed(h) == {Items[h.ino][h.at].ent.ino}

ReadHeader(f) ==
    IF ~HeaderDue(f) THEN f
    ELSE [f EXCEPT !.count = Items[f.ino][f.at].count, !.bytes_read = @ + HdrSize, !.cur_hdr = 0, !.at = @ + 1]

\* Where the cursor stands on an item of the other kind the program would take its bytes for
\* what it expects; the model has no step for that, and TLC reports it.
ReadEntry(f) ==
    [f EXCEPT !.bytes_read = @ + SizeOf(Items[f.ino][f.at]), !.at = @ + 1,
              !.cur_index = @ + 1, !.cur_hdr = @ + 1]

Within(f) == f.bytes_read < file_size[f.ino] - DentSize

\* <<cursor, inodes located on the way>> once the entry `index` has been read, or the end was met.
ReadUpTo[f \in Cursors, index \in Nat, found \in SUBSET Nat] ==
    IF f.cur_index >= index \/ ~Within(f) THEN <<f, found>>
    ELSE LET h == ReadHeader(f)
         IN  ReadUpTo[ReadEntry(h), index, found \cup Stashed(h)]

(***************************************************************************)
(* read_dentry(): the entry `index`, "." and ".." made up.  A result has   *)
(* the file's new cursor, the inode's new max_index, the inodes located,   *)
(* and the entry, an error, or neither at the end of the directory.        *)
(***************************************************************************)
NoEntry == [name |-> -1]
Read(f, max, found, ent, err) == [f |-> f, max |-> max, found |-> found, ent |-> ent, err |-> err]

Rewound(f, index) == IF index <= f.cur_index THEN rewind_directory(f) ELSE f

\* The end of read_dentry(), where the cursor `g` has got to.
EntryRead(g, found, max, index, nomem) ==
    IF ~Within(g) /\ g.cur_index < index - 2 THEN Read(g, g.cur_index, found, NoEntry, 0)
    ELSE IF nomem = index THEN Read([g EXCEPT !.cur_index = IntMax], max, found, NoEntry, -12)
    ELSE Read(g, max, found, Items[g.ino][g.at - 1].ent, 0)

read_dentry(f, max, index, nomem) ==
    IF index < 2
    THEN IF nomem = index THEN Read(f, max, {}, NoEntry, -12)
         ELSE Read(f, max, {},
                   [name |-> IF index = 0 THEN Dot ELSE DotDot,
                    ino |-> IF index = 0 THEN f.ino ELSE Parent[f.ino], len |-> index + 1], 0)
    ELSE IF index - 2 > max THEN Read(f, max, {}, NoEntry, 0)
    ELSE LET r == ReadUpTo[Rewound(f, index - 2), index - 2, {}]
         IN  EntryRead(r[1], r[2], max, index, nomem)

\* get_dentry() with add_dentry(): from the cache, or read and put there.
\* st: f, max, cache, found, and the entry and error of the last call.
add_dentry(st, key, r) ==
    [f |-> r.f, max |-> r.max, found |-> st.found \cup r.found, ent |-> r.ent, err |-> r.err,
     cache |-> IF r.ent = NoEntry THEN st.cache ELSE st.cache @@ (key :> r.ent)]
get_dentry(st, index, nomem) ==
    LET key == <<st.f.ino, index>>
    IN  IF key \in DOMAIN st.cache THEN [st EXCEPT !.ent = st.cache[key], !.err = 0]
        ELSE add_dentry(st, key, read_dentry(st.f, st.max, index, nomem))

find_dentry(cache, d, name) == {k \in DOMAIN cache : k[1] = d /\ cache[k].name = name}

GetBegin(f) == [f |-> f, max |-> maxIndex[f.ino], cache |-> dentries, found |-> {}, ent |-> NoEntry, err |-> 0]
GetDone(st) == dentries' = st.cache /\ located' = located \cup st.found
            /\ maxIndex' = [maxIndex EXCEPT ![st.f.ino] = st.max]

-----------------------------------------------------------------------------
LookedNowhere == [dir |-> RootDir, name |-> Dot, ino |-> RootDir]

Past(name, ent, dix) == name < ent.name /\ dix >= 2

RECURSIVE Search(_, _, _, _)
Search(s, name, dix, nomem) ==
    IF s.ent = NoEntry THEN [st |-> s, ino |-> IF s.err = 0 THEN -2 ELSE s.err]
    ELSE IF Past(name, s.ent, dix) THEN [st |-> s, ino |-> -2]
    ELSE IF name = s.ent.name THEN [st |-> s, ino |-> s.ent.ino]
    ELSE Search(get_dentry(s, dix + 1, nomem), name, dix + 1, nomem)

Searched(d, name, nomem, r) ==
    /\ GetDone(r.st)
    /\ nomem >= 0 <=> r.st.err # 0  \* it was this entry that failed
    /\ looked' = [dir |-> d, name |-> name, ino |-> r.ino]
    /\ dirFails' = dirFails + (IF nomem >= 0 THEN 1 ELSE 0)

DirLookup(d, name, nomem) ==
    /\ d \in DOMAIN Image
    /\ d = RootDir \/ \E k \in DOMAIN dentries : dentries[k].ino = d     \* resolution got there
    /\ nomem >= 0 => dirFails = 0
    /\ LET cached == find_dentry(dentries, d, name)
       IN  IF cached # {}
           THEN /\ nomem < 0
                /\ looked' = [dir |-> d, name |-> name, ino |-> dentries[CHOOSE k \in cached : TRUE].ino]
                /\ UNCHANGED <<dentries, located, maxIndex, dirFails>>
           ELSE Searched(d, name, nomem, Search(get_dentry(GetBegin(Fresh(d)), 0, nomem), name, 0, nomem))
    /\ UNCHANGED <<dfile, dirRb, listed>>

(***************************************************************************)
(* Replies that are not received (lib/rollback.c).  There is one pending   *)
(* rollback; an answered call leaves its own behind, set_confirm() of a    *)
(* later call puts itself in the place of the call it is noted with, and   *)
(* then the failed reply of that later call runs it.  Each file is its own *)
(* process's here, so that the file says who calls.                        *)
(***************************************************************************)
Told(from, got) == [from |-> from, got |-> got, moved |-> FALSE]
Moved == [from |-> 0, got |-> <<>>, moved |-> TRUE]

NoDirRollback == [fn |-> "none"]
set_rollback(fn, fd, pos, op) == [fn |-> fn, fd |-> fd, pos |-> pos, by |-> <<fd, op>>]
set_confirm(fd, op) == IF dirRb = NoDirRollback THEN dirRb ELSE [dirRb EXCEPT !.by = <<fd, op>>]

\* rollback_getdents(), where the reply was not received.
\* A mutation: the position is left where the lost reply had moved it.
KeptPosition(f, last_pos) == rewind_directory(f)

rollback_getdents(f, last_pos) == [rewind_directory(f) EXCEPT !.pos = last_pos]

\* rollback_open()
rollback_open(f) == Fresh(0)

check_rollback(rb, fd, op) ==
    IF rb = NoDirRollback \/ rb.by # <<fd, op>> THEN UNCHANGED <<dfile, listed>>
    ELSE /\ dfile' = [dfile EXCEPT ![rb.fd] = IF rb.fn = "open" THEN rollback_open(@) ELSE rollback_getdents(@, rb.pos)]
         /\ listed' = [listed EXCEPT ![rb.fd] = Moved]


\* A reply that is not received to a call that notes nothing, or a failed receive.
CrossedOff ==
    /\ dirRb # NoDirRollback /\ dirRb' = NoDirRollback
    /\ UNCHANGED <<dfile, maxIndex, dentries, located, dirFails, listed, looked>>

(* squashfs_open() of a directory that a lookup led to. *)
DirOpen(fd, replied) ==
    /\ dfile[fd].ino = 0
    /\ looked.ino \in DOMAIN Image
    /\ dfile' = [dfile EXCEPT ![fd] = IF replied THEN Fresh(looked.ino) ELSE rollback_open(Fresh(looked.ino))]
    /\ dirRb' = IF replied THEN set_rollback("open", fd, 0, "open") ELSE NoDirRollback
    /\ listed' = [listed EXCEPT ![fd] = Told(0, <<>>)]
    /\ looked' = LookedNowhere
    /\ UNCHANGED <<maxIndex, dentries, located, dirFails>>

(* squashfs_getdents(): entries from dix on, as many as last_fetch (which nothing raises) *)
(* and the buffer allow.                                                                  *)
RECURSIVE Fetch(_, _, _, _)
Fetch(s, dix, got, nomem) ==
    IF s.ent = NoEntry THEN [st |-> s, got |-> got, dix |-> dix]
    ELSE IF Len(got) + 1 = DirLimit THEN [st |-> s, got |-> Append(got, s.ent), dix |-> dix + 1]
    ELSE Fetch(get_dentry(s, dix + 1, nomem), dix + 1, Append(got, s.ent), nomem)

Fetched(fd, offset, replied, nomem, r) ==
    /\ nomem >= 0 <=> r.st.err # 0
    /\ GetDone(r.st)
    /\ LET g == [r.st.f EXCEPT !.pos = r.dix]
       IN  \/ /\ r.st.err # 0 /\ replied
              /\ dfile' = [dfile EXCEPT ![fd] = r.st.f]
              /\ UNCHANGED <<dirRb, listed>>
           \/ /\ r.st.err # 0 /\ ~replied     \* nothing of this call's is pending
              /\ IF dirRb # NoDirRollback /\ dirRb.by = <<fd, "getdents">>
                 THEN check_rollback(dirRb, fd, "getdents")
                 ELSE dfile' = [dfile EXCEPT ![fd] = r.st.f] /\ UNCHANGED listed
              /\ dirRb' = NoDirRollback
           \/ /\ r.st.err = 0 /\ replied
              /\ dfile' = [dfile EXCEPT ![fd] = g]
              /\ dirRb' = set_rollback("getdents", fd, dfile[fd].pos, "getdents")
              /\ listed' = [listed EXCEPT ![fd] = 
                     CASE offset >= 0 -> Told(offset, r.got)
                       [] offset < 0 /\ @.moved -> @
                       [] OTHER -> [@ EXCEPT !.got = @ \o r.got]]
           \/ /\ r.st.err = 0 /\ ~replied
              /\ dfile' = [dfile EXCEPT ![fd] = rollback_getdents(g, dfile[fd].pos)]
              /\ dirRb' = NoDirRollback
              /\ UNCHANGED listed

GetDents(fd, offset, replied, nomem) ==
    /\ dfile[fd].ino # 0
    /\ nomem >= 0 => dirFails = 0
    /\ LET dix == IF offset >= 0 THEN offset ELSE dfile[fd].pos
       IN  Fetched(fd, offset, replied, nomem, Fetch(get_dentry(GetBegin(dfile[fd]), dix, nomem), dix, <<>>, nomem))
    /\ dirFails' = dirFails + (IF nomem >= 0 THEN 1 ELSE 0)
    /\ looked' = LookedNowhere

(* squashfs_seekdir(): confirm_seekdir() sets the position once the reply was received. *)
SeekDir(fd, position, replied) ==
    /\ dfile[fd].ino # 0
    /\ IF replied
       THEN /\ dfile' = [dfile EXCEPT ![fd].pos = position]
            /\ listed' = [listed EXCEPT ![fd] = Told(position, <<>>)]
            /\ dirRb' = set_confirm(fd, "seekdir")
       ELSE check_rollback(set_confirm(fd, "seekdir"), fd, "seekdir") /\ dirRb' = NoDirRollback
    /\ looked' = LookedNowhere
    /\ UNCHANGED <<maxIndex, dentries, located, dirFails>>

(***************************************************************************)
(* squashfs_get_path_fragment(): up from the inode by dentry_ino_hash      *)
(* (entries other than "." and ".."), until the path is full.  A result    *)
(* has the names, outermost first, and the inode that they start from.     *)
(***************************************************************************)
ByIno(ino) == {k \in DOMAIN dentries : k[2] >= 2 /\ dentries[k].ino = ino}

PartBefore(name, names) == <<name>> \o names

RECURSIVE Fragment(_, _, _, _)
Fragment(max, ino, names, total) ==
    IF ino = RootDir THEN [names |-> names, from |-> ino, err |-> 0]
    ELSE IF ByIno(ino) = {} THEN [names |-> names, from |-> ino, err |-> -2]
    ELSE LET k == CHOOSE x \in ByIno(ino) : TRUE
             part_len == dentries[k].len + (IF names = <<>> THEN 0 ELSE 1)
         IN  IF total + part_len + 1 >= max THEN [names |-> names, from |-> ino, err |-> 0]
             ELSE Fragment(max, k[1], PartBefore(dentries[k].name, names), total + part_len)

get_path_fragment(max, ino) == Fragment(max, ino, <<>>, 0)

DirInit ==
    /\ dfile = [fd \in DirFiles |-> [Fresh(0) EXCEPT !.ino = 0]]
    /\ maxIndex = [d \in DOMAIN Image |-> IntMax]
    /\ dentries = <<>> /\ located = {RootDir} /\ dirFails = 0
    /\ dirRb = NoDirRollback
    /\ listed = [fd \in DirFiles |-> Told(0, <<>>)]
    /\ looked = LookedNowhere

\* The names looked up; ".." stands for "." too, whose entry comes before it.
DirNames == {DotDot} \cup UNION {{e.name : e \in Range(FlattenSeq(Image[d]))} : d \in DOMAIN Image}

\* nomem: the index of the entry whose allocation fails, or -1.
DirNext ==
    \/ \E d \in DOMAIN Image, n \in DirNames, nomem \in {-1} \cup DirNoMem : DirLookup(d, n, nomem)
    \/ CrossedOff
    \/ \E fd \in DirFiles :
        \/ \E replied \in BOOLEAN : DirOpen(fd, replied)
        \/ \E o \in {-1} \cup DirSeeks, nomem \in {-1} \cup DirNoMem, replied \in BOOLEAN :
               GetDents(fd, o, replied, nomem)
        \/ \E p \in DirSeeks, replied \in BOOLEAN : SeekDir(fd, p, replied)

-----------------------------------------------------------------------------
(* What the image says, against which the server's answers are held. *)
Listing(d) == <<[name |-> Dot, ino |-> d, len |-> 1], [name |-> DotDot, ino |-> Parent[d], len |-> 2]>>
              \o FlattenSeq(Image[d])

DirTypeOK ==
    /\ dfile \in [DirFiles -> [ino : {0} \cup DOMAIN Image, pos : Nat, cur_index : Int, bytes_read : Nat,
                               count : Nat, cur_hdr : Nat, at : Nat \ {0}]]
    /\ maxIndex \in [DOMAIN Image -> Int]
    /\ located \subseteq Nat /\ dirFails \in 0..1

\* A reader of a directory is told every entry once and in order, from the position it took
\* on: whatever lookups (with cursors of their own), full replies, lost replies and failed
\* allocations came between, and wherever they left the cursor and the shared cache.  It ends
\* where the code breaks it: a lost reply has run the rollback that an answered getdents() or
\* open() left pending, and the reader has not taken a new position since.
ListedInOrder ==
    \A fd \in DirFiles : dfile[fd].ino # 0 /\ ~listed[fd].moved =>
        LET l == listed[fd]
        IN  l.got = SubSeq(Listing(dfile[fd].ino), l.from + 1, l.from + Len(l.got))

\* A lookup finds the name where the directory has it and nothing where it does not (or runs
\* out of memory), though the search stops at the first name that sorts after it.
LookupExact ==
    LET es == {e \in Range(Listing(looked.dir)) : e.name = looked.name}
    IN  looked.ino \in (IF es = {} THEN {-2} ELSE {e.ino : e \in es}) \cup {-12}

\* Every inode that a name has led to can be read: its place on the image was noted when its
\* entry went by, also if that entry was only skipped.
InodesLocated == {dentries[k].ino : k \in DOMAIN dentries} \subseteq located

\* The path of an open directory is found again, and leads back to it from where it starts.
PathLeadsBack ==
    \A fd \in DirFiles, max \in PathMaxes : dfile[fd].ino # 0 =>
        LET p == get_path_fragment(max, dfile[fd].ino)
            into(d, n) == IF d \notin DOMAIN Image THEN 0
                          ELSE Max({0} \cup {e.ino : e \in {x \in Range(Listing(d)) : x.name = n}})
        IN  p.err = 0 /\ FoldLeft(into, p.from, p.names) = dfile[fd].ino

\* Directories, their cache and the cursors over them.
DirExact == DirTypeOK /\ ListedInOrder /\ LookupExact /\ InodesLocated /\ PathLeadsBack
=============================================================================
