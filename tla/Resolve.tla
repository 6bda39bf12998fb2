------------------------------- MODULE Resolve -------------------------------
(***************************************************************************)
(* Path resolution over a tree of file systems: squashfs_resolve(),        *)
(* lookup() and propagate_resolve() of sys/fs.squashfs/squashfs.c, and     *)
(* rootfs_resolve() of root/filsys.c, which every absolute path starts at. *)
(*                                                                         *)
(* A server resolves what it can and hands the rest on, in the caller's    *)
(* name, to the file system mounted below or above it, or to the root for  *)
(* an absolute symbolic link.  The hand-over is a plain L4 send without a  *)
(* timeout: the sender serves nobody until the receiver takes the message. *)
(*                                                                         *)
(* A path is the sequence of its components as the slashes cut it: "a//b"  *)
(* is <<"a", "", "b">> and the empty string is <<"">>.                     *)
(***************************************************************************)
EXTENDS Naturals, Sequences, SequencesExt

CONSTANTS
    Tree,           \* the file systems, see ResolveTree
    Asks,           \* the scenes to look at: what each client may ask for
    ResolveClients, \* the processes that resolve
    PathStackMax    \* path_stack[50]

Root == "root"      \* the thread of root/filsys.c
RootIno == 1

VARIABLES
    scene,          \* which of Asks, fixed
    call            \* each client's call

resolveVars == <<scene, call>>

(***************************************************************************)
(* The tree: the images of the file systems (names and inode types of each  *)
(* directory, contents of each symbolic link), what is mounted where.      *)
(***************************************************************************)
ResolveTree(t) ==
    /\ t.rootfs \in DOMAIN t.entries
    /\ \A f \in DOMAIN t.entries :
        /\ RootIno \in DOMAIN t.entries[f]
        /\ \A d \in DOMAIN t.entries[f] : \A n \in DOMAIN t.entries[f][d] :
            t.entries[f][d][n].type = "dir" => t.entries[f][d][n].ino \in DOMAIN t.entries[f]
        \* mounts[f][d] is the file system on directory d of f; up[g] is the directory
        \* that ".." of g's root is, kept open by attach_super()
        /\ \A d \in DOMAIN t.mounts[f] : d \in DOMAIN t.entries[f]

ASSUME TreeAssumption == ResolveTree(Tree)

(***************************************************************************)
(* lookup(): the directory's entry of that name; "." and ".." are entries  *)
(* of every directory, and a mount point's type is DT_OTHERFS.             *)
(***************************************************************************)
Lookup(f, dir, name) ==
    LET es == Tree.entries[f][dir]
        parent == CHOOSE d \in DOMAIN Tree.entries[f] :
                      \E n \in DOMAIN Tree.entries[f][d] :
                          Tree.entries[f][d][n] = [type |-> "dir", ino |-> dir]
    IN  CASE name = "." -> [type |-> "dir", ino |-> dir]
          [] name = ".." /\ dir = RootIno /\ f \in DOMAIN Tree.up ->
                 [type |-> "otherfs", to |-> Tree.up[f].fs, dir |-> Tree.up[f].dir]
          [] name = ".." /\ dir = RootIno /\ f \notin DOMAIN Tree.up ->
                 [type |-> "dir", ino |-> RootIno]
          [] name = ".." /\ dir # RootIno -> [type |-> "dir", ino |-> parent]
          [] name \in DOMAIN es /\ name \notin {".", ".."} ->
                 IF es[name].type = "dir" /\ es[name].ino \in DOMAIN Tree.mounts[f]
                 THEN [type |-> "otherfs", to |-> Tree.mounts[f][es[name].ino], dir |-> RootIno]
                 ELSE es[name]
          [] OTHER -> [type |-> "none"]

Error(e) == [tag |-> "error", errno |-> e]
Found(f, ino, type) == [tag |-> "found", fs |-> f, ino |-> ino, type |-> type]
Forward(f, dir, path) == [tag |-> "forward", to |-> f, dir |-> dir, path |-> path]

(***************************************************************************)
(* The text propagate_resolve() sends: the link, the rest of the current   *)
(* path, and the rests pushed at each link passed, innermost first.  It    *)
(* counts the parts beforehand, with none for an absent path_rem, yet      *)
(* spends one of the count on passing over it.                             *)
(***************************************************************************)
NoPath == <<>>

Unslashed(link) ==
    LET k == CHOOSE i \in 1..Len(link) : (i = Len(link) \/ link[i] # "") /\ \A j \in 1..(i - 1) : link[j] = ""
    IN  SubSeq(link, k, Len(link))

\* A mutation: the rest of the current path is not sent.
PartsWithoutRest(link, rem, stack) == Unslashed(link) \o FlattenSeq(Reverse(stack))

Parts(link, rem, stack) ==
    LET sent == IF rem = NoPath THEN Len(stack) - 1 ELSE Len(stack)
    IN  Unslashed(link) \o rem \o FlattenSeq(SubSeq(Reverse(stack), 1, sent))

(***************************************************************************)
(* The loop of squashfs_resolve(): st.dir is dir_ino, st.path what is left *)
(* of the current string, st.stack the strings to return to, st.seen the   *)
(* symbolic links passed, st.type the type last looked up.                 *)
(***************************************************************************)
Follows(flags, last) == ~last \/ "nofollow" \notin flags

Seen(st, last, ino) == st.seen \cup {ino}

Loops == [fs : STRING, flags : SUBSET STRING, start : Nat, dir : Nat, path : Seq(STRING),
          stack : Seq(Seq(STRING)), seen : SUBSET Nat, type : STRING]

ResolveLoop[st \in Loops] ==
    LET f == st.fs
        part == Head(st.path)
        cut == Len(st.path) > 1
        last == ~cut /\ st.stack = <<>>
        rest == CASE cut -> Tail(st.path) [] last -> NoPath [] OTHER -> Last(st.stack)
        stack == IF cut \/ last THEN st.stack ELSE Front(st.stack)
        e == Lookup(f, st.dir, part)
        follow == e.type = "lnk" /\ Follows(st.flags, last)
        link == Tree.links[f][e.ino]
    IN  CASE st.path = <<"">> -> Found(f, st.start, st.type)
          [] cut /\ part = "" -> ResolveLoop[[st EXCEPT !.path = Tail(@)]]
          [] last /\ part # "" /\ f \in DOMAIN Tree.dev /\ st.dir = Tree.dev[f].ino /\ part # ".device-nodes" ->
                 IF part \in Tree.dev[f].nodes THEN Found(f, part, "chr") ELSE Error("ENOENT")
          [] OTHER ->
             CASE e.type = "none" -> Error("ENOENT")
               [] e.type = "otherfs" ->
                      Forward(e.to, e.dir, Parts(IF last THEN <<"">> ELSE rest, NoPath, stack))
               [] follow ->
                  CASE link.abs -> Forward(Root, RootIno, Parts(link.path, rest, stack))
                    [] ~link.abs /\ e.ino \in st.seen -> Error("ELOOP")
                    [] ~link.abs /\ last /\ "directory" \in st.flags -> Error("ENOTDIR")
                    [] ~link.abs /\ ~last /\ Len(stack) = PathStackMax -> Error("ELOOP")
                    [] OTHER ->
                       ResolveLoop[[st EXCEPT !.path = link.path, !.type = "lnk",
                                              !.stack = IF last THEN stack ELSE Append(stack, rest),
                                              !.seen = Seen(st, last, e.ino)]]
               [] last /\ ~follow ->
                      IF "directory" \in st.flags /\ e.type # "dir" THEN Error("ENOTDIR")
                      ELSE Found(f, e.ino, e.type)
               [] ~last /\ e.type = "dir" ->
                      ResolveLoop[[st EXCEPT !.dir = e.ino, !.path = rest, !.stack = stack, !.type = "dir"]]
               [] OTHER -> Error("ENOTDIR")

Starts(path) == Len(path) > 1 /\ Head(path) = ""     \* with a slash

squashfs_resolve(f, dir, path, flags) ==
    IF Starts(path) THEN Error("EINVAL")
    ELSE ResolveLoop[[fs |-> f, flags |-> flags, start |-> dir, dir |-> dir, path |-> path,
                      stack |-> <<>>, seen |-> {}, type |-> "dir"]]

rootfs_resolve(dir, path) ==
    IF Starts(path) \/ dir # RootIno THEN Error("EINVAL") ELSE Forward(Tree.rootfs, RootIno, path)

Handled(s, r) ==
    IF s = Root THEN rootfs_resolve(r.dir, r.path)
    ELSE squashfs_resolve(s, r.dir, r.path, r.flags)

-----------------------------------------------------------------------------
(***************************************************************************)
(* The calls in flight.  call[c].at is the server that the message is for, *)
(* call[c].holder the server that is blocked sending it, if any.           *)
(***************************************************************************)
Nobody == "nobody"
Idle == [st |-> "idle"]

ResolveInit == scene \in DOMAIN Asks /\ call = [c \in ResolveClients |-> Idle]

ResolveCall(c) ==
    /\ call[c] = Idle
    /\ \E q \in Asks[scene][c] :      \* each client makes one call
        call' = [call EXCEPT ![c] = [st |-> "sent", ask |-> q, at |-> q.at, holder |-> Nobody,
                                     dir |-> q.dir, path |-> q.path, flags |-> q.flags]]
    /\ UNCHANGED scene

Receiving(s) == \A c \in ResolveClients : call[c].st = "sent" => call[c].holder # s

\* The server takes c's message, which releases its sender, and answers it or blocks
\* in the send that hands it on.
ResolveServe(s, c) ==
    /\ call[c].st = "sent" /\ call[c].at = s /\ Receiving(s)
    /\ \E h \in {Handled(s, call[c])} :
        call' = [call EXCEPT ![c] =
            IF h.tag = "forward"
            THEN [@ EXCEPT !.at = h.to, !.holder = s, !.dir = h.dir, !.path = h.path]
            ELSE [st |-> "done", ask |-> @.ask, answer |-> h]]
    /\ UNCHANGED scene

ResolveServers == {Root} \cup DOMAIN Tree.entries

ResolveServing == \E s \in ResolveServers, c \in ResolveClients : ResolveServe(s, c)

ResolveNext == ResolveServing \/ \E c \in ResolveClients : ResolveCall(c)

-----------------------------------------------------------------------------
(***************************************************************************)
(* What a path means: the walk of the whole tree, in which a symbolic link *)
(* stands for its text.  The walk reports the links it passed.             *)
(***************************************************************************)
Walk[f \in STRING, dir \in Nat, path \in Seq(STRING), flags \in SUBSET STRING,
     passed \in Seq(STRING \X Nat)] ==
    LET e == Lookup(f, dir, Head(path))
        last == Len(path) = 1
        link == Tree.links[f][e.ino]
        onto == IF link.abs THEN <<Tree.rootfs, RootIno>> ELSE <<f, dir>>
        with(a) == a @@ [passed |-> passed]
    IN  CASE path = <<>> -> with(Found(f, dir, "dir"))
          [] path # <<>> /\ Head(path) = "" -> Walk[f, dir, Tail(path), flags, passed]
          [] path # <<>> /\ Head(path) # "" /\ f \in DOMAIN Tree.dev /\ dir = Tree.dev[f].ino /\ last ->
                 with(IF Head(path) \in Tree.dev[f].nodes THEN Found(f, Head(path), "chr") ELSE Error("ENOENT"))
          [] OTHER ->
             CASE e.type = "none" -> with(Error("ENOENT"))
               [] e.type = "otherfs" -> Walk[e.to, e.dir, Tail(path), flags, passed]
               [] e.type = "dir" -> Walk[f, e.ino, Tail(path), flags, passed]
               [] e.type = "lnk" /\ Follows(flags, last) ->
                      IF Len(SelectSeq(passed, LAMBDA p : p = <<f, e.ino>>)) > 1 THEN with(Error("ELOOP"))
                      ELSE Walk[onto[1], onto[2],
                                (IF link.path = <<"">> THEN <<>> ELSE link.path) \o Tail(path),
                                flags, Append(passed, <<f, e.ino>>)]
               [] OTHER -> with(IF last /\ "directory" \notin flags THEN Found(f, e.ino, e.type)
                                ELSE Error("ENOTDIR"))

Meaning(q) == Walk[IF q.at = Root THEN Tree.rootfs ELSE q.at, q.dir, q.path, q.flags, <<>>]

SameAnswer(a, b) ==
    /\ a.tag = b.tag
    /\ a.tag = "error" => a.errno = b.errno
    /\ a.tag = "found" => <<a.fs, a.ino, a.type>> = <<b.fs, b.ino, b.type>>

\* The answer to a path is what walking the tree by it leads to, over however many file
\* systems: the server that holds the object, the object, its type.  One exception is the
\* code's: a path that passes one symbolic link twice may be called a loop.
ResolveAgrees ==
    \A c \in ResolveClients : call[c].st = "done" =>
        LET m == Meaning(call[c].ask)
        IN  \/ SameAnswer(call[c].answer, m)
            \/ /\ \E i, j \in 1..Len(m.passed) : i < j /\ m.passed[i] = m.passed[j]
               /\ call[c].answer = Error("ELOOP")

\* Servers that each wait in a send to another of them: with no timeout, for ever.
Wedged ==
    \E S \in SUBSET ResolveServers \ {{}} : \A s \in S : \E c \in ResolveClients :
        call[c].st = "sent" /\ call[c].holder = s /\ call[c].at \in S \ {s}

\* The path comes back to an absolute link, which the servers do not note.
Endless(q) ==
    LET p == Meaning(q).passed
    IN  \E i, j \in 1..Len(p) : i < j /\ p[i] = p[j] /\ Tree.links[p[i][1]][p[i][2]].abs

\* Every call is answered, over however many servers, unless the code's two gaps stop it: the
\* paths of two clients cross between servers that send to each other, or the path runs in a
\* circle of absolute links.  Nothing else is handed around for ever or waits for ever.
EveryResolveAnswered ==
    \A c \in ResolveClients :
        call[c].st = "sent" ~> (call[c].st = "done" \/ Wedged \/ (call[c].st = "sent" /\ Endless(call[c].ask)))
=============================================================================
