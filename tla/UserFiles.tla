------------------------------ MODULE UserFiles ------------------------------
(***************************************************************************)
(* File descriptors of a user process: the table of user/crt/file.c with   *)
(* its two marks first_free and last_alloc, openat(), pipe2(), fchdir()    *)
(* and fexecve(), against the handles that the servers keep for it.        *)
(* Calls that fail in the server change nothing and are left out, except   *)
(* that close() gives up its descriptor whatever the server says.          *)
(***************************************************************************)
EXTENDS Integers, Sequences, SequencesExt, FiniteSetsExt, Functions

CONSTANTS
    MaxFd,       \* MAX_FD
    CwdLow,      \* from where fchdir() looks for a descriptor
    StdFds,      \* standard descriptors: 0..2 in the code
    MaxOpen,     \* bound: files open at a time
    DupTargets,  \* descriptors named in dup2() and lower bounds of F_DUPFD
    MuddledMax,  \* bound: descriptors at a time whose copy of the flag F_GETFL or F_SETFL changed
                 \* (before the last exec, which is what shows it)
    ExecMax      \* programs run after the first

VARIABLES
    fdm,         \* fd_map: descriptor -> [h, cloexec], the flag being the runtime's copy
    extm,        \* __fdext_map: descriptors with a stat record
    first_free, last_alloc, cwd_fd,
    srv,         \* what the servers have: handle -> [cloexec, fs]
    bad,         \* an assertion of invariants() failed
    muddled,     \* history: descriptors whose copy of the flag F_GETFL or F_SETFL wrote last
    astray,      \* history: a program was started with such a copy
    nexec

ufVars == <<fdm, extm, first_free, last_alloc, cwd_fd, srv, bad, muddled, astray, nexec>>

Used == DOMAIN fdm
CanOpen(n) == Cardinality(DOMAIN srv) + n <= MaxOpen

\* Any number would do for a handle; it tells which descriptor it was made for.
NewHandle(fd) == Min({fd + k * (MaxFd + 1) : k \in 0..2} \ DOMAIN srv)
FreeFrom(n, used) == Min({m \in n..(MaxFd + 1) : m \notin used} \cup {MaxFd + 2})

\* The parts of the table that one call passes through.
Table == [fdm |-> fdm, ext |-> extm, ff |-> first_free, la |-> last_alloc]
LessFd(f, d) == Restrict(f, DOMAIN f \ d)

invariants(t) ==
    /\ t.ff <= t.la + 1
    /\ IF t.fdm = <<>> THEN t.ff = 0 /\ t.la = -1 ELSE t.la \in DOMAIN t.fdm
    /\ t.ff \notin DOMAIN t.fdm
    /\ t.ext \subseteq DOMAIN t.fdm

next_free_fd(t, low) ==
    IF low > t.la THEN low
    ELSE IF low <= t.ff THEN t.ff
    ELSE FreeFrom(low, DOMAIN t.fdm)

FirstFreeAfter(t, fd) == IF fd = t.ff THEN FreeFrom(fd + 1, DOMAIN t.fdm) ELSE t.ff

create_fd(t, fd, h, cloexec, ext) ==
    LET n == IF fd >= 0 THEN fd ELSE next_free_fd(t, 0)
    IN  [fdm |-> t.fdm @@ (n :> [h |-> h, cloexec |-> cloexec]),
         ext |-> IF ext THEN t.ext \cup {n} ELSE t.ext,
         ff |-> FirstFreeAfter(t, n), la |-> Max({t.la, n})]

ExtAfter(ext, fd) == ext \ {fd}

LastBelow(t, fd) == Max({0} \cup {m \in DOMAIN t.fdm : m < fd})

close_fd(t, fd) ==
    LET la == IF fd = t.la THEN (IF fd = 0 THEN 0 ELSE LastBelow(t, fd)) ELSE t.la
        low == Min({t.ff, fd})
    IN  [fdm |-> LessFd(t.fdm, {fd}), ext |-> ExtAfter(t.ext, fd), la |-> la,
         ff |-> IF fd = t.la THEN Min({low, la + 1}) ELSE low]

Becomes(t) ==
    /\ fdm' = t.fdm /\ extm' = t.ext /\ first_free' = t.ff /\ last_alloc' = t.la
    /\ bad' = ~invariants(t)
    /\ muddled' = {fd \in muddled : fd \in DOMAIN t.fdm /\ t.fdm[fd] = fdm[fd]}

\* A process as init or a parent starts it: the standard files and the current directory.
UfInit ==
    /\ fdm = [n \in StdFds \cup {CwdLow} |-> [h |-> n, cloexec |-> FALSE]]
    /\ extm = {} /\ first_free = Cardinality(StdFds) /\ last_alloc = CwdLow /\ cwd_fd = CwdLow
    /\ srv = [h \in StdFds \cup {CwdLow} |-> [cloexec |-> FALSE, fs |-> TRUE]]
    /\ bad = FALSE /\ muddled = {} /\ astray = FALSE /\ nexec = 0

-----------------------------------------------------------------------------
Opened(h, cloexec, fs) == srv @@ (h :> [cloexec |-> cloexec, fs |-> fs])

\* openat(): what is not a file or directory has its stat record kept.
openat(cloexec, fs) ==
    /\ ~bad /\ CanOpen(1)
    /\ LET h == NewHandle(first_free)
       IN  /\ srv' = Opened(h, cloexec, fs)
           /\ Becomes(create_fd(Table, -1, h, cloexec, ~fs))
    /\ UNCHANGED <<cwd_fd, astray, nexec>>

pipe2(cloexec) ==
    /\ ~bad /\ CanOpen(2)
    /\ LET r == NewHandle(first_free)
           w == NewHandle(FreeFrom(first_free + 1, Used))
       IN  /\ srv' = Opened(r, cloexec, FALSE) @@ (w :> [cloexec |-> cloexec, fs |-> FALSE])
           /\ Becomes(create_fd(create_fd(Table, -1, r, cloexec, TRUE), -1, w, cloexec, TRUE))
    /\ UNCHANGED <<cwd_fd, astray, nexec>>

\* A program does not know the number of its current directory.
close(fd) ==
    /\ ~bad /\ fd \in Used \ {cwd_fd}
    /\ srv' = LessFd(srv, {fdm[fd].h})
    /\ Becomes(close_fd(Table, fd))
    /\ UNCHANGED <<cwd_fd, astray, nexec>>

\* dup3(): a new handle, the old file of newfd closed, and the descriptor made.
Dup(t, s, old, newfd, cloexec) ==
    LET h == NewHandle(IF newfd < 0 THEN t.ff ELSE newfd)
        clash == newfd >= 0 /\ newfd <= MaxFd /\ newfd \in DOMAIN t.fdm
        t1 == IF clash THEN close_fd(t, newfd) ELSE t
    IN  [t |-> create_fd(t1, newfd, h, cloexec, old \in t.ext),
         s |-> (IF clash THEN LessFd(s, {t.fdm[newfd].h}) ELSE s)
               @@ (h :> [cloexec |-> cloexec, fs |-> s[t.fdm[old].h].fs])]

dup3(old, newfd, cloexec) ==
    /\ ~bad /\ old \in Used /\ newfd # old /\ newfd # cwd_fd /\ CanOpen(1)
    /\ LET d == Dup(Table, srv, old, newfd, cloexec)
       IN  srv' = d.s /\ Becomes(d.t)
    /\ UNCHANGED <<cwd_fd, astray, nexec>>

\* fcntl(): F_DUPFD, and F_SETFD, which tells the server and keeps a copy.
dupfd(old, low) ==
    /\ ~bad /\ old \in Used /\ CanOpen(1)
    /\ LET d == Dup(Table, srv, old, next_free_fd(Table, low), FALSE)
       IN  srv' = d.s /\ Becomes(d.t)
    /\ UNCHANGED <<cwd_fd, astray, nexec>>

\* A mutation: the copy is not kept up.
CopyStale(fd, cloexec) == fdm

CopyFlags(fd, cloexec) == [fdm EXCEPT ![fd].cloexec = cloexec]

setfd(fd, cloexec) ==
    /\ ~bad /\ fd \in Used \ {cwd_fd} /\ (fdm[fd].cloexec # cloexec \/ fd \in muddled)
    /\ srv' = [srv EXCEPT ![fdm[fd].h].cloexec = cloexec]
    /\ fdm' = CopyFlags(fd, cloexec) /\ muddled' = muddled \ {fd}
    /\ UNCHANGED <<extm, first_free, last_alloc, cwd_fd, bad, astray, nexec>>

\* F_GETFD takes the server's for its copy.
getfd(fd) ==
    /\ ~bad /\ fd \in muddled
    /\ fdm' = CopyFlags(fd, srv[fdm[fd].h].cloexec) /\ muddled' = muddled \ {fd}
    /\ UNCHANGED <<srv, extm, first_free, last_alloc, cwd_fd, bad, astray, nexec>>

\* F_GETFL and F_SETFL keep the file's flags in the same place: those the server has, which the
\* bit of FD_CLOEXEC is not among, or those the program gave, where it is O_WRONLY.
getsetfl(fd, bit) ==
    /\ ~bad /\ fd \in Used \ {cwd_fd} /\ fdm[fd].cloexec # bit
    /\ fdm' = [fdm EXCEPT ![fd].cloexec = bit]
    /\ muddled' = IF fd \in muddled THEN muddled \ {fd} ELSE muddled \cup {fd}
    /\ Cardinality(muddled') <= MuddledMax /\ nexec < ExecMax
    /\ UNCHANGED <<srv, extm, first_free, last_alloc, cwd_fd, bad, astray, nexec>>

CwdAfter(copy) == copy

\* fchdir(): a duplicate high up, and the descriptor before it closed.
fchdir(fd) ==
    /\ ~bad /\ fd \in Used \ {cwd_fd} /\ CanOpen(1)
    /\ LET copy == next_free_fd(Table, CwdLow)
           d == Dup(Table, srv, fd, copy, FALSE)
       IN  /\ Becomes(close_fd(d.t, cwd_fd))
           /\ srv' = LessFd(d.s, {fdm[cwd_fd].h})
           /\ cwd_fd' = CwdAfter(copy)
    /\ UNCHANGED <<astray, nexec>>

\* fexecve(): the descriptors whose copy of the flag is clear are passed on and made anew by
\* __file_init(); the servers drop what they have flagged.
Passed == {fd \in Used : ~fdm[fd].cloexec}

PassedOn == Restrict(srv, {h \in DOMAIN srv : ~srv[h].cloexec})

__file_init ==
    LET add(t, fd) == create_fd(t, fd, fdm[fd].h, FALSE, FALSE)
    IN  FoldLeft(add, [fdm |-> <<>>, ext |-> {}, ff |-> 0, la |-> -1], SetToSortSeq(Passed, <))

\* __init_crt() opens /dev/null for each standard descriptor that is missing.
DevNull(t, fd) == create_fd(t, -1, fd + 3 * (MaxFd + 1), FALSE, TRUE)

Missing == StdFds \ Passed

__init_crt(t) == FoldLeft(DevNull, t, SetToSortSeq(Missing, <))

fexecve ==
    /\ ~bad /\ nexec < ExecMax /\ nexec' = nexec + 1
    /\ Becomes(__init_crt(__file_init))
    /\ srv' = PassedOn @@ [h \in {fd + 3 * (MaxFd + 1) : fd \in Missing} |-> [cloexec |-> FALSE, fs |-> FALSE]]
    /\ astray' = (muddled # {})
    /\ UNCHANGED cwd_fd

UfCalls ==
    \/ \E c, fs \in BOOLEAN : openat(c, fs)
    \/ \E c \in BOOLEAN : pipe2(c)
    \/ \E fd \in Used, c \in BOOLEAN : setfd(fd, c) \/ getsetfl(fd, c)
    \/ \E fd \in Used : close(fd) \/ fchdir(fd) \/ getfd(fd)
    \/ \E old \in Used, to \in DupTargets \cup {-1}, c \in BOOLEAN : dup3(old, to, c)
    \/ \E old \in Used, low \in DupTargets : dupfd(old, low)
    \/ fexecve

\* Once the process and the servers have parted, what is open is not followed any further.
UfNext == ~astray /\ UfCalls

-----------------------------------------------------------------------------
UfTypeOK ==
    /\ Used \subseteq 0..MaxFd /\ extm \subseteq Int
    /\ first_free \in Nat /\ last_alloc \in Int /\ cwd_fd \in Used

\* A new descriptor is the lowest free number (from the bound on, for F_DUPFD), which the marks
\* have to find without a search, after closes and replacements anywhere.
LowestFree ==
    [][ufVars' # ufVars =>
       /\ \A c, fs \in BOOLEAN : openat(c, fs) => Used' \ Used = {FreeFrom(0, Used)}
       /\ \A old \in Used, low \in DupTargets : dupfd(old, low) => Used' \ Used = {FreeFrom(low, Used)}]_ufVars

\* A program starts with its standard descriptors open, which __init_crt() takes for granted
\* when it opens /dev/null once for each that is missing.
StdOpenAtStart == [][nexec' > nexec => StdFds \subseteq Used']_ufVars

\* The marks are exact, which is more than invariants() asserts.
MarksExact == ~bad /\ first_free = FreeFrom(0, Used) /\ last_alloc = Max(Used)

\* Every handle that a server has open for the process is that of exactly one descriptor, and
\* every descriptor's is open: after replacement by dup2(), change of directory, and exec, where
\* both sides decide by a flag of their own which ones live on. (Save after an exec in which the
\* process' copy of a descriptor's flag was the file's flags, of F_GETFL or F_SETFL.)
HandlesAgree ==
    ~astray => /\ {fdm[fd].h : fd \in Used} = DOMAIN srv
               /\ Cardinality(DOMAIN srv) = Cardinality(Used)
               /\ \A fd \in Used \ muddled : fdm[fd].cloexec = srv[fdm[fd].h].cloexec

\* A stat record is never that of another file than the descriptor's.
ExtOfItsFile == \A fd \in extm : fd \in Used /\ (~astray => ~srv[fdm[fd].h].fs)
==============================================================================
