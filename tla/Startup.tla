------------------------------ MODULE Startup -------------------------------
(***************************************************************************)
(* How a program starts: execve() packs its arguments (user/crt/exec.c),   *)
(* the root task reads the program's headers, maps its segments, places    *)
(* the kernel's areas and builds the first stack (root/uapi.c), and the    *)
(* new program takes that apart again (user/crt: crt0, posix.c, crt1.c).   *)
(* A word and a character take one unit of memory each.                    *)
(***************************************************************************)
EXTENDS Integers, FiniteSets, SequencesExt
CONSTANTS Requests,   \* [file, argv, envp, fds, uid, name]
          PAGE_SIZE, Align,
          UtcbSize, KipSize, StkResv   \* areas and the reserved low end, in pages
VARIABLE su
ASSUME StartupAssumption ==
    /\ {PAGE_SIZE, Align, UtcbSize, KipSize, StkResv} \subseteq Nat \ {0} /\ PAGE_SIZE % Align = 0

NUL == 0
RECSEP == 30
AT == [NULL |-> 0, IGNORE |-> 1, PAGESZ |-> 6, FLAGS |-> 8, UID |-> 11, EUID |-> 12, RANDOM |-> 25, EXECFN |-> 31]
FF_CWD == 65536
Up(n, k) == ((n + k - 1) \div k) * k
Down(n, k) == (n \div k) * k
Least(a, b) == IF a < b THEN a ELSE b
Most(a, b) == IF a < b THEN b ELSE a
Joined(strs) == FlattenSeq(strs)

(* execve() and spawn_NP(): every string but the last ends in a RECSEP.     *)
pack_argbuf(strs) ==
    Joined([i \in 1 .. Len(strs) |-> Append(strs[i], IF i = Len(strs) THEN NUL ELSE RECSEP)])
collect_fds(fds) == [i \in 1 .. Len(fds) |-> [fds[i] EXCEPT !.flags = fds[i].fd + (IF @ THEN FF_CWD ELSE 0)]]

(* A script's first line names an interpreter and perhaps one argument;     *)
(* these and the script's own path go before the arguments.                 *)
Parts(line) ==
    (IF line.abs THEN <<>> ELSE <<line.sh, line.c, line.interp, line.base>>)
    \o (IF line.rest = <<>> THEN <<>> ELSE <<line.rest>>)
binfmt_switch(file, argbuf) ==
    IF ~file.script THEN argbuf
    ELSE Joined([i \in 1 .. Len(Parts(file.line)) |-> Append(Parts(file.line)[i], RECSEP)])
         \o Append(file.path, RECSEP) \o argbuf

(* read_elf(): up to two mappings for each header, of the file's part and   *)
(* of the pages that have none of it.                                       *)
Segments(ep) ==
    LET inFile == Up(ep.filesz, PAGE_SIZE)
        tail == Up(ep.memsz, PAGE_SIZE) - inFile
    IN (IF ep.filesz > 0 THEN <<[at |-> ep.vaddr, len |-> ep.filesz, off |-> ep.off, anon |-> FALSE]>> ELSE <<>>)
       \o (IF tail > 0
           THEN <<[at |-> Up(ep.vaddr + ep.filesz, PAGE_SIZE), len |-> tail, off |-> 0, anon |-> TRUE]>>
           ELSE <<>>)
Loads(file) == SelectSeq(file.phdrs, LAMBDA ep : ep.load)
Aligned(file) == \A ep \in ToSet(Loads(file)) :
    ep.vaddr % PAGE_SIZE = 0 /\ (ep.filesz > 0 => ep.off % PAGE_SIZE = 0)
read_elf(file) ==
    LET eps == Loads(file)
        ends == {Up(ep.vaddr + ep.memsz, PAGE_SIZE) : ep \in ToSet(eps)}
    IN [segs |-> Joined([i \in 1 .. Len(eps) |-> Segments(eps[i])]),
        lo |-> FoldLeft(LAMBDA m, ep : Least(m, ep.vaddr), 10000, eps),
        hi |-> FoldLeft(LAMBDA m, ep : Most(m, Up(ep.vaddr + ep.memsz, PAGE_SIZE)), 0, eps)]

Unmapped == -2
Zeroes == -1
(* VM::mmap with MAP_FIXED: what each page of the new space comes from.     *)
Map(pages, seg) ==
    [p \in DOMAIN pages |->
       IF p * PAGE_SIZE >= seg.at /\ p * PAGE_SIZE < Up(seg.at + seg.len, PAGE_SIZE)
       THEN IF seg.anon THEN Zeroes ELSE p * PAGE_SIZE - seg.at + seg.off ELSE pages[p]]
(* Pages of the address space: addresses are words, and wrap.               *)
AddrPages == 64
load_program(img) == FoldLeft(Map, [p \in 0 .. AddrPages - 1 |-> Unmapped], img.segs)

(* configure(): the UTCB area, which is aligned to its size, the KIP and    *)
(* the system information page go below the image or else above it.         *)
(* The difference is unsigned: below an image that starts lower than the    *)
(* areas are large it is the top of the address space (no request here).    *)
Below(lo, resv) == Down((lo - resv) % AddrPages, UtcbSize)
(* A mutation: the space below is taken whether or not the stack fits.      *)
FitsAlways(lo, resv) == TRUE
FitsBelow(lo, resv) == Below(lo, resv) >= StkResv
configure(img) ==
    LET lo == img.lo \div PAGE_SIZE
        hi == img.hi \div PAGE_SIZE
        resv == UtcbSize + KipSize + 1
        start == IF FitsBelow(lo, resv) THEN Below(lo, resv) ELSE Up(hi, UtcbSize)
        first == start > hi \/ Down(lo, UtcbSize) >= resv - UtcbSize
        utcb == IF first THEN start ELSE Down(lo, UtcbSize) - UtcbSize
        kip == IF first THEN start + UtcbSize ELSE utcb - KipSize - 1
    IN [ok |-> FitsBelow(lo, resv) \/ start > hi, utcb |-> utcb, kip |-> kip, sip |-> kip + KipSize,
        stktop |-> Least(img.lo, Least(utcb, kip) * PAGE_SIZE)]

(* strsplit_offsets(): separators become ends of strings.                   *)
RECURSIVE Offsets(_, _)
Offsets(buf, pos) ==
    IF buf[pos + 1] = NUL THEN [offs |-> <<>>, len |-> pos]
    ELSE LET ends == {j \in pos + 1 .. Len(buf) : buf[j] \in {RECSEP, NUL}}
             end == CHOOSE j \in ends : \A k \in ends : j <= k
             rest == Offsets(buf, IF buf[end] = RECSEP THEN end ELSE end - 1)
         IN [rest EXCEPT !.offs = <<pos>> \o @]
Ended(buf) == [i \in 1 .. Len(buf) |-> IF buf[i] = RECSEP THEN NUL ELSE buf[i]]
strsplit_offsets(buf) == [offs |-> Offsets(buf, 0).offs, len |-> Offsets(buf, 0).len, buf |-> Ended(buf)]

(* build_auxv() and pack_auxv(): by number, the strings' values being where *)
(* each is in a buffer of theirs.                                           *)
build_auxv(req) ==
    <<[typ |-> AT.PAGESZ, val |-> PAGE_SIZE, str |-> <<>>], [typ |-> AT.FLAGS, val |-> 0, str |-> <<>>],
      [typ |-> AT.UID, val |-> req.uid, str |-> <<>>], [typ |-> AT.EUID, val |-> req.uid, str |-> <<>>],
      [typ |-> AT.RANDOM, val |-> -1, str |-> <<7>>], [typ |-> AT.EXECFN, val |-> -1, str |-> req.name]>>
pack_auxv(auxv) ==
    FoldLeft(LAMBDA st, a : IF a.val >= 0 THEN [st EXCEPT !.vec = Append(@, <<a.typ, a.val, FALSE>>)]
                            ELSE [vec |-> Append(st.vec, <<a.typ, Len(st.buf), TRUE>>),
                                  buf |-> st.buf \o Append(a.str, NUL)],
             [vec |-> <<>>, buf |-> <<>>], auxv)

EnvBase(body_sp, argsiz) == body_sp + argsiz + 1

(* upload_startup_stack(): below `top', first the words, then the strings.  *)
Stack(top, args, envs, aux) ==
    LET body == SubSeq(args.buf, 1, args.len + 1) \o SubSeq(envs.buf, 1, envs.len + 1) \o aux.buf
        body_sp == top - Up(Len(body), Align)
        word(a) == a[2] + (IF a[3] THEN body_sp + args.len + envs.len + 2 ELSE 0)
        meta == <<0, Len(args.offs)>> \o [i \in 1 .. Len(args.offs) |-> args.offs[i] + body_sp] \o <<0>>
                \o [i \in 1 .. Len(envs.offs) |-> envs.offs[i] + EnvBase(body_sp, args.len)] \o <<0>>
                \o Joined([i \in 1 .. Len(aux.vec) |-> <<aux.vec[i][1], word(aux.vec[i])>>]) \o <<AT.NULL, 0>>
        sp == body_sp - Up(Len(meta), Align)
    IN [sp |-> sp,
        mem |-> [a \in sp .. top - 1 |->
                   IF a < sp + Len(meta) THEN meta[a - sp + 1]
                   ELSE IF a >= body_sp /\ a < body_sp + Len(body) THEN body[a - body_sp + 1] ELSE 0]]
upload_startup_stack(top, argbuf, envbuf, req) ==
    Stack(top, strsplit_offsets(argbuf), strsplit_offsets(envbuf), pack_auxv(build_auxv(req)))

(* upload_fdlist(): pages of descriptors, downwards from below the stack.   *)
LimPerPage == (PAGE_SIZE - 1) \div 3
FdPage(fds, i) == LET rest == SubSeq(fds, i + 1, Len(fds)) IN SubSeq(rest, 1, Least(Len(rest), LimPerPage))

FdsAt(sp, k) == Up(sp - PAGE_SIZE * (2 + k), PAGE_SIZE)
upload_fdlist(sp, fds) ==
    LET n == (Len(fds) + LimPerPage - 1) \div LimPerPage
    IN [a \in {FdsAt(sp, k) : k \in 0 .. n - 1} |->
          FdPage(fds, LimPerPage * CHOOSE k \in 0 .. n - 1 : FdsAt(sp, k) = a)]

(* The new program: crt0 takes a word from the stack; a page that nobody    *)
(* wrote is zeroes.                                                         *)
RECURSIVE CString(_, _)
CString(mem, a) == IF mem[a] = NUL THEN <<>> ELSE <<mem[a]>> \o CString(mem, a + 1)
RECURSIVE Vector(_, _)
Vector(mem, a) == IF mem[a] = 0 THEN <<>> ELSE <<CString(mem, mem[a])>> \o Vector(mem, a + 1)
RECURSIVE Auxv(_, _)
Auxv(mem, a) == IF mem[a] = AT.NULL THEN <<>> ELSE <<<<mem[a], mem[a + 1]>>>> \o Auxv(mem, a + 2)
_start_c(mem, p) ==
    LET argc == mem[p]
        envp == p + 1 + argc + 1
        env == Vector(mem, envp)
    IN [argc |-> argc, argv |-> Vector(mem, p + 1), env |-> env, aux |-> Auxv(mem, envp + Len(env) + 1)]
getauxval(aux, name) == {x[2] : x \in {y \in ToSet(aux) : y[1] = name}}
RECURSIVE FdList(_, _)
FdList(pages, a) ==
    IF a \notin DOMAIN pages THEN <<>>
    ELSE IF Len(pages[a]) < LimPerPage THEN pages[a] ELSE pages[a] \o FdList(pages, a - PAGE_SIZE)
Read(e) == [fd |-> e.flags % FF_CWD, serv |-> e.serv, flags |-> e.flags >= FF_CWD]
__file_init(pages, p) ==
    LET list == FdList(pages, Up(p - PAGE_SIZE * 2, PAGE_SIZE)) IN [i \in 1 .. Len(list) |-> Read(list[i])]

-----------------------------------------------------------------------------
NoImg == [segs |-> <<>>, lo |-> 0, hi |-> 0]
StartupInit ==
    \E r \in Requests :
       su = [phase |-> "execve", req |-> r, argbuf |-> <<>>, envbuf |-> <<>>, img |-> NoImg, pages |-> <<>>,
             area |-> <<>>, stack |-> <<>>, fds |-> <<>>, main |-> <<>>, got |-> <<>>]

(* fexecve() gathers what goes with the call. *)
fexecve ==
    /\ su.phase = "execve"
    /\ su' = [su EXCEPT !.phase = "exec", !.argbuf = pack_argbuf(su.req.argv), !.envbuf = pack_argbuf(su.req.envp)]

(* uapi_exec() and uapi_spawn() as far as the headers: the caller still     *)
(* gets an error.                                                           *)
exec_reads ==
    /\ su.phase = "exec"
    /\ su' = IF Aligned(su.req.file)
             THEN [su EXCEPT !.phase = "load", !.argbuf = binfmt_switch(su.req.file, su.argbuf),
                             !.img = read_elf(su.req.file)]
             ELSE [su EXCEPT !.phase = "ENOEXEC"]
(* configure() asserts that what goes above the image begins past its end,  *)
(* which fails for an image that ends where a UTCB area may begin.          *)
exec_loads ==
    /\ su.phase = "load"
    /\ LET area == configure(su.img)
       IN su' = [su EXCEPT !.phase = IF area.ok THEN "stack" ELSE "panic", !.pages = load_program(su.img), !.area = area]

(* VM::upload_page takes one page: a stack of more is not modelled.         *)
exec_starts ==
    /\ su.phase = "stack"
    /\ LET st == upload_startup_stack(su.area.stktop, su.argbuf, su.envbuf, su.req)
       IN su' = IF su.area.stktop - st.sp > PAGE_SIZE THEN [su EXCEPT !.phase = "toolong"]
                ELSE [su EXCEPT !.phase = "start", !.stack = st,
                                !.fds = upload_fdlist(st.sp, collect_fds(su.req.fds))]
crt ==
    /\ su.phase = "start"
    /\ LET p == su.stack.sp + 1
       IN su' = [su EXCEPT !.phase = "main", !.main = _start_c(su.stack.mem, p), !.got = __file_init(su.fds, p)]
StartupNext == fexecve \/ exec_reads \/ exec_loads \/ exec_starts \/ crt
StartupSpec == StartupInit /\ [][StartupNext]_su

-----------------------------------------------------------------------------
(* An argument or variable that is empty and last is lost on the way.       *)
Kept(strs) == IF strs # <<>> /\ Last(strs) = <<>> THEN SubSeq(strs, 1, Len(strs) - 1) ELSE strs
Given ==
    LET f == su.req.file IN IF f.script THEN Parts(f.line) \o <<f.path>> \o Kept(su.req.argv) ELSE Kept(su.req.argv)

(***************************************************************************)
(* main() sees the arguments, the environment and the auxiliary values it  *)
(* was given, in order, wherever the stack is and however long they are.   *)
(***************************************************************************)
ArgsArrive ==
    su.phase = "main" =>
      /\ su.main.argv = Given /\ su.main.argc = Len(Given) /\ su.main.env = Kept(su.req.envp)
      /\ getauxval(su.main.aux, AT.UID) = {su.req.uid}
      /\ {CString(su.stack.mem, a) : a \in getauxval(su.main.aux, AT.EXECFN)} = {su.req.name}

(***************************************************************************)
(* The descriptors that were passed are those the new program has, though  *)
(* each side works the list's place out from its own stack pointer.  When  *)
(* the stack fills its page to the last word the two differ by a page and  *)
(* the program starts without any.                                         *)
(***************************************************************************)
FdsArrive ==
    su.phase = "main" /\ su.area.stktop - su.stack.sp < PAGE_SIZE => su.got = su.req.fds

Span(from, n) == from .. from + n - 1
ImagePages == {p \in DOMAIN su.pages : su.pages[p] # Unmapped}
(***************************************************************************)
(* No two of the image, the UTCB area, the KIP, the information page and   *)
(* the first stack share a page; the UTCB area is aligned and the lowest   *)
(* addresses stay free.                                                    *)
(***************************************************************************)
AreasClear ==
    su.phase \in {"stack", "start", "main"} =>
      LET stk == su.area.stktop \div PAGE_SIZE
          areas == <<ImagePages, Span(su.area.utcb, UtcbSize), Span(su.area.kip, KipSize), {su.area.sip},
                     Span(stk - StkResv, StkResv)>>
      IN /\ \A i, j \in 1 .. 5 : i # j => areas[i] \cap areas[j] = {}
         /\ su.area.utcb % UtcbSize = 0 /\ stk >= StkResv

(***************************************************************************)
(* Every page of a segment is mapped from its place in the file, or as     *)
(* zeroes when the file has nothing for it, and nothing else is mapped.    *)
(***************************************************************************)
ImageExact ==
    su.phase = "stack" =>
      \A p \in DOMAIN su.pages :
        LET has == {ep \in ToSet(Loads(su.req.file)) :
                      ep.vaddr <= p * PAGE_SIZE /\ p * PAGE_SIZE < ep.vaddr + ep.memsz}
        IN IF has = {} THEN su.pages[p] = Unmapped
           ELSE \E ep \in has : LET d == p * PAGE_SIZE - ep.vaddr
                                IN su.pages[p] = IF d < ep.filesz THEN ep.off + d ELSE Zeroes

(***************************************************************************)
(* A program starts with what spawn or exec was given for it.              *)
(***************************************************************************)
StartupExact == ArgsArrive /\ FdsArrive /\ AreasClear /\ ImageExact
=============================================================================
