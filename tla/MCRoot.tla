------------------------------ MODULE MCRoot --------------------------------
(* The root task's modules, the start of the system and of a program, one   *)
(* at a time: `part' says which, the others stay as they begin.             *)
EXTENDS Proc, RootTask, Startup, Creds, SystemStart
VARIABLE part

Line(abs, rest) == [abs |-> abs, sh |-> <<8>>, c |-> <<9>>, interp |-> <<5>>, base |-> <<5>>, rest |-> rest]
NoLine == Line(TRUE, <<>>)
Phdr(v, f, m, o) == [load |-> TRUE, vaddr |-> v * PAGE_SIZE, filesz |-> f, memsz |-> m, off |-> o * PAGE_SIZE]
Note == [Phdr(1, 1, 1, 1) EXCEPT !.load = FALSE]
Elf(phdrs) == [script |-> FALSE, line |-> NoLine, path |-> <<>>, phdrs |-> phdrs]
Text(lo) == Phdr(lo, PAGE_SIZE + 5, PAGE_SIZE + 5, 0)
File == Elf(<<Text(20)>>)
Script(abs, rest) == [File EXCEPT !.script = TRUE, !.line = Line(abs, rest), !.path = <<6>>]
Strings == {<<>>, <<1>>, <<2, 3>>, <<1, 1, 2, 2, 3>>}
Lists(n) == UNION {[1 .. k -> Strings] : k \in 1 .. n}
Fd(i) == [fd |-> i, serv |-> 50 + i, flags |-> i = 2]
FdLists == {[i \in 1 .. n |-> Fd(i)] : n \in 0 .. 22}
Req(f, a, e, fds) == [file |-> f, argv |-> a, envp |-> e, fds |-> fds, uid |-> 3, name |-> <<4>>]
Sizes == {0, 1, PAGE_SIZE - 1, PAGE_SIZE, PAGE_SIZE + 1, 2 * PAGE_SIZE}
Data(v, o) == {Phdr(v, f, m, o) : f, m \in Sizes}
Images == {Elf(<<Text(lo), d>>) : lo \in 20 .. 36, d \in {x \in Data(40, 2) : x.filesz <= x.memsz /\ x.memsz > 0}}
          \cup {Elf(<<Note, Text(lo)>>) : lo \in 12 .. 19} \cup {Elf(<<[Text(20) EXCEPT !.vaddr = @ + 1]>>)}
MCRequests ==
    {Req(File, a, e, <<Fd(1)>>) : a \in Lists(3), e \in Lists(2)}
    \cup {Req(File, <<<<1>>, x>>, <<y>>, l) : x, y \in Strings, l \in FdLists}
    \cup {Req(Script(abs, rest), <<<<1>>, x>>, <<<<2>>>>, <<Fd(2)>>) : abs \in BOOLEAN, rest \in Strings, x \in Strings}
    \cup {Req(f, <<<<1>>>>, <<<<2>>>>, <<Fd(1)>>) : f \in Images}

rootVars == <<part, procVars, rt, su, crvars, ssVars>>
MCMapOf == [p \in RtUsers |-> IF p = 1 THEN 0 ELSE 1]
Idle == [phase |-> "idle"]
(* In the other parts the system is up, and nothing is left of its start.   *)
SystemUp ==
    /\ extras = {} /\ born = {"init"} /\ todo = [t \in born |-> <<>>]
    /\ client = [t \in born |-> Nobody] /\ call = client
    /\ utcb = [early |-> 0, used |-> {}, slot |-> <<>>]
    /\ known = {} /\ nilReads = {} /\ inside = {}

RootInit ==
    /\ part \in {"proc", "tasks", "startup", "creds", "start"}
    /\ ProcInit /\ RtInit
    /\ IF part = "startup" THEN StartupInit ELSE su = Idle
    /\ CrInit /\ (part # "creds" => ids[1].r = 0)
    /\ IF part = "start" THEN SsInit ELSE SystemUp
RootNext ==
    /\ UNCHANGED part
    /\ \/ part = "proc" /\ ProcNext /\ UNCHANGED <<rt, su, crvars, ssVars>>
       \/ part = "tasks" /\ RtNext /\ UNCHANGED <<procVars, su, crvars, ssVars>>
       \/ part = "startup" /\ StartupNext /\ UNCHANGED <<procVars, rt, crvars, ssVars>>
       \/ part = "creds" /\ CrNext /\ UNCHANGED <<procVars, rt, su, ssVars>>
       \/ part = "start" /\ SsNext /\ UNCHANGED <<procVars, rt, su, crvars>>
RootSpec == RootInit /\ [][RootNext]_rootVars
=============================================================================
