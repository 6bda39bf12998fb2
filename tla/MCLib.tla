-------------------------------- MODULE MCLib --------------------------------
(* The modules of lib/ and the files of a process, one at a time: `part'    *)
(* says which, the others stay as they begin.                               *)
EXTENDS RbTree, Env, Stdio, CLib, UserFiles, DirStream
VARIABLE part

MCEnvPrefix == {<<"A", "AB">>}

Arrays(n) == [0 .. n - 1 -> 0 .. 2]
MCSortInputs == UNION {Arrays(n) : n \in 0 .. 6}
Chars == {0, 1, 6, 9, 15, LetterX, Minus}
Texts == {<<Space, Plus>> \o q : q \in [1 .. 2 -> {0, 1, 9}]} \cup UNION {[1 .. n -> Chars] : n \in 1 .. 4}
(* "0" or "0x" with no digit after it is no number to this strtoul(). *)
MCScanInputs == [s : Texts, base : {0, 2, 10, 16}]
Params == [shift : {0, 1, 3, 4}, width : {-1, 3, 5}, precision : {-1, 2, 4}, signed : BOOLEAN,
           forcesign : BOOLEAN, spacesign : {FALSE}, leftjust : BOOLEAN, prefix : BOOLEAN, pad : {Space, 0}]
Flags == {p \in Params : /\ p.prefix => p.shift # 0
                         /\ p.leftjust => p.pad = Space
                         /\ (p.shift # 0 \/ ~p.signed) => ~p.forcesign /\ ~p.signed}
IntOf(p, v) == [kind |-> "int", p |-> p, val |-> v]
Ints == {IntOf(p, v) : p \in Flags, v \in {-27, -1, 0, 1, 9, 64, 255}}
Good == {it \in Ints : it.p.signed \/ it.val >= 0}
Lit == [kind |-> "lit", text |-> <<10, 11>>]
Strs == {[kind |-> "str", text |-> <<12, 13, 14>>, width |-> w, precision |-> r] : w \in {-1, 2, 4}, r \in {-1, 0, 2}}
Short == {it \in Good : it.val = -27 /\ it.p.width \in {-1, 5}}
MCFmtInputs == {[items |-> <<it>>, size |-> 4] : it \in Good}
    \cup {[items |-> <<Lit, it, st>>, size |-> n] : it \in Short, st \in Strs, n \in {1, 2, 4, 7, 11}}
Memory == {m \in [0 .. 5 -> 0 .. 2] : m[5] = 0}
MCMemInputs == [mem : Memory, p : {0, 1}, c : {1, 2}, n : {0, 1, 2, 4}]

libVars == <<part, rb, evars, sivars, clvars, ufVars, dsVars>>

MCRbKey == [n \in RbNodes |-> IF n = 8 THEN 4 ELSE n]

LibInit ==
    /\ part \in {"rb", "env", "stdio", "clib", "files", "dirs"}
    /\ RbInit
    /\ EnvInit /\ (part # "env" => environ = <<>>)
    /\ StdioInit
    /\ IF part = "clib" THEN CLibInit ELSE call = [fn |-> "none"] /\ res = NoResult
    /\ UfInit /\ DsInit

LibNext ==
    /\ UNCHANGED part
    /\ \/ part = "rb" /\ RbNext /\ UNCHANGED <<evars, sivars, clvars, ufVars, dsVars>>
       \/ part = "env" /\ EnvNext /\ UNCHANGED <<rb, sivars, clvars, ufVars, dsVars>>
       \/ part = "stdio" /\ StdioNext /\ UNCHANGED <<rb, evars, clvars, ufVars, dsVars>>
       \/ part = "clib" /\ CLibNext /\ UNCHANGED <<rb, evars, sivars, ufVars, dsVars>>
       \/ part = "files" /\ UfNext /\ UNCHANGED <<rb, evars, sivars, clvars, dsVars>>
       \/ part = "dirs" /\ DsNext /\ UNCHANGED <<rb, evars, sivars, clvars, ufVars>>

LibSpec == LibInit /\ [][LibNext]_libVars

(* The algorithms of lib/ give what their definitions say: trees, sorting,  *)
(* numbers read and written, words searched for a byte.                     *)
AlgorithmsExact ==
    RbOrdered /\ RbBalanced /\ Sorted /\ ScansExact /\ NumbersExact /\ CutsExact /\ WordsExact

(* A process' descriptors and directory streams are what its calls made.    *)
FilesExact ==
    UfTypeOK /\ MarksExact /\ HandlesAgree /\ ExtOfItsFile /\ DsInOrder /\ DsTellExact /\ ScanComplete

(* What a single step of lib/ and user/crt/file.c never does: skip a node   *)
(* of a loop, overwrite a variable unasked, keep back a line, pass over a   *)
(* free descriptor, start a program without its first three.                *)
LibSteps == ForeachExact /\ OverwritesIffAsked /\ LinesGoOut /\ LowestFree /\ StdOpenAtStart
=============================================================================
