-------------------------------- MODULE MCVm --------------------------------
EXTENDS Vm, TLC

CONSTANTS f1, f2, f3, f4, p1, p2, p3

Args(back, share_, addr, len, tail, fixed) ==
  [addr |-> addr, len |-> len, tail |-> tail, share |-> share_, back |-> back,
   fd |-> 1, off |-> 0, prot |-> {"W"}, fixed |-> fixed]
Menu(n, k, mmaps, unmaps, brks, uploads, touch) ==
  [spaces |-> n, frames |-> k, mmaps |-> mmaps, unmaps |-> unmaps, brks |-> brks,
   uploads |-> uploads, touch |-> touch]

(* Programs that fork and exit.                                              *)
Family == Menu(3, 4, {}, {}, {}, {1}, {1})

(* Programs that map a file.                                                 *)
Filed == Menu(2, 4, {Args("file", "private", 5, 2, 1, FALSE)}, {<<5, 6>>}, {}, {}, {5, 6})

(* Programs that share memory, and put other memory in its place.            *)
Sharing == Menu(2, 3, {Args("anon", "shared", 0, 2, 0, FALSE),
                    Args("anon", "private", 5, 2, 0, TRUE)}, {<<5, 6>>}, {}, {}, {5})

(* Programs that cut up their memory.                                        *)
Cutting == Menu(1, 3, {Args("anon", "private", 2, 1, 0, TRUE),
                       Args("anon", "private", 3, 2, 0, TRUE)},
                {<<2, 2>>, <<2, 3>>}, {1, 2, 4}, {}, {2, 3})

MCMenus == {Family, Filed, Sharing, Cutting}
MCFileData(fd, n) == <<2 + n, 2 + n>>
MCCutKinds == {<<"anon", "private">>}
Sym == Permutations(Frames) \cup Permutations(Spaces)
=============================================================================
