---- MODULE MCFs ----
(* The file system modules, one at a time: `part` says which, the others stay as they start. *)
EXTENDS Resolve, SquashDir, SquashFile, Mounts, Devices, TLC

VARIABLE part

Dir(i) == [type |-> "dir", ino |-> i]
Reg(i) == [type |-> "reg", ino |-> i]
Lnk(i) == [type |-> "lnk", ino |-> i]
Rel(p) == [abs |-> FALSE, path |-> p]
Abs(p) == [abs |-> TRUE, path |-> p]
\* root file system A: /d/f, /d/m (mount of B), /dev/tty, links; B: /s/g, /h
Ents == [A |-> (1 :> ("d" :> Dir(2) @@ "f" :> Reg(3) @@ "dev" :> Dir(4) @@ "l" :> Lnk(10)
                      @@ "k" :> Lnk(11) @@ "c" :> Lnk(16) @@ "o" :> Lnk(12) @@ "p" :> Lnk(13) @@ "q" :> Lnk(14))
           @@ 2 :> ("f" :> Reg(5) @@ "m" :> Dir(6) @@ "l" :> Lnk(15))
           @@ 4 :> ("f" :> Reg(7)) @@ 6 :> ("hidden" :> Reg(8))),
         B |-> (1 :> ("h" :> Reg(2) @@ "s" :> Dir(3) @@ "a" :> Lnk(10) @@ "u" :> Lnk(11))
           @@ 3 :> ("g" :> Reg(4) @@ "l" :> Lnk(12)))]
Links == [A |-> (10 :> Rel(<<"d">>)                    \* l -> d
              @@ 11 :> Rel(<<"l", "f">>)               \* k -> l/f
              @@ 12 :> Rel(<<"p">>) @@ 13 :> Rel(<<"o">>) \* o <-> p
              @@ 14 :> Abs(<<"d", "m">>)               \* q -> /d/m
              @@ 15 :> Rel(<<"..", "d", "f">>)         \* d/l -> ../d/f
              @@ 16 :> Abs(<<"c">>)),                  \* c -> /c
          B |-> (10 :> Abs(<<"l", "f">>)               \* a -> /l/f
              @@ 11 :> Rel(<<"..", "f">>)              \* u -> ../f, out of B
              @@ 12 :> Rel(<<"..", "s", "g">>))]
MCTree == [rootfs |-> "A", entries |-> Ents, links |-> Links,
             mounts |-> [A |-> 6 :> "B", B |-> <<>>], up |-> [B |-> [fs |-> "A", dir |-> 2]],
             dev |-> [A |-> [ino |-> 4, nodes |-> {"tty"}]]]
Ask(at, dir, path, flags) == [at |-> at, dir |-> dir, path |-> path, flags |-> flags]
Names == {"d", "f", "m", "s", "g", "l", "k", "o", "q", "a", "u", "h", "..", ".", "dev", "tty"}
\* a path that keeps out of the cases the README lists
Plain(p) ==
    /\ \A i \in 1..Len(p) : i > 1 /\ p[i - 1] = "dev" => p[i] \notin {".", ".."}
    /\ \A i \in 1..Len(p) : p[i] = "u" => i = Len(p)
Paths == {p \in UNION {[1..n -> Names] : n \in 1..2} \cup [1..3 -> Names \ {"h", "g", "s", "tty", "o", "u", "."}] : Plain(p)}
Calls(s, t) == "c1" :> s @@ "c2" :> t
Down == {Ask(Root, 1, <<"d", "m", "s", "g">>, {}), Ask("A", 2, <<"m", "s">>, {"directory"}),
         Ask("A", 1, <<"l", "m", "", "h">>, {}), Ask(Root, 1, <<"k">>, {})}
MCAsks == <<
    Calls({Ask(at, 1, p, {}) : at \in {Root, "B"}, p \in Paths}, {}),
    Calls({Ask("B", 1, <<"a">>, {"nofollow"}), Ask("B", 1, <<"s", "..", "a">>, {"nofollow"}),
             Ask("A", 2, <<"m", "">>, {}), Ask(Root, 1, <<"">>, {}), Ask("B", 1, <<"h">>, {"directory"})},
            {Ask("A", 6, <<"..", "..", "k">>, {}), Ask("A", 2, <<"..", "l", "m", "h">>, {})}),
    Calls(Down, Down),
    Calls({Ask(Root, 1, <<"c", "f">>, {}), Ask(Root, 1, <<"d", "..", "c">>, {})}, {}),
    \* up and down the mount at once, and to the root and from it
    Calls({Ask("B", 1, <<"u">>, {}), Ask("B", 3, <<"..", "..", "f">>, {}), Ask(Root, 1, <<"q">>, {})}, Down) >>

MCDriver == "null" :> "nullserv" @@ "zero" :> "nullserv" @@ "tty" :> NoDriver

E(n, i, l) == [name |-> n, ino |-> i, len |-> l]
MCImage == 1 :> << <<E(1, 10, 1), E(7, 2, 2)>>, <<E(9, 11, 3)>> >>
        @@ 2 :> << <<E(8, 3, 4)>> >>
        @@ 3 :> << <<E(1, 12, 1)>> >>
MCParent == 1 :> 1 @@ 2 :> 1 @@ 3 :> 2

MCPacked == <<3, 1, 4, 2, 5, 1>>
MCCuts == {<<1, 3, 5, 20>>, <<4, 4, 20>>, <<2, 1, 1, 2, 20>>}

MCMountScenes == {[paths |-> {<<"d">>, <<"e">>}, busy |-> TRUE], [paths |-> {<<"d">>, <<"d", "d">>}, busy |-> TRUE]}

fsVars == <<part, resolveVars, dirVars, fileVars, mountVars, devVars>>

FsInit ==
    /\ part \in {"resolve", "dir", "file", "mount", "dev"}
    /\ ResolveInit /\ (part # "resolve" => scene = 1)
    /\ DirInit
    /\ FileInit /\ (part # "file" => image = [size |-> 0, cuts |-> <<4, 4, 20>>])
    /\ MountInit /\ (part # "mount" => <<"e">> \in mscene.paths)
    /\ DevInit

Resolving(A) == part = "resolve" /\ A /\ UNCHANGED <<part, dirVars, fileVars, mountVars, devVars>>
ReadingDir(A) == part = "dir" /\ A /\ UNCHANGED <<part, resolveVars, fileVars, mountVars, devVars>>
ReadingFile(A) == part = "file" /\ A /\ UNCHANGED <<part, resolveVars, dirVars, mountVars, devVars>>
Mounting(A) == part = "mount" /\ A /\ UNCHANGED <<part, resolveVars, dirVars, fileVars, devVars>>
Opening(A) == part = "dev" /\ A /\ UNCHANGED <<part, resolveVars, dirVars, fileVars, mountVars>>

\* Nothing is looked up while a rollback is pending: lookups have cursors of their own.
LookupsApart == DirNext /\ (dirRb # NoDirRollback => looked' = LookedNowhere)

FsNext ==
    Resolving(ResolveNext) \/ ReadingDir(LookupsApart) \/ ReadingFile(FileNext) \/ Mounting(MountNext) \/ Opening(DevNext)

\* Each module's fairness; as `part` does not change, the first conjunct is about the module at
\* work: servers loop in their dispatchers and the kernel delivers messages to receivers that
\* wait, so that a message that can be taken is; root's worker and the devices thread run; each
\* file system answers what they wait for and serves its clients one after another.
FsFairness ==
    /\ WF_fsVars(Resolving(ResolveServing) \/ Mounting(WorkerStep) \/ Opening(DevThread))
    /\ \A f \in AllFs : WF_fsVars(Mounting(SyncStep(f) \/ Attach(f)))
    /\ \A c \in DevClients : SF_fsVars(Opening(DevStat(c) \/ DevOpen(c))) /\ WF_fsVars(Opening(Retry(c)))

Spec == FsInit /\ [][FsNext]_fsVars /\ FsFairness

\* A mounted file system is seen and serves, one that is unmounted is not seen, and a device
\* name has one driver.
ServersExact ==
    MountTypeOK /\ DevTypeOK /\ MountVisible /\ UnmountedInvisible /\ MountedServes /\ OneDriverPerName

\* Every resolve, mount, unmount and open of a device is answered.
FsProgress == EveryResolveAnswered /\ MountsAnswered /\ DeviceOpens
====
