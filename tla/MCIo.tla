-------------------------------- MODULE MCIo --------------------------------
(* The I/O servers' library and the pipe server, one module at a time:      *)
(* `part' says which, the others stay as they begin.                        *)
EXTENDS IoFd, Pipe, Rollback
VARIABLE part

(* Two readers and a writer, a reader and two writers, and a process that  *)
(* holds both ends of the pipe beside a reader.                            *)

CONSTANTS p1, p2, p3

MCLayouts == {[r |-> {p1, p2}, w |-> {p3}], [r |-> {p1}, w |-> {p2, p3}],
              [r |-> {p1, p3}, w |-> {p3}]}
MCNonBlock == {{}, {"r"}, {"w"}}

(* Files are alike, and so are the threads that call a server. *)
Symmetry == Permutations(Files)

(* Every reply is followed by a receive that fails, so that no rollback is *)
(* left, and data is moved and descriptors are close-on-exec only while at *)
(* most one file is open (which file it is, neither the confirm nor exec   *)
(* looks at); or rollbacks are left, but at most one file is open, none of *)
(* its descriptors is close-on-exec or handed over, and nobody calls       *)
(* exec() or moves data.                                                   *)
FilesOpen == {io'.fds[d].file : d \in Ids} \ {None}
CrossedOff ==
  /\ IoFdNext
  /\ rollback' = NoRollback
  /\ \/ confirm'.fn = "io_confirm"
     \/ \E d \in Ids : io'.fds[d].cloexec = "yes"
     => Cardinality(FilesOpen) <= 1
Plainly ==
  /\ IoFdNext
  /\ confirm'.fn # "io_confirm"
  /\ dup'.target = None
  /\ \A d \in Ids : io'.fds[d].cloexec = "no"
  /\ \A k \in DOMAIN events' : events'[k].tag # "MPL_EXEC"
  /\ Cardinality(FilesOpen) <= 1

mcIoVars == <<part, ioVars, pipeVars, rbVars>>
IoInit ==
    /\ part \in {"descriptors", "leftovers", "pipe", "rollback"}
    /\ IoFdInit /\ RbInit /\ PipeInit
    /\ part # "pipe" => open = CHOOSE l \in Layouts : TRUE
    /\ part # "pipe" => nonblock = {}
IoNext ==
    /\ UNCHANGED part
    /\ \/ part = "descriptors" /\ CrossedOff /\ UNCHANGED <<pipeVars, rbVars>>
       \/ part = "leftovers" /\ Plainly /\ UNCHANGED <<pipeVars, rbVars>>
       \/ part = "pipe" /\ PipeNext /\ UNCHANGED <<ioVars, rbVars>>
       \/ part = "rollback" /\ RbNext /\ UNCHANGED <<ioVars, pipeVars>>
IoSpec == IoInit /\ [][IoNext]_mcIoVars
=============================================================================
