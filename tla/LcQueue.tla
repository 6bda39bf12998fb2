------------------------------- MODULE LcQueue -------------------------------
(***************************************************************************)
(* The queue of process lifecycle events of sys/io servers (sys/io/io.c).  *)
(*                                                                         *)
(* The sysmsg thread runs lifecycle_handler_fn(), the single producer; the *)
(* dispatch thread runs lifecycle_sync(), the single consumer, whenever a  *)
(* client or a descriptor is looked up and when it is poked.  They share   *)
(* the ring lce_queue[] and its control word lce_ctrl.  A third thread,    *)
(* poke_fn(), turns the producer's non-blocking poke into a message the    *)
(* dispatch thread is certain to receive.                                  *)
(*                                                                         *)
(* Every access to lce_ctrl, every slot access and every IPC is a step.    *)
(* Events are numbered as they arrive.                                     *)
(***************************************************************************)
EXTENDS Naturals, Sequences

CONSTANTS NumLcEvents,  \* NUM_LC_EVENTS: slots of the ring
          LcTags,       \* tags of the events, "MPL_EXIT" among them
          MaxEvents     \* bound: events in a behaviour

ASSUME LcAssumption ==
  /\ NumLcEvents \in Nat \ {0, 1}
  /\ "MPL_EXIT" \in LcTags
  /\ MaxEvents \in Nat

VARIABLES
  ctrl,     \* lce_ctrl: rd, wr and the overflow bit
  slot,     \* lce_queue[]
  sent,     \* the events the producer was called for: their tags
  ppc,      \* where the producer is
  pctrl,    \* its local ctrl
  wrpos,    \* its local wrpos
  poke,     \* its local poke
  cpc,      \* where the dispatch thread is
  cctrl,    \* lifecycle_sync()'s local ctrl
  first,    \* its local first
  count,    \* its local count
  i,        \* its loop counter
  applied,  \* events applied so far, in order
  pokepc,   \* poke_fn(): receiving, or sending to the dispatch thread
  lost      \* events that the producer had no slot for

ctrlVars == <<ctrl, slot>>
prodVars == <<sent, ppc, pctrl, wrpos, poke, lost>>
consVars == <<cpc, cctrl, first, count, i, applied>>
lcVars == <<ctrlVars, prodVars, consVars, pokepc>>

Positions == 0..NumLcEvents - 1
Events == 1..MaxEvents
Ctrl == [rd : Positions, wr : Positions, overflow : {0, 1}]

(* Positions are taken modulo the size of the ring. *)
Succ(p, k) == (p + k) % NumLcEvents

NoCtrl == [rd |-> 0, wr |-> 0, overflow |-> 0]

LcInit ==
  /\ ctrl = NoCtrl
  /\ slot = [p \in Positions |-> 0]
  /\ sent = <<>>
  /\ ppc = "idle"
  /\ pctrl = NoCtrl
  /\ wrpos = 0
  /\ poke = FALSE
  /\ cpc = "idle"
  /\ cctrl = NoCtrl
  /\ first = 0
  /\ count = 0
  /\ i = 0
  /\ applied = <<>>
  /\ pokepc = "recv"
  /\ lost = {}

-----------------------------------------------------------------------------
(***************************************************************************)
(* The producer: lifecycle_handler_fn().                                   *)
(***************************************************************************)

Full(c) == c.rd = Succ(c.wr, 1)

(* It is called for an event and loads lce_ctrl. *)
HandlerLoad(tag) ==
  /\ ppc = "idle"
  /\ Len(sent) < MaxEvents
  /\ sent' = Append(sent, tag)
  /\ pctrl' = ctrl
  /\ wrpos' = ctrl.wr
  /\ poke' = (tag = "MPL_EXIT")
  /\ IF ctrl.overflow = 1
       THEN ppc' = "cas" /\ lost' = lost \cup {Len(sent')}
       ELSE ppc' = (IF Full(ctrl) THEN "mark" ELSE "fill") /\ UNCHANGED lost
  /\ UNCHANGED <<ctrlVars, consVars, pokepc>>

(* atomic_fetch_or(): mark overflow; the event goes to ev_dummy. *)
HandlerMark ==
  /\ ppc = "mark"
  /\ ctrl' = [ctrl EXCEPT !.overflow = 1]
  /\ lost' = lost \cup {Len(sent)}
  /\ poke' = TRUE
  /\ ppc' = "cas"
  /\ UNCHANGED <<slot, sent, pctrl, wrpos, consVars, pokepc>>

HandlerFill ==
  /\ ppc = "fill"
  /\ slot' = [slot EXCEPT ![wrpos] = Len(sent)]
  /\ ppc' = "cas"
  /\ UNCHANGED <<ctrl, sent, pctrl, wrpos, poke, lost, consVars, pokepc>>

HandlerDone == ppc' = IF poke THEN "poke" ELSE "idle"

(* One round of the do-while: publish the new write position, keeping the  *)
(* read position but not the overflow bit.  A failing exchange loads       *)
(* lce_ctrl and the loop ends if the overflow bit is seen.                 *)
HandlerCas ==
  /\ ppc = "cas"
  /\ IF ctrl = pctrl
       THEN /\ ctrl' = [rd |-> pctrl.rd, wr |-> Succ(wrpos, 1), overflow |-> 0]
            /\ pctrl' = NoCtrl /\ wrpos' = 0
            /\ HandlerDone
       ELSE IF ctrl.overflow = 1
       THEN /\ pctrl' = NoCtrl /\ wrpos' = 0
            /\ HandlerDone
            /\ UNCHANGED ctrl
       ELSE /\ pctrl' = ctrl
            /\ UNCHANGED <<ctrl, wrpos, ppc>>
  /\ UNCHANGED <<slot, sent, poke, lost, consVars, pokepc>>

(* A mutation: no poke goes out. *)
HandlerPokeMissing ==
  /\ ppc = "poke"
  /\ ppc' = "idle" /\ poke' = FALSE
  /\ UNCHANGED <<ctrlVars, sent, pctrl, wrpos, lost, consVars, pokepc>>

(* L4_Reply() to the poke thread; it fails with code 2, which is ignored,  *)
(* when that thread is not receiving.                                      *)
HandlerPoke ==
  /\ ppc = "poke"
  /\ pokepc' = "send"
  /\ ppc' = "idle" /\ poke' = FALSE
  /\ UNCHANGED <<ctrlVars, sent, pctrl, wrpos, lost, consVars>>

-----------------------------------------------------------------------------
(***************************************************************************)
(* The consumer: lifecycle_sync() in the dispatch thread.                  *)
(***************************************************************************)

(* The load; lost events are met with abort(). *)
SyncLoad ==
  /\ cpc = "idle"
  /\ IF ctrl.overflow = 1
       THEN cpc' = "aborted" /\ UNCHANGED <<cctrl, first, count>>
       ELSE IF ctrl.rd = ctrl.wr
       THEN UNCHANGED <<cpc, cctrl, first, count>>
       ELSE /\ cctrl' = ctrl
            /\ first' = ctrl.rd
            /\ count' = Succ(ctrl.wr, NumLcEvents - ctrl.rd)
            /\ cpc' = "apply"
  /\ UNCHANGED <<ctrlVars, prodVars, i, applied>>

(* A client's call looks up a descriptor or a client. *)
SyncCall == SyncLoad /\ UNCHANGED pokepc

(* io_run() receives the message of the poke thread, whose Lipc then       *)
(* enters its receive phase.                                               *)
SyncPoked == pokepc = "send" /\ pokepc' = "recv" /\ SyncLoad

(* One event; what applying it does is modelled in IoFd. *)
SyncApply ==
  /\ cpc = "apply"
  /\ applied' = Append(applied, slot[Succ(first, i)])
  /\ i' = i + 1
  /\ cpc' = IF i' = count THEN "cas" ELSE "apply"
  /\ UNCHANGED <<ctrlVars, prodVars, cctrl, first, count, pokepc>>

(* A mutation: everything up to the current write position is released. *)
SyncCasRelease ==
  /\ cpc = "cas"
  /\ IF ctrl = cctrl
       THEN /\ ctrl' = [rd |-> ctrl.wr, wr |-> ctrl.wr, overflow |-> 0]
            /\ cpc' = "idle"
            /\ cctrl' = NoCtrl /\ first' = 0 /\ count' = 0 /\ i' = 0
       ELSE cctrl' = ctrl /\ UNCHANGED <<ctrl, first, count, i, cpc>>
  /\ UNCHANGED <<slot, prodVars, applied, pokepc>>

(* One round of the do-while that releases the slots.  It keeps the write  *)
(* position it knows but not the overflow bit.                             *)
SyncCas ==
  /\ cpc = "cas"
  /\ IF ctrl = cctrl
       THEN /\ ctrl' = [rd |-> Succ(first, count), wr |-> cctrl.wr,
                        overflow |-> 0]
            /\ cpc' = "idle"
            /\ cctrl' = NoCtrl /\ first' = 0 /\ count' = 0 /\ i' = 0
       ELSE cctrl' = ctrl /\ UNCHANGED <<ctrl, first, count, i, cpc>>
  /\ UNCHANGED <<slot, prodVars, applied, pokepc>>

-----------------------------------------------------------------------------
HandlerStep == HandlerMark \/ HandlerFill \/ HandlerCas \/ HandlerPoke
SyncStep == SyncPoked \/ SyncApply \/ SyncCas

LcNext ==
  \/ \E tag \in LcTags : HandlerLoad(tag)
  \/ HandlerStep
  \/ SyncCall
  \/ SyncStep

LcSpec == LcInit /\ [][LcNext]_lcVars

-----------------------------------------------------------------------------
(* The control word, the ring and the threads' locals keep their types.    *)
LcTypeOK ==
  /\ ctrl \in Ctrl /\ pctrl \in Ctrl /\ cctrl \in Ctrl
  /\ slot \in [Positions -> 0..MaxEvents]
  /\ sent \in Seq(LcTags)
  /\ ppc \in {"idle", "mark", "fill", "cas", "poke"}
  /\ wrpos \in Positions /\ first \in Positions
  /\ poke \in BOOLEAN
  /\ cpc \in {"idle", "apply", "cas", "aborted"}
  /\ count \in 0..NumLcEvents - 1 /\ i \in 0..count
  /\ applied \in Seq(0..MaxEvents)
  /\ pokepc \in {"recv", "send"}
  /\ lost \subseteq Events

(* Until the ring has overflowed, the events are applied exactly once and  *)
(* in the order in which they happened, however the two threads' accesses  *)
(* to lce_ctrl interleave: fork, exec and exit of a process do not change  *)
(* places.                                                                 *)
AppliedInOrder ==
  lost = {} => applied = [k \in 1..Len(applied) |-> k]

(* Until then, too, the slots between the read and the write position hold *)
(* the events that are still to be released, oldest first, and the one     *)
(* that the producer is at work on is not among them: the consumer never   *)
(* reads a slot that is being written or has been reused.                  *)
SlotsIntact ==
  lost = {} =>
    \A k \in 0..NumLcEvents - 1 :
      k < Succ(ctrl.wr, NumLcEvents - ctrl.rd) =>
        /\ slot[Succ(ctrl.rd, k)] = Len(applied) - i + k + 1
        /\ ppc = "fill" => wrpos # Succ(ctrl.rd, k)

(* A process exit is applied without any client's help: the poke is either *)
(* delivered or merged into one that is still under way, and that one ends *)
(* in a lifecycle_sync() that sees the event (comment above poke_fn()).    *)
ExitGetsApplied ==
  \A e \in Events :
    (e <= Len(sent) /\ sent[e] = "MPL_EXIT")
      ~> (lost # {} \/ \E k \in DOMAIN applied : applied[k] = e)

(* The ring of lifecycle events in sys/io/io.c is intact.                  *)
LcIntact == LcTypeOK /\ AppliedInOrder /\ SlotsIntact
=============================================================================
