------------------------------ MODULE IoProofs ------------------------------
(***************************************************************************)
(* Proofs about the confirm and rollback handlers of module Rollback, for  *)
(* any set of senders and any number of calls, and about the pipe server   *)
(* of module Pipe, for any processes, pipe size and layout of descriptors. *)
(*                                                                         *)
(* RollbackExact is not inductive: it does not say which call a pending    *)
(* handler belongs to, nor that the context's one sender and tag are the   *)
(* ongoing call's when that call has set a handler.  RbInv adds this.      *)
(*                                                                         *)
(* StreamIntact and PipeWakes are not inductive either.  PipeInv says what *)
(* the pending confirm will do to the data, that a reply about to be made  *)
(* is about just this, that no-one sleeps while bytes are on their way in  *)
(* or out, that calls come through descriptors the server knows, and that  *)
(* a descriptor of the write end is in use or on its way out.              *)
(***************************************************************************)
EXTENDS Rollback, Pipe, SequenceTheorems, TLAPS

(* What the log says of a call.                                            *)
LoggedCall == [sender : Senders, tag : Tags, kind : Kinds]

(* The contexts that may belong to the first n calls.                      *)
Context(n) == [sender : Senders \cup {NilThread}, tag : Tags \cup {"none"},
               r : 0..n, c : 0..n]

(* A call that is being handled or answered has no outcome yet.            *)
OngoingIsOpen == pc # "wait" => Cur >= 1 /\ Cur \notin ok \cup failed

(* A pending confirm handler is that of a call which was answered, or of   *)
(* the one that is about to be.                                            *)
PendingConfirm ==
  ctx.c # 0 => /\ ctx.c \in Confirms
               /\ ctx.c \in ok \/ (pc = "reply" /\ ctx.c = Cur)

(* Until the reply is tried the context is that of the ongoing call, if    *)
(* the call has set a handler.                                             *)
OwnContext ==
  pc = "reply" =>
    /\ log[Cur].kind = "confirm" => ctx.c = Cur /\ Matches
    /\ log[Cur].kind = "rollback" => ctx.r = Cur /\ Matches

(* No confirm handler of an answered call is lost.                         *)
ConfirmKept == Confirms \cap ok \subseteq confirmed \cup {ctx.c}

RbInv ==
  RollbackExact /\ OngoingIsOpen /\ PendingConfirm /\ OwnContext /\ ConfirmKept

-----------------------------------------------------------------------------
(* The operations of OpKinds are of the kinds that the log speaks of.      *)
LEMMA OperationKinds == \A t \in Tags : OpKinds[t] \subseteq Kinds
BY DEF Tags, OpKinds, Kinds

(* A server that has received no call has nothing to confirm or undo.      *)
LEMMA InitRbInv == RbInit => RbInv
BY DEF RbInit, RbInv, RollbackExact, RbTypeOK, ConfirmMeansReplied,
       ConfirmBeforeNext, FailureIsUndone, OngoingIsOpen, PendingConfirm,
       OwnContext, ConfirmKept, Confirms, Rollbacks, Calls, Cur

(* Every step of the dispatch loop keeps the invariant.                    *)
LEMMA NextRbInv == RbInv /\ [RbNext]_rbVars => RbInv'
<1> SUFFICES ASSUME RbInv, [RbNext]_rbVars PROVE RbInv'
    OBVIOUS
<1> DEFINE n == Len(log)
<1>a. /\ n \in Nat /\ Cur = n /\ Calls = 1..n
      /\ log \in Seq(LoggedCall)
      /\ pc \in {"wait", "run", "reply"}
      /\ ok \subseteq 1..n /\ failed \subseteq 1..n
      /\ confirmed \subseteq 1..n /\ rolled \subseteq 1..n
  BY DEF RbInv, RollbackExact, RbTypeOK, Cur, Calls, LoggedCall
<1>e. /\ n \in Nat /\ Cur = n /\ ctx \in Context(n)
      /\ ctx.c \in 0..n /\ ctx.r \in 0..n /\ 0 \in 0..n
  BY DEF RbInv, RollbackExact, RbTypeOK, Context, Cur
<1>b. /\ confirmed \subseteq ok \cap Confirms /\ ctx.c \notin confirmed
      /\ pc = "reply" => Confirms \cap ok \subseteq confirmed
      /\ Rollbacks \cap failed \subseteq rolled /\ ctx.r \notin failed
      /\ pc # "wait" => n \in 1..n /\ n \notin ok \cup failed
      /\ ctx.c # 0 => /\ ctx.c \in Confirms
                      /\ ctx.c \in ok \/ (pc = "reply" /\ ctx.c = n)
      /\ pc = "reply" /\ log[n].kind = "confirm" => ctx.c = n /\ Matches
      /\ pc = "reply" /\ log[n].kind = "rollback" => ctx.r = n /\ Matches
      /\ Confirms \cap ok \subseteq confirmed \cup {ctx.c}
  BY <1>a DEF RbInv, RollbackExact, ConfirmMeansReplied, ConfirmBeforeNext,
              FailureIsUndone, OngoingIsOpen, PendingConfirm, OwnContext,
              ConfirmKept
<1>g. /\ confirmed \subseteq ok \cap Confirms
      /\ pc # "reply" /\ ctx.c # 0 => ctx.c \in ok \cap Confirms
      /\ Confirms \cap ok \subseteq confirmed \cup {ctx.c}
      /\ 0 \notin Confirms
  BY <1>a DEF RbInv, RollbackExact, ConfirmMeansReplied, PendingConfirm,
              ConfirmKept, Confirms
<1>c. /\ Confirms = {c \in 1..n : log[c].kind = "confirm"}
      /\ Rollbacks = {c \in 1..n : log[c].kind = "rollback"}
  BY <1>a DEF Confirms, Rollbacks
<1>d. ASSUME log' = log
      PROVE  /\ Cur' = n /\ Calls' = 1..n /\ Len(log') = n
             /\ Confirms' = Confirms /\ Rollbacks' = Rollbacks
  BY <1>d DEF Cur, Calls, Confirms, Rollbacks
<1>f. ASSUME log' = log, ctx' \in Context(n), pc' \in {"wait", "run", "reply"},
             ok' \subseteq 1..n, failed' \subseteq 1..n,
             confirmed' \subseteq 1..n, rolled' \subseteq 1..n
      PROVE  RbTypeOK'
  BY <1>a, <1>d, <1>f DEF RbTypeOK, Context, LoggedCall
<1> HIDE DEF n
<1>1. ASSUME NEW s \in Senders, NEW t \in Tags, NEW k \in OpKinds[t],
             Receive(s, t, k)
      PROVE  RbInv'
  <2>1. k \in Kinds
    BY OperationKinds
  <2>2. /\ log' = Append(log, [sender |-> s, tag |-> t, kind |-> k])
        /\ pc = "wait" /\ pc' = "run"
        /\ UNCHANGED <<ctx, ok, failed, confirmed, rolled>>
    BY <1>1 DEF Receive
  <2>3. /\ log' \in Seq(LoggedCall) /\ Len(log') = n + 1
        /\ \A c \in 1..n : log'[c] = log[c]
    <3>1. [sender |-> s, tag |-> t, kind |-> k] \in LoggedCall
      BY <2>1 DEF LoggedCall
    <3> QED
      BY <1>a, <2>2, <3>1 DEF n
  <2>4. /\ Cur' = n + 1 /\ Calls' = 1..(n + 1)
        /\ Confirms \subseteq Confirms'
        /\ \A c \in 1..n : c \in Confirms' => c \in Confirms
        /\ \A c \in 1..n : c \in Rollbacks' => c \in Rollbacks
    BY <1>a, <1>c, <2>3 DEF Cur, Calls, Confirms, Rollbacks
  <2>5. ctx \in Context(n + 1)
    BY <1>e DEF Context
  <2>6. RbTypeOK'
    BY <1>a, <2>2, <2>3, <2>4, <2>5 DEF RbTypeOK, Context, LoggedCall
  <2>7. /\ ConfirmMeansReplied' /\ ConfirmBeforeNext' /\ FailureIsUndone'
        /\ OngoingIsOpen' /\ PendingConfirm' /\ OwnContext' /\ ConfirmKept'
    <3>1. ConfirmMeansReplied' /\ ConfirmBeforeNext'
      BY <1>b, <2>2, <2>4 DEF ConfirmMeansReplied, ConfirmBeforeNext
    <3>2. FailureIsUndone'
      BY <1>a, <1>b, <2>2, <2>4 DEF FailureIsUndone
    <3>3. OngoingIsOpen' /\ PendingConfirm' /\ OwnContext'
      BY <1>a, <1>b, <2>2, <2>4 DEF OngoingIsOpen, PendingConfirm, OwnContext
    <3>4. ConfirmKept'
      BY <1>a, <1>g, <2>2, <2>4 DEF ConfirmKept
    <3> QED
      BY <3>1, <3>2, <3>3, <3>4
  <2> QED
    BY <2>6, <2>7 DEF RbInv, RollbackExact
<1>2. CASE HandleCall
  <2>1. /\ pc = "run" /\ n \in 1..n /\ n \notin ok \cup failed
        /\ log' = log /\ ok' = ok /\ failed' = failed /\ rolled' = rolled
        /\ confirmed' = confirmed \cup ({ctx.c} \ {0})
        /\ pc' \in {"wait", "reply"}
    BY <1>2, <1>a, <1>b DEF HandleCall, RunConfirm
  <2> DEFINE cx == [ctx EXCEPT !.c = 0]
  <2>2. cx \in Context(n) /\ cx.c = 0 /\ cx.r = ctx.r
    BY <1>e DEF Context
  <2>3. \/ /\ log[n].kind = "confirm" /\ ctx' = SetConfirm(cx)
        \/ /\ log[n].kind = "rollback" /\ ctx' = SetRollback(cx)
        \/ /\ log[n].kind \notin {"confirm", "rollback"} /\ ctx' = cx
    BY <1>2, <1>a DEF HandleCall, RbSynced
  <2> HIDE DEF cx
  <2>4. /\ ctx' \in Context(n)
        /\ ctx'.c = 0 \/ (ctx'.c = n /\ log[n].kind = "confirm")
        /\ ctx'.r = ctx.r \/ ctx'.r = n
        /\ log[n].kind = "confirm" => ctx'.c = n
        /\ log[n].kind = "rollback" => ctx'.r = n
        /\ log[n].kind \in {"confirm", "rollback"} =>
             ctx'.sender = log[n].sender /\ ctx'.tag = log[n].tag
    <3>1. log[n].sender \in Senders /\ log[n].tag \in Tags
      <4>1. log \in Seq(LoggedCall) /\ n = Len(log) /\ n \in 1..n
        BY <1>a, <2>1 DEF n
      <4>2. log[n] \in LoggedCall
        BY <4>1
      <4> QED
        BY <4>2 DEF LoggedCall
    <3>2. CASE log[n].kind = "confirm" /\ ctx' = SetConfirm(cx)
      <4>1. ctx' = [sender |-> log[n].sender, tag |-> log[n].tag,
                    r |-> ctx.r, c |-> n]
        BY <1>e, <2>2, <3>2 DEF SetConfirm, Context
      <4> QED
        BY <1>e, <2>1, <3>1, <3>2, <4>1 DEF Context
    <3>3. CASE log[n].kind = "rollback" /\ ctx' = SetRollback(cx)
      <4>1. ctx' = [sender |-> log[n].sender, tag |-> log[n].tag,
                    r |-> n, c |-> 0]
        BY <1>e, <2>2, <3>3 DEF SetRollback, Context
      <4> QED
        BY <1>e, <2>1, <3>1, <3>3, <4>1 DEF Context
    <3>4. CASE log[n].kind \notin {"confirm", "rollback"} /\ ctx' = cx
      BY <2>2, <3>4
    <3> QED
      BY <2>3, <3>2, <3>3, <3>4
  <2>5. confirmed' \subseteq ok \cap Confirms /\ Confirms \cap ok \subseteq confirmed'
    BY <1>g, <2>1
  <2>6. ctx'.c \notin confirmed'
    BY <1>a, <2>1, <2>4, <2>5
  <2>7. RbTypeOK'
    BY <1>a, <1>f, <2>1, <2>4, <2>5
  <2>8. /\ ConfirmMeansReplied' /\ ConfirmBeforeNext' /\ FailureIsUndone'
        /\ OngoingIsOpen' /\ ConfirmKept'
    BY <1>a, <1>b, <1>d, <2>1, <2>4, <2>5, <2>6
       DEF ConfirmMeansReplied, ConfirmBeforeNext, FailureIsUndone,
           OngoingIsOpen, ConfirmKept
  <2>9. pc' = "wait" => log[n].kind = "noreply"
    BY <1>2, <1>a DEF HandleCall
  <2>10. PendingConfirm' /\ OwnContext'
    BY <1>a, <1>c, <1>d, <2>1, <2>4, <2>9 DEF PendingConfirm, OwnContext, Matches
  <2> QED
    BY <2>7, <2>8, <2>10 DEF RbInv, RollbackExact
<1>3. CASE ReplyOk
  <2>1. /\ pc = "reply" /\ pc' = "wait" /\ ok' = ok \cup {n}
        /\ UNCHANGED <<ctx, log, failed, confirmed, rolled>>
    BY <1>3, <1>a DEF ReplyOk
  <2>2. RbTypeOK'
    BY <1>a, <1>b, <1>e, <1>f, <2>1
  <2>3. /\ ConfirmMeansReplied' /\ ConfirmBeforeNext' /\ FailureIsUndone'
        /\ OngoingIsOpen' /\ PendingConfirm' /\ OwnContext' /\ ConfirmKept'
    BY <1>a, <1>b, <1>c, <1>d, <2>1
       DEF ConfirmMeansReplied, ConfirmBeforeNext, FailureIsUndone,
           OngoingIsOpen, PendingConfirm, OwnContext, ConfirmKept
  <2> QED
    BY <2>2, <2>3 DEF RbInv, RollbackExact
<1>4. CASE ReplyFail
  <2>1. /\ pc = "reply" /\ pc' = "wait" /\ log' = log
        /\ ok' = ok /\ failed' = failed \cup {n} /\ confirmed' = confirmed
        /\ rolled' = IF Matches THEN rolled \cup ({ctx.r} \ {0}) ELSE rolled
        /\ n \in 1..n /\ 0 \in 0..n /\ ctx.c \in 0..n /\ ctx.r \in 0..n
    BY <1>4, <1>b, <1>e DEF ReplyFail
  <2>2. /\ ctx' \in Context(n) /\ ctx'.r = 0
        /\ ctx'.c = IF Matches THEN 0 ELSE ctx.c
    BY <1>4, <1>e DEF ReplyFail, Context
  <2>3. RbTypeOK'
    <3>1. failed' \subseteq 1..n /\ rolled' \subseteq 1..n
      <4>1. ctx.r # 0 => ctx.r \in 1..n
        BY <2>1
      <4> QED
        BY <1>a, <2>1, <4>1
    <3> QED
      BY <1>a, <1>f, <2>1, <2>2, <3>1
  <2>4. /\ ConfirmMeansReplied' /\ ConfirmBeforeNext' /\ ConfirmKept'
        /\ OngoingIsOpen' /\ OwnContext'
    BY <1>a, <1>b, <1>d, <2>1, <2>2
       DEF ConfirmMeansReplied, ConfirmBeforeNext, ConfirmKept,
           OngoingIsOpen, OwnContext
  <2>5. FailureIsUndone' /\ PendingConfirm'
    BY <1>a, <1>b, <1>c, <1>d, <2>1, <2>2 DEF FailureIsUndone, PendingConfirm
  <2> QED
    BY <2>3, <2>4, <2>5 DEF RbInv, RollbackExact
<1>5. ASSUME pc = "wait", RunConfirm(ctx), ctx' \in Context(n), ctx'.c = 0,
             ctx'.r = 0 \/ ctx'.r = ctx.r,
             UNCHANGED <<log, pc, ok, failed, rolled>>
      PROVE  RbInv'
  <2>1. confirmed' = confirmed \cup ({ctx.c} \ {0})
    BY <1>5 DEF RunConfirm
  <2>2. confirmed' \subseteq ok \cap Confirms /\ Confirms \cap ok \subseteq confirmed'
    BY <1>5, <1>g, <2>1
  <2>3. RbTypeOK'
    BY <1>5, <1>a, <1>f, <2>2
  <2>4. /\ ConfirmMeansReplied' /\ ConfirmBeforeNext' /\ FailureIsUndone'
        /\ OngoingIsOpen' /\ PendingConfirm' /\ OwnContext' /\ ConfirmKept'
    BY <1>5, <1>a, <1>b, <1>d, <2>2
       DEF ConfirmMeansReplied, ConfirmBeforeNext, FailureIsUndone,
           OngoingIsOpen, PendingConfirm, OwnContext, ConfirmKept
  <2> QED
    BY <2>3, <2>4 DEF RbInv, RollbackExact
<1>6. CASE ReceiveFail
  <2> DEFINE cx == [ctx EXCEPT !.c = 0]
  <2>1. cx \in Context(n) /\ cx.c = 0 /\ 0 \in 0..n
    BY <1>e DEF Context
  <2>2. ctx' = [cx EXCEPT !.r = 0]
    BY <1>6 DEF ReceiveFail, RbSynced
  <2> HIDE DEF cx
  <2>3. ctx' \in Context(n) /\ ctx'.c = 0 /\ ctx'.r = 0
    BY <2>1, <2>2 DEF Context
  <2> QED
    BY <1>5, <1>6, <2>3 DEF ReceiveFail
<1>7. CASE RbPoke
  <2>1. ctx' \in Context(n) /\ ctx'.c = 0 /\ ctx'.r = ctx.r
    BY <1>7, <1>e DEF RbPoke, RbSynced, Context
  <2> QED
    BY <1>5, <1>7, <2>1 DEF RbPoke
<1>8. CASE UNCHANGED rbVars
  BY <1>8 DEF rbVars, RbInv, RollbackExact, RbTypeOK, ConfirmMeansReplied,
              ConfirmBeforeNext, FailureIsUndone, OngoingIsOpen,
              PendingConfirm, OwnContext, ConfirmKept, Confirms, Rollbacks,
              Calls, Cur, Matches
<1> QED
  BY <1>1, <1>2, <1>3, <1>4, <1>6, <1>7, <1>8 DEF RbNext

(***************************************************************************)
(* What lib/rollback.c promises: a confirm handler runs at most once and   *)
(* only for a call whose reply went out, before the next operation works   *)
(* on the same state; a rollback handler runs for every failed reply.      *)
(***************************************************************************)
THEOREM RollbackIsExact == RbSpec => []RollbackExact
<1>1. RbInv => RollbackExact
  BY DEF RbInv
<1> QED
  BY <1>1, InitRbInv, NextRbInv, PTL DEF RbSpec

-----------------------------------------------------------------------------
(* Bytes are counted around a circle of PipeSz + 1 numbers.                *)
LEMMA PlusCases ==
  ASSUME NEW b \in Byte, NEW n \in 0..PipeSz
  PROVE  /\ Plus(b, n) \in Byte
         /\ Plus(b, n) = IF b + n <= PipeSz THEN b + n ELSE b + n - (PipeSz + 1)
<1> DEFINE M == PipeSz + 1
<1>1. PipeSz \in Nat /\ M \in Nat /\ M > 0 /\ b \in Nat /\ n \in Nat /\ b < M /\ n < M
  BY PipeAssumption DEF Byte
<1>2. ASSUME NEW x \in Nat, x < 2 * M
      PROVE  x % M = IF x < M THEN x ELSE x - M
  BY <1>1, <1>2
<1>3. Plus(b, n) = IF b + n < M THEN b + n ELSE b + n - M
  BY <1>1, <1>2 DEF Plus
<1> QED
  BY <1>1, <1>3 DEF Byte

(* The next n bytes of the stream, as a sequence of that length.           *)
LEMMA FromBytes ==
  ASSUME NEW b \in Byte, NEW n \in 0..PipeSz
  PROVE  /\ From(b, n) \in Seq(Byte) /\ Len(From(b, n)) = n
         /\ \A i \in 1..n : From(b, n)[i] = Plus(b, i - 1)
<1>1. PipeSz \in Nat /\ n \in Nat
  BY PipeAssumption
<1>2. \A i \in 1..n : i - 1 \in 0..PipeSz /\ b + i - 1 = b + (i - 1)
  BY <1>1 DEF Byte
<1>3. \A i \in 1..n : (b + i - 1) % (PipeSz + 1) = Plus(b, i - 1) /\ Plus(b, i - 1) \in Byte
  BY <1>2, PlusCases DEF Plus
<1>4. From(b, n) \in [1..n -> Byte]
  BY <1>3 DEF From
<1>5. From(b, n) \in Seq(Byte) /\ Len(From(b, n)) = n
  BY <1>1, <1>4, IsASeq, LenProperties
<1> QED
  BY <1>3, <1>5 DEF From

(* One stretch of the stream follows another.                              *)
LEMMA PlusPlus ==
  ASSUME NEW b \in Byte, NEW n \in 0..PipeSz, NEW m \in 0..PipeSz, n + m <= PipeSz
  PROVE  Plus(Plus(b, n), m) = Plus(b, n + m)
<1>1. PipeSz \in Nat /\ b \in Nat /\ b <= PipeSz /\ n + m \in 0..PipeSz /\ n \in Nat /\ m \in Nat
  BY PipeAssumption DEF Byte
<1>2. /\ Plus(b, n) \in Byte /\ Plus(b, n) \in Nat
      /\ Plus(b, n) = IF b + n <= PipeSz THEN b + n ELSE b + n - (PipeSz + 1)
  BY PlusCases DEF Byte
<1>3. Plus(b, n + m) = IF b + (n + m) <= PipeSz THEN b + (n + m) ELSE b + (n + m) - (PipeSz + 1)
  BY <1>1, PlusCases
<1>4. Plus(Plus(b, n), m) = IF Plus(b, n) + m <= PipeSz THEN Plus(b, n) + m ELSE Plus(b, n) + m - (PipeSz + 1)
  BY <1>2, PlusCases
<1> QED
  BY <1>1, <1>2, <1>3, <1>4

(* The n bytes from b on and the m after them are n + m from b on: what    *)
(* writes append is where the data left off.                               *)
LEMMA FromJoined ==
  ASSUME NEW b \in Byte, NEW n \in 0..PipeSz, NEW m \in 0..PipeSz, n + m <= PipeSz
  PROVE  From(b, n) \o From(Plus(b, n), m) = From(b, n + m)
<1>1. PipeSz \in Nat /\ n + m \in 0..PipeSz /\ Plus(b, n) \in Byte
  BY PipeAssumption, PlusCases
<1> DEFINE x == From(b, n)
<1> DEFINE y == From(Plus(b, n), m)
<1> DEFINE z == From(b, n + m)
<1>2. /\ x \in Seq(Byte) /\ Len(x) = n /\ \A i \in 1..n : x[i] = Plus(b, i - 1)
      /\ y \in Seq(Byte) /\ Len(y) = m /\ \A i \in 1..m : y[i] = Plus(Plus(b, n), i - 1)
      /\ z \in Seq(Byte) /\ Len(z) = n + m /\ \A i \in 1..(n + m) : z[i] = Plus(b, i - 1)
  BY <1>1, FromBytes
<1> HIDE DEF x, y, z
<1>3. ASSUME NEW i \in 1..m PROVE y[i] = z[n + i]
  <2>1. i - 1 \in 0..PipeSz /\ n + (i - 1) <= PipeSz /\ n + i \in 1..(n + m) /\ n + i - 1 = n + (i - 1)
    BY <1>1
  <2> QED
    BY <1>2, <2>1, PlusPlus
<1>4. /\ x \o y \in Seq(Byte) /\ Len(x \o y) = n + m
      /\ \A i \in 1..(n + m) : (x \o y)[i] = IF i <= n THEN x[i] ELSE y[i - n]
  BY <1>1, <1>2, ConcatProperties
<1>5. ASSUME NEW i \in 1..(n + m) PROVE (x \o y)[i] = z[i]
  <2>1. CASE i <= n
    BY <1>1, <1>2, <1>4, <2>1
  <2>2. CASE ~(i <= n)
    <3>1. i - n \in 1..m /\ n + (i - n) = i
      BY <1>1, <2>2
    <3>2. y[i - n] = z[n + (i - n)]
      BY <1>3, <3>1
    <3> QED
      BY <1>4, <2>2, <3>1, <3>2
  <2> QED
    BY <2>1, <2>2
<1>6. x \o y = z
  BY <1>1, <1>2, <1>4, <1>5, SeqEqual
<1> QED
  BY <1>6 DEF x, y, z

(* Taking k bytes off the front leaves the stretch that begins k later:    *)
(* what reads remove is what they returned.                                *)
LEMMA FromSplit ==
  ASSUME NEW b \in Byte, NEW n \in 0..PipeSz, NEW k \in 0..n
  PROVE  /\ SubSeq(From(b, n), 1, k) = From(b, k)
         /\ SubSeq(From(b, n), k + 1, n) = From(Plus(b, k), n - k)
<1>1. PipeSz \in Nat /\ k \in 0..PipeSz /\ n - k \in 0..PipeSz /\ k + (n - k) = n /\ k + (n - k) <= PipeSz
      /\ Plus(b, k) \in Byte
  BY PipeAssumption, PlusCases
<1> DEFINE x == From(b, k)
<1> DEFINE y == From(Plus(b, k), n - k)
<1>2. x \in Seq(Byte) /\ Len(x) = k /\ y \in Seq(Byte) /\ Len(y) = n - k
  BY <1>1, FromBytes
<1>3. From(b, n) = x \o y
  BY ZenonT(40), <1>1, FromJoined
<1> HIDE DEF x, y
<1>4. SubSeq(x \o y, 1, k) = x /\ SubSeq(x \o y, k + 1, n) = y
  BY <1>1, <1>2
<1> QED
  BY <1>3, <1>4 DEF x, y

-----------------------------------------------------------------------------
Calling(t) == t.pc \in {"send", "await"}
Closing(t, e) == Calling(t) /\ t.op = "close" /\ t.end = e

(* A state r of the server in which the descriptors `out' of s are gone:   *)
(* when they were the last writers', readers have been told.               *)
Dropped(s, r, out) ==
  /\ r \in ServerState /\ r.data = s.data /\ r.start = s.start
  /\ \A e \in End : \A p \in Proc : p \in r.ends[e] <=> p \in s.ends[e] /\ <<p, e>> \notin out
  /\ r.ends["w"] # {} => r.th = s.th
  /\ \A p \in Proc : r.th[p] = s.th[p] \/ (s.th[p].pc = "await" /\ r.th[p] = Eagain(s.th[p]))
  /\ \A p \in Proc : r.th[p].pc = "await" =>
       (p \in r.asleep <=> p \in s.asleep) /\ (p \in r.writing <=> p \in s.writing)
  /\ s.ends["w"] # {} /\ r.ends["w"] = {} =>
       \A p \in r.ends["r"] : ~(r.th[p].pc = "await" /\ p \in r.asleep /\ p \notin r.writing)

(* The types of the server's fields.                                       *)
LEMMA StateFields ==
  ASSUME NEW s \in ServerState
  PROVE  /\ s.data \in Seq(Byte) /\ Len(s.data) \in Nat /\ s.start \in 0..PipeSz
         /\ s.ends \in [End -> SUBSET Proc] /\ s.asleep \in SUBSET Proc
         /\ s.writing \in SUBSET Proc /\ s.th \in [Proc -> Thread]
         /\ \A p \in Proc : s.th[p] \in Thread
BY DEF ServerState

(* A woken client is no longer in receive phase; it repeats read() and     *)
(* write() as they were, and never close().                                *)
LEMMA EagainThread ==
  ASSUME NEW t \in Thread
  PROVE  /\ Eagain(t) \in Thread /\ Eagain(t).pc # "await"
         /\ Calling(Eagain(t)) => /\ Eagain(t).op = t.op /\ Eagain(t).end = t.end /\ Eagain(t).n = t.n
                                  /\ t.op # "close"
         /\ t.op \in {"read", "write"} => Calling(Eagain(t))
<1>1. MaxChunk \in Nat
  BY PipeAssumption
<1>2. CASE t.op \in {"read", "write"}
  <2>1. Eagain(t) = [t EXCEPT !.pc = "send"]
    BY <1>2 DEF Eagain
  <2> QED
    BY <1>2, <2>1 DEF Thread, Calling
<1>3. CASE t.op \notin {"read", "write"}
  <2>1. Eagain(t) = PipeIdle
    BY <1>3 DEF Eagain
  <2>2. PipeIdle \in Thread /\ PipeIdle.pc = "idle"
    BY <1>1 DEF PipeIdle, Thread, Op, End
  <2> QED
    BY <1>3, <2>1, <2>2 DEF Calling
<1> QED
  BY <1>2, <1>3

(* io_notify() wakes whoever sleeps for the event, and changes nothing     *)
(* else.                                                                   *)
LEMMA Notified ==
  ASSUME NEW s \in ServerState, NEW e \in End, NEW mask
  PROVE  LET r == io_notify(s, e, mask)
         IN  /\ r \in ServerState /\ r.data = s.data /\ r.start = s.start /\ r.ends = s.ends
             /\ \A p \in Proc :
                  IF p \in s.ends[e] /\ MaybeUnblock(s, p, mask)
                  THEN r.th[p] = Eagain(s.th[p]) /\ s.th[p].pc = "await" /\ r.th[p].pc # "await"
                  ELSE /\ r.th[p] = s.th[p] /\ (p \in r.asleep <=> p \in s.asleep)
                       /\ (p \in r.writing <=> p \in s.writing)
<1> DEFINE woken == {p \in s.ends[e] : MaybeUnblock(s, p, mask)}
<1> DEFINE th == [p \in Proc |-> IF p \in woken THEN Eagain(s.th[p]) ELSE s.th[p]]
<1> DEFINE r == io_notify(s, e, mask)
<1>1. /\ s.ends[e] \subseteq Proc /\ s.asleep \in SUBSET Proc /\ s.writing \in SUBSET Proc
      /\ \A p \in Proc : s.th[p] \in Thread
  BY StateFields
<1>2. th \in [Proc -> Thread]
  BY <1>1, EagainThread
<1>3. r = [s EXCEPT !.asleep = s.asleep \ woken, !.writing = s.writing \ woken, !.th = th]
  BY DEF io_notify, ServerState
<1> HIDE DEF th, r
<1>4. /\ r \in ServerState /\ r.data = s.data /\ r.start = s.start /\ r.ends = s.ends
      /\ r.asleep = s.asleep \ woken /\ r.writing = s.writing \ woken /\ r.th = th
  <2> HIDE DEF woken
  <2>1. s.asleep \ woken \in SUBSET Proc /\ s.writing \ woken \in SUBSET Proc
    BY <1>1
  <2> QED
    BY <1>2, <1>3, <2>1 DEF ServerState
<1>5. ASSUME NEW p \in Proc
      PROVE  IF p \in s.ends[e] /\ MaybeUnblock(s, p, mask)
             THEN r.th[p] = Eagain(s.th[p]) /\ s.th[p].pc = "await" /\ r.th[p].pc # "await"
             ELSE /\ r.th[p] = s.th[p] /\ (p \in r.asleep <=> p \in s.asleep)
                  /\ (p \in r.writing <=> p \in s.writing)
  <2>1. CASE p \in woken
    BY <1>1, <1>4, <2>1, EagainThread DEF th, MaybeUnblock
  <2>2. CASE p \notin woken
    BY <1>4, <2>2 DEF th
  <2> QED
    BY <2>1, <2>2
<1> QED
  BY <1>4, <1>5 DEF r

(* fd_dtor() drops the one descriptor.                                     *)
LEMMA FdDtorDrops ==
  ASSUME NEW s \in ServerState, NEW q \in Proc, NEW e \in End
  PROVE  Dropped(s, fd_dtor(s, q, e), {<<q, e>>})
<1> DEFINE g == [s EXCEPT !.ends[e] = @ \ {q}]
<1>1. /\ g \in ServerState /\ g.data = s.data /\ g.start = s.start /\ g.th = s.th
      /\ g.asleep = s.asleep /\ g.writing = s.writing
      /\ \A f \in End : g.ends[f] = IF f = e THEN s.ends[f] \ {q} ELSE s.ends[f]
  BY DEF ServerState
<1>2. \A f \in End : \A p \in Proc : p \in g.ends[f] <=> p \in s.ends[f] /\ <<p, f>> \notin {<<q, e>>}
  BY <1>1
<1>3. fd_dtor(s, q, e) = IF q \in s.ends[e] /\ g.ends[e] = {} THEN pipe_close(g, e) ELSE g
  BY DEF fd_dtor
<1> HIDE DEF g
<1>4. CASE q \in s.ends[e] /\ g.ends[e] = {} /\ e = "w" /\ g.ends["r"] # {}
  <2> DEFINE r == io_notify(g, "r", "HUP")
  <2>1. fd_dtor(s, q, e) = r
    BY <1>3, <1>4 DEF pipe_close
  <2>2. /\ r \in ServerState /\ r.data = g.data /\ r.start = g.start /\ r.ends = g.ends
        /\ \A p \in Proc :
             IF p \in g.ends["r"] /\ MaybeUnblock(g, p, "HUP")
             THEN r.th[p] = Eagain(g.th[p]) /\ g.th[p].pc = "await" /\ r.th[p].pc # "await"
             ELSE /\ r.th[p] = g.th[p] /\ (p \in r.asleep <=> p \in g.asleep)
                  /\ (p \in r.writing <=> p \in g.writing)
    BY <1>1, Notified DEF End
  <2> HIDE DEF r
  <2>3. \A p \in r.ends["r"] : ~(r.th[p].pc = "await" /\ p \in r.asleep /\ p \notin r.writing)
    <3>1. \A p \in r.ends["r"] : p \in Proc
      BY <2>2, StateFields DEF End
    <3> QED
      BY <2>2, <3>1 DEF MaybeUnblock
  <2>4. r.ends["w"] = {}
    BY <1>4, <2>2
  <2> QED
    BY <1>1, <1>2, <2>1, <2>2, <2>3, <2>4 DEF Dropped
<1>5. CASE ~(q \in s.ends[e] /\ g.ends[e] = {} /\ e = "w" /\ g.ends["r"] # {})
  <2>1. fd_dtor(s, q, e) = g
    BY <1>3, <1>5 DEF pipe_close
  <2>2. s.ends["w"] # {} /\ g.ends["w"] = {} => g.ends["r"] = {}
    BY <1>1, <1>5 DEF End
  <2> QED
    BY <1>1, <1>2, <2>1, <2>2 DEF Dropped
<1> QED
  BY <1>4, <1>5

(* client_dtor() drops every descriptor of clients that are gone.          *)
LEMMA ClientDtorDrops ==
  ASSUME NEW s \in ServerState, NEW gone \in SUBSET Proc,
         \A p \in gone : s.th[p].pc # "await"
  PROVE  Dropped(s, client_dtor(s, gone), gone \X End)
<1> DEFINE g == [s EXCEPT !.ends = [e \in End |-> s.ends[e] \ gone],
                          !.asleep = s.asleep \ gone, !.writing = s.writing \ gone]
<1>1. /\ g \in ServerState /\ g.data = s.data /\ g.start = s.start /\ g.th = s.th
      /\ g.asleep = s.asleep \ gone /\ g.writing = s.writing \ gone
      /\ \A f \in End : g.ends[f] = s.ends[f] \ gone
  BY DEF ServerState
<1>2. \A f \in End : \A p \in Proc : p \in g.ends[f] <=> p \in s.ends[f] /\ <<p, f>> \notin gone \X End
  BY <1>1
<1>3. client_dtor(s, gone) = IF s.ends["w"] # {} /\ g.ends["w"] = {} THEN pipe_close(g, "w") ELSE g
  BY DEF client_dtor, ServerState
<1> HIDE DEF g
<1>a. \A p \in Proc : g.th[p].pc = "await" =>
       (p \in g.asleep <=> p \in s.asleep) /\ (p \in g.writing <=> p \in s.writing)
  BY <1>1
<1>4. CASE s.ends["w"] # {} /\ g.ends["w"] = {} /\ g.ends["r"] # {}
  <2> DEFINE r == io_notify(g, "r", "HUP")
  <2>1. client_dtor(s, gone) = r
    BY <1>3, <1>4 DEF pipe_close
  <2>2. /\ r \in ServerState /\ r.data = g.data /\ r.start = g.start /\ r.ends = g.ends
        /\ \A p \in Proc :
             IF p \in g.ends["r"] /\ MaybeUnblock(g, p, "HUP")
             THEN r.th[p] = Eagain(g.th[p]) /\ g.th[p].pc = "await" /\ r.th[p].pc # "await"
             ELSE /\ r.th[p] = g.th[p] /\ (p \in r.asleep <=> p \in g.asleep)
                  /\ (p \in r.writing <=> p \in g.writing)
    BY <1>1, Notified DEF End
  <2> HIDE DEF r
  <2>3. \A p \in r.ends["r"] : ~(r.th[p].pc = "await" /\ p \in r.asleep /\ p \notin r.writing)
    <3>1. \A p \in r.ends["r"] : p \in Proc
      BY <2>2, StateFields DEF End
    <3> QED
      BY <2>2, <3>1 DEF MaybeUnblock
  <2>4. r.ends["w"] = {}
    BY <1>4, <2>2
  <2> QED
    BY <1>1, <1>2, <1>a, <2>1, <2>2, <2>3, <2>4 DEF Dropped
<1>5. CASE ~(s.ends["w"] # {} /\ g.ends["w"] = {} /\ g.ends["r"] # {})
  <2>1. client_dtor(s, gone) = g
    BY <1>3, <1>5 DEF pipe_close
  <2> QED
    BY <1>1, <1>2, <1>5, <1>a, <2>1 DEF Dropped
<1> QED
  BY <1>4, <1>5

-----------------------------------------------------------------------------
(* A writer that wants any room finds none: the data reaches the end of    *)
(* the buffer and is too much to be moved.                                 *)
Clogged(s) == s.start + Len(s.data) = PipeSz /\ 2 * Len(s.data) >= PipeSz

(* Those in receive phase, but for x who is being served, are known to     *)
(* sleep, and have a reason to.                                            *)
SleepersKnown(s, x) ==
  \A p \in Proc : s.th[p].pc = "await" /\ p # x =>
    /\ p \in s.asleep /\ s.th[p].op \in {"read", "write"}
    /\ p \in s.writing <=> s.th[p].op = "write"
    /\ s.th[p].op = "read" => s.data = <<>> /\ s.ends["w"] # {}
    /\ s.th[p].op = "write" => Clogged(s)

NoneAsleep(s, x) == \A p \in Proc : s.th[p].pc = "await" => p = x

(* Calls are made through open descriptors, which the server knows, and    *)
(* also those that are being closed.                                       *)
WellCalled(s) ==
  \A p \in Proc : Calling(s.th[p]) =>
    /\ s.th[p].op = "read" => s.th[p].end = "r" /\ s.th[p].n > 0 /\ p \in open["r"]
    /\ s.th[p].op = "write" => s.th[p].end = "w" /\ s.th[p].n > 0 /\ p \in open["w"]
    /\ s.th[p].op = "close" => p \notin open[s.th[p].end] /\ p \in s.ends[s.th[p].end]
Held(s) == \A e \in End : \A p \in Proc : p \in open[e] => p \in s.ends[e]

(* Dropping descriptors nobody uses leaves sleepers with a reason to       *)
(* sleep: a reader whose last writer went has been woken.                  *)
LEMMA DropKeeps ==
  ASSUME NEW s \in ServerState, NEW r, NEW out, NEW x, Dropped(s, r, out),
         SleepersKnown(s, x), WellCalled(s), Held(s),
         \A p \in Proc, e \in End : <<p, e>> \in out => p \notin open[e] /\ ~Closing(s.th[p], e)
  PROVE  SleepersKnown(r, x) /\ WellCalled(r) /\ Held(r)
<1>a. /\ r \in ServerState /\ r.data = s.data /\ r.start = s.start
      /\ \A e \in End : \A p \in Proc : p \in r.ends[e] <=> p \in s.ends[e] /\ <<p, e>> \notin out
      /\ \A p \in Proc : r.th[p] = s.th[p] \/ (s.th[p].pc = "await" /\ r.th[p] = Eagain(s.th[p]))
      /\ \A p \in Proc : r.th[p].pc = "await" =>
           (p \in r.asleep <=> p \in s.asleep) /\ (p \in r.writing <=> p \in s.writing)
      /\ s.ends["w"] # {} /\ r.ends["w"] = {} =>
           \A p \in r.ends["r"] : ~(r.th[p].pc = "await" /\ p \in r.asleep /\ p \notin r.writing)
  BY DEF Dropped
<1>b. \A p \in Proc : s.th[p] \in Thread /\ s.th[p].end \in End
  BY StateFields DEF Thread
<1>1. Held(r)
  BY <1>a DEF Held
<1>2. WellCalled(r)
  <2> SUFFICES ASSUME NEW p \in Proc, Calling(r.th[p])
               PROVE  /\ r.th[p].op = "read" => r.th[p].end = "r" /\ r.th[p].n > 0 /\ p \in open["r"]
                      /\ r.th[p].op = "write" => r.th[p].end = "w" /\ r.th[p].n > 0 /\ p \in open["w"]
                      /\ r.th[p].op = "close" => p \notin open[r.th[p].end] /\ p \in r.ends[r.th[p].end]
      BY DEF WellCalled
  <2>1. /\ Calling(s.th[p]) /\ r.th[p].op = s.th[p].op /\ r.th[p].end = s.th[p].end /\ r.th[p].n = s.th[p].n
    BY <1>a, <1>b, EagainThread DEF Calling
  <2> QED
    BY ZenonT(40), <1>a, <1>b, <2>1 DEF WellCalled, Closing
<1>3. SleepersKnown(r, x)
  <2> SUFFICES ASSUME NEW p \in Proc, r.th[p].pc = "await", p # x
               PROVE  /\ p \in r.asleep /\ r.th[p].op \in {"read", "write"}
                      /\ p \in r.writing <=> r.th[p].op = "write"
                      /\ r.th[p].op = "read" => r.data = <<>> /\ r.ends["w"] # {}
                      /\ r.th[p].op = "write" => Clogged(r)
      BY DEF SleepersKnown
  <2>1. r.th[p] = s.th[p]
    BY <1>a, <1>b, EagainThread
  <2>2. /\ p \in s.asleep /\ s.th[p].op \in {"read", "write"}
        /\ p \in s.writing <=> s.th[p].op = "write"
        /\ s.th[p].op = "read" => s.data = <<>> /\ s.ends["w"] # {}
        /\ s.th[p].op = "write" => Clogged(s)
    BY <2>1 DEF SleepersKnown
  <2>3. /\ p \in r.asleep /\ (p \in r.writing <=> p \in s.writing)
    BY <1>a, <2>2
  <2>4. r.th[p].op = "read" => r.ends["w"] # {}
    <3>1. SUFFICES ASSUME r.th[p].op = "read", r.ends["w"] = {} PROVE FALSE
      OBVIOUS
    <3>2. p \in open["r"]
      BY <1>2, <3>1 DEF WellCalled, Calling
    <3>3. p \in r.ends["r"]
      BY <1>1, <3>2 DEF Held, End
    <3> QED
      BY <1>a, <2>1, <2>2, <2>3, <3>1, <3>3
  <2> QED
    BY <1>a, <2>1, <2>2, <2>3, <2>4 DEF Clogged
<1> QED
  BY <1>1, <1>2, <1>3

-----------------------------------------------------------------------------
(* The data is what follows the bytes that were read, up to the last that  *)
(* was written, and lies within the buffer.                                *)
Stream(s) ==
  /\ s.data = From(received, Len(s.data)) /\ Plus(received, Len(s.data)) = sent
  /\ s.start + Len(s.data) <= PipeSz

(* The pending confirm can be done.                                        *)
ConfirmFits(s, c) ==
  /\ c.bytes \in Seq(Byte) /\ Len(c.bytes) \in Nat
  /\ c.kind \in {"read", "write"} => Len(c.bytes) > 0
  /\ c.kind = "read" => Len(c.bytes) <= Len(s.data)
  /\ c.kind = "write" => s.start + Len(s.data) + Len(c.bytes) <= PipeSz
  /\ c.kind = "close" => /\ c.proc \in Proc /\ c.end \in End
                         /\ c.proc \notin open[c.end] /\ ~Closing(s.th[c.proc], c.end)

(* Every descriptor of the write end is in use, or on its way out.         *)
OnTheWay(s, c, gone) ==
  \A q \in s.ends["w"] :
    \/ q \in open["w"] \/ q \in gone \/ Closing(s.th[q], "w")
    \/ c.kind = "close" /\ c.proc = q /\ c.end = "w"

(* What handlers find when sync_confirm() and lifecycle_sync() are done.   *)
LEMMA SyncedState ==
  ASSUME NEW a \in ServerState, NEW x,
         exits \in Seq(Proc), \A q \in ToSet(exits) : a.th[q].pc = "dead" /\ q \notin open["r"] /\ q \notin open["w"],
         pipeConfirm.kind \in {"none", "read", "write", "close"},
         ConfirmFits(a, pipeConfirm), Stream(pipe_confirm(a, pipeConfirm)),
         SleepersKnown(a, x), WellCalled(a), Held(a),
         pipeConfirm.kind \in {"read", "write"} => NoneAsleep(a, x),
         OnTheWay(a, pipeConfirm, ToSet(exits))
  PROVE  LET r == Synced(a)
         IN  /\ r \in ServerState /\ Stream(r)
             /\ SleepersKnown(r, x) /\ WellCalled(r) /\ Held(r)
             /\ OnTheWay(r, NoPipeConfirm, {})
             /\ \A p \in Proc : r.th[p] = a.th[p] \/ (a.th[p].pc = "await" /\ r.th[p] = Eagain(a.th[p]))
             /\ r.ends["w"] # {} => r.th = a.th
<1> DEFINE b == pipe_confirm(a, pipeConfirm)
<1> DEFINE gone == ToSet(exits)
<1> DEFINE r == Synced(a)
<1>a. gone \in SUBSET Proc /\ \A q \in gone : a.th[q].pc = "dead"
  BY DEF ToSet
<1>b. PipeSz \in Nat \ {0}
  BY PipeAssumption
<1>1. /\ b \in ServerState /\ SleepersKnown(b, x) /\ WellCalled(b) /\ Held(b)
      /\ OnTheWay(b, NoPipeConfirm, gone)
      /\ \A p \in Proc : b.th[p] = a.th[p] \/ (a.th[p].pc = "await" /\ b.th[p] = Eagain(a.th[p]))
      /\ b.ends["w"] # {} => b.th = a.th
  <2>1. CASE pipeConfirm.kind = "close"
    <3> DEFINE q == pipeConfirm.proc
    <3> DEFINE e == pipeConfirm.end
    <3>1. b = fd_dtor(a, q, e) /\ q \in Proc /\ e \in End /\ q \notin open[e] /\ ~Closing(a.th[q], e)
      BY <2>1 DEF pipe_confirm, ConfirmFits
    <3>2. Dropped(a, b, {<<q, e>>})
      BY <3>1, FdDtorDrops
    <3> HIDE DEF b
    <3>3. SleepersKnown(b, x) /\ WellCalled(b) /\ Held(b)
      BY <3>1, <3>2, DropKeeps
    <3>4. OnTheWay(b, NoPipeConfirm, gone)
      <4> SUFFICES ASSUME NEW z \in b.ends["w"]
                   PROVE  z \in open["w"] \/ z \in gone \/ Closing(b.th[z], "w")
          BY DEF OnTheWay
      <4>1. z \in Proc
        BY <3>2, StateFields DEF Dropped, End
      <4>2. z \in a.ends["w"] /\ <<z, "w">> # <<q, e>> /\ b.th = a.th
        BY <3>2, <4>1 DEF Dropped, End
      <4> QED
        BY <4>2 DEF OnTheWay
    <3> QED
      BY <3>2, <3>3, <3>4 DEF Dropped
  <2>2. CASE pipeConfirm.kind = "none"
    <3>1. b = a
      BY <2>2 DEF pipe_confirm
    <3> HIDE DEF b
    <3> QED
      BY <2>2, <3>1 DEF OnTheWay
  <2>3. CASE pipeConfirm.kind \in {"read", "write"}
    <3>1. /\ b.th = a.th /\ b.ends = a.ends /\ b.asleep = a.asleep /\ b.writing = a.writing
          /\ b \in ServerState
      <4>1. CASE pipeConfirm.kind = "write"
        <5>1. b = [a EXCEPT !.data = a.data \o pipeConfirm.bytes]
          BY <4>1 DEF pipe_confirm, ServerState
        <5>2. a.data \o pipeConfirm.bytes \in Seq(Byte)
          BY StateFields DEF ConfirmFits
        <5> HIDE DEF b
        <5> QED
          BY <5>1, <5>2 DEF ServerState
      <4>2. CASE pipeConfirm.kind = "read"
        <5> DEFINE k == Len(pipeConfirm.bytes)
        <5>1. b = [a EXCEPT !.data = SubSeq(a.data, k + 1, Len(a.data)), !.start = a.start + k]
          BY <4>2 DEF pipe_confirm, ServerState
        <5>2. /\ a.data \in Seq(Byte) /\ Len(a.data) \in Nat /\ k \in Nat /\ k <= Len(a.data)
              /\ a.start \in 0..PipeSz
          BY <4>2, StateFields DEF ConfirmFits
        <5>3. SubSeq(a.data, k + 1, Len(a.data)) \in Seq(Byte)
          BY <5>2
        <5>4. b.start = a.start + k /\ b.data = SubSeq(a.data, k + 1, Len(a.data))
          BY <5>1 DEF ServerState
        <5>5. b.start + Len(b.data) <= PipeSz
          BY DEF Stream
        <5> HIDE DEF b
        <5>6. a.start + k \in 0..PipeSz
          <6>1. Len(b.data) \in Nat
            BY <5>3, <5>4
          <6>2. b.start \in Nat /\ b.start = a.start + k
            <7> HIDE DEF k
            <7> QED
              BY <1>b, <5>2, <5>4
          <6>3. b.start <= PipeSz
            BY <1>b, <5>5, <6>1, <6>2
          <6> HIDE DEF k
          <6> QED
            BY <1>b, <6>2, <6>3
        <5> HIDE DEF k
        <5> QED
          BY <5>1, <5>3, <5>6 DEF ServerState
      <4> QED
        BY <2>3, <4>1, <4>2
    <3> HIDE DEF b
    <3>2. SleepersKnown(b, x)
      BY <2>3, <3>1 DEF SleepersKnown, NoneAsleep
    <3> QED
      BY <2>3, <3>1, <3>2 DEF WellCalled, Held, OnTheWay
  <2> QED
    BY <2>1, <2>2, <2>3
<1>2. Stream(b)
  OBVIOUS
<1> HIDE DEF b
<1>3. r = client_dtor(b, gone)
  BY DEF Synced, lifecycle_sync, b
<1>4. \A q \in gone : b.th[q].pc = "dead"
  BY <1>1, <1>a
<1>5. Dropped(b, r, gone \X End)
  BY <1>1, <1>3, <1>4, <1>a, ClientDtorDrops
<1> HIDE DEF r, gone
<1>6. SleepersKnown(r, x) /\ WellCalled(r) /\ Held(r)
  <2>1. \A p \in Proc, e \in End : <<p, e>> \in gone \X End => p \notin open[e] /\ ~Closing(b.th[p], e)
    BY <1>4 DEF Closing, Calling, End, gone
  <2> QED
    BY <1>1, <1>5, <2>1, DropKeeps
<1>7. r \in ServerState /\ r.data = b.data /\ r.start = b.start
  BY <1>5 DEF Dropped
<1>8. Stream(r)
  BY <1>2, <1>7 DEF Stream
<1>9. \A p \in Proc : r.th[p] = a.th[p] \/ (a.th[p].pc = "await" /\ r.th[p] = Eagain(a.th[p]))
  <2>1. \A p \in Proc : a.th[p].pc = "await" => Eagain(a.th[p]).pc # "await"
    BY StateFields, EagainThread
  <2> QED
    BY <1>1, <1>5, <2>1 DEF Dropped
<1>10. r.ends["w"] # {} => r.th = a.th
  <2>1. SUFFICES ASSUME r.ends["w"] # {} PROVE r.th = a.th
    OBVIOUS
  <2>2. \A p \in r.ends["w"] : p \in b.ends["w"]
    BY <1>5, <1>7, StateFields DEF Dropped, End
  <2> QED
    BY <1>1, <1>5, <2>1, <2>2 DEF Dropped
<1>11. OnTheWay(r, NoPipeConfirm, {})
  <2> SUFFICES ASSUME NEW z \in r.ends["w"]
               PROVE  z \in open["w"] \/ Closing(r.th[z], "w")
      BY DEF OnTheWay
  <2>1. z \in Proc
    BY <1>7, StateFields DEF End
  <2>2. z \in b.ends["w"] /\ z \notin gone /\ r.th = b.th
    BY <1>5, <2>1 DEF Dropped, End
  <2>3. NoPipeConfirm.kind # "close"
    BY DEF NoPipeConfirm
  <2> QED
    BY <1>1, <2>2, <2>3 DEF OnTheWay
<1> QED
  BY <1>6, <1>7, <1>8, <1>9, <1>10, <1>11 DEF r

-----------------------------------------------------------------------------
(* While a reply is about to be made the pipe is as the handler found it,  *)
(* and the confirm is what the reply says.                                 *)
Replying ==
  LET t == st.th[serving.proc]
      k == Len(serving.bytes)
  IN /\ serving.proc \in Proc /\ Stream(st)
     /\ t.pc = "await" => t.op = serving.op
     /\ pipeConfirm.kind = "none" => serving.op # "close" /\ serving.bytes = <<>>
     /\ pipeConfirm.kind = "read" =>
          /\ serving.op = "read" /\ pipeConfirm.bytes = serving.bytes
          /\ k > 0 /\ k <= Len(st.data) /\ serving.bytes = SubSeq(st.data, 1, k)
     /\ pipeConfirm.kind = "write" =>
          /\ serving.op = "write" /\ pipeConfirm.bytes = serving.bytes
          /\ k > 0 /\ st.start + Len(st.data) + k <= PipeSz /\ serving.bytes = From(sent, k)
     /\ pipeConfirm.kind = "close" =>
          /\ serving.op = "close" /\ pipeConfirm.proc = serving.proc
          /\ pipeConfirm.proc \notin open[pipeConfirm.end]
          /\ t.pc = "await" => t.end = pipeConfirm.end

(* The invariant of the pipe server: what handlers rely on between one     *)
(* reply and the next.                                                     *)
PipeInv ==
  /\ PipeTypeOK
  /\ SleepersKnown(st, serving.proc) /\ WellCalled(st) /\ Held(st)
  /\ pipeConfirm.kind \in {"read", "write"} => NoneAsleep(st, serving.proc)
  /\ \A q \in ToSet(exits) : st.th[q].pc = "dead" /\ q \notin open["r"] /\ q \notin open["w"]
  /\ exits # <<>> \/ pipeConfirm.kind = "close" => poke
  /\ OnTheWay(st, IF serving = NotServing THEN pipeConfirm ELSE NoPipeConfirm, ToSet(exits))
  /\ serving = NotServing => ConfirmFits(st, pipeConfirm) /\ Stream(pipe_confirm(st, pipeConfirm))
  /\ serving # NotServing => Replying
-----------------------------------------------------------------------------
(* What a handler may count on for the state it works on, x being served.  *)
Sound(s, x) ==
  /\ s \in ServerState /\ Stream(s) /\ SleepersKnown(s, x) /\ WellCalled(s) /\ Held(s)
  /\ OnTheWay(s, NoPipeConfirm, {})

(* membuf_prepare_space() may move the data, and finds room unless the     *)
(* pipe is clogged.                                                        *)
LEMMA SpacePrepared ==
  ASSUME NEW s \in ServerState, NEW n \in Nat \ {0}, s.start + Len(s.data) <= PipeSz
  PROVE  LET r == PrepareSpace(s, n)
         IN  /\ r \in ServerState /\ r.data = s.data /\ r.ends = s.ends /\ r.asleep = s.asleep
             /\ r.writing = s.writing /\ r.th = s.th /\ r.start + Len(r.data) <= PipeSz
             /\ Clogged(s) => r = s
             /\ IsFull(r) <=> Clogged(r)
             /\ ~IsFull(r) => Space(r) \in 1..PipeSz /\ r.start + Len(r.data) + Space(r) = PipeSz
<1> DEFINE r == PrepareSpace(s, n)
<1>1. PipeSz \in Nat \ {0} /\ s.start \in Nat /\ Len(s.data) \in Nat /\ s.data \in Seq(Byte)
  BY PipeAssumption, StateFields
<1>2. /\ r \in ServerState /\ r.data = s.data /\ r.ends = s.ends /\ r.asleep = s.asleep
      /\ r.writing = s.writing /\ r.th = s.th
      /\ r.start = IF s.data = <<>> \/ (Space(s) < n /\ 2 * Len(s.data) < PipeSz) THEN 0 ELSE s.start
      /\ s.data # <<>> /\ ~(Space(s) < n /\ 2 * Len(s.data) < PipeSz) => r = s
  <2>1. 0 \in 0..PipeSz
    BY <1>1
  <2> QED
    BY <2>1 DEF PrepareSpace, ServerState
<1> HIDE DEF r
<1>3. r.start \in Nat /\ r.start + Len(r.data) <= PipeSz
  BY <1>1, <1>2
<1>4. s.data = <<>> <=> Len(s.data) = 0
  BY <1>1, EmptySeq
<1>5. Clogged(s) => r = s
  BY <1>1, <1>2, <1>4 DEF Clogged
<1>6. IsFull(r) <=> Clogged(r)
  <2>1. IsFull(r) <=> r.start + Len(r.data) = PipeSz
    BY <1>1, <1>2, <1>3 DEF IsFull, Space
  <2>2. Space(s) < n /\ 2 * Len(s.data) < PipeSz => r.start + Len(r.data) < PipeSz
    BY <1>1, <1>2
  <2>3. s.data = <<>> => r.start + Len(r.data) < PipeSz
    BY <1>1, <1>2, <1>4
  <2>4. s.start + Len(s.data) = PipeSz => Space(s) < n
    BY <1>1 DEF Space
  <2> QED
    BY <1>1, <1>2, <1>3, <2>1, <2>2, <2>3, <2>4 DEF Clogged
<1>7. ~IsFull(r) => Space(r) \in 1..PipeSz /\ r.start + Len(r.data) + Space(r) = PipeSz
  BY <1>1, <1>2, <1>3 DEF IsFull, Space
<1> QED
  BY <1>2, <1>3, <1>5, <1>6, <1>7 DEF r

(* A state that differs from a sound one by where the data lies is sound   *)
(* when those who sleep for room still find none.                          *)
LEMMA MovedSound ==
  ASSUME NEW s, NEW x, Sound(s, x), NEW n \in Nat \ {0}
  PROVE  Sound(PrepareSpace(s, n), x)
<1> DEFINE r == PrepareSpace(s, n)
<1>1. s \in ServerState /\ s.start + Len(s.data) <= PipeSz
  BY DEF Sound, Stream
<1>2. /\ r \in ServerState /\ r.data = s.data /\ r.ends = s.ends /\ r.asleep = s.asleep
      /\ r.writing = s.writing /\ r.th = s.th /\ r.start + Len(r.data) <= PipeSz
      /\ Clogged(s) => r = s
  BY <1>1, SpacePrepared
<1> HIDE DEF r
<1>3. Stream(r)
  BY <1>2 DEF Sound, Stream
<1>4. SleepersKnown(r, x)
  BY <1>2 DEF Sound, SleepersKnown
<1>5. WellCalled(r) /\ Held(r) /\ OnTheWay(r, NoPipeConfirm, {})
  BY <1>2 DEF Sound, WellCalled, Held, OnTheWay
<1> QED
  BY <1>2, <1>3, <1>4, <1>5 DEF Sound, r

(* Telling sleepers leaves a sound state, as nobody sleeps in close().     *)
LEMMA NotifySound ==
  ASSUME NEW s, NEW x \in Proc, Sound(s, x), NEW e \in End, NEW mask, s.th[x].op # "close"
  PROVE  Sound(io_notify(s, e, mask), x)
<1> DEFINE r == io_notify(s, e, mask)
<1>1. s \in ServerState /\ \A p \in Proc : s.th[p] \in Thread
  BY StateFields DEF Sound
<1>2. /\ r \in ServerState /\ r.data = s.data /\ r.start = s.start /\ r.ends = s.ends
      /\ \A p \in Proc :
           \/ r.th[p] = Eagain(s.th[p]) /\ s.th[p].pc = "await" /\ r.th[p].pc # "await"
           \/ /\ r.th[p] = s.th[p] /\ (p \in r.asleep <=> p \in s.asleep)
              /\ (p \in r.writing <=> p \in s.writing)
  BY <1>1, Notified
<1> HIDE DEF r
<1>3. ASSUME NEW p \in Proc
      PROVE  /\ Calling(r.th[p]) => /\ Calling(s.th[p]) /\ r.th[p].op = s.th[p].op
                                    /\ r.th[p].end = s.th[p].end /\ r.th[p].n = s.th[p].n
             /\ Closing(s.th[p], "w") => Closing(r.th[p], "w")
  <2>1. s.th[p].pc = "await" => s.th[p].op # "close"
    BY DEF Sound, SleepersKnown
  <2> QED
    BY <1>1, <1>2, <2>1, EagainThread DEF Calling, Closing
<1>4. Stream(r)
  BY <1>2 DEF Sound, Stream
<1>5. SleepersKnown(r, x)
  BY <1>2 DEF Sound, SleepersKnown, Clogged
<1>6. WellCalled(r)
  BY <1>2, <1>3 DEF Sound, WellCalled
<1>7. Held(r)
  BY <1>2 DEF Sound, Held
<1>8. OnTheWay(r, NoPipeConfirm, {})
  <2>1. \A q \in r.ends["w"] : q \in Proc /\ q \in s.ends["w"]
    BY <1>1, <1>2, StateFields DEF End
  <2>2. NoPipeConfirm.kind # "close"
    BY DEF NoPipeConfirm
  <2> QED
    BY <1>3, <2>1, <2>2 DEF Sound, OnTheWay
<1> QED
  BY <1>2, <1>4, <1>5, <1>6, <1>7, <1>8 DEF Sound, r

(* What a confirm does to the data does not depend on who is waiting.      *)
LEMMA ConfirmData ==
  ASSUME NEW s \in ServerState, NEW a \in ServerState, NEW c, a.data = s.data, a.start = s.start,
         c.kind \in {"none", "read", "write", "close"},
         c.kind = "close" => c.proc \in Proc /\ c.end \in End
  PROVE  /\ pipe_confirm(a, c).data = pipe_confirm(s, c).data
         /\ pipe_confirm(a, c).start = pipe_confirm(s, c).start
         /\ c.kind \in {"none", "close"} => /\ pipe_confirm(s, c).data = s.data
                                            /\ pipe_confirm(s, c).start = s.start
<1>1. CASE c.kind = "close"
  <2>1. pipe_confirm(a, c) = fd_dtor(a, c.proc, c.end) /\ pipe_confirm(s, c) = fd_dtor(s, c.proc, c.end)
    BY <1>1 DEF pipe_confirm
  <2> QED
    BY <1>1, <2>1, FdDtorDrops DEF Dropped
<1>2. CASE c.kind = "none"
  BY <1>2 DEF pipe_confirm
<1>3. CASE c.kind = "write"
  <2>1. /\ pipe_confirm(a, c).data = a.data \o c.bytes /\ pipe_confirm(a, c).start = a.start
        /\ pipe_confirm(s, c).data = s.data \o c.bytes /\ pipe_confirm(s, c).start = s.start
    BY <1>3 DEF pipe_confirm, ServerState
  <2> QED
    BY <1>3, <2>1
<1>4. CASE c.kind = "read"
  <2> DEFINE k == Len(c.bytes)
  <2>1. /\ pipe_confirm(a, c) = [a EXCEPT !.data = SubSeq(a.data, k + 1, Len(a.data)), !.start = a.start + k]
        /\ pipe_confirm(s, c) = [s EXCEPT !.data = SubSeq(s.data, k + 1, Len(s.data)), !.start = s.start + k]
    BY <1>4 DEF pipe_confirm, ServerState
  <2> HIDE DEF k
  <2>2. /\ pipe_confirm(a, c).data = SubSeq(a.data, k + 1, Len(a.data)) /\ pipe_confirm(a, c).start = a.start + k
        /\ pipe_confirm(s, c).data = SubSeq(s.data, k + 1, Len(s.data)) /\ pipe_confirm(s, c).start = s.start + k
    BY <2>1 DEF ServerState
  <2> QED
    BY <1>4, <2>2
<1> QED
  BY <1>1, <1>2, <1>3, <1>4

(* What the invariant promises to whoever is received next.                *)
LEMMA SyncedSound ==
  ASSUME PipeInv, serving = NotServing, NEW a \in ServerState, NEW x,
         a.data = st.data, a.start = st.start, a.ends = st.ends, a.asleep = st.asleep, a.writing = st.writing,
         \A q \in Proc : \/ a.th[q] = st.th[q]
                         \/ /\ q = x /\ st.th[q].pc = "send" /\ a.th[q].pc = "await"
                            /\ a.th[q].op = st.th[q].op /\ a.th[q].end = st.th[q].end /\ a.th[q].n = st.th[q].n
  PROVE  /\ Sound(Synced(a), x)
         /\ \A p \in Proc : \/ Synced(a).th[p] = a.th[p]
                            \/ a.th[p].pc = "await" /\ Synced(a).th[p] = Eagain(a.th[p])
         /\ Synced(a).ends["w"] # {} => Synced(a).th = a.th
<1>1. /\ exits \in Seq(Proc) /\ st \in ServerState
      /\ pipeConfirm.kind \in {"none", "read", "write", "close"}
      /\ serving.proc = Nobody
  BY DEF PipeInv, PipeTypeOK, NotServing
<1>2. \A q \in ToSet(exits) : q \in Proc
  BY <1>1 DEF ToSet
<1>3. \A q \in Proc : Nobody # q
  BY PipeAssumption
<1>4. \A q \in ToSet(exits) : a.th[q].pc = "dead" /\ q \notin open["r"] /\ q \notin open["w"]
  BY <1>2 DEF PipeInv
<1>5. \A q \in Proc : Calling(a.th[q]) => /\ Calling(st.th[q]) /\ a.th[q].op = st.th[q].op
                                          /\ a.th[q].end = st.th[q].end /\ a.th[q].n = st.th[q].n
  BY DEF Calling
<1>6. \A q \in Proc, e \in End : Closing(a.th[q], e) <=> Closing(st.th[q], e)
  BY DEF Calling, Closing
<1>7. ConfirmFits(a, pipeConfirm)
  BY <1>6 DEF PipeInv, ConfirmFits
<1>8. Stream(pipe_confirm(a, pipeConfirm))
  <2>1. pipeConfirm.kind = "close" => pipeConfirm.proc \in Proc /\ pipeConfirm.end \in End
    BY DEF PipeInv, ConfirmFits
  <2>2. /\ pipe_confirm(a, pipeConfirm).data = pipe_confirm(st, pipeConfirm).data
        /\ pipe_confirm(a, pipeConfirm).start = pipe_confirm(st, pipeConfirm).start
    BY <1>1, <2>1, ConfirmData
  <2> QED
    BY <2>2 DEF PipeInv, Stream
<1>9. SleepersKnown(a, x) /\ (pipeConfirm.kind \in {"read", "write"} => NoneAsleep(a, x))
  BY <1>1, <1>3 DEF PipeInv, SleepersKnown, NoneAsleep, Clogged
<1>10. WellCalled(a) /\ Held(a)
  BY <1>5 DEF PipeInv, WellCalled, Held
<1>11. OnTheWay(a, pipeConfirm, ToSet(exits))
  <2>1. \A q \in a.ends["w"] : q \in Proc
    BY StateFields DEF End
  <2> QED
    BY <1>6, <2>1 DEF PipeInv, OnTheWay, End
<1> QED
  BY <1>1, <1>4, <1>7, <1>8, <1>9, <1>10, <1>11, SyncedState DEF Sound

(* The caller is in receive phase when its handler runs, and a handler     *)
(* works on a sound state.                                                 *)
LEMMA ReceivedSound ==
  ASSUME PipeInv, serving = NotServing, NEW p \in Proc, st.th[p].pc = "send"
  PROVE  LET s == Received(p)
         IN  /\ Sound(s, p)
             /\ s.th[p].pc = "await" => s.th[p].op = st.th[p].op /\ s.th[p].end = st.th[p].end
             /\ st.th[p].op # "close" => s.th[p].op = st.th[p].op
             /\ s.ends["w"] # {} => s.th[p].pc = "await"
             /\ st.th[p].n \in 0..MaxChunk /\ st.th[p].end \in End
             /\ st.th[p].op = "write" => s.ends["w"] # {}
             /\ st.th[p].op \in {"read", "write"} => st.th[p].n > 0
<1> DEFINE a == [st EXCEPT !.th[p].pc = "await"]
<1> DEFINE s == Synced(a)
<1>1. st \in ServerState /\ st.th[p] \in Thread /\ Calling(st.th[p])
  BY StateFields DEF PipeInv, PipeTypeOK, Calling
<1>2. a \in ServerState /\ a.th = [st.th EXCEPT ![p].pc = "await"]
      /\ a.data = st.data /\ a.start = st.start /\ a.ends = st.ends /\ a.asleep = st.asleep /\ a.writing = st.writing
  <2>1. [st.th EXCEPT ![p].pc = "await"] \in [Proc -> Thread]
    BY <1>1, StateFields DEF Thread
  <2> QED
    BY <1>1, <2>1 DEF ServerState
<1>3. a.th[p] \in Thread /\ a.th[p].pc = "await" /\ a.th[p].op = st.th[p].op /\ a.th[p].end = st.th[p].end /\ a.th[p].n = st.th[p].n
  <2>1. a.th[p] = [st.th[p] EXCEPT !.pc = "await"]
    BY <1>1, <1>2, StateFields
  <2> HIDE DEF a
  <2> QED
    BY <1>1, <2>1 DEF Thread
<1>4. \A q \in Proc : \/ a.th[q] = st.th[q]
                      \/ /\ q = p /\ st.th[q].pc = "send" /\ a.th[q].pc = "await"
                         /\ a.th[q].op = st.th[q].op /\ a.th[q].end = st.th[q].end /\ a.th[q].n = st.th[q].n
  <2>1. \A q \in Proc : q # p => a.th[q] = st.th[q]
    BY <1>1, <1>2, StateFields
  <2> HIDE DEF a
  <2> QED
    BY <1>3, <2>1
<1>5. Received(p) = s
  BY DEF Received
<1> HIDE DEF a
<1>6. /\ Sound(s, p)
      /\ s.th[p] = a.th[p] \/ s.th[p] = Eagain(a.th[p])
      /\ s.ends["w"] # {} => s.th = a.th
  <2>1. /\ Sound(Synced(a), p)
        /\ \A q \in Proc : \/ Synced(a).th[q] = a.th[q]
                           \/ a.th[q].pc = "await" /\ Synced(a).th[q] = Eagain(a.th[q])
        /\ Synced(a).ends["w"] # {} => Synced(a).th = a.th
    <3>1. /\ a \in ServerState /\ a.data = st.data /\ a.start = st.start /\ a.ends = st.ends
          /\ a.asleep = st.asleep /\ a.writing = st.writing
      BY <1>2
    <3> QED
      BY <3>1, <1>4, SyncedSound
  <2> QED
    BY <2>1
<1> HIDE DEF s
<1>7. st.th[p].op # "close" => Eagain(a.th[p]).op = st.th[p].op
  <2>1. SUFFICES ASSUME st.th[p].op # "close" PROVE Eagain(a.th[p]).op = st.th[p].op
    OBVIOUS
  <2>2. a.th[p].op \in {"read", "write"}
    BY <1>1, <1>3, <2>1 DEF Thread, Op
  <2> QED
    BY <1>3, <2>2, EagainThread
<1>8. st.th[p].op = "write" => s.ends["w"] # {}
  <2>1. st.th[p].op = "write" => p \in open["w"]
    BY <1>1 DEF PipeInv, WellCalled
  <2> QED
    BY <1>6, <2>1 DEF Sound, Held, End
<1>9. st.th[p].op \in {"read", "write"} => st.th[p].n > 0
  BY <1>1 DEF PipeInv, WellCalled
<1>10. st.th[p].n \in 0..MaxChunk /\ st.th[p].end \in End
  BY <1>1 DEF Thread
<1> QED
  BY <1>3, <1>5, <1>6, <1>7, <1>8, <1>9, <1>10, EagainThread

(* A handler that leaves a sound state, and a confirm that its reply is    *)
(* about, keeps the invariant.                                             *)
LEMMA Settles ==
  ASSUME PipeInv, exits' = <<>>, UNCHANGED <<nonblock, open, sent, received>>, poke' \in BOOLEAN,
         serving' \in [proc : Proc \cup {Nobody}, op : Op, bytes : Seq(Byte)],
         pipeConfirm' \in [kind : {"none", "read", "write", "close"},
                           proc : Proc \cup {Nobody}, end : End, bytes : Seq(Byte)],
         Sound(st', serving'.proc),
         pipeConfirm'.kind \in {"read", "write"} => NoneAsleep(st', serving'.proc),
         pipeConfirm'.kind = "close" => poke',
         serving' = NotServing => pipeConfirm' = NoPipeConfirm,
         serving' # NotServing => Replying'
  PROVE  PipeInv'
<1>1. st' \in ServerState /\ st'.start + Len(st'.data) <= PipeSz
  BY DEF Sound, Stream
<1>2. PipeTypeOK'
  <2>1. exits' \in Seq(Proc)
    OBVIOUS
  <2> QED
    BY <1>1, <2>1 DEF PipeInv, PipeTypeOK
<1>3. SleepersKnown(st', serving'.proc) /\ WellCalled(st)' /\ Held(st)' /\ OnTheWay(st, NoPipeConfirm, {})'
  BY DEF Sound, WellCalled, Held, OnTheWay
<1>4. ToSet(exits)' = {}
  <2>1. DOMAIN <<>> = {}
    OBVIOUS
  <2> QED
    BY <2>1 DEF ToSet
<1>5. ConfirmFits(st, NoPipeConfirm)' /\ NoPipeConfirm.kind = "none"
  BY DEF ConfirmFits, NoPipeConfirm
<1>6. Stream(pipe_confirm(st, NoPipeConfirm))'
  <2>1. pipe_confirm(st', NoPipeConfirm) = st'
    BY DEF pipe_confirm, NoPipeConfirm
  <2> QED
    BY <2>1 DEF Sound, Stream
<1>7. (serving = NotServing => ConfirmFits(st, pipeConfirm) /\ Stream(pipe_confirm(st, pipeConfirm)))'
  BY <1>5, <1>6
<1>8. (OnTheWay(st, IF serving = NotServing THEN pipeConfirm ELSE NoPipeConfirm, ToSet(exits)))'
  BY <1>3, <1>4
<1>9. (\A q \in ToSet(exits) : st.th[q].pc = "dead" /\ q \notin open["r"] /\ q \notin open["w"])'
  BY <1>4
<1> QED
  BY <1>2, <1>3, <1>7, <1>8, <1>9 DEF PipeInv

(* An error, end of file or EAGAIN: the reply has nothing to confirm.      *)
LEMMA AnswerSettles ==
  ASSUME PipeInv, NEW p \in Proc, NEW op \in {"read", "write"},
         exits' = <<>>, UNCHANGED <<poke, nonblock, open, sent, received>>,
         serving' = [proc |-> p, op |-> op, bytes |-> <<>>], pipeConfirm' = NoPipeConfirm,
         Sound(st', p), st'.th[p].pc = "await" => st'.th[p].op = op
  PROVE  PipeInv'
<1>1. /\ serving'.proc = p /\ serving'.op = op /\ serving'.bytes = <<>>
      /\ serving' \in [proc : Proc \cup {Nobody}, op : Op, bytes : Seq(Byte)]
  BY DEF Op
<1>2. /\ pipeConfirm' \in [kind : {"none", "read", "write", "close"},
                           proc : Proc \cup {Nobody}, end : End, bytes : Seq(Byte)]
      /\ pipeConfirm'.kind = "none"
  BY DEF NoPipeConfirm, End
<1>3. poke' \in BOOLEAN
  BY DEF PipeInv, PipeTypeOK
<1>4. serving' # NotServing
  BY <1>1, PipeAssumption DEF NotServing
<1>5. Replying'
  <2>1. Stream(st)'
    BY DEF Sound, Stream
  <2> QED
    BY <1>1, <1>2, <2>1 DEF Replying
<1> QED
  BY <1>1, <1>2, <1>3, <1>4, <1>5, Settles

(* _nopoll_add_blocker(): who goes to sleep is remembered, and has a       *)
(* reason to.                                                              *)
LEMMA SleepSound ==
  ASSUME NEW s, NEW p \in Proc, Sound(s, p), NEW x, s.th[p].pc = "await", NEW wr \in BOOLEAN,
         s.th[p].op = IF wr THEN "write" ELSE "read",
         wr => Clogged(s), ~wr => s.data = <<>> /\ s.ends["w"] # {}
  PROVE  Sound(_nopoll_add_blocker(s, p, wr), x)
<1> DEFINE w == IF wr THEN s.writing \cup {p} ELSE s.writing \ {p}
<1> DEFINE r == _nopoll_add_blocker(s, p, wr)
<1>1. s \in ServerState
  BY DEF Sound
<1>2. w \in SUBSET Proc /\ s.asleep \cup {p} \in SUBSET Proc /\ (p \in w <=> wr)
      /\ \A q \in Proc : q # p => (q \in w <=> q \in s.writing)
  BY <1>1, StateFields
<1>3. r = [s EXCEPT !.asleep = s.asleep \cup {p}, !.writing = w]
  BY <1>1 DEF _nopoll_add_blocker, ServerState
<1> HIDE DEF r, w
<1>4. /\ r \in ServerState /\ r.data = s.data /\ r.start = s.start /\ r.ends = s.ends
      /\ r.th = s.th /\ r.asleep = s.asleep \cup {p} /\ r.writing = w
  BY <1>1, <1>2, <1>3 DEF ServerState
<1>5. Stream(r) /\ WellCalled(r) /\ Held(r) /\ OnTheWay(r, NoPipeConfirm, {})
  BY <1>4 DEF Sound, Stream, WellCalled, Held, OnTheWay
<1>6. SleepersKnown(r, x)
  <2> SUFFICES ASSUME NEW q \in Proc, r.th[q].pc = "await"
               PROVE  /\ q \in r.asleep /\ r.th[q].op \in {"read", "write"}
                      /\ q \in r.writing <=> r.th[q].op = "write"
                      /\ r.th[q].op = "read" => r.data = <<>> /\ r.ends["w"] # {}
                      /\ r.th[q].op = "write" => Clogged(r)
      BY DEF SleepersKnown
  <2>1. Clogged(r) <=> Clogged(s)
    BY <1>4 DEF Clogged
  <2>2. CASE q = p
    BY <1>2, <1>4, <2>1, <2>2
  <2>3. CASE q # p
    BY <1>2, <1>4, <2>1, <2>3 DEF Sound, SleepersKnown
  <2> QED
    BY <2>2, <2>3
<1> QED
  BY <1>4, <1>5, <1>6 DEF Sound, r

(* A call that blocks gets no reply now.                                   *)
LEMMA SleepSettles ==
  ASSUME PipeInv, exits' = <<>>, UNCHANGED <<poke, nonblock, open, sent, received>>,
         serving' = NotServing, pipeConfirm' = NoPipeConfirm, Sound(st', Nobody)
  PROVE  PipeInv'
<1>1. serving' \in [proc : Proc \cup {Nobody}, op : Op, bytes : Seq(Byte)] /\ serving'.proc = Nobody
  BY DEF NotServing, Op
<1>2. /\ pipeConfirm' \in [kind : {"none", "read", "write", "close"},
                           proc : Proc \cup {Nobody}, end : End, bytes : Seq(Byte)]
      /\ pipeConfirm'.kind = "none"
  BY DEF NoPipeConfirm, End
<1>3. poke' \in BOOLEAN
  BY DEF PipeInv, PipeTypeOK
<1> QED
  BY <1>1, <1>2, <1>3, Settles

(* pipe_read() keeps the invariant: the copy it answers with is the start  *)
(* of the data, and writers are told unless there was room all along.      *)
LEMMA ReadSettles ==
  ASSUME PipeInv, NEW p \in Proc, HandleRead(p)
  PROVE  PipeInv'
<1> DEFINE s == Received(p)
<1> DEFINE n == st.th[p].n
<1> DEFINE k == IF n < Len(s.data) THEN n ELSE Len(s.data)
<1> DEFINE sp == PrepareSpace(s, 1)
<1>1. /\ serving = NotServing /\ st.th[p].pc = "send" /\ st.th[p].op = "read" /\ exits' = <<>>
      /\ UNCHANGED <<poke, nonblock, open, sent, received>> /\ pipe_read(p, s)
  BY DEF HandleRead, Begin
<1>2. /\ Sound(s, p) /\ (s.th[p].pc = "await" => s.th[p].op = "read") /\ s.th[p].op = "read"
      /\ s.ends["w"] # {} => s.th[p].pc = "await"
      /\ n \in Nat \ {0}
  <2>1. MaxChunk \in Nat
    BY PipeAssumption
  <2> QED
    BY <1>1, <2>1, ReceivedSound
<1>3. CASE IsEmpty(s) /\ (s.ends["w"] # {} => "r" \in nonblock)
  <2>1. st' = s /\ serving' = [proc |-> p, op |-> "read", bytes |-> <<>>] /\ pipeConfirm' = NoPipeConfirm
    BY <1>1, <1>3 DEF pipe_read, WouldBlock, Answer
  <2> QED
    BY <1>1, <1>2, <2>1, AnswerSettles
<1>4. CASE IsEmpty(s) /\ s.ends["w"] # {} /\ "r" \notin nonblock
  <2>1. st' = _nopoll_add_blocker(s, p, FALSE) /\ serving' = NotServing /\ pipeConfirm' = NoPipeConfirm
    <3>1. ("r" = "w") = FALSE
      OBVIOUS
    <3> QED
      BY <1>1, <1>4, <3>1 DEF pipe_read, WouldBlock
  <2>2. Sound(st', Nobody)
    BY <1>2, <1>4, <2>1, SleepSound DEF IsEmpty
  <2> QED
    BY <1>1, <2>1, <2>2, SleepSettles
<1>5. CASE ~IsEmpty(s)
  <2> DEFINE got == SubSeq(s.data, 1, k)
  <2>1. /\ st' = IF s.ends["w"] # {} /\ IsFull(sp) THEN io_notify(sp, "w", "OUT") ELSE sp
        /\ serving' = [proc |-> p, op |-> "read", bytes |-> got]
        /\ pipeConfirm' = [kind |-> "read", proc |-> p, end |-> "r", bytes |-> got]
    BY <1>1, <1>5 DEF pipe_read, Answer
  <2>2. /\ s \in ServerState /\ s.data \in Seq(Byte) /\ Len(s.data) \in Nat \ {0}
        /\ s.start + Len(s.data) <= PipeSz
    BY <1>2, <1>5, StateFields, EmptySeq DEF Sound, Stream, IsEmpty
  <2>3. k \in 1..Len(s.data)
    BY <1>2, <2>2
  <2> HIDE DEF k
  <2>4. got \in Seq(Byte) /\ Len(got) = k
    BY <2>2, <2>3
  <2> HIDE DEF got
  <2>5. /\ sp \in ServerState /\ sp.data = s.data /\ sp.ends = s.ends /\ sp.asleep = s.asleep
        /\ sp.writing = s.writing /\ sp.th = s.th
        /\ IsFull(sp) <=> Clogged(sp)
        /\ Sound(sp, p)
    BY <1>2, <2>2, SpacePrepared, MovedSound
  <2> HIDE DEF sp, s
  <2>6. Sound(st', p) /\ st'.data = s.data /\ NoneAsleep(st', p)
        /\ (st'.th[p].pc = "await" => st'.th[p].op = "read")
    <3>1. CASE s.ends["w"] # {} /\ IsFull(sp)
      <4>1. st' = io_notify(sp, "w", "OUT")
        BY <2>1, <3>1
      <4>2. Sound(st', p)
        BY <1>2, <2>5, <4>1, NotifySound DEF End
      <4>3. /\ st'.data = sp.data
            /\ \A q \in Proc :
                 IF q \in sp.ends["w"] /\ MaybeUnblock(sp, q, "OUT")
                 THEN st'.th[q].pc # "await"
                 ELSE st'.th[q] = sp.th[q]
        BY <2>5, <4>1, Notified DEF End
      <4>4. ASSUME NEW q \in Proc, st'.th[q].pc = "await", q # p PROVE FALSE
        <5>1. ~(q \in sp.ends["w"] /\ MaybeUnblock(sp, q, "OUT")) /\ sp.th[q].pc = "await"
          BY <4>3, <4>4
        <5>2. q \in sp.asleep /\ sp.th[q].op = "write" /\ q \in sp.writing
          BY <2>2, <2>5, <4>4, <5>1, EmptySeq DEF Sound, SleepersKnown
        <5>3. q \in open["w"]
          BY <2>5, <5>1, <5>2 DEF Sound, WellCalled, Calling
        <5>4. q \in sp.ends["w"]
          BY <2>5, <5>3 DEF Sound, Held, End
        <5> QED
          BY <5>1, <5>2, <5>4 DEF MaybeUnblock
      <4> QED
        BY <1>2, <2>5, <4>2, <4>3, <4>4 DEF NoneAsleep
    <3>2. CASE ~(s.ends["w"] # {} /\ IsFull(sp))
      <4>1. st' = sp
        BY <2>1, <3>2
      <4>2. ASSUME NEW q \in Proc, sp.th[q].pc = "await", q # p PROVE FALSE
        <5>1. sp.th[q].op = "write" /\ Clogged(sp)
          BY <2>2, <2>5, <4>2, EmptySeq DEF Sound, SleepersKnown
        <5>2. q \in open["w"]
          BY <2>5, <4>2, <5>1 DEF Sound, WellCalled, Calling
        <5>3. q \in sp.ends["w"]
          BY <2>5, <5>2 DEF Sound, Held, End
        <5> QED
          BY <2>5, <3>2, <5>1, <5>3
      <4> QED
        BY <1>2, <2>5, <4>1, <4>2 DEF NoneAsleep
    <3> QED
      BY <3>1, <3>2
  <2>7. /\ serving' \in [proc : Proc \cup {Nobody}, op : Op, bytes : Seq(Byte)]
        /\ serving'.proc = p /\ serving'.op = "read" /\ serving'.bytes = got
    BY <2>1, <2>4 DEF Op
  <2>8. /\ pipeConfirm' \in [kind : {"none", "read", "write", "close"},
                             proc : Proc \cup {Nobody}, end : End, bytes : Seq(Byte)]
        /\ pipeConfirm'.kind = "read" /\ pipeConfirm'.bytes = got
    BY <2>1, <2>4 DEF End
  <2>9. serving' # NotServing
    BY <2>7, PipeAssumption DEF NotServing
  <2>10. Replying'
    <3>1. Stream(st)'
      BY <1>1, <2>6 DEF Sound, Stream
    <3>2. Len(got) > 0 /\ Len(got) <= Len(st'.data) /\ got = SubSeq(st'.data, 1, Len(got))
      BY <2>2, <2>3, <2>4, <2>6 DEF got
    <3> QED
      BY <2>6, <2>7, <2>8, <3>1, <3>2 DEF Replying
  <2>11. poke' \in BOOLEAN
    BY <1>1 DEF PipeInv, PipeTypeOK
  <2> QED
    BY <1>1, <2>6, <2>7, <2>8, <2>9, <2>10, <2>11, Settles
<1> QED
  BY <1>3, <1>4, <1>5

(* pipe_write() keeps the invariant: what it takes on fits behind the      *)
(* data, and readers are told unless there was something to read all       *)
(* along.                                                                  *)
LEMMA WriteSettles ==
  ASSUME PipeInv, NEW p \in Proc, HandleWrite(p)
  PROVE  PipeInv'
<1> DEFINE s == Received(p)
<1> DEFINE n == st.th[p].n
<1> DEFINE sp == PrepareSpace(s, n)
<1> DEFINE put == IF n < Space(sp) THEN n ELSE Space(sp)
<1> DEFINE bytes == From(sent, put)
<1>1. /\ serving = NotServing /\ st.th[p].pc = "send" /\ st.th[p].op = "write" /\ exits' = <<>>
      /\ UNCHANGED <<poke, nonblock, open, sent, received>> /\ pipe_write(p, s)
  BY DEF HandleWrite, Begin
<1>2. /\ Sound(s, p) /\ s.th[p].op = "write" /\ s.th[p].pc = "await" /\ n \in Nat \ {0}
  <2>1. MaxChunk \in Nat
    BY PipeAssumption
  <2> QED
    BY <1>1, <2>1, ReceivedSound
<1>3. /\ sp \in ServerState /\ sp.data = s.data /\ sp.ends = s.ends /\ sp.asleep = s.asleep
      /\ sp.writing = s.writing /\ sp.th = s.th
      /\ IsFull(sp) <=> Clogged(sp)
      /\ ~IsFull(sp) => Space(sp) \in 1..PipeSz /\ sp.start + Len(sp.data) + Space(sp) = PipeSz
      /\ Sound(sp, p)
  <2>1. s \in ServerState /\ s.start + Len(s.data) <= PipeSz
    BY <1>2 DEF Sound, Stream
  <2> QED
    BY SMTT(40), <1>2, <2>1, SpacePrepared, MovedSound
<1>4. CASE s.ends["r"] = {}
  <2>1. st' = s /\ serving' = [proc |-> p, op |-> "write", bytes |-> <<>>] /\ pipeConfirm' = NoPipeConfirm
    BY <1>1, <1>4 DEF pipe_write, Answer
  <2> QED
    BY <1>1, <1>2, <2>1, AnswerSettles
<1>5. CASE s.ends["r"] # {} /\ IsFull(sp) /\ "w" \in nonblock
  <2>1. st' = sp /\ serving' = [proc |-> p, op |-> "write", bytes |-> <<>>] /\ pipeConfirm' = NoPipeConfirm
    BY <1>1, <1>5 DEF pipe_write, WouldBlock, Answer
  <2> QED
    BY <1>1, <1>2, <1>3, <2>1, AnswerSettles
<1>6. CASE s.ends["r"] # {} /\ IsFull(sp) /\ "w" \notin nonblock
  <2>1. st' = _nopoll_add_blocker(sp, p, TRUE) /\ serving' = NotServing /\ pipeConfirm' = NoPipeConfirm
    <3>1. ("w" = "w") = TRUE
      OBVIOUS
    <3> QED
      BY <1>1, <1>6, <3>1 DEF pipe_write, WouldBlock
  <2> HIDE DEF sp
  <2>2. Sound(st', Nobody)
    BY <1>2, <1>3, <1>6, <2>1, SleepSound
  <2> QED
    BY <1>1, <2>1, <2>2, SleepSettles
<1>7. CASE s.ends["r"] # {} /\ ~IsFull(sp)
  <2>1. /\ st' = IF IsEmpty(sp) THEN io_notify(sp, "r", "IN") ELSE sp
        /\ serving' = [proc |-> p, op |-> "write", bytes |-> bytes]
        /\ pipeConfirm' = [kind |-> "write", proc |-> p, end |-> "w", bytes |-> bytes]
    BY <1>1, <1>7 DEF pipe_write, Answer
  <2> HIDE DEF sp, s
  <2>2. /\ PipeSz \in Nat /\ sent \in Byte /\ sp.start \in Nat /\ Len(sp.data) \in Nat
        /\ Space(sp) \in 1..PipeSz /\ sp.start + Len(sp.data) + Space(sp) = PipeSz
    BY <1>3, <1>7, PipeAssumption, StateFields DEF PipeInv, PipeTypeOK
  <2>3. put \in 1..PipeSz /\ sp.start + Len(sp.data) + put <= PipeSz
    BY SMTT(40), <1>2, <2>2
  <2> HIDE DEF put
  <2>4. bytes \in Seq(Byte) /\ Len(bytes) = put
    BY <2>2, <2>3, FromBytes
  <2> HIDE DEF bytes
  <2>5. /\ Sound(st', p) /\ st'.data = sp.data /\ st'.start = sp.start /\ NoneAsleep(st', p)
        /\ (st'.th[p].pc = "await" => st'.th[p].op = "write")
    <3>1. CASE IsEmpty(sp)
      <4>1. st' = io_notify(sp, "r", "IN")
        BY <2>1, <3>1
      <4>2. Sound(st', p)
        BY <1>2, <1>3, <4>1, NotifySound DEF End
      <4>3. /\ st'.data = sp.data /\ st'.start = sp.start
            /\ \A q \in Proc :
                 IF q \in sp.ends["r"] /\ MaybeUnblock(sp, q, "IN")
                 THEN st'.th[q].pc # "await"
                 ELSE st'.th[q] = sp.th[q]
        BY <1>3, <4>1, Notified DEF End
      <4>4. ASSUME NEW q \in Proc, st'.th[q].pc = "await", q # p PROVE FALSE
        <5>1. ~(q \in sp.ends["r"] /\ MaybeUnblock(sp, q, "IN")) /\ sp.th[q].pc = "await"
          BY <4>3, <4>4
        <5>2. q \in sp.asleep /\ sp.th[q].op = "read" /\ q \notin sp.writing
          BY <1>3, <1>7, <4>4, <5>1 DEF Sound, SleepersKnown
        <5>3. q \in open["r"]
          BY <1>3, <5>1, <5>2 DEF Sound, WellCalled, Calling
        <5>4. q \in sp.ends["r"]
          BY <1>3, <5>3 DEF Sound, Held, End
        <5> QED
          BY <5>1, <5>2, <5>4 DEF MaybeUnblock
      <4> QED
        BY <1>2, <1>3, <4>2, <4>3, <4>4 DEF NoneAsleep
    <3>2. CASE ~IsEmpty(sp)
      <4>1. st' = sp
        BY <2>1, <3>2
      <4>2. \A q \in Proc : sp.th[q].pc = "await" => q = p
        BY <1>3, <1>7, <3>2 DEF Sound, SleepersKnown, IsEmpty
      <4> QED
        BY <1>2, <1>3, <4>1, <4>2 DEF NoneAsleep
    <3> QED
      BY <3>1, <3>2
  <2>7. /\ serving' \in [proc : Proc \cup {Nobody}, op : Op, bytes : Seq(Byte)]
        /\ serving'.proc = p /\ serving'.op = "write" /\ serving'.bytes = bytes
    BY <2>1, <2>4 DEF Op
  <2>8. /\ pipeConfirm' \in [kind : {"none", "read", "write", "close"},
                             proc : Proc \cup {Nobody}, end : End, bytes : Seq(Byte)]
        /\ pipeConfirm'.kind = "write" /\ pipeConfirm'.bytes = bytes
    BY <2>1, <2>4 DEF End
  <2>9. serving' # NotServing
    BY <2>7, PipeAssumption DEF NotServing
  <2>10. Replying'
    <3>1. Stream(st)'
      BY <1>1, <2>5 DEF Sound, Stream
    <3>2. Len(bytes) > 0 /\ st'.start + Len(st'.data) + Len(bytes) <= PipeSz /\ bytes = From(sent', Len(bytes))
      BY <1>1, <2>3, <2>4, <2>5 DEF bytes
    <3> QED
      BY <2>5, <2>7, <2>8, <3>1, <3>2 DEF Replying
  <2>11. poke' \in BOOLEAN
    BY <1>1 DEF PipeInv, PipeTypeOK
  <2> QED
    BY <1>1, <2>5, <2>7, <2>8, <2>9, <2>10, <2>11, Settles
<1> QED
  BY <1>4, <1>5, <1>6, <1>7

(* io_impl_close() keeps the invariant: the descriptor is still the        *)
(* server's, and the poke thread is on its way.                            *)
LEMMA CloseSettles ==
  ASSUME PipeInv, NEW p \in Proc, HandleClose(p)
  PROVE  PipeInv'
<1> DEFINE s == Received(p)
<1> DEFINE e == st.th[p].end
<1>1. /\ serving = NotServing /\ st.th[p].pc = "send" /\ st.th[p].op = "close" /\ exits' = <<>>
      /\ UNCHANGED <<nonblock, open, sent, received>>
      /\ st' = s /\ serving' = [proc |-> p, op |-> "close", bytes |-> <<>>]
      /\ pipeConfirm' = [kind |-> "close", proc |-> p, end |-> e, bytes |-> <<>>]
      /\ poke' = TRUE
  BY DEF HandleClose, Begin, io_impl_close, Answer
<1>2. /\ Sound(s, p) /\ (s.th[p].pc = "await" => s.th[p].op = "close" /\ s.th[p].end = e)
      /\ e \in End
  BY <1>1, ReceivedSound
<1>3. p \notin open[e]
  BY <1>1 DEF PipeInv, WellCalled, Calling
<1> HIDE DEF e, s
<1>4. /\ serving' \in [proc : Proc \cup {Nobody}, op : Op, bytes : Seq(Byte)]
      /\ serving'.proc = p /\ serving'.op = "close" /\ serving'.bytes = <<>>
  BY <1>1 DEF Op
<1>5. /\ pipeConfirm' \in [kind : {"none", "read", "write", "close"},
                           proc : Proc \cup {Nobody}, end : End, bytes : Seq(Byte)]
      /\ pipeConfirm'.kind = "close" /\ pipeConfirm'.proc = p /\ pipeConfirm'.end = e
  BY <1>1, <1>2
<1>6. serving' # NotServing
  BY <1>4, PipeAssumption DEF NotServing
<1>7. Replying'
  <2>1. Stream(st)'
    BY <1>1, <1>2 DEF Sound, Stream
  <2> QED
    BY <1>1, <1>2, <1>3, <1>4, <1>5, <2>1 DEF Replying
<1> QED
  BY <1>1, <1>2, <1>4, <1>5, <1>6, <1>7, Settles

(* The dispatch loop's own sync_confirm() and lifecycle_sync() keep the    *)
(* invariant.                                                              *)
LEMMA PokedSettles ==
  ASSUME PipeInv, Poked
  PROVE  PipeInv'
<1>1. /\ serving = NotServing /\ serving' = NotServing /\ poke' = FALSE /\ st' = Synced(st)
      /\ pipeConfirm' = NoPipeConfirm /\ exits' = <<>> /\ UNCHANGED <<nonblock, open, sent, received>>
  BY DEF Poked
<1>2. st \in ServerState
  BY DEF PipeInv, PipeTypeOK
<1>3. Sound(st', Nobody)
  BY <1>1, <1>2, SyncedSound
<1>4. serving' \in [proc : Proc \cup {Nobody}, op : Op, bytes : Seq(Byte)] /\ serving'.proc = Nobody
  BY <1>1 DEF NotServing, Op
<1>5. /\ pipeConfirm' \in [kind : {"none", "read", "write", "close"},
                           proc : Proc \cup {Nobody}, end : End, bytes : Seq(Byte)]
      /\ pipeConfirm'.kind = "none"
  BY <1>1 DEF NoPipeConfirm, End
<1> QED
  BY <1>1, <1>3, <1>4, <1>5, Settles
-----------------------------------------------------------------------------
(* A step of a client's own, which leaves it outside the receive phase and *)
(* lets go of a descriptor only by closing it or by dying.                 *)
LEMMA ClientStep ==
  ASSUME PipeInv, NEW p \in Proc, NEW t \in Thread, st' = [st EXCEPT !.th[p] = t], t.pc # "await",
         UNCHANGED <<serving, pipeConfirm, nonblock, sent, received>>,
         open' \in [End -> SUBSET Proc], \A e \in End : open'[e] \subseteq open[e],
         \A e \in End : \A q \in open[e] : q \in open'[e] \/ (q = p /\ (Closing(t, e) \/ p \in ToSet(exits'))),
         exits' \in Seq(Proc), poke' \in BOOLEAN, poke => poke', exits' # <<>> => poke',
         st.th[p].pc # "dead", \A q \in ToSet(exits) : q \in ToSet(exits'),
         \A q \in ToSet(exits') : \/ q \in ToSet(exits)
                                  \/ q = p /\ t.pc = "dead" /\ q \notin open'["r"] /\ q \notin open'["w"],
         Calling(t) =>
           /\ t.op = "read" => t.end = "r" /\ t.n > 0 /\ p \in open'["r"]
           /\ t.op = "write" => t.end = "w" /\ t.n > 0 /\ p \in open'["w"]
           /\ t.op = "close" => p \notin open'[t.end] /\ p \in st.ends[t.end],
         Closing(st.th[p], "w") => Closing(t, "w") \/ p \in ToSet(exits'),
         \A e \in End : Closing(t, e) => Closing(st.th[p], e) \/ p \in open[e]
  PROVE  PipeInv'
<1>1. /\ st \in ServerState /\ st.start + Len(st.data) <= PipeSz /\ exits \in Seq(Proc)
      /\ pipeConfirm.kind \in {"none", "read", "write", "close"}
      /\ pipeConfirm.end \in End
  BY DEF PipeInv, PipeTypeOK
<1>2. /\ st' \in ServerState /\ st'.data = st.data /\ st'.start = st.start /\ st'.ends = st.ends
      /\ st'.asleep = st.asleep /\ st'.writing = st.writing /\ st'.th = [st.th EXCEPT ![p] = t]
  <2>1. [st.th EXCEPT ![p] = t] \in [Proc -> Thread]
    BY <1>1, StateFields
  <2>2. st' = [st EXCEPT !.th = [st.th EXCEPT ![p] = t]]
    BY <1>1 DEF ServerState
  <2> QED
    BY <1>1, <2>1, <2>2 DEF ServerState
<1>3. st'.th[p] = t /\ \A q \in Proc : q # p => st'.th[q] = st.th[q]
  BY <1>1, <1>2, StateFields
<1>4. "r" \in End /\ "w" \in End
  BY DEF End
<1>5. PipeTypeOK'
  BY <1>2 DEF PipeInv, PipeTypeOK
<1>6. SleepersKnown(st, serving.proc)' /\ (pipeConfirm.kind \in {"read", "write"} => NoneAsleep(st, serving.proc))'
  BY <1>2, <1>3 DEF PipeInv, SleepersKnown, NoneAsleep, Clogged
<1>7. WellCalled(st)'
  <2> SUFFICES ASSUME NEW q \in Proc, Calling(st'.th[q])
               PROVE  /\ st'.th[q].op = "read" => st'.th[q].end = "r" /\ st'.th[q].n > 0 /\ q \in open'["r"]
                      /\ st'.th[q].op = "write" => st'.th[q].end = "w" /\ st'.th[q].n > 0 /\ q \in open'["w"]
                      /\ st'.th[q].op = "close" => q \notin open'[st'.th[q].end] /\ q \in st'.ends[st'.th[q].end]
      BY DEF WellCalled, Calling
  <2>1. CASE q = p
    BY <1>2, <1>3, <2>1
  <2>2. CASE q # p
    <3>1. st'.th[q] = st.th[q] /\ st.th[q].end \in End
      BY <1>1, <1>3, <2>2, StateFields DEF Thread
    <3>2. /\ st.th[q].op = "read" => st.th[q].end = "r" /\ st.th[q].n > 0 /\ q \in open["r"]
          /\ st.th[q].op = "write" => st.th[q].end = "w" /\ st.th[q].n > 0 /\ q \in open["w"]
          /\ st.th[q].op = "close" => q \notin open[st.th[q].end] /\ q \in st.ends[st.th[q].end]
      BY <3>1 DEF PipeInv, WellCalled
    <3> QED
      BY <1>2, <1>4, <2>2, <3>1, <3>2
  <2> QED
    BY <2>1, <2>2
<1>8. Held(st)'
  BY <1>2 DEF PipeInv, Held
<1>9. (\A q \in ToSet(exits) : st.th[q].pc = "dead" /\ q \notin open["r"] /\ q \notin open["w"])'
  <2> SUFFICES ASSUME NEW q \in ToSet(exits')
               PROVE  st'.th[q].pc = "dead" /\ q \notin open'["r"] /\ q \notin open'["w"]
      BY DEF ToSet
  <2>1. CASE q \in ToSet(exits)
    <3>1. q \in Proc
      BY <1>1, <2>1 DEF ToSet
    <3>2. st.th[q].pc = "dead" /\ q \notin open["r"] /\ q \notin open["w"]
      BY <2>1 DEF PipeInv
    <3> QED
      BY <1>3, <1>4, <3>1, <3>2
  <2> QED
    BY <1>3, <2>1
<1>10. exits' # <<>> \/ pipeConfirm'.kind = "close" => poke'
  BY DEF PipeInv
<1>11. (OnTheWay(st, IF serving = NotServing THEN pipeConfirm ELSE NoPipeConfirm, ToSet(exits)))'
  <2> DEFINE c == IF serving = NotServing THEN pipeConfirm ELSE NoPipeConfirm
  <2>1. \A q \in st.ends["w"] :
          \/ q \in open["w"] \/ q \in ToSet(exits) \/ Closing(st.th[q], "w")
          \/ c.kind = "close" /\ c.proc = q /\ c.end = "w"
    BY DEF PipeInv, OnTheWay
  <2>2. c' = c
    OBVIOUS
  <2> HIDE DEF c
  <2>3. ASSUME NEW q \in st'.ends["w"]
        PROVE  \/ q \in open'["w"] \/ q \in ToSet(exits') \/ Closing(st'.th[q], "w")
               \/ c.kind = "close" /\ c.proc = q /\ c.end = "w"
    <3>1. q \in Proc /\ q \in st.ends["w"]
      BY <1>1, <1>2, StateFields DEF End
    <3> QED
      BY <1>3, <1>4, <2>1, <3>1
  <2>4. (OnTheWay(st, c, ToSet(exits)))'
    BY <2>2, <2>3 DEF OnTheWay, ToSet, Closing, Calling
  <2> QED
    BY <2>4 DEF c
<1>12. (serving = NotServing => ConfirmFits(st, pipeConfirm) /\ Stream(pipe_confirm(st, pipeConfirm)))'
  <2>1. SUFFICES ASSUME serving = NotServing
                 PROVE  (ConfirmFits(st, pipeConfirm) /\ Stream(pipe_confirm(st, pipeConfirm)))'
    OBVIOUS
  <2>2. ConfirmFits(st, pipeConfirm) /\ Stream(pipe_confirm(st, pipeConfirm))
    BY <2>1 DEF PipeInv
  <2>3. pipeConfirm.kind = "close" =>
          /\ pipeConfirm.proc \in Proc /\ pipeConfirm.end \in End
          /\ pipeConfirm.proc \notin open[pipeConfirm.end] /\ ~Closing(st.th[pipeConfirm.proc], pipeConfirm.end)
    BY <2>2 DEF ConfirmFits
  <2>4. pipeConfirm.kind = "close" =>
          pipeConfirm.proc \notin open'[pipeConfirm.end] /\ ~Closing(st'.th[pipeConfirm.proc], pipeConfirm.end)
    BY <1>3, <2>3
  <2>5. ConfirmFits(st, pipeConfirm)'
    BY <1>2, <2>2, <2>4 DEF ConfirmFits, Closing, Calling
  <2>6. /\ pipe_confirm(st', pipeConfirm).data = pipe_confirm(st, pipeConfirm).data
        /\ pipe_confirm(st', pipeConfirm).start = pipe_confirm(st, pipeConfirm).start
    <3>1. pipeConfirm.kind = "close" => pipeConfirm.proc \in Proc /\ pipeConfirm.end \in End
      BY <2>3
    <3> QED
      BY ONLY <1>1, <1>2, <3>1, ConfirmData
  <2>7. pipe_confirm(st, pipeConfirm)' = pipe_confirm(st', pipeConfirm)
    BY DEF pipe_confirm, fd_dtor, pipe_close, io_notify, MaybeUnblock, Eagain
  <2>8. Stream(pipe_confirm(st, pipeConfirm))'
    BY <2>2, <2>6, <2>7 DEF Stream
  <2> QED
    BY <2>5, <2>8
<1>13. (serving # NotServing => Replying)'
  <2>1. SUFFICES ASSUME serving # NotServing PROVE Replying'
    OBVIOUS
  <2>2. Replying
    BY <2>1 DEF PipeInv
  <2>3. Stream(st)'
    BY <1>2, <2>2 DEF Replying, Stream
  <2>4. /\ st'.th[serving.proc].pc = "await" => st'.th[serving.proc] = st.th[serving.proc]
        /\ pipeConfirm.proc \notin open[pipeConfirm.end] => pipeConfirm.proc \notin open'[pipeConfirm.end]
    BY <1>1, <1>3, <2>2 DEF Replying
  <2> QED
    BY <1>2, <2>2, <2>3, <2>4 DEF Replying
<1> QED
  BY <1>5, <1>6, <1>7, <1>8, <1>9, <1>10, <1>11, <1>12, <1>13 DEF PipeInv

(* Making a call, a signal and death keep the invariant.                   *)
LEMMA ClientsKeep ==
  ASSUME PipeInv, NEW p \in Proc,
         \/ \E op \in Op, end \in End, n \in 0..MaxChunk : Call(p, op, end, n)
         \/ Interrupt(p) \/ Die(p)
  PROVE  PipeInv'
<1>1. /\ st \in ServerState /\ st.th[p] \in Thread /\ exits \in Seq(Proc) /\ poke \in BOOLEAN
      /\ open \in [End -> SUBSET Proc] /\ MaxChunk \in Nat
  BY StateFields, PipeAssumption DEF PipeInv, PipeTypeOK
<1>2. \A q \in ToSet(exits) : q \in Proc
  BY <1>1 DEF ToSet
<1>3. exits # <<>> => poke
  BY DEF PipeInv
<1>4. ASSUME NEW op \in Op, NEW end \in End, NEW n \in 0..MaxChunk, Call(p, op, end, n)
      PROVE  PipeInv'
  <2> DEFINE t == [pc |-> "send", op |-> op, end |-> end, n |-> n]
  <2>1. /\ st.th[p].pc = "idle" /\ p \in open[end] /\ (op = "read" => end = "r") /\ (op = "write" => end = "w")
        /\ n > 0 <=> op \in {"read", "write"}
        /\ st' = [st EXCEPT !.th[p] = t]
        /\ open' = IF op = "close" THEN [open EXCEPT ![end] = open[end] \ {p}] ELSE open
        /\ UNCHANGED <<serving, pipeConfirm, exits, poke, nonblock, sent, received>>
    BY <1>4 DEF Call
  <2>2. t \in Thread /\ t.pc = "send" /\ t.op = op /\ t.end = end /\ t.n = n
    BY DEF Thread
  <2>3. /\ open' \in [End -> SUBSET Proc] /\ \A e \in End : open'[e] \subseteq open[e]
        /\ \A e \in End : \A q \in open[e] : q \in open'[e] \/ (q = p /\ e = end /\ op = "close")
        /\ op # "close" => open' = open
        /\ op = "close" => p \notin open'[end]
    BY <1>1, <2>1
  <2>4. p \in st.ends[end]
    BY <2>1 DEF PipeInv, Held
  <2> HIDE DEF t
  <2>5. \A e \in End : Closing(t, e) <=> op = "close" /\ e = end
    BY <2>2 DEF Closing, Calling
  <2>6. ~Closing(st.th[p], "w") /\ ToSet(exits') = ToSet(exits)
    BY <2>1 DEF Closing, Calling
  <2>7. Calling(t) =>
           /\ t.op = "read" => t.end = "r" /\ t.n > 0 /\ p \in open'["r"]
           /\ t.op = "write" => t.end = "w" /\ t.n > 0 /\ p \in open'["w"]
           /\ t.op = "close" => p \notin open'[t.end] /\ p \in st.ends[t.end]
    BY <2>1, <2>2, <2>3, <2>4
  <2>8. \A e \in End : \A q \in open[e] : q \in open'[e] \/ (q = p /\ (Closing(t, e) \/ p \in ToSet(exits')))
    BY <2>3, <2>5
  <2>9. \A e \in End : Closing(t, e) => Closing(st.th[p], e) \/ p \in open[e]
    BY <2>1, <2>5
  <2>10. st.th[p].pc # "dead" /\ t.pc # "await" /\ poke' \in BOOLEAN /\ (poke => poke') /\ (exits' # <<>> => poke')
        /\ exits' \in Seq(Proc)
    BY <1>1, <1>3, <2>1, <2>2
  <2>11. /\ \A q \in ToSet(exits) : q \in ToSet(exits')
         /\ \A q \in ToSet(exits') :
              \/ q \in ToSet(exits)
              \/ q = p /\ t.pc = "dead" /\ q \notin open'["r"] /\ q \notin open'["w"]
    BY <2>6
  <2>12. /\ st' = [st EXCEPT !.th[p] = t] /\ t \in Thread /\ open' \in [End -> SUBSET Proc]
         /\ \A e \in End : open'[e] \subseteq open[e]
         /\ UNCHANGED <<serving, pipeConfirm, nonblock, sent, received>>
         /\ Closing(st.th[p], "w") => Closing(t, "w") \/ p \in ToSet(exits')
    BY <2>1, <2>2, <2>3, <2>6
  <2> QED
    BY ONLY PipeInv, p \in Proc, <2>7, <2>8, <2>9, <2>10, <2>11, <2>12, ClientStep
<1>5. PipeIdle \in Thread /\ PipeIdle.pc = "idle" /\ Dead \in Thread /\ Dead.pc = "dead"
  BY <1>1 DEF PipeIdle, Dead, Thread, Op, End
<1>6. CASE Interrupt(p)
  <2>1. /\ st.th[p].pc \in {"send", "await"} /\ st.th[p].op = "read" /\ st' = [st EXCEPT !.th[p] = PipeIdle]
        /\ UNCHANGED <<serving, pipeConfirm, exits, poke, nonblock, open, sent, received>>
    BY <1>6 DEF Interrupt
  <2>2. ~Calling(PipeIdle) /\ \A e : ~Closing(PipeIdle, e) /\ ~Closing(st.th[p], e)
    BY <1>5, <2>1 DEF Closing, Calling
  <2>3. open' \in [End -> SUBSET Proc] /\ \A e \in End : open'[e] = open[e]
    BY <1>1, <2>1
  <2>4. st.th[p].pc # "dead" /\ PipeIdle.pc # "await" /\ poke' \in BOOLEAN /\ (poke => poke') /\ (exits' # <<>> => poke')
        /\ exits' \in Seq(Proc) /\ exits' = exits
    BY <1>1, <1>3, <1>5, <2>1
  <2>5. /\ \A q \in ToSet(exits) : q \in ToSet(exits')
        /\ \A q \in ToSet(exits') :
              \/ q \in ToSet(exits)
              \/ q = p /\ PipeIdle.pc = "dead" /\ q \notin open'["r"] /\ q \notin open'["w"]
    BY <2>4
  <2>6. /\ st' = [st EXCEPT !.th[p] = PipeIdle] /\ PipeIdle \in Thread /\ open' \in [End -> SUBSET Proc]
        /\ \A e \in End : open'[e] \subseteq open[e]
        /\ \A e \in End : \A q \in open[e] :
             q \in open'[e] \/ (q = p /\ (Closing(PipeIdle, e) \/ p \in ToSet(exits')))
        /\ UNCHANGED <<serving, pipeConfirm, nonblock, sent, received>>
    BY <1>5, <2>1, <2>3
  <2> QED
    BY ONLY PipeInv, p \in Proc, <2>2, <2>4, <2>5, <2>6, ClientStep
<1>7. CASE Die(p)
  <2>1. /\ st.th[p].pc # "dead" /\ st' = [st EXCEPT !.th[p] = Dead] /\ exits' = Append(exits, p) /\ poke' = TRUE
        /\ open' = [e \in End |-> open[e] \ {p}] /\ UNCHANGED <<serving, pipeConfirm, nonblock, sent, received>>
    BY <1>7 DEF Die
  <2>2. ~Calling(Dead) /\ \A e : ~Closing(Dead, e)
    BY <1>5 DEF Closing, Calling
  <2>3. /\ open' \in [End -> SUBSET Proc] /\ \A e \in End : open'[e] \subseteq open[e]
        /\ \A e \in End : \A q \in open[e] : q \in open'[e] \/ q = p
        /\ \A e \in End : p \notin open'[e]
    BY <1>1, <2>1
  <2>4. exits' \in Seq(Proc) /\ \A q : q \in ToSet(exits') <=> q \in ToSet(exits) \/ q = p
    <3>1. /\ exits' \in Seq(Proc) /\ Len(exits') = Len(exits) + 1 /\ Len(exits) \in Nat
          /\ exits'[Len(exits) + 1] = p /\ \A i \in 1..Len(exits) : exits'[i] = exits[i]
          /\ DOMAIN exits' = 1..(Len(exits) + 1) /\ DOMAIN exits = 1..Len(exits)
      BY <1>1, <2>1
    <3>2. ASSUME NEW q \in ToSet(exits') PROVE q \in ToSet(exits) \/ q = p
      <4>1. PICK i \in 1..(Len(exits) + 1) : q = exits'[i]
        BY <3>1, <3>2 DEF ToSet
      <4>2. i \in 1..Len(exits) \/ i = Len(exits) + 1
        BY <3>1, <4>1
      <4> QED
        BY <3>1, <4>1, <4>2 DEF ToSet
    <3>3. ASSUME NEW q \in ToSet(exits) PROVE q \in ToSet(exits')
      <4>1. PICK i \in 1..Len(exits) : q = exits[i]
        BY <3>1, <3>3 DEF ToSet
      <4>2. i \in 1..(Len(exits) + 1)
        BY <3>1, <4>1
      <4> QED
        BY <3>1, <4>1, <4>2 DEF ToSet
    <3>4. p \in ToSet(exits')
      <4>1. Len(exits) + 1 \in DOMAIN exits'
        BY <3>1
      <4> QED
        BY <3>1, <4>1 DEF ToSet
    <3> QED
      BY <3>1, <3>2, <3>3, <3>4
  <2>5. "r" \in End /\ "w" \in End
    BY DEF End
  <2> HIDE DEF Dead
  <2> QED
    BY <1>5, <2>1, <2>2, <2>3, <2>4, <2>5, ClientStep
<1> QED
  BY <1>4, <1>6, <1>7

(* The reply: only when it is delivered do bytes count as read or written, *)
(* and the confirm accounts for just these.                                *)
LEMMA ReplyKeeps ==
  ASSUME PipeInv, Reply
  PROVE  PipeInv'
<1> DEFINE p == serving.proc
<1> DEFINE k == Len(serving.bytes)
<1> DEFINE n == Len(st.data)
<1>1. /\ serving # NotServing /\ serving' = NotServing /\ UNCHANGED <<exits, poke, nonblock, open>>
      /\ pipeConfirm' = IF st.th[p].pc = "await" THEN pipeConfirm ELSE NoPipeConfirm
      /\ st' = IF st.th[p].pc = "await" THEN [st EXCEPT !.th[p] = PipeIdle] ELSE st
      /\ sent' = IF st.th[p].pc = "await" /\ serving.op = "write" THEN Plus(sent, k) ELSE sent
      /\ received' = IF st.th[p].pc = "await" /\ serving.op = "read" THEN Plus(received, k) ELSE received
  BY DEF Reply
<1>2. Replying
  BY <1>1 DEF PipeInv
<1>3. p \in Proc /\ Stream(st)
  BY <1>2 DEF Replying
<1>4. /\ st \in ServerState /\ st.start \in Nat /\ n \in Nat /\ PipeSz \in Nat \ {0} /\ MaxChunk \in Nat
      /\ st.start + n <= PipeSz /\ sent \in Byte /\ received \in Byte
      /\ pipeConfirm.kind \in {"none", "read", "write", "close"}
      /\ exits \in Seq(Proc) /\ serving.bytes \in Seq(Byte) /\ k \in Nat
      /\ pipeConfirm.bytes \in Seq(Byte) /\ pipeConfirm.end \in End
      /\ \A q \in Proc : q # Nobody
  BY StateFields, PipeAssumption DEF PipeInv, PipeTypeOK
<1>5. serving'.proc = Nobody
  BY <1>1 DEF NotServing
<1>6. CASE st.th[p].pc # "await"
  <2>1. st' = st /\ pipeConfirm' = NoPipeConfirm /\ sent' = sent /\ received' = received
    BY <1>1, <1>6
  <2>2. PipeTypeOK'
    <3>1. NotServing \in [proc : Proc \cup {Nobody}, op : Op, bytes : Seq(Byte)]
      BY DEF NotServing, Op
    <3>2. NoPipeConfirm \in [kind : {"none", "read", "write", "close"},
                             proc : Proc \cup {Nobody}, end : End, bytes : Seq(Byte)]
      BY DEF NoPipeConfirm, End
    <3> QED
      BY <1>1, <2>1, <3>1, <3>2 DEF PipeInv, PipeTypeOK
  <2>3. SleepersKnown(st, serving.proc)' /\ WellCalled(st)' /\ Held(st)'
    BY <1>1, <1>5, <1>6, <2>1 DEF PipeInv, SleepersKnown, WellCalled, Held
  <2>4. NoPipeConfirm.kind = "none" /\ NoPipeConfirm.bytes = <<>>
    BY DEF NoPipeConfirm
  <2>5. (OnTheWay(st, IF serving = NotServing THEN pipeConfirm ELSE NoPipeConfirm, ToSet(exits)))'
    <3>1. OnTheWay(st, NoPipeConfirm, ToSet(exits))
      BY <1>1 DEF PipeInv
    <3> QED
      BY <1>1, <2>1, <3>1 DEF OnTheWay
  <2>6. ConfirmFits(st, pipeConfirm)'
    BY <2>1, <2>4 DEF ConfirmFits
  <2>7. Stream(pipe_confirm(st, pipeConfirm))'
    <3>1. pipe_confirm(st, pipeConfirm)' = st
      BY <2>1, <2>4 DEF pipe_confirm
    <3> QED
      BY <1>3, <2>1, <3>1 DEF Stream
  <2> QED
    BY <1>1, <2>1, <2>2, <2>3, <2>4, <2>5, <2>6, <2>7 DEF PipeInv
<1>7. CASE st.th[p].pc = "await"
  <2>1. /\ st' = [st EXCEPT !.th[p] = PipeIdle] /\ pipeConfirm' = pipeConfirm
        /\ sent' = IF serving.op = "write" THEN Plus(sent, k) ELSE sent
        /\ received' = IF serving.op = "read" THEN Plus(received, k) ELSE received
    BY <1>1, <1>7
  <2>2. PipeIdle \in Thread /\ PipeIdle.pc = "idle"
    BY <1>4 DEF PipeIdle, Thread, Op, End
  <2>3. /\ st' \in ServerState /\ st'.data = st.data /\ st'.start = st.start /\ st'.ends = st.ends
        /\ st'.asleep = st.asleep /\ st'.writing = st.writing /\ st'.th = [st.th EXCEPT ![p] = PipeIdle]
    <3>1. [st.th EXCEPT ![p] = PipeIdle] \in [Proc -> Thread]
      BY <1>3, <1>4, <2>2, StateFields
    <3>2. st' = [st EXCEPT !.th = [st.th EXCEPT ![p] = PipeIdle]]
      BY <1>4, <2>1 DEF ServerState
    <3> QED
      BY <1>4, <3>1, <3>2 DEF ServerState
  <2>4. st'.th[p] = PipeIdle /\ \A q \in Proc : q # p => st'.th[q] = st.th[q]
    BY <1>3, <1>4, <2>3, StateFields
  <2>5. /\ serving.op = "read" => k <= n /\ serving.bytes = SubSeq(st.data, 1, k)
        /\ serving.op = "write" => st.start + n + k <= PipeSz /\ serving.bytes = From(sent, k)
    <3>1. pipeConfirm.kind = "none" => k = 0
      BY <1>2, <1>4, EmptySeq DEF Replying
    <3>2. k = 0 => serving.bytes = <<>> /\ SubSeq(st.data, 1, k) = <<>> /\ From(sent, k) = <<>>
      <4>1. From(sent, 0) \in Seq(Byte) /\ Len(From(sent, 0)) = 0
        BY <1>4, FromBytes
      <4>2. SubSeq(st.data, 1, 0) = <<>>
        BY <1>4, StateFields
      <4> QED
        BY <1>4, <4>1, <4>2, EmptySeq
    <3> HIDE DEF k, n
    <3>3. k = 0 => k <= n /\ st.start + n + k <= PipeSz
      BY <1>4
    <3>4. /\ pipeConfirm.kind = "read" => serving.op = "read" /\ k <= n /\ serving.bytes = SubSeq(st.data, 1, k)
          /\ pipeConfirm.kind = "write" => serving.op = "write" /\ st.start + n + k <= PipeSz /\ serving.bytes = From(sent, k)
          /\ pipeConfirm.kind = "close" => serving.op = "close"
      BY <1>2 DEF Replying, k, n
    <3> QED
      BY <1>4, <3>1, <3>2, <3>3, <3>4
  <2>6. sent' \in Byte /\ received' \in Byte
    BY <1>4, <2>1, <2>5, PlusCases
  <2>7. PipeTypeOK'
    <3>1. NotServing \in [proc : Proc \cup {Nobody}, op : Op, bytes : Seq(Byte)]
      BY DEF NotServing, Op
    <3> QED
      BY <1>1, <1>4, <2>1, <2>3, <2>6, <3>1 DEF PipeInv, PipeTypeOK
  <2>8. SleepersKnown(st, serving.proc)'
    BY <1>5, <2>2, <2>3, <2>4 DEF PipeInv, SleepersKnown, Clogged
  <2>9. (pipeConfirm.kind \in {"read", "write"} => NoneAsleep(st, serving.proc))'
    BY <2>1, <2>2, <2>4 DEF PipeInv, NoneAsleep
  <2>10. WellCalled(st)' /\ Held(st)'
    <3>1. \A q \in Proc : Calling(st'.th[q]) => st'.th[q] = st.th[q] /\ Calling(st.th[q])
      BY <2>2, <2>4 DEF Calling
    <3> QED
      BY <1>1, <2>3, <3>1 DEF PipeInv, WellCalled, Held, Calling
  <2>11. (\A q \in ToSet(exits) : st.th[q].pc = "dead" /\ q \notin open["r"] /\ q \notin open["w"])'
    <3>1. \A q \in ToSet(exits) : q \in Proc /\ st.th[q].pc = "dead" /\ q \notin open["r"] /\ q \notin open["w"]
      BY <1>4 DEF PipeInv, ToSet
    <3>2. ToSet(exits)' = ToSet(exits)
      BY <1>1
    <3> QED
      BY <1>1, <1>7, <2>4, <3>1, <3>2
  <2>12. (OnTheWay(st, IF serving = NotServing THEN pipeConfirm ELSE NoPipeConfirm, ToSet(exits)))'
    <3>1. \A q \in st.ends["w"] : q \in open["w"] \/ q \in ToSet(exits) \/ Closing(st.th[q], "w")
      BY <1>1 DEF PipeInv, OnTheWay, NoPipeConfirm
    <3>2. st.th[p].op = "close" => /\ pipeConfirm.kind = "close" /\ pipeConfirm.proc = p
                                   /\ st.th[p].end = pipeConfirm.end
      BY <1>2, <1>4, <1>7 DEF Replying
    <3>3. ASSUME NEW q \in st'.ends["w"]
          PROVE  \/ q \in open["w"] \/ q \in ToSet(exits) \/ Closing(st'.th[q], "w")
                 \/ pipeConfirm.kind = "close" /\ pipeConfirm.proc = q /\ pipeConfirm.end = "w"
      <4>1. q \in Proc /\ q \in st.ends["w"]
        BY <1>4, <2>3, StateFields DEF End
      <4> QED
        BY <2>4, <3>1, <3>2, <4>1 DEF Closing
    <3>4. ToSet(exits)' = ToSet(exits)
      BY <1>1
    <3> QED
      BY <1>1, <2>1, <3>3, <3>4 DEF OnTheWay, Closing, Calling
  <2>13. ConfirmFits(st, pipeConfirm)'
    <3>1. /\ pipeConfirm.kind = "read" => Len(pipeConfirm.bytes) > 0 /\ Len(pipeConfirm.bytes) <= Len(st.data)
          /\ pipeConfirm.kind = "write" => Len(pipeConfirm.bytes) > 0 /\ st.start + Len(st.data) + Len(pipeConfirm.bytes) <= PipeSz
          /\ pipeConfirm.kind = "close" => pipeConfirm.proc = p /\ pipeConfirm.proc \notin open[pipeConfirm.end]
      BY <1>2 DEF Replying
    <3>2. ~Closing(st'.th[p], pipeConfirm.end)
      BY <2>2, <2>4 DEF Closing, Calling
    <3>3. Len(pipeConfirm.bytes) \in Nat
      BY <1>4
    <3> QED
      BY <1>1, <1>3, <1>4, <2>1, <2>3, <3>1, <3>2, <3>3 DEF ConfirmFits, Closing, Calling
  <2>14. Stream(pipe_confirm(st, pipeConfirm))'
    <3> DEFINE b == pipe_confirm(st', pipeConfirm)
    <3>1. pipe_confirm(st, pipeConfirm)' = b
      BY <2>1 DEF pipe_confirm, fd_dtor, pipe_close, io_notify, MaybeUnblock, Eagain
    <3>2. SUFFICES /\ b.data = From(received', Len(b.data)) /\ Plus(received', Len(b.data)) = sent'
                   /\ b.start + Len(b.data) <= PipeSz
      BY <3>1 DEF Stream
    <3>3. st.data = From(received, n) /\ Plus(received, n) = sent /\ n \in 0..PipeSz
      BY <1>3, <1>4 DEF Stream
    <3>4. CASE pipeConfirm.kind \in {"none", "close"}
      <4>1. b.data = st.data /\ b.start = st.start
        <5>1. pipeConfirm.kind = "close" => pipeConfirm.proc \in Proc /\ pipeConfirm.end \in End
          BY <1>2, <1>4 DEF Replying
        <5> QED
          BY ONLY <1>4, <2>3, <3>4, <5>1, ConfirmData
      <4>2. sent' = sent /\ received' = received
        <5>1. pipeConfirm.kind = "none" => k = 0
          BY <1>2, EmptySeq DEF Replying
        <5>2. Plus(sent, 0) = sent /\ Plus(received, 0) = received
          <6>1. ASSUME NEW x \in Byte PROVE Plus(x, 0) = x
            <7>1. 0 \in 0..PipeSz /\ x \in Nat /\ x + 0 = x /\ x <= PipeSz
              BY <1>4 DEF Byte
            <7> QED
              BY <7>1, PlusCases
          <6> QED
            BY <1>4, <6>1
        <5>3. pipeConfirm.kind = "close" => serving.op = "close"
          BY <1>2 DEF Replying
        <5> HIDE DEF k
        <5> QED
          BY <2>1, <3>4, <5>1, <5>2, <5>3
      <4> HIDE DEF b
      <4> QED
        BY <1>4, <3>3, <4>1, <4>2
    <3>5. CASE pipeConfirm.kind = "read"
      <4>1. serving.op = "read" /\ pipeConfirm.bytes = serving.bytes /\ k <= n
        BY <1>2, <3>5 DEF Replying
      <4>2. b.data = SubSeq(st.data, k + 1, n) /\ b.start = st.start + k
        <5>1. b = [st' EXCEPT !.data = SubSeq(st'.data, k + 1, Len(st'.data)), !.start = st'.start + k]
          BY <2>3, <3>5, <4>1 DEF pipe_confirm, ServerState
        <5> HIDE DEF b, k
        <5> QED
          BY <2>3, <5>1 DEF ServerState
      <4>3. received' = Plus(received, k) /\ sent' = sent
        BY <2>1, <4>1
      <4> HIDE DEF b, k, n
      <4>4. k \in 0..n /\ k \in 0..PipeSz /\ n - k \in 0..PipeSz /\ k + (n - k) = n /\ n - k \in Nat
        BY <1>4, <3>3, <4>1
      <4>5. b.data = From(received', n - k)
        <5>1. SubSeq(From(received, n), k + 1, n) = From(Plus(received, k), n - k)
          BY <1>4, <3>3, <4>4, FromSplit
        <5> QED
          BY <3>3, <4>2, <4>3, <5>1
      <4>6. Len(b.data) = n - k
        BY <2>6, <4>4, <4>5, FromBytes
      <4>7. Plus(received', n - k) = sent'
        BY <1>4, <3>3, <4>3, <4>4, PlusPlus
      <4> QED
        BY <1>4, <4>2, <4>4, <4>5, <4>6, <4>7
    <3>6. CASE pipeConfirm.kind = "write"
      <4>1. serving.op = "write" /\ pipeConfirm.bytes = serving.bytes /\ serving.bytes = From(sent, k)
            /\ st.start + n + k <= PipeSz
        BY <1>2, <3>6 DEF Replying
      <4>2. b.data = st.data \o serving.bytes /\ b.start = st.start
        <5>1. b = [st' EXCEPT !.data = st'.data \o serving.bytes]
          BY <2>3, <3>6, <4>1 DEF pipe_confirm, ServerState
        <5> HIDE DEF b
        <5> QED
          BY <2>3, <5>1 DEF ServerState
      <4>3. received' = received /\ sent' = Plus(sent, k)
        BY <2>1, <4>1
      <4> HIDE DEF b, k, n
      <4>4. k \in 0..PipeSz /\ n \in 0..PipeSz /\ n + k \in 0..PipeSz /\ n + k <= PipeSz
        BY <1>4, <4>1
      <4>5. b.data = From(received, n + k)
        BY ZenonT(40), <1>4, <3>3, <4>1, <4>2, <4>4, FromJoined
      <4>6. Len(b.data) = n + k
        BY <1>4, <4>4, <4>5, FromBytes
      <4>7. Plus(received, n + k) = sent'
        BY <1>4, <3>3, <4>3, <4>4, PlusPlus
      <4>8. st.start + (n + k) <= PipeSz
        <5>1. st.start \in Nat /\ st.start + n + k <= PipeSz /\ k \in Nat /\ n \in Nat /\ PipeSz \in Nat
          BY <1>4, <4>1, <4>4 DEF n, k
        <5> QED
          BY ONLY <5>1
      <4> QED
        BY <4>2, <4>3, <4>5, <4>6, <4>7, <4>8
    <3> QED
      BY <1>4, <3>4, <3>5, <3>6
  <2>15. exits' # <<>> \/ pipeConfirm'.kind = "close" => poke'
    BY <1>1, <2>1 DEF PipeInv
  <2> QED
    BY <1>1, <2>7, <2>8, <2>9, <2>10, <2>11, <2>12, <2>13, <2>14, <2>15 DEF PipeInv
<1> QED
  BY <1>6, <1>7

(* The invariant holds when pipe() has returned, fork() shared the         *)
(* descriptors and some of them are closed.                                *)
LEMMA InitPipeInv ==
  PipeInit => PipeInv
<1> SUFFICES ASSUME PipeInit PROVE PipeInv
  OBVIOUS
<1>1. /\ PipeSz \in Nat \ {0} /\ MaxChunk \in Nat /\ Nobody \notin Proc
      /\ open \in [End -> SUBSET Proc] /\ nonblock \in NonBlock /\ PipeIdle \in Thread /\ PipeIdle.pc = "idle"
  BY PipeAssumption DEF PipeInit, End, PipeIdle, Thread, Op
<1>2. /\ st.data = <<>> /\ st.start = 0 /\ st.ends = open /\ st.asleep = {} /\ st.writing = {}
      /\ st.th = [q \in Proc |-> PipeIdle]
      /\ serving = NotServing /\ pipeConfirm = NoPipeConfirm /\ exits = <<>> /\ poke = FALSE
      /\ sent = 0 /\ received = 0
  BY DEF PipeInit
<1>3. st \in ServerState
  <2> DEFINE th == [q \in Proc |-> PipeIdle]
  <2>1. th \in [Proc -> Thread] /\ <<>> \in Seq(Byte) /\ 0 \in 0..PipeSz
    BY <1>1
  <2>2. st = [data |-> <<>>, start |-> 0, ends |-> open, asleep |-> {}, writing |-> {}, th |-> th]
    BY DEF PipeInit
  <2> HIDE DEF th
  <2> QED
    BY <1>1, <2>1, <2>2 DEF ServerState
<1>4. /\ serving \in [proc : Proc \cup {Nobody}, op : Op, bytes : Seq(Byte)] /\ serving.proc = Nobody
      /\ pipeConfirm \in [kind : {"none", "read", "write", "close"},
                          proc : Proc \cup {Nobody}, end : End, bytes : Seq(Byte)]
      /\ pipeConfirm.kind = "none" /\ pipeConfirm.bytes = <<>>
  BY <1>2 DEF NotServing, NoPipeConfirm, Op, End
<1>5. PipeTypeOK
  <2>1. st.start + Len(st.data) <= PipeSz
    BY <1>1, <1>2
  <2>2. exits \in Seq(Proc) /\ poke \in BOOLEAN /\ 0 \in Byte
    <3>1. poke \in BOOLEAN
      BY <1>2, Zenon
    <3>2. exits \in Seq(Proc)
      BY <1>2
    <3>3. 0 \in Byte
      BY <1>1 DEF Byte
    <3> QED
      BY <3>1, <3>2, <3>3
  <2> QED
    <3> HIDE DEF PipeInit
    <3> QED
      BY ONLY <1>1, <1>2, <1>3, <1>4, <2>1, <2>2 DEF PipeTypeOK
<1>6. \A q \in Proc : st.th[q] = PipeIdle /\ ~Calling(st.th[q])
  BY <1>1, <1>2 DEF Calling
<1>7. SleepersKnown(st, serving.proc) /\ WellCalled(st) /\ Held(st)
  BY <1>1, <1>2, <1>6 DEF SleepersKnown, WellCalled, Held
<1>8. ToSet(exits) = {}
  BY <1>2 DEF ToSet
<1>9. OnTheWay(st, IF serving = NotServing THEN pipeConfirm ELSE NoPipeConfirm, ToSet(exits))
  BY <1>2 DEF OnTheWay
<1>10. ConfirmFits(st, pipeConfirm)
  BY <1>4 DEF ConfirmFits
<1>11. Stream(pipe_confirm(st, pipeConfirm))
  <2>1. pipe_confirm(st, pipeConfirm) = st
    BY <1>4 DEF pipe_confirm
  <2>2. 0 \in Byte /\ 0 \in 0..PipeSz
    BY <1>1 DEF Byte
  <2>3. From(0, 0) = <<>> /\ Plus(0, 0) = 0
    BY <1>1, <2>2, FromBytes, PlusCases, EmptySeq
  <2> QED
    BY <1>1, <1>2, <2>1, <2>3 DEF Stream
<1> QED
  BY <1>2, <1>4, <1>5, <1>7, <1>8, <1>9, <1>10, <1>11 DEF PipeInv

(* Every step keeps the invariant.                                         *)
LEMMA NextPipeInv ==
  PipeInv /\ [PipeNext]_pipeVars => PipeInv'
<1> SUFFICES ASSUME PipeInv, [PipeNext]_pipeVars PROVE PipeInv'
  OBVIOUS
<1>1. ASSUME NEW p \in Proc, \/ \E op \in Op, end \in End, n \in 0..MaxChunk : Call(p, op, end, n)
                             \/ Interrupt(p) \/ Die(p)
      PROVE  PipeInv'
  BY <1>1, ClientsKeep
<1>2. ASSUME NEW p \in Proc, Handle(p) PROVE PipeInv'
  BY <1>2, ReadSettles, WriteSettles, CloseSettles DEF Handle
<1>3. CASE Reply
  BY <1>3, ReplyKeeps
<1>4. CASE Poked
  BY <1>4, PokedSettles
<1>5. CASE UNCHANGED pipeVars
  <2>1. /\ st' = st /\ serving' = serving /\ pipeConfirm' = pipeConfirm /\ exits' = exits /\ poke' = poke
        /\ nonblock' = nonblock /\ open' = open /\ sent' = sent /\ received' = received
    BY <1>5 DEF pipeVars
  <2>2. PipeTypeOK'
    BY <2>1 DEF PipeInv, PipeTypeOK
  <2>3. (SleepersKnown(st, serving.proc) /\ WellCalled(st) /\ Held(st)
          /\ (pipeConfirm.kind \in {"read", "write"} => NoneAsleep(st, serving.proc)))'
    BY ZenonT(30), <2>1 DEF PipeInv, SleepersKnown, WellCalled, Held, NoneAsleep, Closing, Calling
  <2>4. /\ (\A q \in ToSet(exits) : st.th[q].pc = "dead" /\ q \notin open["r"] /\ q \notin open["w"])'
        /\ (exits # <<>> \/ pipeConfirm.kind = "close" => poke)'
    BY ZenonT(30), <2>1 DEF PipeInv, ToSet
  <2>5. OnTheWay(st, IF serving = NotServing THEN pipeConfirm ELSE NoPipeConfirm, ToSet(exits))'
    BY ZenonT(30), <2>1 DEF PipeInv, OnTheWay, Closing, Calling, ToSet
  <2>6. (serving = NotServing => ConfirmFits(st, pipeConfirm) /\ Stream(pipe_confirm(st, pipeConfirm)))'
    BY ZenonT(30), <2>1 DEF PipeInv, ConfirmFits, Stream, Closing, Calling
  <2>7. (serving # NotServing => Replying)'
    BY ZenonT(30), <2>1 DEF PipeInv, Replying, Stream, ConfirmFits, Closing, Calling
  <2> QED
    BY <2>2, <2>3, <2>4, <2>5, <2>6, <2>7 DEF PipeInv
<1> QED
  BY <1>1, <1>2, <1>3, <1>4, <1>5 DEF PipeNext, Handle

(* A pipe delivers what was written: nothing is lost, repeated or          *)
(* reordered by failed replies, deaths and interrupted calls, whatever the *)
(* size of the pipe and of the calls and however many processes share it.  *)
THEOREM PipeDelivers ==
  PipeSpec => []StreamIntact
<1>1. PipeInv => StreamIntact
  <2> SUFFICES ASSUME PipeInv PROVE StreamIntact
    OBVIOUS
  <2>1. /\ serving.bytes \in Seq(Byte) /\ received \in Byte /\ st \in ServerState /\ PipeSz \in Nat
        /\ Len(serving.bytes) \in Nat /\ st.start \in Nat /\ Len(st.data) \in Nat
        /\ st.start + Len(st.data) <= PipeSz
        /\ pipeConfirm.kind \in {"none", "read", "write", "close"}
    BY StateFields, PipeAssumption DEF PipeInv, PipeTypeOK
  <2>2. serving.bytes = <<>> => serving.bytes = From(received, Len(serving.bytes))
    <3>1. From(received, 0) \in Seq(Byte) /\ Len(From(received, 0)) = 0
      BY <2>1, FromBytes
    <3> QED
      BY <3>1, EmptySeq
  <2>3. CASE serving = NotServing
    <3>1. serving.bytes = <<>>
      BY <2>3 DEF NotServing
    <3>2. Stream(pipe_confirm(st, pipeConfirm))
      BY <2>3 DEF PipeInv
    <3> QED
      BY <2>2, <3>1, <3>2 DEF StreamIntact, Stream
  <2>4. CASE serving # NotServing
    <3> DEFINE k == Len(serving.bytes)
    <3>1. SUFFICES ASSUME serving.op = "read" PROVE serving.bytes = From(received, k)
      BY <2>4 DEF StreamIntact
    <3>2. Replying
      BY <2>4 DEF PipeInv
    <3>3. CASE pipeConfirm.kind = "none"
      BY <2>2, <3>2, <3>3 DEF Replying
    <3>4. CASE pipeConfirm.kind = "read"
      <4>1. k <= Len(st.data) /\ serving.bytes = SubSeq(st.data, 1, k) /\ st.data = From(received, Len(st.data))
        BY <3>2, <3>4 DEF Replying, Stream
      <4> HIDE DEF k
      <4>2. Len(st.data) \in 0..PipeSz /\ k \in 0..Len(st.data)
        BY <2>1, <4>1 DEF k
      <4> QED
        BY <2>1, <4>1, <4>2, FromSplit
    <3> QED
      BY <2>1, <3>1, <3>2, <3>3, <3>4 DEF Replying
  <2> QED
    BY <2>3, <2>4
<1> QED
  BY <1>1, InitPipeInv, NextPipeInv, PTL DEF PipeSpec

(* No wakeup is lost: sleeping readers and writers are remembered, have a  *)
(* reason to sleep, and readers get their end of file without anybody's    *)
(* next call, for any number of processes and any size of the pipe.        *)
THEOREM PipeSleepersWake ==
  PipeSpec => []PipeWakes
<1>1. PipeInv => PipeWakes
  <2> SUFFICES ASSUME PipeInv PROVE PipeWakes
    OBVIOUS
  <2>1. /\ st \in ServerState /\ PipeSz \in Nat \ {0} /\ MaxChunk \in Nat
        /\ \A p \in Proc : st.th[p] \in Thread /\ st.th[p].n \in Nat
        /\ st.start + Len(st.data) <= PipeSz
    BY StateFields, PipeAssumption DEF PipeInv, PipeTypeOK, Thread
  <2>2. NoLostWakeup
    <3> SUFFICES ASSUME NEW p \in Proc, Asleep(p)
                 PROVE  /\ p \in st.asleep
                        /\ st.th[p].op \in {"read", "write"}
                        /\ p \in st.writing <=> st.th[p].op = "write"
                        /\ st.th[p].op = "read" =>
                             st.data = <<>> /\ pipeConfirm.kind # "write" /\ st.ends["w"] # {}
                        /\ st.th[p].op = "write" =>
                             IsFull(PrepareSpace(st, st.th[p].n)) /\ pipeConfirm.kind # "read"
        BY DEF NoLostWakeup
    <3>1. st.th[p].pc = "await" /\ p # serving.proc
      BY DEF Asleep
    <3>2. /\ p \in st.asleep /\ st.th[p].op \in {"read", "write"}
          /\ p \in st.writing <=> st.th[p].op = "write"
          /\ st.th[p].op = "read" => st.data = <<>> /\ st.ends["w"] # {}
          /\ st.th[p].op = "write" => Clogged(st)
      BY <3>1 DEF PipeInv, SleepersKnown
    <3>3. pipeConfirm.kind \notin {"read", "write"}
      BY <3>1 DEF PipeInv, NoneAsleep
    <3>4. st.th[p].op = "write" => IsFull(PrepareSpace(st, st.th[p].n))
      <4>1. st.th[p].op = "write" => st.th[p].n \in Nat \ {0}
        BY <2>1, <3>1 DEF PipeInv, WellCalled, Calling
      <4> QED
        BY <2>1, <3>2, <4>1, SpacePrepared
    <3> QED
      BY <3>2, <3>3, <3>4
  <2>3. HangupOnItsWay
    <3> SUFFICES ASSUME NEW p \in Proc, Asleep(p), st.th[p].op = "read", open["w"] = {}, ~poke
                 PROVE  \E q \in Proc : /\ st.th[q].pc \in {"send", "await"}
                                        /\ st.th[q].op = "close" /\ st.th[q].end = "w"
        BY DEF HangupOnItsWay
    <3>1. st.ends["w"] # {}
      BY DEF PipeInv, SleepersKnown, Asleep
    <3>2. PICK q \in st.ends["w"] : TRUE
      BY <3>1
    <3>3. q \in Proc
      BY <2>1, <3>2, StateFields DEF End
    <3>4. ToSet(exits) = {} /\ pipeConfirm.kind # "close" /\ NoPipeConfirm.kind # "close"
      BY DEF PipeInv, ToSet, NoPipeConfirm
    <3>5. Closing(st.th[q], "w")
      BY <3>2, <3>4 DEF PipeInv, OnTheWay
    <3> QED
      BY <3>3, <3>5 DEF Closing, Calling
  <2> QED
    BY <2>2, <2>3 DEF PipeWakes, PipeInv
<1> QED
  BY <1>1, InitPipeInv, NextPipeInv, PTL DEF PipeSpec
=============================================================================
