------------------------------- MODULE Stdio --------------------------------
(***************************************************************************)
(* A stream of lib/stdio_portable.c and the file under it: buffering by    *)
(* block and by line, a write function that takes less than it is given,   *)
(* and the memory file of fmemopen().  `spec' is the file as the program   *)
(* has reason to see it: what each call reported done is done, in order.   *)
(***************************************************************************)
EXTENDS Integers, FiniteSets, SequencesExt
CONSTANTS FileSize,   \* bytes in the file: mof->size
          BufSizes,   \* sizes a program gives to setvbuf()
          WriteLens,  \* lengths of what it writes
          WriteCaps,  \* the most that the file takes at a time
          Word        \* sizeof(long) of lib/string.c, in bytes
VARIABLES stream, file, spec,
          smeared     \* history: a flush moved what was left by less than a word
sivars == <<stream, file, spec, smeared>>
NL == "n"
Bytes == {"a", NL}
Data == UNION {[1 .. k -> Bytes] : k \in WriteLens}
Cut(q, k) == SubSeq(q, 1, k)
Rest(q, k) == SubSeq(q, k + 1, Len(q))
Least(a, b) == IF a < b THEN a ELSE b

(* mof_write(), of which the file takes no more than `cap' at a time. *)
Laid(data, pos, q) ==
    [i \in 1 .. FileSize |-> IF i \in pos + 1 .. pos + Len(q) THEN q[i - pos] ELSE data[i]]
Taken(fl, q, cap) == Least(Least(Len(q), cap), FileSize - fl.pos)
mof_write(fl, q, cap) ==
    LET k == Taken(fl, q, cap)
    IN [data |-> Laid(fl.data, fl.pos, Cut(q, k)), pos |-> fl.pos + k]

(* fopencookie() and fmemopen(): no buffer until setvbuf() asks for one.    *)
StdioInit ==
    /\ stream = [open |-> TRUE, bufmode |-> "NBF", buf |-> <<>>, bufmax |-> 0]
    /\ file = [data |-> [i \in 1 .. FileSize |-> "-"], pos |-> 0]
    /\ spec = file /\ smeared = FALSE

(* memmove() of what is left to the start of the buffer.  Less than a word  *)
(* to the left it copies backwards, over what it has not read yet (here     *)
(* byte by byte; by words, where the ends are aligned, other bytes are hit). *)
memmove(buf, n) ==
    LET len == Len(buf) - n
        moved[i \in 1 .. len] == IF n >= Word \/ i + n > len THEN buf[i + n] ELSE moved[i + n]
    IN [i \in 1 .. len |-> moved[i]]
(* fflush() goes on until the buffer is empty, and never ends on a full file. *)
RECURSIVE Flushed(_, _, _)
Flushed(fl, buf, cap) ==
    IF buf = <<>> THEN fl
    ELSE Flushed(mof_write(fl, buf, cap), memmove(buf, Taken(fl, buf, cap)), cap)
Smears(buf, cap) == Len(buf) > cap /\ cap < Word
FlushEnds == file.pos + Len(stream.buf) <= FileSize

(* The whole lines of what is written go out at once, each after what the   *)
(* buffer holds: the file, the bytes that went, and what is left.           *)
LineEnd(q) == LET ends == {i \in 1 .. Len(q) : q[i] = NL}
              IN IF ends = {} THEN 0 ELSE CHOOSE i \in ends : \A j \in ends : i <= j
RECURSIVE LinesOut(_, _, _, _)
LinesOut(fl, q, n, cap) ==
    LET nb == LineEnd(q)
        m == Taken(fl, Cut(q, nb), cap)
        r == [fl |-> mof_write(fl, Cut(q, nb), cap), q |-> Rest(q, m), n |-> n + m]
    IN IF nb = 0 THEN [fl |-> fl, q |-> q, n |-> n]
       ELSE IF m < nb THEN r ELSE LinesOut(r.fl, r.q, r.n, cap)

Unbuffered(fl, q, n, cap) ==
    [fl |-> mof_write(fl, q, cap), buf |-> <<>>, n |-> n + Taken(fl, q, cap)]
Buffered(fl, buf, q, n, cap) ==
    IF Len(buf) + Len(q) <= stream.bufmax THEN [fl |-> fl, buf |-> buf \o q, n |-> n + Len(q)]
    ELSE Unbuffered(Flushed(fl, buf, cap), q, n, cap)

Lines(fl, buf, q, cap) ==
    IF LineEnd(q) = 0 THEN Buffered(fl, buf, q, 0, cap)
    ELSE LET r == LinesOut(Flushed(fl, buf, cap), q, 0, cap) IN Buffered(r.fl, <<>>, r.q, r.n, cap)
Written(q, cap) ==
    CASE stream.bufmode = "LBF" -> Lines(file, stream.buf, q, cap)
      [] stream.bufmode = "FBF" -> Buffered(file, stream.buf, q, 0, cap)
      [] OTHER -> Unbuffered(file, q, 0, cap)

Flushes(q) ==
    CASE stream.bufmode = "LBF" -> LineEnd(q) # 0 \/ Len(stream.buf) + Len(q) > stream.bufmax
      [] stream.bufmode = "FBF" -> Len(stream.buf) + Len(q) > stream.bufmax
      [] OTHER -> FALSE

fwrite(q, cap) ==
    /\ stream.open /\ FlushEnds
    /\ LET r == Written(q, cap)
       IN /\ r.fl.pos + Len(r.buf) <= FileSize
          /\ file' = r.fl /\ stream' = [stream EXCEPT !.buf = r.buf]
          /\ spec' = [data |-> Laid(spec.data, spec.pos, Cut(q, r.n)), pos |-> spec.pos + r.n]
          /\ smeared' = (smeared \/ (Flushes(q) /\ Smears(stream.buf, cap)))

fflush(cap) ==
    /\ stream.open /\ FlushEnds
    /\ file' = Flushed(file, stream.buf, cap) /\ stream' = [stream EXCEPT !.buf = <<>>]
    /\ smeared' = (smeared \/ Smears(stream.buf, cap)) /\ UNCHANGED spec

(* fclose(); exit() does it to every stream. *)
fclose(cap) ==
    /\ stream.open /\ FlushEnds
    /\ file' = Flushed(file, stream.buf, cap)
    /\ stream' = [stream EXCEPT !.buf = <<>>, !.open = FALSE]
    /\ smeared' = (smeared \/ Smears(stream.buf, cap)) /\ UNCHANGED spec

MaySet == stream.buf = <<>>
setvbuf(mode, size) ==
    /\ stream.open /\ MaySet
    /\ stream' = [stream EXCEPT !.bufmode = mode, !.bufmax = size - 1, !.buf = <<>>]
    /\ UNCHANGED <<file, spec, smeared>>

(* fread() and fseek() go to the file past the buffer: a program flushes.   *)
mof_read(fl, k) == [fl EXCEPT !.pos = fl.pos + Least(k, FileSize - fl.pos)]
fread(k) ==
    /\ stream.open /\ stream.buf = <<>>
    /\ file' = mof_read(file, k) /\ spec' = [spec EXCEPT !.pos = Least(FileSize, spec.pos + k)]
    /\ UNCHANGED <<stream, smeared>>
fseek(off, whence) ==
    /\ stream.open /\ stream.buf = <<>>
    /\ LET to == off + CASE whence = "SET" -> 0 [] whence = "CUR" -> file.pos [] whence = "END" -> FileSize
       IN /\ to \in 0 .. FileSize
          /\ file' = [file EXCEPT !.pos = to] /\ spec' = [spec EXCEPT !.pos = to]
    /\ UNCHANGED <<stream, smeared>>

(* fgets() takes bytes one at a time until a line ends or there is room for *)
(* no more; the line as the program is to get it ends at the same place.    *)
RECURSIVE GetLine(_, _)
GetLine(fl, room) ==
    IF room = 0 \/ fl.pos = FileSize THEN fl
    ELSE LET next == mof_read(fl, 1)
         IN IF fl.data[fl.pos + 1] = NL THEN next ELSE GetLine(next, room - 1)
LineStop(room) ==
    LET ends == {i \in spec.pos + 1 .. FileSize : spec.data[i] = NL \/ i = spec.pos + room \/ i = FileSize}
    IN IF ends = {} \/ room = 0 THEN spec.pos ELSE CHOOSE i \in ends : \A j \in ends : i <= j
fgets(size) ==
    /\ stream.open /\ stream.buf = <<>>
    /\ file' = GetLine(file, size - 1) /\ spec' = [spec EXCEPT !.pos = LineStop(size - 1)]
    /\ UNCHANGED <<stream, smeared>>

(* Once bytes were smeared the model follows the stream no further. *)
StdioNext ==
  /\ ~smeared
  /\ \/ \E q \in Data, cap \in WriteCaps : fwrite(q, cap)
     \/ \E cap \in WriteCaps : fflush(cap) \/ fclose(cap)
     \/ \E mode \in {"NBF", "LBF", "FBF"}, size \in BufSizes : setvbuf(mode, size)
     \/ \E k \in 1 .. 3 : fread(k) \/ fgets(k)
     \/ \E off \in -1 .. 2, w \in {"SET", "CUR", "END"} : fseek(off, w)
StdioSpec == StdioInit /\ [][StdioNext]_sivars


(***************************************************************************)
(* A stream that is buffered by lines holds no whole line back, unless the *)
(* file took less than it was given.                                       *)
(***************************************************************************)
LinesGoOut ==
    [][stream.bufmode = "LBF" /\ NL \notin ToSet(stream.buf) =>
          \A q \in Data : fwrite(q, FileSize) => NL \notin ToSet(stream'.buf)]_sivars
=============================================================================
