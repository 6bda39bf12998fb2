-------------------------------- MODULE CLib --------------------------------
(***************************************************************************)
(* Algorithms of the C library (lib/): the heap sort behind qsort() and    *)
(* bsearch(), strtoul(), the integer conversion of vsnprintf(), and the    *)
(* string functions that take a word at a time.  A state is one call and,  *)
(* after one step, its result; the properties compare it with what the     *)
(* function is to return.                                                  *)
(***************************************************************************)
EXTENDS Integers, FiniteSets, SequencesExt, Bitwise
CONSTANTS SortInputs,  \* arrays to sort and to search, of numbers
          ScanInputs,  \* arguments of strtoul(): characters and base
          ULongMax,    \* the greatest unsigned long
          FmtInputs,   \* arguments of fmt_ull()
          ByteBits,    \* bits in a byte
          WordBytes,   \* bytes in a long
          MemInputs    \* memories, with pointer, byte and length
VARIABLES call, res
clvars == <<call, res>>
NoResult == [none |-> TRUE]
NoErr == "none"
Smaller(a, b) == IF a < b THEN a ELSE b
Larger(a, b) == IF a < b THEN b ELSE a

Swap(a, i, j) == [a EXCEPT ![i] = a[j], ![j] = a[i]]

(* Arrays are counted from 0 as in the source: N is the last index. *)
LargerChild(a, N, k) == IF 2 * k < N /\ a[2 * k] < a[2 * k + 1] THEN 2 * k + 1 ELSE 2 * k
RECURSIVE downheap(_, _, _)
downheap(a, N, k) ==
    IF k > N \div 2 THEN a
    ELSE LET j == LargerChild(a, N, k)
         IN IF a[k] >= a[j] THEN a ELSE downheap(Swap(a, j, k), N, j)
(* The loop takes 0 and its children 0 and 1 last; it ends as 0 is no      *)
(* smaller than itself.                                                    *)
RECURSIVE Heapify(_, _, _)
Heapify(a, N, k) == IF k = 0 THEN downheap(a, N, 0) ELSE Heapify(downheap(a, N, k), N, k - 1)
RECURSIVE SortDown(_, _)
SortDown(a, N) == IF N = 0 THEN a ELSE SortDown(downheap(Swap(a, 0, N), N - 1, 0), N - 1)
qsort(a) ==
    LET N == Cardinality(DOMAIN a) - 1 IN IF N < 0 THEN a ELSE SortDown(Heapify(a, N, N \div 2), N)

RECURSIVE BSearch(_, _, _, _)
BSearch(a, key, l, u) ==
    LET idx == (l + u) \div 2 IN
    IF l >= u THEN -1
    ELSE IF key < a[idx] THEN BSearch(a, key, l, idx)
    ELSE IF key > a[idx] THEN BSearch(a, key, idx + 1, u) ELSE idx
bsearch(a, key) == BSearch(a, key, 0, Cardinality(DOMAIN a))

(* Characters: a digit is its value, letters among them, and these.         *)
Space == 100
Minus == 101
Plus == 102
Nul == 103
At(s, i) == IF i <= Len(s) THEN s[i] ELSE Nul
RECURSIVE SkipSpace(_, _)
SkipSpace(s, i) == IF At(s, i) = Space THEN SkipSpace(s, i + 1) ELSE i
LetterX == 33

(* The prefix chooses the base and is skipped; "0" alone is one of octal.   *)
BaseAndStart(s, base, i) ==
    IF base \in {0, 16} /\ At(s, i) = 0 /\ At(s, i + 1) = LetterX THEN <<16, i + 2>>
    ELSE IF base = 0 /\ At(s, i) = 0 THEN <<8, i + 1>>
    ELSE IF base = 0 THEN <<10, i>> ELSE <<base, i>>

Overflows(acc, base, digit) == acc > ULongMax \div base \/ ULongMax - acc * base < digit
RECURSIVE Digits(_, _, _, _, _)
Digits(s, i, base, acc, any) ==
    IF At(s, i) >= base THEN [val |-> acc, end |-> IF any THEN i - 1 ELSE 0, err |-> NoErr]
    ELSE IF Overflows(acc, base, At(s, i)) THEN [val |-> ULongMax, end |-> i, err |-> "ERANGE"]
    ELSE Digits(s, i + 1, base, acc * base + At(s, i), TRUE)
strtoull_max(s, base) ==
    LET i == SkipSpace(s, 1)
        signed == At(s, i) \in {Minus, Plus}
        bs == BaseAndStart(s, base, IF signed THEN i + 1 ELSE i)
        r == Digits(s, bs[2], bs[1], 0, FALSE)
    IN IF At(s, i) = Minus /\ r.err = NoErr THEN [r EXCEPT !.val = -r.val % (ULongMax + 1)] ELSE r

(* fmt_ull() makes a number from its last digit to its first.               *)
RECURSIVE DigitsOf(_, _)
DigitsOf(acc, base) ==
    IF acc < base THEN <<acc>> ELSE <<acc % base>> \o DigitsOf(acc \div base, base)
Fill(c, n) == [i \in 1 .. Larger(n, 0) |-> c]
Base(p) == IF p.shift = 0 THEN 10 ELSE 2 ^ p.shift
PrefixOf(p, val, last) ==
    (IF p.prefix /\ val # 0
     THEN (IF p.shift = 3 THEN <<>> ELSE <<IF p.shift = 1 THEN 11 ELSE LetterX>>)
          \o (IF p.shift # 3 \/ last # 0 THEN <<0>> ELSE <<>>) ELSE <<>>)
    \o (IF p.signed /\ val < 0 THEN <<Minus>>
        ELSE IF p.forcesign THEN <<Plus>> ELSE IF p.spacesign THEN <<Space>> ELSE <<>>)

PadOf(p, width, len, np) == Fill(p.pad, width - np - len)
fmt_ull(p, val) ==
    LET abs == IF val < 0 THEN -val ELSE val
        digits == DigitsOf(abs, Base(p))
        body == digits \o Fill(0, p.precision - Len(digits))
        prefix == PrefixOf(p, val, Last(body))
        early == ~p.leftjust /\ p.pad = Space
        text == IF early THEN body \o prefix ELSE body
        late == IF early THEN <<>> ELSE prefix
        width == Larger(p.width, 1)
        padded == IF p.leftjust THEN text ELSE text \o PadOf(p, width, Len(text), Len(late))
        out == Reverse(padded \o late)
    IN IF p.leftjust THEN out \o Fill(p.pad, width - Len(out)) ELSE out

(* fmt_ull() cuts at the end of the buffer digit by digit as it goes; here  *)
(* the whole text is made and Emit cuts it, with the same remainder.        *)
Emit(st, q, max) ==
    [buf |-> st.buf \o SubSeq(q, 1, Smaller(Len(q), Larger(max - st.pos, 0))), pos |-> st.pos + Len(q)]
Section(st, it, max) ==
    CASE it.kind = "lit" -> Emit(st, it.text, max)
      [] it.kind = "int" -> Emit(st, fmt_ull(it.p, it.val), max)
      [] it.kind = "str" ->
            LET len == IF it.precision >= 0 THEN Smaller(it.precision, Len(it.text)) ELSE Len(it.text)
            IN Emit(Emit(st, Fill(Space, it.width - len), max), SubSeq(it.text, 1, len), max)
vsnprintf(size, items) ==
    LET max == Larger(size - 1, 0)
    IN FoldLeft(LAMBDA st, it : Section(st, it, max), [buf |-> <<>>, pos |-> 0], items)

(* A word at a time (include/sneks/simd.h): memory is a function of the     *)
(* address, and a word has the byte at the lower address at its low end.    *)
ByteMod == 2 ^ ByteBits
WordMod == ByteMod ^ WordBytes
broadcast_l(c) == ((WordMod - 1) \div (ByteMod - 1)) * c
load_lel(mem, p) == FoldLeft(LAMBDA w, i : w + mem[p + i] * ByteMod ^ i, 0, [i \in 1 .. WordBytes |-> i - 1])
Flip(x) == WordMod - 1 - x
haszero(x) == (((x - broadcast_l(1)) % WordMod) & Flip(x)) & broadcast_l(ByteMod \div 2)
zero_mask(x) == haszero(x) & ((Flip(x & broadcast_l(1)) * (ByteMod \div 2)) % WordMod)
byte_mask(x, c) == zero_mask(x ^^ broadcast_l(c))
(* Where the lowest bit is set, as ffsl(m) / 8 - 1. *)
FirstByte(m) == CHOOSE i \in 0 .. WordBytes - 1 :
    /\ (m \div (ByteMod ^ i)) % ByteMod # 0 /\ \A j \in 0 .. i - 1 : (m \div (ByteMod ^ j)) % ByteMod = 0

InWord(p, found, n) == IF FirstByte(found) < n THEN p + FirstByte(found) ELSE -1
RECURSIVE memchr(_, _, _, _)
memchr(mem, p, c, n) ==
    IF n <= 0 THEN -1
    ELSE IF p % WordBytes # 0 THEN IF mem[p] = c THEN p ELSE memchr(mem, p + 1, c, n - 1)
    ELSE LET found == byte_mask(load_lel(mem, p), c)
         IN IF found = 0 THEN memchr(mem, p + WordBytes, c, n - WordBytes)
            ELSE InWord(p, found, n)

RECURSIVE StrnLen(_, _, _, _)
StrnLen(mem, p, done, max) ==
    IF done >= max THEN max
    ELSE IF p % WordBytes # 0 THEN IF mem[p] = 0 THEN done ELSE StrnLen(mem, p + 1, done + 1, max)
    ELSE LET zero == zero_mask(load_lel(mem, p))
         IN IF zero = 0 THEN StrnLen(mem, p + WordBytes, done + WordBytes, max)
            ELSE Smaller(max, done + FirstByte(zero))
strnlen(mem, p, max) == StrnLen(mem, p, 0, max)

RECURSIVE strchrnul(_, _, _)
strchrnul(mem, p, c) ==
    IF p % WordBytes # 0 THEN IF mem[p] \in {c, 0} THEN p ELSE strchrnul(mem, p + 1, c)
    ELSE LET hit == byte_mask(load_lel(mem, p), c) | zero_mask(load_lel(mem, p))
         IN IF hit = 0 THEN strchrnul(mem, p + WordBytes, c) ELSE p + FirstByte(hit)

(* strscpy(): its answer.  It copies whole words, past the end as well.     *)
RECURSIVE StrsCpy(_, _, _, _)
StrsCpy(mem, p, pos, sz) ==
    IF pos >= sz THEN -1
    ELSE IF (p + pos) % WordBytes # 0 /\ mem[p + pos] # 0 THEN StrsCpy(mem, p, pos + 1, sz)
    ELSE LET zero == zero_mask(load_lel(mem, p + pos))
             to == pos + Smaller(sz - pos, FirstByte(zero))
         IN IF zero = 0 THEN StrsCpy(mem, p, pos + WordBytes, sz) ELSE IF to < sz THEN to ELSE -1

Called(f, a) == call = [fn |-> f, a |-> a]
CLibInit ==
    /\ \/ \E a \in SortInputs : Called("sort", a)
       \/ \E a \in ScanInputs : Called("scan", a)
       \/ \E a \in FmtInputs : Called("fmt", a)
       \/ \E a \in MemInputs : Called("mem", a)
    /\ res = NoResult
Unanswered == DOMAIN res = {"none"}

Sort == /\ Unanswered /\ call.fn = "sort"
        /\ LET b == qsort(call.a)
           IN res' = [a |-> b, at |-> [x \in -1 .. 4 |-> bsearch(b, x)]]
Scan == Unanswered /\ call.fn = "scan" /\ res' = strtoull_max(call.a.s, call.a.base)
Format == /\ Unanswered /\ call.fn = "fmt"
          /\ res' = [full |-> vsnprintf(99, call.a.items), out |-> vsnprintf(call.a.size, call.a.items)]
Search == /\ Unanswered /\ call.fn = "mem"
          /\ LET m == call.a.mem
                 p == call.a.p
             IN res' = [chr |-> memchr(m, p, call.a.c, call.a.n), len |-> strnlen(m, p, call.a.n),
                        nul |-> strchrnul(m, p, call.a.c), cpy |-> StrsCpy(m, p, 0, call.a.n)]
CLibNext == (Sort \/ Scan \/ Format \/ Search) /\ UNCHANGED call
CLibSpec == CLibInit /\ [][CLibNext]_clvars

Done(f) == call.fn = f /\ ~Unanswered
LeastOf(S, none) == IF S = {} THEN none ELSE CHOOSE x \in S : \A y \in S : x <= y

(***************************************************************************)
(* qsort() returns its elements in order, though its heap counts from 0,   *)
(* and bsearch() finds in them what is there and nothing else.             *)
(***************************************************************************)
Sorted ==
    Done("sort") =>
      LET b == res.a
          D == DOMAIN call.a
      IN /\ \A i, j \in D : i < j => b[i] <= b[j]
         /\ \A x \in -1 .. 4 : Cardinality({i \in D : b[i] = x}) = Cardinality({i \in D : call.a[i] = x})
         /\ \A x \in -1 .. 4 : LET i == res.at[x] IN IF \E j \in D : b[j] = x THEN b[i] = x ELSE i = -1

(***************************************************************************)
(* strtoul() gives the number its digits make, or the greatest one and     *)
(* ERANGE when that is more: also at the very limit, for every base.       *)
(***************************************************************************)
ScansExact ==
    Done("scan") =>
      LET s == call.a.s
          i == SkipSpace(s, 1)
          start == BaseAndStart(s, call.a.base, IF At(s, i) \in {Minus, Plus} THEN i + 1 ELSE i)
          base == start[1]
          stop == LeastOf({j \in start[2] .. Len(s) + 1 : At(s, j) >= base}, 0)
          value == FoldLeft(LAMBDA v, d : v * base + d, 0, SubSeq(s, start[2], stop - 1))
      IN IF value > ULongMax THEN res.err = "ERANGE" /\ res.val = ULongMax
         ELSE /\ res.err = NoErr
              /\ res.val = IF At(s, i) = Minus THEN (ULongMax + 1 - value) % (ULongMax + 1) ELSE value
              /\ res.end = IF stop > start[2] THEN stop - 1 ELSE 0

(* The number as it reads, from its first character to its last.            *)
Sign(it) == IF it.p.signed /\ it.val < 0 THEN <<Minus>> ELSE IF it.p.forcesign THEN <<Plus>>
            ELSE IF it.p.spacesign THEN <<Space>> ELSE <<>>
Number(it) ==
    LET p == it.p
        digits == Reverse(DigitsOf(IF it.val < 0 THEN -it.val ELSE it.val, Base(p)))
        exact == Fill(0, p.precision - Len(digits)) \o digits
        alt == IF ~p.prefix \/ it.val = 0 THEN <<>>
               ELSE IF p.shift = 3 THEN (IF exact[1] = 0 THEN <<>> ELSE <<0>>)
               ELSE <<0, IF p.shift = 1 THEN 11 ELSE LetterX>>
        head == Sign(it) \o alt
        gap == p.width - Len(head \o exact)
    IN IF p.leftjust THEN head \o exact \o Fill(p.pad, gap)
       ELSE IF p.pad = Space THEN Fill(Space, gap) \o head \o exact
       ELSE head \o Fill(0, gap) \o exact

(***************************************************************************)
(* An integer that is formatted with any width, precision and flags reads  *)
(* as it should, though it is made backwards.                              *)
(***************************************************************************)
NumbersExact ==
    Done("fmt") => \A it \in ToSet(call.a.items) : Len(call.a.items) = 1 /\ it.kind = "int" =>
                     res.full.buf = Number(it)

(***************************************************************************)
(* What does not fit is cut off where the buffer ends, and the length that *)
(* is returned is that of the whole: vfprintf() and the self-tests format  *)
(* twice and rely on it.                                                   *)
(***************************************************************************)
CutsExact ==
    Done("fmt") =>
      /\ res.out.pos = res.full.pos /\ res.full.pos = Len(res.full.buf)
      /\ res.out.buf = SubSeq(res.full.buf, 1, Smaller(res.full.pos, call.a.size - 1))

(***************************************************************************)
(* The functions that look at a word at a time answer as one that looks at *)
(* each byte: not a byte before the pointer, not one past the length, not  *)
(* one that only looks like zero next to one that is.                      *)
(***************************************************************************)
WordsExact ==
    Done("mem") =>
      LET m == call.a.mem
          p == call.a.p
          n == call.a.n
          at == {i \in p .. p + n - 1 : m[i] = call.a.c}
          zero == LeastOf({i \in DOMAIN m : i >= p /\ m[i] = 0}, 99) - p
      IN /\ res.chr = LeastOf(at, -1)
         /\ res.len = Smaller(zero, n)
         /\ res.nul = LeastOf({i \in DOMAIN m : i >= p /\ m[i] \in {0, call.a.c}}, -1)
         /\ res.cpy = IF zero < n THEN zero ELSE -1
=============================================================================
