------------------------------ MODULE SquashFile ------------------------------
(***************************************************************************)
(* Regular files of the squashfs server (sys/fs.squashfs/squashfs.c): the  *)
(* file's blocks lie compressed on the image one after the other, and the  *)
(* list of their sizes follows the inode in the metadata, itself cut into  *)
(* blocks anywhere.  read_from_inode() finds its way by both.              *)
(*                                                                         *)
(* A byte of the file is its offset in the file; Junk is whatever the      *)
(* program takes from outside of what it means to read.                    *)
(***************************************************************************)
EXTENDS Integers, Sequences, SequencesExt

CONSTANTS
    BlockLog,   \* fs_block_size_log2
    FileSizes,  \* file_size of the files to look at
    Packed,     \* block number -> its compressed size on the image, none of them 0
    MetaCuts,   \* the ways to look at that metadata blocks may be cut: sequences of lengths
    Chunk,      \* PAGE_SIZE / 4: the words that seek_block_list() reads at once
    ReadCounts, \* lengths that are read
    ReadOffsets \* offsets that are read at besides the position

BlockSize == 2^BlockLog
Junk == -1
WordSize == 2       \* units of a block-list word; a cut may go through a word
JunkWord == 2^20    \* a block-list word that is none: it leads to no block of the file

VARIABLES
    image,      \* the file: its size and its metadata's cuts
    fpos,       \* the open file's position
    lastRead    \* the last read: where, how much was asked for, what came

fileVars == <<image, fpos, lastRead>>

(* The image. *)
Blocks(size) == (size + BlockSize - 1) \div BlockSize
BlockLength(size, b) == IF b < Blocks(size) - 1 THEN BlockSize ELSE size - b * BlockSize
Address(b) == FoldLeft(LAMBDA n, i : n + Packed[i], 0, [i \in 1..b |-> i])
Units(size) == FlattenSeq([b \in 1..Blocks(size) |-> [h \in 1..WordSize |-> <<b, h>>]])

\* cache_get() with read_block(): the block that starts there, unpacked.
cache_get(size, address) ==
    LET b == {x \in 0..(Blocks(size) - 1) : Address(x) = address}
    IN  IF b = {} THEN [length |-> BlockSize, first |-> Junk]
        ELSE LET n == CHOOSE x \in b : TRUE IN [length |-> BlockLength(size, n), first |-> n * BlockSize]

ByteOf(blk, i) == IF i < blk.length /\ blk.first # Junk THEN blk.first + i ELSE Junk

(***************************************************************************)
(* read_metadata(): n units from offset `off` of metadata block `blk` on,  *)
(* over as many blocks as that takes.  The stream is Units(size), cut as   *)
(* `image.cuts` says; what follows the list is other metadata.             *)
(***************************************************************************)
CutStart(cuts, blk) == FoldLeft(LAMBDA x, y : x + y, 0, SubSeq(cuts, 1, blk - 1))
Unit(img, i) == IF i <= Len(Units(img.size)) THEN Units(img.size)[i] ELSE <<Junk, Junk>>

NextBlockOffset(off) == 0

Metas == [img : [size : Nat, cuts : Seq(Nat)], blk : Nat, off : Nat, want : Nat, got : Seq(Seq(Int))]

read_metadata[m \in Metas] ==
    LET left == m.img.cuts[m.blk] - m.off
        bytes == IF left < m.want THEN left ELSE m.want
        at == CutStart(m.img.cuts, m.blk) + m.off
        got == m.got \o [i \in 1..bytes |-> Unit(m.img, at + i)]
    IN  IF m.want = 0 \/ m.blk > Len(m.img.cuts) THEN m
        ELSE IF bytes < m.want
        THEN read_metadata[[m EXCEPT !.blk = @ + 1, !.off = NextBlockOffset(m.off + bytes),
                                     !.want = @ - bytes, !.got = got]]
        ELSE [m EXCEPT !.off = @ + bytes, !.want = 0, !.got = got]

\* The next word of the list, and the place after it.
ReadWords(m, n) == read_metadata[[m EXCEPT !.want = n * WordSize, !.got = <<>>]]
WordOf(got, i) ==
    LET u == SubSeq(got, (i - 1) * WordSize + 1, i * WordSize)
    IN  IF u = [h \in 1..WordSize |-> <<u[1][1], h>>] /\ u[1][1] # Junk THEN Packed[u[1][1]] ELSE JunkWord

(* seek_block_list(): the sizes of the first target + 1 blocks, a chunk of words at a time. *)
RECURSIVE SumWords(_, _, _)
SumWords(m, target, res) ==
    IF target = 0 THEN [m |-> m, res |-> res]
    ELSE LET n == IF target < Chunk THEN target ELSE Chunk
             r == ReadWords(m, n)
         IN  SumWords(r, target - n,
                      FoldLeft(LAMBDA x, i : x + WordOf(r.got, i), res, [i \in 1..n |-> i]))

seek_block_list(m, target) == SumWords(m, target + 1, 0)

(* read_from_inode() *)
\* A mutation: a list that was skipped over whole is skipped over again.
SoughtAgain(seek) == seek

Sought(seek) == IF seek > 1 THEN 0 ELSE seek

RECURSIVE Copy(_, _, _, _, _)
Copy(m, data_block, seek, pos, r) ==
    IF Len(r.data) >= r.bytes THEN r.data
    ELSE LET w == ReadWords(m, 1)
             lenword == WordOf(w.got, 1)
             b == cache_get(m.img.size, data_block)
             todo == r.bytes - Len(r.data)
             seg == IF todo < b.length THEN todo ELSE b.length
             took == [i \in 1..seg |-> ByteOf(b, (pos % BlockSize) + i - 1)]
         IN  IF seek <= 0 THEN Copy(w, data_block + lenword, seek - 1, pos + seg, [r EXCEPT !.data = @ \o took])
             ELSE Copy(w, data_block + lenword, seek - 1, pos, r)

read_from_inode(img, count, pos) ==
    LET left == (img.size - pos) % 2^30        \* unsigned: past the end it wraps
        bytes == IF count < left THEN count ELSE left
        seek == pos \div BlockSize
        m == [img |-> img, blk |-> 1, off |-> 0, want |-> 0, got |-> <<>>]
        s == IF seek > 1 THEN seek_block_list(m, seek - 1) ELSE [m |-> m, res |-> 0]
    IN  Copy(s.m, s.res, Sought(seek), pos, [bytes |-> bytes, data |-> <<>>])

-----------------------------------------------------------------------------
NoRead == [pos |-> 0, count |-> 0, data |-> <<>>]

FileInit == image \in [size : FileSizes, cuts : MetaCuts] /\ fpos = 0 /\ lastRead = NoRead

(* squashfs_io_read() at the position (offset < 0) or elsewhere, and squashfs_wr_confirm() once *)
(* the reply was received.                                                                      *)
Confirmed(data, count) == Len(data)

\* What a read may return: past the end, where the words of the list are whatever follows it,
\* also nothing (an error of read_block(); a word that is 0 for ever keeps the server for good).
Returns(count, pos) ==
    IF count = 0 THEN {<<>>}
    ELSE {read_from_inode(image, count, pos)} \cup (IF pos > image.size THEN {<<>>} ELSE {})

FileRead(count, offset, replied) ==
    LET pos == IF offset < 0 THEN fpos ELSE offset
    IN  \E data \in Returns(count, pos) :
        /\ lastRead' = [pos |-> pos, count |-> count, data |-> data]
        /\ fpos' = IF offset < 0 /\ replied THEN fpos + Confirmed(data, count) ELSE fpos
        /\ UNCHANGED image

Outside(offset) == (offset >= 0 /\ image.size - fpos < offset) \/ (offset < 0 /\ -offset > fpos)

FileSeek(whence, offset) ==
    /\ \/ /\ whence = "cur" /\ ~Outside(offset)
          /\ fpos' = fpos + offset
       \/ whence = "set" /\ offset \in 0..image.size /\ fpos' = offset
       \/ whence = "end" /\ offset \in 0..image.size /\ fpos' = image.size - offset
    /\ lastRead' = NoRead /\ UNCHANGED image

FileNext ==
    \/ \E n \in ReadCounts, replied \in BOOLEAN : \E o \in {-1} \cup ReadOffsets : FileRead(n, o, replied)
    \/ \E wh \in {"cur", "set", "end"}, o \in {-BlockSize, 0, 1, BlockSize + 1} : FileSeek(wh, o)

-----------------------------------------------------------------------------
FileTypeOK ==
    /\ image \in [size : FileSizes, cuts : MetaCuts] /\ fpos \in Nat
    /\ lastRead \in [pos : Nat, count : Nat, data : Seq(Nat \cup {Junk})]

\* A read from within the file or from its end that starts on a block, or stays within one,
\* returns the file's own bytes from its position to its length or the end of the file, wherever
\* the block list is cut and however many of its chunks are skipped, and whatever reads past the
\* end came before it.  (One that starts inside a block and goes on into the next takes bytes
\* from behind the first block's buffer; one that starts past the end takes what is no part of
\* the file, as the unsigned difference of size and offset wraps.)
ReadsTheFile ==
    LET l == lastRead
        n == IF l.count < image.size - l.pos THEN l.count ELSE image.size - l.pos
    IN  l.pos <= image.size /\ (l.pos % BlockSize = 0 \/ (l.pos % BlockSize) + n <= BlockSize)
            => l.data = [i \in 1..n |-> l.pos + i - 1]

\* No sequence of reads, lost replies and seeks takes the position out of the file.
PositionInFile == fpos <= image.size

\* Reads of regular files.
FileExact == FileTypeOK /\ ReadsTheFile /\ PositionInFile
=============================================================================
