--------------------------------- MODULE Vm ---------------------------------
(* The virtual memory server, sys/vm: address spaces made of lazy maps and   *)
(* of virtual pages, physical frames on the free list, on the active list or *)
(* in the page cache, copy-on-write after fork, and the page fault handler.  *)
(* VM is single-threaded, so each handler is one step; between them programs *)
(* run on what the kernel has mapped for them (tlb) and fault when that does *)
(* not suffice. Addresses are page numbers. malloc() and htable_add() do not *)
(* fail; where get_free_pl() finds no frame VM abort()s, and there is no     *)
(* step. A page's contents are its first part, where programs store, and the *)
(* rest.                                                                     *)
EXTENDS Integers, FiniteSets

CONSTANTS
  Spaces,     \* process IDs
  Frames,     \* physical pages
  NoFrame,    \* no physical page
  Top,        \* last page of user memory (user_addr_max)
  Resv,       \* pages of the UTCB, KIP and sysinfo areas
  Stores,     \* what a program stores
  FileData(_, _), \* FileData(fd, n): contents of the nth page of a file
  Menus,      \* what programs do: see menu
  MaxIno,     \* bound on next_anon_ino
  CutKinds,   \* kinds of map that programs unmap in part
  Leaf,       \* where an unsuccessful search of sp->maps may end
  Crowded     \* programs place maps where VM will carve out others

Pages == 1..Top

(* Byte count in the last page of a map: length % PAGE_SIZE, which is 0 when *)
(* the length is a multiple, and PAGE_SIZE after munmap().                   *)
Tails == 0..2
PAGE_SIZE == 2

ASSUME VmAssumption ==
  /\ Top \in Nat \ {0}
  /\ Resv \subseteq Pages /\ Resv # {}
  /\ \A m \in Menus : m.touch \subseteq Pages \ Resv /\ m.frames \in Nat
  /\ NoFrame \notin Frames
  /\ MaxIno \in Nat
  /\ Leaf \in SUBSET {"pred", "succ"} \ {{}}

VARIABLES
  menu,       \* the calls programs choose from, for the whole behaviour: how
              \* many spaces there are at once, arguments of mmap(), munmap(),
              \* brk() and upload_page(), and the pages read and written; and
              \* how much memory VM was given
  space,      \* "none", "new" (forked from 0, not configured) or "live"
  maps,       \* vm_space.maps: a set of lazy_mmaps
  pages,      \* vm_space.pages: the virtual page at each address
  brk,        \* vm_space.brk, 0 when never set
  bot,        \* vm_space.mmap_bot
  owner,      \* pp.owner
  share,      \* share_table, with each page's frame
  free,       \* page_free_list
  active,     \* page_active_list
  cache,      \* pc_buckets
  fsid,       \* pl.fsid_ino of each frame's link
  data,       \* contents of the frames
  ino,        \* next_anon_ino
  tlb,        \* what the kernel has mapped: frame and rights
  failed      \* assertions that did not hold

vars == <<menu, space, maps, pages, brk, bot, owner, share, free, active, cache,
          fsid, data, ino, tlb, failed>>

frameVars == <<owner, share, free, active, cache, fsid, data>>
spaceVars == <<space, brk, bot>>

Flags == {"W", "COW", "SHARED", "ANON"}
NoVp == [f |-> NoFrame, flags |-> {}]
NoMap == [f |-> NoFrame, rights |-> {}]
NoOne == <<>>
NoIno == <<"none", 0>>
AnonIno(n) == <<"anon", n>>
FileIno(fd) == <<"file", fd>>
Zero == <<0, 0>>
Vps == Spaces \X Pages

Init ==
  /\ menu \in Menus
  /\ space = [p \in Spaces |-> "none"]
  /\ maps = [p \in Spaces |-> {}]
  /\ pages = [p \in Spaces |-> [a \in Pages |-> NoVp]]
  /\ brk = [p \in Spaces |-> 0]
  /\ bot = [p \in Spaces |-> Top]
  /\ owner = [f \in Frames |-> NoOne]
  /\ share = {}
  /\ free \in {F \in SUBSET Frames : Cardinality(F) = menu.frames}
  /\ active = {}
  /\ cache = {}
  /\ fsid = [f \in Frames |-> NoIno]
  /\ data = [f \in Frames |-> Zero]
  /\ ino = 1
  /\ tlb = [p \in Spaces |-> [a \in Pages |-> NoMap]]
  /\ failed = {}

-----------------------------------------------------------------------------
(* Lazy maps.                                                                *)

Last(mm) == mm.addr + mm.len - 1
Overlaps(mm, lo, hi) == mm.addr <= hi /\ lo <= Last(mm)
Inside(mm, lo, hi) == lo <= mm.addr /\ Last(mm) <= hi
Kind(mm) == <<mm.back, mm.share>>
IS_ANON_MMAP(mm) == mm.back = "anon" /\ mm.share = "shared"

(* The map at address a, as a set of at most one.                            *)
find_lazy_mmap(p, a) == {mm \in maps[p] : a \in mm.addr..Last(mm)}

(* The maps that munmap_space() goes through, from the one it finds first.   *)
(* When lo is not mapped, the search ends at one of its two neighbours,      *)
(* whichever the tree has further down. From the lower one first_lazy_mmap() *)
(* walks down to nothing.                                                    *)
first_lazy_mmap(p, lo, hi, leaf) ==
  LET below == {mm \in maps[p] : Last(mm) < lo}
      over  == {mm \in maps[p] : Overlaps(mm, lo, hi)}
  IN  IF find_lazy_mmap(p, lo) = {} /\ below # {} /\ leaf = "pred"
      THEN {} ELSE over

(* What munmap leaves of a map: both ends, and the tail fragment keeps the   *)
(* map's offset.                                                             *)
Pieces(mm, lo, hi) ==
  (IF mm.addr < lo
   THEN {[mm EXCEPT !.len = lo - mm.addr, !.tail = PAGE_SIZE]} ELSE {})
  \cup
  (IF hi < Last(mm)
   THEN {[mm EXCEPT !.addr = hi + 1, !.len = Last(mm) - hi]} ELSE {})

(* A program unmaps or replaces lo..hi of its space only where that cuts no  *)
(* map of a kind outside CutKinds.                                           *)
MayClear(p, lo, hi) ==
  \A mm \in maps[p] :
    Overlaps(mm, lo, hi) => Inside(mm, lo, hi) \/ Kind(mm) \in CutKinds

-----------------------------------------------------------------------------
(* Frames and their users.                                                   *)

has_shares(sh, f) == \E s \in sh : s[3] = f

(* The virtual pages that leave p with the addresses in A, each with its     *)
(* frame.                                                                    *)
Leaving(p, A) == {<<p, a, pages[p][a].f>> : a \in {x \in A : pages[p][x] # NoVp}}

FlagsOf(g) == pages[g[1]][g[2]].flags

(* remove_vp() takes a frame whose link has no inode, of a page that is not  *)
(* copy-on-write, to have no other user, and asserts so.                     *)
SoleUser(g) == fsid[g[3]] = NoIno /\ "COW" \notin FlagsOf(g)

OwnerAfter(G) ==
  [f \in Frames |->
     IF \E g \in G : g[3] = f /\ (SoleUser(g) \/ owner[f] = <<g[1], g[2]>>)
     THEN NoOne ELSE owner[f]]

ShareAfter(G) == share \ {g \in G : ~SoleUser(g)}

(* A mutation: share_table is not asked for other users.                     *)
LastUserByOwner(G, f) == OwnerAfter(G)[f] = NoOne

(* rm_share(): the page was the frame's last user.                           *)
LastUser(G, f) == OwnerAfter(G)[f] = NoOne /\ ~has_shares(ShareAfter(G), f)

(* The frames remove_vp() hands to free_page(): those not in the page cache. *)
remove_vp(G) ==
  {g[3] : g \in {h \in G : \/ SoleUser(h)
                           \/ LastUser(G, h[3]) /\ "ANON" \in FlagsOf(h)}}

RemoveVpBad(G) ==
  {"remove_vp" : g \in {h \in G : /\ SoleUser(h)
                                  /\ \/ owner[h[3]] # <<h[1], h[2]>>
                                     \/ has_shares(share, h[3])}}
  \cup {"rm_share" : g \in {h \in G : /\ ~SoleUser(h) /\ h \notin share
                                      /\ owner[h[3]] # <<h[1], h[2]>>}}

(* Every map of every space: anon_mmap_table holds those that are shared and *)
(* anonymous.                                                                *)
anon_mmap_table == {<<p, mm>> \in Spaces \X UNION {maps[q] : q \in Spaces} :
                       mm \in maps[p] /\ IS_ANON_MMAP(mm)}

(* The page indices, from its own first page on, that munmap_space() has     *)
(* cut_anon_mmap() look up for a map: all of them when the whole map goes;   *)
(* none when a hole is cut, since the map is shortened first; what is left   *)
(* of the map when its end goes; and when its beginning goes none, or        *)
(* whatever there is if the range starts below the map and the unsigned      *)
(* difference wraps.                                                         *)
CutIndices(mm, lo, hi) ==
  CASE Inside(mm, lo, hi)                  -> 0..(mm.len - 1)
    [] mm.addr < lo /\ Last(mm) > hi       -> {}
    [] mm.addr < lo /\ Last(mm) <= hi      -> 0..(lo - mm.addr - 1)
    [] mm.addr >= lo /\ Last(mm) > hi      -> IF lo = mm.addr THEN {} ELSE 0..Top

(* The frames cut_anon_mmap() frees: cached under the map's inode, at an     *)
(* address no other map of that inode covers. (The offset is added twice; it *)
(* is 0 for shared anonymous maps.)                                          *)
cut_anon_mmap(p, mm, lo, hi) ==
  {c.f : c \in {e \in cache :
     /\ e.ino = mm.ino
     /\ \E n \in CutIndices(mm, lo, hi) :
          /\ e.off = mm.off + mm.off + n
          /\ ~\E o \in anon_mmap_table :
               /\ o # <<p, mm>> /\ o[2].ino = mm.ino
               /\ Overlaps(o[2], mm.addr + n, mm.addr + n)}}

(* The kernel takes the given rights to the given frames from every space.   *)
UnmapFpages(F, rights) ==
  [q \in Spaces |-> [a \in Pages |->
     IF tlb[q][a].f \notin F THEN tlb[q][a]
     ELSE IF tlb[q][a].rights \subseteq rights THEN NoMap
     ELSE [tlb[q][a] EXCEPT !.rights = @ \ rights]]]

(* What becomes of p's maps and pages, and of the frames, when lo..hi is     *)
(* unmapped: remove_vp_range(), then the lazy maps are carved up.            *)
munmap_space(p, lo, hi, leaf) ==
  LET G   == Leaving(p, lo..hi)
      hit == first_lazy_mmap(p, lo, hi, leaf)
      cut == UNION {cut_anon_mmap(p, mm, lo, hi) : mm \in {x \in hit : IS_ANON_MMAP(x)}}
      own == OwnerAfter(G)
      shr == ShareAfter(G)
  IN  [maps   |-> (maps[p] \ hit) \cup UNION {Pieces(mm, lo, hi) : mm \in hit},
       pages  |-> [a \in Pages |-> IF a \in lo..hi THEN NoVp ELSE pages[p][a]],
       owner  |-> own,
       share  |-> shr,
       freed  |-> remove_vp(G) \cup cut,
       tlb    |-> UnmapFpages({g[3] : g \in G}, {"R", "W"}),
       bad    |-> RemoveVpBad(G) \cup
                  {"cut_anon_mmap" : f \in {x \in cut : own[x] # NoOne \/ has_shares(shr, x)}}]

(* No change: what reserve_mmap() does to a range that holds no map.         *)
Untouched(p) ==
  [maps |-> maps[p], pages |-> pages[p], owner |-> owner, share |-> share,
   freed |-> {}, tlb |-> tlb, bad |-> {}]

Clear(p, lo, hi, leaf) ==
  IF \E mm \in maps[p] : Overlaps(mm, lo, hi)
  THEN munmap_space(p, lo, hi, leaf) ELSE Untouched(p)

(* Enter the result r of unmapping, and a set of new maps, into p's space.   *)
(* A freed frame's link keeps its inode.                                     *)
Enter(p, r, new) ==
  /\ maps' = [maps EXCEPT ![p] = r.maps \cup new]
  /\ pages' = [pages EXCEPT ![p] = r.pages]
  /\ owner' = r.owner
  /\ share' = r.share
  /\ free' = free \cup r.freed
  /\ active' = active \ r.freed
  /\ cache' = {c \in cache : c.f \notin r.freed}
  /\ tlb' = r.tlb
  /\ failed' = failed \cup r.bad \cup
       {"reserve_mmap" : mm \in {x \in new : \E y \in r.maps : Overlaps(y, x.addr, Last(x))}}
  /\ UNCHANGED <<fsid, data>>

-----------------------------------------------------------------------------
(* Address space operations.                                                 *)

lazy_mmap(addr, len, share_, back, prot, i, off, tail) ==
  [addr |-> addr, len |-> len, share |-> share_, back |-> back, prot |-> prot,
   ino |-> i, off |-> off, tail |-> tail]

PrivateAnon(lo, hi) ==
  lazy_mmap(lo, hi - lo + 1, "private", "anon", {"W"}, NoIno, 0, 0)

(* Pages a map may not take: the areas of the kernel and the page below brk. *)
Nogo(p, lo, hi) == (lo..hi) \cap (Resv \cup {brk[p] - 1}) # {}

(* The map that mmap() makes of its arguments.                               *)
MapFor(m) ==
  LET anon == m.back = "anon" /\ m.share = "shared"
  IN  lazy_mmap(m.addr, m.len, m.share, m.back, m.prot,
                IF anon THEN AnonIno(ino)
                ELSE IF m.back = "file" THEN FileIno(m.fd) ELSE NoIno,
                IF anon THEN 0 ELSE m.off, m.tail)

(* An inode number is used up whether or not the call succeeds.              *)
TakeIno(m) ==
  IF m.back = "anon" /\ m.share = "shared"
  THEN ino <= MaxIno /\ ino' = ino + 1 ELSE ino' = ino

(* mmap() with MAP_FIXED takes the place of what was mapped there.           *)
MmapFixed(p, m, leaf) ==
  LET hi == m.addr + m.len - 1
  IN  /\ m.fixed /\ space[p] = "live"
      /\ ~Nogo(p, m.addr, hi)
      /\ MayClear(p, m.addr, hi)
      /\ TakeIno(m)
      /\ Enter(p, Clear(p, m.addr, hi, leaf), {MapFor(m)})
      /\ UNCHANGED spaceVars

(* mmap() with a hint that can be followed.                                  *)
Hint(p, m) ==
  /\ m.addr # 0
  /\ ~Nogo(p, m.addr, m.addr + m.len - 1)
  /\ \A mm \in maps[p] : ~Overlaps(mm, m.addr, m.addr + m.len - 1)

MmapHint(p, m) ==
  /\ ~m.fixed /\ space[p] = "live"
  /\ Hint(p, m)
  /\ TakeIno(m)
  /\ Enter(p, Untouched(p), {MapFor(m)})
  /\ UNCHANGED spaceVars

(* mmap() that carves its range from below the last one. Nothing checks that *)
(* it is free: reserve_mmap()'s assertion fails when a map lies there, and   *)
(* the areas of the kernel would be taken ("FIXME"). Unless Crowded programs *)
(* have put nothing there; that the address space does not end is a bound.   *)
MmapCarve(p, m) ==
  LET lo == bot[p] - m.len + 1
  IN  /\ ~m.fixed /\ space[p] = "live"
      /\ ~Hint(p, m)
      /\ lo > 0
      /\ Crowded \/ (lo..bot[p]) \cap Resv = {}
      /\ Crowded \/ \A mm \in maps[p] : ~Overlaps(mm, lo, bot[p])
      /\ TakeIno(m)
      /\ Enter(p, Untouched(p), {[MapFor(m) EXCEPT !.addr = lo]})
      /\ bot' = [bot EXCEPT ![p] = @ - m.len]
      /\ UNCHANGED <<space, brk>>

(* mmap() with MAP_FIXED that may not be there: EEXIST.                      *)
MmapRefused(p, m) ==
  /\ m.fixed /\ space[p] = "live"
  /\ Nogo(p, m.addr, m.addr + m.len - 1)
  /\ TakeIno(m)
  /\ UNCHANGED <<spaceVars, frameVars, maps, pages, tlb, failed>>

vm_mmap(p, m) ==
  \/ \E leaf \in Leaf : MmapFixed(p, m, leaf)
  \/ MmapHint(p, m)
  \/ MmapCarve(p, m)
  \/ MmapRefused(p, m)

vm_munmap(p, lo, hi, leaf) ==
  /\ space[p] = "live"
  /\ MayClear(p, lo, hi)
  /\ Enter(p, munmap_space(p, lo, hi, leaf), {})
  /\ UNCHANGED <<spaceVars, ino>>

(* brk() up to b: fresh memory if nothing is mapped at the old break. (The   *)
(* map found at brk never ends there, so it is never extended.) A range that *)
(* meets a reserved area is refused.                                         *)
BrkUp(p, b, leaf) ==
  /\ 0 < brk[p] /\ brk[p] < b
  /\ \/ find_lazy_mmap(p, brk[p]) # {} /\ Enter(p, Untouched(p), {})
     \/ /\ find_lazy_mmap(p, brk[p]) = {}
        /\ ~Nogo(p, brk[p], b - 1)
        /\ MayClear(p, brk[p], b - 1)
        /\ Enter(p, Clear(p, brk[p], b - 1, leaf), {PrivateAnon(brk[p], b - 1)})

(* The anonymous map that ends at the old break and starts below the new.    *)
Heap(p, b) ==
  {mm \in find_lazy_mmap(p, brk[p] - 1) :
     mm.addr < b /\ Last(mm) + 1 = brk[p] /\ mm.back = "anon"}

(* brk() down to b: the map that ends at the old break is shortened without  *)
(* cut_anon_mmap(), or the range is unmapped. When b is the old break that   *)
(* splits the map there in two.                                              *)
BrkDown(p, b, leaf) ==
  LET heap == Heap(p, b)
      un   == munmap_space(p, b, brk[p] - 1, leaf)
  IN  /\ 0 < brk[p] /\ b <= brk[p]
      /\ MayClear(p, b, brk[p] - 1)
      /\ \/ /\ heap # {}
            /\ Enter(p, [un EXCEPT !.maps = (maps[p] \ heap) \cup
                                            {[mm EXCEPT !.len = b - mm.addr] : mm \in heap},
                                   !.freed = remove_vp(Leaving(p, b..(brk[p] - 1))),
                                   !.bad = RemoveVpBad(Leaving(p, b..(brk[p] - 1)))], {})
         \/ heap = {} /\ Enter(p, un, {})

vm_brk(p, b, leaf) ==
  /\ space[p] = "live"
  /\ \/ brk[p] = 0 /\ Enter(p, Untouched(p), {})
     \/ BrkUp(p, b, leaf)
     \/ BrkDown(p, b, leaf)
  /\ brk' = [brk EXCEPT ![p] = b]
  /\ UNCHANGED <<space, bot, ino>>

(* Everything p has: its pages leave, then every shared anonymous map is cut *)
(* as a whole.                                                               *)
vm_erase(p) ==
  LET G   == Leaving(p, Pages)
      own == OwnerAfter(G)
      shr == ShareAfter(G)
      cut == UNION {cut_anon_mmap(p, mm, 1, Top) : mm \in {x \in maps[p] : IS_ANON_MMAP(x)}}
  IN  /\ space[p] = "live"
      /\ Enter(p, [maps |-> {}, pages |-> [a \in Pages |-> NoVp],
                   owner |-> own, share |-> shr, freed |-> remove_vp(G) \cup cut,
                   tlb |-> UnmapFpages({g[3] : g \in G}, {"R", "W"}),
                   bad |-> RemoveVpBad(G) \cup
                     {"cut_anon_mmap" : f \in {x \in cut : own[x] # NoOne \/ has_shares(shr, x)}}],
               {})
      /\ space' = [space EXCEPT ![p] = "none"]
      /\ UNCHANGED <<brk, bot, ino>>

Room == Cardinality({p \in Spaces : space[p] # "none"}) < menu.spaces

(* fork() from process 0: a space that is configured before it runs.         *)
Spawn(c) ==
  /\ space[c] = "none" /\ Room
  /\ space' = [space EXCEPT ![c] = "new"]
  /\ brk' = [brk EXCEPT ![c] = 0]
  /\ bot' = [bot EXCEPT ![c] = Top]
  /\ UNCHANGED <<maps, pages, frameVars, ino, tlb, failed>>

vm_configure(p) ==
  /\ space[p] = "new"
  /\ space' = [space EXCEPT ![p] = "live"]
  /\ LET low == PrivateAnon(1, (CHOOSE r \in Resv : \A x \in Resv : r <= x) - 1)
     IN  Enter(p, Clear(p, low.addr, Last(low), "succ"), {low})
  /\ UNCHANGED <<brk, bot, ino>>

(* The addresses of p whose pages the child gets. Pages in the page cache    *)
(* and read-only file pages are left for it to fault in.                     *)
fork_pages(p) ==
  {a \in Pages : LET fl == pages[p][a].flags
                 IN  /\ pages[p][a] # NoVp
                     /\ \/ "ANON" \in fl
                        \/ "SHARED" \notin fl /\ fl \cap {"W", "COW"} # {}}

(* add_share() for a set of pages with their frames: the first user of a     *)
(* frame without an owner becomes its owner.                                 *)
Primary(G) == {g \in G : owner[g[3]] = NoOne}
AddOwners(G) ==
  [f \in Frames |-> IF \E g \in Primary(G) : g[3] = f
                    THEN LET g == CHOOSE h \in Primary(G) : h[3] = f IN <<g[1], g[2]>>
                    ELSE owner[f]]
AddShares(G) == share \cup (G \ Primary(G))

(* A mutation: the right to write stays.                                     *)
CowFlagsWritable(fl) == IF "W" \in fl THEN fl \cup {"COW"} ELSE fl

CowFlags(fl) == IF "W" \in fl THEN (fl \ {"W"}) \cup {"COW"} ELSE fl

(* fork_maps() copies the maps; each page of fork_pages() gets a second user *)
(* and both become copy-on-write; the kernel takes the right to write those  *)
(* frames from whoever has it.                                               *)
vm_fork(p, c) ==
  LET A   == fork_pages(p)
      G   == {<<c, a, pages[p][a].f>> : a \in A}
      cow == {a \in A : "W" \in pages[p][a].flags}
      Cow(a) == [pages[p][a] EXCEPT !.flags = CowFlags(@)]
  IN  /\ space[p] # "none" /\ space[c] = "none" /\ Room
      /\ space' = [space EXCEPT ![c] = space[p]]
      /\ brk' = [brk EXCEPT ![c] = brk[p]]
      /\ bot' = [bot EXCEPT ![c] = bot[p]]
      /\ maps' = [maps EXCEPT ![c] = maps[p]]
      /\ pages' = [pages EXCEPT
           ![c] = [a \in Pages |-> IF a \in A THEN Cow(a) ELSE NoVp],
           ![p] = [a \in Pages |-> IF a \in cow THEN Cow(a) ELSE pages[p][a]]]
      /\ owner' = AddOwners(G)
      /\ share' = AddShares(G)
      /\ tlb' = UnmapFpages({pages[p][a].f : a \in cow}, {"W"})
      /\ failed' = failed \cup
           {"fork_pages" : a \in {x \in Pages : /\ pages[p][x] # NoVp
                                                /\ pages[p][x].flags \cap {"W", "COW"} = {}}}
      /\ UNCHANGED <<free, active, cache, fsid, data, ino>>

(* A page image for a loader, in a map of its own.                           *)
vm_upload_page(p, a, v, f, leaf) ==
  LET r == Clear(p, a, a, leaf)
  IN  /\ space[p] = "live"
      /\ ~Nogo(p, a, a)
      /\ MayClear(p, a, a)
      /\ f \in free \cup r.freed
      /\ maps' = [maps EXCEPT ![p] = r.maps \cup {PrivateAnon(a, a)}]
      /\ pages' = [pages EXCEPT ![p] = [r.pages EXCEPT ![a] = [f |-> f, flags |-> {"W", "ANON"}]]]
      /\ owner' = [r.owner EXCEPT ![f] = <<p, a>>]
      /\ share' = r.share
      /\ free' = (free \cup r.freed) \ {f}
      /\ active' = (active \ r.freed) \cup {f}
      /\ cache' = {c \in cache : c.f \notin r.freed}
      /\ tlb' = r.tlb
      /\ failed' = failed \cup r.bad
      /\ data' = [data EXCEPT ![f] = <<v, v>>]
      /\ UNCHANGED <<spaceVars, fsid, ino>>

-----------------------------------------------------------------------------
(* Page faults. rw is "R" or "W". A fault that none of these actions answers *)
(* gets the process SIGSEGV and changes nothing here.                        *)

Fault(p, a, rw) ==
  /\ space[p] = "live"
  /\ rw \notin tlb[p][a].rights

RightsOf(vp) == {"R"} \cup (vp.flags \cap {"W"})

(* The reply to the fault maps the page with the rights it has.              *)
Reply(p, a, vp) ==
  /\ pages' = [pages EXCEPT ![p][a] = vp]
  /\ tlb' = [tlb EXCEPT ![p][a] = [f |-> vp.f, rights |-> RightsOf(vp)]]
  /\ UNCHANGED <<maps, spaceVars, ino>>

remap(p, a, rw) ==
  /\ Fault(p, a, rw)
  /\ pages[p][a] # NoVp
  /\ rw \in RightsOf(pages[p][a])
  /\ Reply(p, a, pages[p][a])
  /\ UNCHANGED <<frameVars, failed>>

(* A write to a copy-on-write page: the last user of a frame outside the     *)
(* page cache takes it over, another one leaves it and gets a copy.          *)
CowFault(p, a) ==
  /\ Fault(p, a, "W")
  /\ "COW" \in pages[p][a].flags

CowSole(p, a) ==
  LET f == pages[p][a].f
  IN  /\ owner[f] \in {NoOne, <<p, a>>}
      /\ "ANON" \in pages[p][a].flags
      /\ ~has_shares(share \ {<<p, a, f>>}, f)

pf_cow_take(p, a) ==
  LET vp == pages[p][a]
  IN  /\ CowFault(p, a) /\ CowSole(p, a)
      /\ owner' = [owner EXCEPT ![vp.f] = <<p, a>>]
      /\ share' = share \ {<<p, a, vp.f>>}
      /\ failed' = failed \cup (IF "SHARED" \in vp.flags THEN {"pf_cow"} ELSE {})
      /\ Reply(p, a, [vp EXCEPT !.flags = (@ \ {"COW"}) \cup {"W"}])
      /\ UNCHANGED <<free, active, cache, fsid, data>>

pf_cow_copy(p, a, f) ==
  LET vp == pages[p][a]
  IN  /\ CowFault(p, a) /\ ~CowSole(p, a)
      /\ f \in free
      /\ owner' = [owner EXCEPT ![f] = <<p, a>>,
                                ![vp.f] = IF @ = <<p, a>> THEN NoOne ELSE @]
      /\ share' = share \ {<<p, a, vp.f>>}
      /\ free' = free \ {f}
      /\ active' = active \cup {f}
      /\ data' = [data EXCEPT ![f] = data[vp.f]]
      /\ failed' = failed \cup (IF owner[vp.f] # <<p, a>> /\ <<p, a, vp.f>> \notin share
                                THEN {"pf_cow"} ELSE {})
      /\ Reply(p, a, [f |-> f, flags |-> (vp.flags \ {"COW", "SHARED"}) \cup {"W", "ANON"}])
      /\ UNCHANGED <<cache, fsid>>

(* The first fault on a page, in a map that permits it.                      *)
Missing(p, a, rw, mm) ==
  /\ Fault(p, a, rw)
  /\ pages[p][a] = NoVp
  /\ mm \in find_lazy_mmap(p, a)
  /\ rw \in {"R"} \cup mm.prot

(* Private anonymous memory: a frame of zeroes.                              *)
pf_anon(p, a, rw, f, mm) ==
  /\ Missing(p, a, rw, mm)
  /\ Kind(mm) = <<"anon", "private">>
  /\ f \in free
  /\ free' = free \ {f}
  /\ active' = active \cup {f}
  /\ owner' = [owner EXCEPT ![f] = <<p, a>>]
  /\ data' = [data EXCEPT ![f] = Zero]
  /\ Reply(p, a, [f |-> f, flags |-> mm.prot \cup {"ANON"}])
  /\ UNCHANGED <<share, cache, fsid, failed>>

Offset(mm, a) == mm.off + a - mm.addr

find_cached_page(mm, a) == {c \in cache : c.ino = mm.ino /\ c.off = Offset(mm, a)}

(* What a page of a map is read as: zeroes, or the file's page.              *)
read_at(mm, a) == IF mm.back = "anon" THEN Zero ELSE FileData(mm.ino[2], Offset(mm, a))

(* The last page of a map whose tailsz is less than a page shows tailsz      *)
(* bytes and zeroes.                                                         *)
IsTail(mm, a) == a = Last(mm) /\ mm.tail < PAGE_SIZE
Cleared(mm, a, c) ==
  IF ~IsTail(mm, a) THEN c
  ELSE [i \in 1..2 |-> IF i <= mm.tail THEN c[i] ELSE 0]

(* The frame the map's page has in the page cache, or a free one that is     *)
(* read into and put there.                                                  *)
CacheFrames(mm, a) ==
  IF find_cached_page(mm, a) # {} THEN {c.f : c \in find_cached_page(mm, a)} ELSE free

CacheData(mm, a, g) == IF find_cached_page(mm, a) # {} THEN data[g] ELSE read_at(mm, a)

push_cached_page(mm, a, g) ==
  /\ cache' = cache \cup {[ino |-> mm.ino, off |-> Offset(mm, a), f |-> g]}
  /\ fsid' = [fsid EXCEPT ![g] = mm.ino]

(* Shared maps, and read faults in file maps: frame g of the page cache is   *)
(* shared, except that the tail of a map is a copy of its own, h. A read     *)
(* fault in a writable map makes the page copy-on-write.                     *)
pf_mmap_shared(p, a, rw, g, h, mm) ==
  LET tail == IsTail(mm, a)
      c    == CacheData(mm, a, g)
      fl   == mm.prot \cup (IF tail THEN {"ANON"} ELSE {"SHARED"})
      G    == {<<p, a, g>>}
  IN  /\ Missing(p, a, rw, mm)
      /\ mm.share = "shared" \/ (rw = "R" /\ mm.back = "file")
      /\ g \in CacheFrames(mm, a)
      /\ h \in (IF tail THEN free \ {g} ELSE {g})
      /\ push_cached_page(mm, a, g)
      /\ data' = [data EXCEPT ![g] = c, ![h] = Cleared(mm, a, c)]
      /\ free' = free \ {g, h}
      /\ active' = IF tail THEN active \cup {h} ELSE active
      /\ owner' = IF tail THEN [owner EXCEPT ![h] = <<p, a>>] ELSE AddOwners(G)
      /\ share' = IF tail THEN share ELSE AddShares(G)
      /\ Reply(p, a, [f |-> h, flags |-> IF rw = "R" THEN CowFlags(fl) ELSE fl])
      /\ UNCHANGED failed

(* Write faults in private file maps: a copy of the cached page.             *)
pf_mmap_private(p, a, g, h, mm) ==
  LET c == CacheData(mm, a, g)
  IN  /\ Missing(p, a, "W", mm)
      /\ Kind(mm) = <<"file", "private">>
      /\ g \in CacheFrames(mm, a)
      /\ h \in free \ {g}
      /\ push_cached_page(mm, a, g)
      /\ data' = [data EXCEPT ![g] = c, ![h] = Cleared(mm, a, c)]
      /\ free' = free \ {g, h}
      /\ active' = active \cup {h}
      /\ owner' = [owner EXCEPT ![h] = <<p, a>>]
      /\ Reply(p, a, [f |-> h, flags |-> mm.prot \cup {"ANON"}])
      /\ UNCHANGED <<share, failed>>

vm_pf(p, a, rw) ==
  \/ remap(p, a, rw)
  \/ rw = "W" /\ pf_cow_take(p, a)
  \/ \E f \in free : rw = "W" /\ pf_cow_copy(p, a, f)
  \/ \E mm \in find_lazy_mmap(p, a) :
       \/ \E f \in free : pf_anon(p, a, rw, f, mm)
       \/ \E g, h \in Frames : pf_mmap_shared(p, a, rw, g, h, mm)
       \/ \E g, h \in Frames : rw = "W" /\ pf_mmap_private(p, a, g, h, mm)

-----------------------------------------------------------------------------
(* A program stores through what the kernel has mapped for it.               *)
Put(c, v) == <<v, c[2]>>

Store(p, a, v) ==
  /\ space[p] = "live"
  /\ "W" \in tlb[p][a].rights
  /\ data' = [data EXCEPT ![tlb[p][a].f] = Put(@, v)]
  /\ UNCHANGED <<spaceVars, maps, pages, owner, share, free, active, cache, fsid,
                 ino, tlb, failed>>

Next ==
  /\ UNCHANGED menu
  /\ \E p \in Spaces :
       \/ Spawn(p)
       \/ vm_configure(p)
       \/ vm_erase(p)
       \/ \E c \in Spaces : vm_fork(p, c)
       \/ \E m \in menu.mmaps : vm_mmap(p, m)
       \/ \E r \in menu.unmaps, leaf \in Leaf : vm_munmap(p, r[1], r[2], leaf)
       \/ \E b \in menu.brks, leaf \in Leaf : vm_brk(p, b, leaf)
       \/ \E a \in menu.uploads, v \in Stores, leaf \in Leaf, f \in Frames :
            vm_upload_page(p, a, v, f, leaf)
       \/ \E a \in menu.touch, rw \in {"R", "W"} : vm_pf(p, a, rw)
       \/ \E a \in menu.touch, v \in Stores : Store(p, a, v)

Spec == Init /\ [][Next]_vars

-----------------------------------------------------------------------------
(* Properties.                                                               *)

Mmaps == UNION {m.mmaps : m \in Menus}
Inos == {NoIno} \cup {AnonIno(n) : n \in 1..MaxIno} \cup {FileIno(m.fd) : m \in Mmaps}

(* Every variable keeps its type: maps lie in user memory, pages name frames *)
(* and flags, and the kernel maps no frame without rights.                   *)
TypeOK ==
  /\ space \in [Spaces -> {"none", "new", "live"}]
  /\ \A p \in Spaces : \A mm \in maps[p] :
       mm.addr \in Pages /\ mm.len \in 1..Top /\ Last(mm) \in Pages /\ mm.tail \in Tails
  /\ pages \in [Spaces -> [Pages -> [f : Frames \cup {NoFrame}, flags : SUBSET Flags]]]
  /\ brk \in [Spaces -> 0..(Top + 1)] /\ bot \in [Spaces -> 0..Top]
  /\ owner \in [Frames -> {NoOne} \cup Vps]
  /\ share \subseteq Spaces \X Pages \X Frames
  /\ free \subseteq Frames /\ active \subseteq Frames
  /\ cache \subseteq [ino : Inos, off : 0..Top, f : Frames]
  /\ fsid \in [Frames -> Inos]
  /\ ino \in 1..(MaxIno + 1)
  /\ \A p \in Spaces, a \in Pages :
       (tlb[p][a].f = NoFrame) <=> (tlb[p][a].rights = {})

Users(f) == {v \in Vps : pages[v[1]][v[2]].f = f}
Cached == {c.f : c \in cache}

(* The checkers that VM itself runs in a debug build.  has_users() is what   *)
(* pp->owner and share_table say of a frame, Users() what the pages say.     *)
Sharers(f) == {<<s[1], s[2]>> : s \in {t \in share : t[3] = f}}
has_users(f) == owner[f] # NoOne \/ Sharers(f) # {}

vp_invariants(vp, f) == vp.f = f /\ ~({"W", "COW"} \subseteq vp.flags)

(* Every page of every space is known by its frame and lies in a lazy map.   *)
all_space_invariants ==
  \A p \in Spaces :
    /\ \A a \in Pages : pages[p][a] # NoVp =>
         /\ <<p, a>> \in {owner[pages[p][a].f]} \cup Sharers(pages[p][a].f)
         /\ find_lazy_mmap(p, a) # {}
    /\ \A mm \in maps[p] : mm.tail <= PAGE_SIZE

(* A user in share_table has the frame it is listed for, and is not the      *)
(* owner as well.                                                            *)
share_table_invariants ==
  \A t \in share : /\ pages[t[1]][t[2]].f = t[3]
                   /\ owner[t[3]] # <<t[1], t[2]>>
                   /\ owner[t[3]] # NoOne => pages[owner[t[3]][1]][owner[t[3]][2]].f = t[3]

(* Shared anonymous memory leaves the page cache with its last map, and      *)
(* pages that use cached frames are marked so.                               *)
pc_invariants ==
  \A c \in cache :
    /\ c.ino[1] = "anon" => \E o \in anon_mmap_table : o[2].ino = c.ino
    /\ (Users(c.f) = {}) = ~has_users(c.f)
    /\ \A v \in Users(c.f) : LET fl == pages[v[1]][v[2]].flags
                             IN  "SHARED" \in fl /\ "ANON" \notin fl

invariants ==
  /\ free \cap active = {} /\ free \cap Cached = {} /\ active \cap Cached = {}
  /\ Cardinality(free \cup active \cup Cached) = menu.frames
  /\ \A f \in free : owner[f] = NoOne
  /\ \A f \in active : has_users(f)
  /\ \A f \in free \cup active \cup Cached : \A v \in {owner[f]} \cup Sharers(f) :
       v # NoOne => vp_invariants(pages[v[1]][v[2]], f)

(* Every physical page is on exactly one of the free list, the active list   *)
(* and the page cache, once, and the cache has a page of a file once; a free *)
(* page has no user; owner and share_table hold each page's users exactly.   *)
PhysInvariants ==
  /\ invariants /\ share_table_invariants
  /\ \A c, d \in cache : (c.f = d.f \/ (c.ino = d.ino /\ c.off = d.off)) => c = d
  /\ \A f \in Frames : Users(f) = Sharers(f) \cup ({owner[f]} \ {NoOne})

(* Maps are disjoint and every page lies within one; a frame that a page may *)
(* write without the page cache being concerned has no other user.           *)
SpaceInvariants ==
  /\ all_space_invariants
  /\ \A p \in Spaces :
       /\ \A mm, oth \in maps[p] : Overlaps(mm, oth.addr, Last(oth)) => mm = oth
       /\ \A a \in Pages : {"W", "ANON"} \subseteq pages[p][a].flags =>
            Users(pages[p][a].f) = {<<p, a>>}

(* pc_invariants() holds: what the page cache keeps and what the pages that  *)
(* use it say of themselves agree.                                           *)
CacheInvariants == pc_invariants

(* What the kernel lets a program reach is never more than VM's books say: a *)
(* mapping outlives neither the page (munmap(), erase(), a frame reused) nor *)
(* its right to write (fork()).                                              *)
NoStaleMapping ==
  \A p \in Spaces, a \in Pages :
    tlb[p][a] # NoMap => /\ pages[p][a].f = tlb[p][a].f
                         /\ tlb[p][a].rights \subseteq RightsOf(pages[p][a])

(* No assert() of remove_vp(), rm_share(), cut_anon_mmap(), reserve_mmap(),  *)
(* fork_pages() or pf_cow() fails; reserve_mmap()'s, unless Crowded.         *)
AssertsHold == failed = {}

(* What a process finds at an address: its page, or what a fault would make. *)
View(p) ==
  [a \in Pages |->
     IF space[p] = "none" THEN <<"dead">>
     ELSE IF find_lazy_mmap(p, a) = {} THEN <<"none">>
     ELSE LET mm == CHOOSE m \in find_lazy_mmap(p, a) : TRUE
          IN  IF mm.share = "shared" THEN <<"shared">>
              ELSE IF pages[p][a] # NoVp THEN data[pages[p][a].f]
              ELSE Cleared(mm, a, read_at(mm, a))]

Values == {0} \cup Stores \cup UNION {{FileData(m.fd, n)[1] : n \in 0..Top} : m \in Mmaps}

Posix == INSTANCE PosixMem WITH
  Contents <- Values \X Values,
  Initial <- {Zero} \cup UNION {{FileData(m.fd, n), <<FileData(m.fd, n)[1], 0>>} :
                                   m \in Mmaps, n \in 0..Top},
  Images <- {<<v, v>> : v \in Stores},
  NoMem <- <<"none">>, Shared <- <<"shared">>, Dead <- <<"dead">>,
  mem <- [p \in Spaces |-> View(p)]

(* VM implements private memory: through faults, copy-on-write, fork and the *)
(* reuse of frames, a page's contents change by its own process's stores and *)
(* calls only.                                                               *)
PosixMemory == Posix!Spec

(* A page fault changes nothing that any process can see: whichever frame    *)
(* the fault handler takes, clears, copies, reads or shares, a page shows    *)
(* what its process left there, or what a fresh page of its map shows.       *)
FaultsUnseen ==
  [][(\E p \in Spaces, a \in menu.touch : /\ tlb'[p][a] # tlb[p][a]
                                          /\ \E rw \in {"R", "W"} : vm_pf(p, a, rw))
       => \A p \in Spaces : View(p)' = View(p)]_vars

(* The books of sys/vm/vm.c: every frame's users are noted exactly, maps are *)
(* disjoint, the cache has what is shared, the kernel shows no more than     *)
(* that, and the assertions hold.                                            *)
VmInvariants ==
  TypeOK /\ PhysInvariants /\ SpaceInvariants /\ CacheInvariants /\ NoStaleMapping /\ AssertsHold

(* What processes see of VM: memory as PosixMem has it, and no faults.       *)
VmMemory == PosixMemory /\ FaultsUnseen
=============================================================================
