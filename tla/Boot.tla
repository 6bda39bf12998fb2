-------------------------------- MODULE Boot --------------------------------
(***************************************************************************)
(* How physical memory finds its owners at boot (root/main.c, root/mm.c,   *)
(* sys/vm/boot.c).  Root begins with what it touches out of sigma0, loads  *)
(* sysmem where its image wants to be and serves its faults by a thread of *)
(* low priority, hands sysmem that image, the boot modules' old places and *)
(* all of itself page by page, and in the end divides the rest between     *)
(* sysmem and the virtual memory server.  Nobody checks a grant: a frame   *)
(* sent twice is in two books, one forgotten in none.                      *)
(* Addresses are frame numbers; within a frame only a segment's size is    *)
(* counted, in bytes of a page of PageBytes.                               *)
(***************************************************************************)
EXTENDS Naturals, Sequences, FiniteSets, SequencesExt
CONSTANTS
    Ram,         \* frames of ordinary memory
    LowTop,      \* frames below it are kept by root (1 MiB)
    RootImage,   \* _start .. _end of root
    RootTouched, \* what of it has been touched by then
    Segments,    \* sysmem's ELF: sequence of [at, filesz, memsz]
    FirstMem,    \* first_mem[] in sysmem's image
    BootModules, \* sequence of <<first frame, frames>>
    PageBytes,
    NPreHeap,    \* N_PRE_HEAP
    TempPhys,    \* fpages that vm has room for
    HeapMax,     \* bound: the highest program break
    BootScenes   \* records [low, high, due]: vm's virtual range, sysmem's least share
ASSUME BootAssumption ==
    /\ \A i \in DOMAIN Segments : Segments[i].filesz <= Segments[i].memsz
    /\ \A f, g \in Ram : (f < LowTop /\ g >= LowTop) => f + 1 < g
VARIABLES
    bscene,
    bpc, bi,     \* how far root has come, and the place in the loop it is at
    s0,          \* frames sigma0 has not given out
    rootMem,     \* frames mapped to root by sigma0
    pre_heap,    \* pre_heap_pages
    current_brk,
    resv,        \* pre_sysmem_resv
    smPages,     \* `pages': what the pager serves to sysmem
    smCur,       \* the page of it that is being sent, and how far
    smMap,       \* frames sysmem can touch
    books,       \* whose frame is whose: "free", "reserved" and "root" are sysmem's, "vm"
    granted,       \* sysmem_pages and sysmem_self_pages
    hollow,      \* history: frames granted that root did not have
    segv,        \* sysmem stopped on a page nobody gives it
    phys, total, \* what was pumped out of sigma0
    vm           \* the memory server: its state, the highest frame it was told of, fpages got
memVars == <<s0, rootMem, books, smMap, granted, hollow>>
bootVars == <<bscene, bpc, bi, memVars, pre_heap, current_brk, resv, smPages, smCur, segv, phys, total, vm>>

-----------------------------------------------------------------------------
(* for_page_range(): the aligned power-of-two pages between two addresses. *)
FpageAt(a, e) == CHOOSE n \in {2^k : k \in 0..6} :
    /\ a % n = 0 /\ a + n <= e
    /\ ~(a % (2 * n) = 0 /\ a + 2 * n <= e)
for_page_range[a \in Nat, e \in Nat] ==
    IF a >= e THEN <<>> ELSE <<<<a, FpageAt(a, e)>>>> \o for_page_range[a + FpageAt(a, e), e]
FramesOf(p) == p[1] .. (p[1] + p[2] - 1)
Covered(ps) == UNION {FramesOf(ps[i]) : i \in DOMAIN ps}
Most(a, b) == IF a > b THEN a ELSE b
Least(a, b) == IF a < b THEN a ELSE b

PagesFor(bytes) == (bytes + PageBytes - 1) \div PageBytes
ImageOf(seg) == seg.at .. (seg.at + PagesFor(seg.memsz) - 1)
SmImage == UNION {ImageOf(Segments[i]) : i \in DOMAIN Segments}

(* last_module_address() and the first call of sbrk(). *)
last_load_address == {Segments[i].at + PagesFor(Segments[i].filesz) - 1 : i \in DOMAIN Segments}
last_module_address ==
    LET ends == last_load_address
            \cup {BootModules[i][1] + BootModules[i][2] - 1 : i \in DOMAIN BootModules}
    IN  CHOOSE m \in ends : \A n \in ends : n <= m
heap_bottom == Most(last_module_address, CHOOSE f \in RootImage : f + 1 \notin RootImage) + 1

BootInit ==
    /\ bscene \in BootScenes
    /\ bpc = "copy" /\ bi = 1
    /\ s0 = Ram \ RootTouched /\ rootMem = RootTouched
    /\ pre_heap = <<>> /\ current_brk = heap_bottom /\ resv = {}
    /\ smPages = {} /\ smCur = <<>> /\ smMap = {} /\ segv = FALSE
    /\ books = [b \in {"free", "reserved", "root", "vm"} |-> {}]
    /\ granted = [free |-> 0, self |-> 0] /\ hollow = {}
    /\ phys = <<>> /\ total = 0 /\ vm = [st |-> "off", top |-> 0, got |-> 0]

(* Root touches memory it has not touched: sigma0 maps it one to one.      *)
Touched(F) == /\ rootMem' = rootMem \cup (F \cap s0)
              /\ s0' = s0 \ F

Room(blocks) == Len(pre_heap) + Len(blocks) <= NPreHeap

(* sbrk() by n pages and get_more_memory(), before there is sysmem, and    *)
(* the rest of the step that needed the memory, which touches frames F.    *)
SbrkEarly(n, F) ==
    LET blocks == for_page_range[current_brk, current_brk + n]
    IN  /\ current_brk + n <= HeapMax
        /\ current_brk' = current_brk + n
        /\ IF Room(blocks) /\ Covered(blocks) \subseteq s0
           THEN /\ pre_heap' = pre_heap \o blocks /\ Touched(F \cup Covered(blocks))
                /\ bpc' = bpc
           ELSE /\ bpc' = "abort" /\ UNCHANGED <<pre_heap, s0, rootMem>>

Following(s, next) == IF bi < Len(s) THEN bpc' = bpc /\ bi' = bi + 1 ELSE bpc' = next /\ bi' = 1

Place(m) == for_page_range[m[1], m[1] + m[2]]

(* get_boot_info() copies a module to the heap and notes its old place; the *)
(* allocator may ask for a page more than it needs.                         *)
CopyModule ==
    /\ bpc = "copy" /\ bi <= Len(BootModules)
    /\ \E spare \in 0..1 : SbrkEarly(BootModules[bi][2] + spare, Covered(Place(BootModules[bi])))
    /\ resv' = resv \cup Range(Place(BootModules[bi])) /\ bi' = bi + 1
    /\ UNCHANGED <<bscene, smPages, smCur, smMap, books, granted, hollow, segv, phys, total, vm>>

(* add_sysmem_pages(ht, p_vaddr, p_vaddr + p_memsz - 1) *)
add_sysmem_pages(seg) == {seg.at + k : k \in {i \in 0..PagesFor(seg.memsz) : i * PageBytes < seg.memsz - 1}}

(* start_sysmem() copies a segment to where it belongs; records of its     *)
(* pages may need memory.                                                  *)
LoadSegment ==
    /\ bpc = "load"
    /\ Touched(ImageOf(Segments[bi]))
    /\ smPages' = smPages \cup add_sysmem_pages(Segments[bi])
    /\ Following(Segments, "resv")
    /\ UNCHANGED <<bscene, pre_heap, current_brk, resv, smCur, smMap, books, granted, hollow, segv, phys, total, vm>>

LoadBegin ==
    /\ bpc = "copy" /\ bi > Len(BootModules)
    /\ bpc' = "load" /\ bi' = 1
    /\ UNCHANGED <<bscene, memVars, pre_heap, current_brk, resv, smPages, smCur, segv, phys, total, vm>>

(* add_free_page() of sysmem: frames of its own image are put aside, those *)
(* of first_mem are in its lists already; "reserved" stands for both.      *)
BookOf(f, self) == IF self THEN "root"
                   ELSE IF f \in SmImage \cup FirstMem THEN "reserved" ELSE "free"

(* send_phys_to_sysmem() and impl_send_phys(). *)
SendPhys(F, self) ==
    /\ books' = [b \in DOMAIN books |-> books[b] \cup {f \in F : BookOf(f, self) = b}]
    /\ rootMem' = rootMem \ F /\ smMap' = smMap \cup F
    /\ hollow' = hollow \cup (F \ rootMem)
    /\ granted' = [granted EXCEPT ![IF self THEN "self" ELSE "free"] = @ + Cardinality(F)]

(* Sysmem lives, and is sent the places where the modules were. *)
SendResv ==
    /\ bpc = "resv"
    /\ \E p \in resv : SendPhys(FramesOf(p), FALSE) /\ resv' = resv \ {p}
    /\ bpc' = IF resv' = {} THEN "image" ELSE bpc
    /\ UNCHANGED <<bscene, bi, s0, pre_heap, current_brk, smPages, smCur, segv, phys, total, vm>>

Listed(f) == smPages

(* ... and then its own image: the call, the grant, and the table's entry. *)
ImageCall(f) ==
    /\ bpc = "image" /\ smCur = <<>> /\ f \in smPages
    /\ smCur' = <<f, "called">> /\ smPages' = Listed(f)
    /\ UNCHANGED <<bscene, bpc, bi, memVars, pre_heap, current_brk, resv, segv, phys, total, vm>>
ImageGrant ==
    /\ smCur # <<>> /\ smCur[2] = "called"
    /\ SendPhys({smCur[1]}, FALSE) /\ smCur' = <<smCur[1], "sent">>
    /\ UNCHANGED <<bscene, bpc, bi, s0, pre_heap, current_brk, resv, smPages, segv, phys, total, vm>>
ImageDel ==
    /\ smCur # <<>> /\ smCur[2] = "sent"
    /\ smPages' = smPages \ {smCur[1]} /\ smCur' = <<>>
    /\ bpc' = IF smPages' = {} THEN "move" ELSE bpc
    /\ UNCHANGED <<bscene, bi, memVars, pre_heap, current_brk, resv, segv, phys, total, vm>>

(* Sysmem touches its image; sysmem_pager_fn() maps the page, or leaves    *)
(* the thread where it is.                                                 *)
SmTouch(f) ==
    /\ bpc \in {"resv", "image"} /\ f \in SmImage \ smMap /\ ~segv
    /\ IF f \in smPages \cap rootMem
       THEN smMap' = smMap \cup {f} /\ UNCHANGED segv
       ELSE segv' = TRUE /\ UNCHANGED smMap
    /\ UNCHANGED <<bscene, bpc, bi, s0, rootMem, books, granted, hollow, pre_heap, current_brk, resv, smPages, smCur, phys, total, vm>>

Own == TRUE

(* move_to_sysmem(): all of root's image is touched, then sent. *)
FaultIn ==
    /\ bpc = "move" /\ Touched(RootImage) /\ bpc' = "self"
    /\ UNCHANGED <<bscene, bi, books, smMap, granted, hollow, pre_heap, current_brk, resv, smPages, smCur, segv, phys, total, vm>>
MoveSelf ==
    LET image == [i \in 1..Cardinality(RootImage) |->
                    CHOOSE f \in RootImage : Cardinality({g \in RootImage : g <= f}) = i]
    IN  /\ bpc = "self"
        /\ SendPhys({image[bi]}, Own) /\ Following(image, "heap")
        /\ UNCHANGED <<bscene, s0, pre_heap, current_brk, resv, smPages, smCur, segv, phys, total, vm>>

(* mm_enable_sysmem() *)
HeapSend ==
    /\ bpc = "heap"
    /\ SendPhys(FramesOf(pre_heap[bi]), TRUE) /\ Following(pre_heap, "grow")
    /\ UNCHANGED <<bscene, s0, pre_heap, current_brk, resv, smPages, smCur, segv, phys, total, vm>>

(* sbrk() from then on: what sigma0 still has of the range goes to sysmem  *)
(* as root's; sysmem finds frames for the rest.                            *)
SbrkLate(n) ==
    LET F == (current_brk .. (current_brk + n - 1)) \cap s0
    IN  /\ bpc = "grow" /\ current_brk + n <= HeapMax
        /\ current_brk' = current_brk + n /\ s0' = s0 \ F
        /\ books' = [books EXCEPT !["root"] = @ \cup F] /\ smMap' = smMap \cup F
        /\ granted' = [granted EXCEPT !.self = @ + Cardinality(F)]
        /\ UNCHANGED <<bscene, bpc, bi, rootMem, hollow, pre_heap, resv, smPages, smCur, segv, phys, total, vm>>

-----------------------------------------------------------------------------
(* pump_sigma0(): the largest pages first, all of them. *)
AllFree(F) == {p \in F \X {2^k : k \in 0..6} : p[1] % p[2] = 0 /\ FramesOf(p) \subseteq F}
Largest(F) == {p \in AllFree(F) : \A q \in AllFree(F) : FramesOf(p) \subseteq FramesOf(q) => p = q}

cmp_fpage(p, q) == p[1] < q[1]

Sorted[S \in SUBSET (Nat \X Nat)] ==
    IF S = {} THEN <<>>
    ELSE LET p == CHOOSE p \in S : \A q \in S \ {p} : cmp_fpage(p, q) IN <<p>> \o Sorted[S \ {p}]

(* start_vm(): vm runs, and is told the amount and the top of what is left. *)
Introduce ==
    /\ bpc = "grow" /\ s0 # {}
    /\ phys' = Sorted[Largest(s0)] /\ total' = Cardinality(s0)
    /\ rootMem' = rootMem \cup s0 /\ s0' = {}
    /\ vm' = [vm EXCEPT !.st = "intro", !.top = LET last == phys'[Len(phys')] IN last[1] + last[2] - 1]
    /\ bpc' = "sip" /\ bi' = 1
    /\ UNCHANGED <<bscene, books, smMap, granted, hollow, pre_heap, current_brk, resv, smPages, smCur, segv>>
SendSip ==
    /\ bpc = "sip" /\ vm.st = "intro"
    /\ bpc' = "split" /\ vm' = [vm EXCEPT !.st = "phys"]
    /\ UNCHANGED <<bscene, bi, memVars, pre_heap, current_brk, resv, smPages, smCur, segv, phys, total>>

ToSysmem(sh, p) ==
    [sh EXCEPT !.root = @ \ FramesOf(p), !.n = @ + p[2],
               !.free = @ \cup {f \in FramesOf(p) : BookOf(f, FALSE) = "free"},
               !.resv = @ \cup {f \in FramesOf(p) : BookOf(f, FALSE) = "reserved"}]
(* send_phys_to_vm() and next_phys_page() *)
ToVm(sh, p) == [sh EXCEPT !.root = @ \ FramesOf(p), !.vm = @ \cup FramesOf(p), !.got = @ + 1]

Middle(p, rem) == p[1] + rem

portion_phys(sh, p) ==
    LET assn == Most(total \div 40, bscene.due)
        rem == assn - (sh.n + granted.self)
        mid == Middle(p, rem)
    IN  IF assn <= sh.n + granted.self THEN ToVm(sh, p)
        ELSE IF rem >= p[2] THEN ToSysmem(sh, p)
        ELSE FoldLeft(ToVm, FoldLeft(ToSysmem, sh, for_page_range[p[1], mid]),
                      for_page_range[mid, p[1] + p[2]])

(* A mutation: the last page that vm covers is not counted. *)
OverlapShort(p) == <<Most(p[1], bscene.low), Least(p[1] + p[2] - 1, bscene.high)>>

Overlap(p) == <<Most(p[1], bscene.low), Least(p[1] + p[2] - 1, bscene.high) + 1>>

(* A page that vm's own addresses overlap: what they cover to sysmem, what *)
(* is before and after as any other.                                       *)
Divided(sh, p) ==
    LET mid == Overlap(p)
        before == FoldLeft(portion_phys, sh, for_page_range[p[1], mid[1]])
        over == FoldLeft(ToSysmem, before, for_page_range[mid[1], mid[2]])
    IN  IF bscene.high < p[1] + p[2] - 1
        THEN FoldLeft(portion_phys, over, for_page_range[mid[2], p[1] + p[2]]) ELSE over

Split ==
    LET p == phys[bi]
        before == [root |-> rootMem, free |-> books["free"], resv |-> books["reserved"],
                   vm |-> books["vm"], got |-> vm.got, n |-> granted.free]
        sh == IF p[1] < LowTop THEN before
              ELSE IF bscene.high < p[1] \/ bscene.low > p[1] + p[2] - 1 THEN portion_phys(before, p)
              ELSE Divided(before, p)
    IN  /\ bpc = "split"
        /\ rootMem' = sh.root /\ granted' = [granted EXCEPT !.free = sh.n]
        /\ books' = [books EXCEPT !["free"] = sh.free, !["reserved"] = sh.resv, !["vm"] = sh.vm]
        /\ smMap' = smMap \cup (sh.free \ books["free"]) \cup (sh.resv \ books["reserved"])
        /\ vm' = [vm EXCEPT !.got = sh.got]
        /\ IF sh.got > TempPhys THEN bpc' = "abort" /\ UNCHANGED bi ELSE Following(phys, "nil")
        /\ UNCHANGED <<bscene, s0, hollow, pre_heap, current_brk, resv, smPages, smCur, segv, phys, total>>

Finished == "init"

(* The nil page ends the loop; vm answers it when it is ready to serve. *)
SendNil ==
    /\ bpc = "nil"
    /\ bpc' = "await" /\ vm' = [vm EXCEPT !.st = Finished]
    /\ UNCHANGED <<bscene, bi, memVars, pre_heap, current_brk, resv, smPages, smCur, segv, phys, total>>
VmReady ==
    /\ vm.st = "init"
    /\ vm' = [vm EXCEPT !.st = "ready"] /\ bpc' = "done"
    /\ UNCHANGED <<bscene, bi, memVars, pre_heap, current_brk, resv, smPages, smCur, segv, phys, total>>

BootStep ==
    \/ CopyModule \/ LoadBegin \/ LoadSegment \/ SendResv
    \/ \E f \in smPages : ImageCall(f)
    \/ ImageGrant \/ ImageDel \/ FaultIn \/ MoveSelf \/ HeapSend
    \/ Introduce \/ SendSip \/ Split \/ SendNil \/ VmReady
BootNext ==
    \/ BootStep
    \/ \E f \in SmImage : SmTouch(f)
    \/ \E n \in 1..2 : SbrkLate(n)
BootSpec == BootInit /\ [][BootNext]_bootVars /\ WF_bootVars(BootStep)

-----------------------------------------------------------------------------
(* The type invariant: no array is written past its end, frames are RAM.   *)
BootTypeOK ==
    /\ Len(pre_heap) <= NPreHeap /\ current_brk \in heap_bottom .. HeapMax
    /\ s0 \subseteq Ram /\ rootMem \subseteq Ram /\ smPages \subseteq SmImage
    /\ \A b \in DOMAIN books : books[b] \subseteq Ram
    /\ bi \in Nat /\ granted \in [free : Nat, self : Nat]

(* A frame has one owner: nothing is granted that root does not have, so   *)
(* sigma0, root's own mappings, sysmem's lists and vm never count a frame  *)
(* twice, and sysmem's count of what it was given is right.                *)
FrameOnce ==
    /\ hollow = {}
    /\ \A b, c \in DOMAIN books : b # c => books[b] \cap books[c] = {}
    /\ \A b \in DOMAIN books : books[b] \cap (s0 \cup rootMem) = {}
    /\ granted.free + granted.self = Cardinality(books["free"] \cup books["reserved"] \cup books["root"])

(* sysmem_pager_fn() and the loop that sends sysmem its image share the    *)
(* table `pages' "mostly safe": a fault of sysmem is answered at any time. *)
SysmemServed == ~segv

(* What root has written, its image and its heap, stays with root while    *)
(* memory changes hands under it: mapped to it, or root's in sysmem's book.*)
RootIntact ==
    \A f \in (RootImage \ s0) \cup ((heap_bottom .. (current_brk - 1)) \cap Ram) :
        bpc # "abort" => f \in rootMem \cup books["root"]

(* When boot is done every frame above the first megabyte has an owner.    *)
NothingLost ==
    bpc = "done" => {f \in Ram : f >= LowTop} = UNION {books[b] : b \in DOMAIN books}

(* "give sysmem its due; pass rest to vm": vm gets nothing while sysmem    *)
(* has less than its share.                                                *)
DueFirst == books["vm"] # {} => granted.free + granted.self >= Most(total \div 40, bscene.due)

(* vm maps its frames one to one: none may lie where vm's own image is, or *)
(* above the address where vm then puts its heap.                          *)
VmClear == \A f \in books["vm"] : f \notin bscene.low .. bscene.high /\ f <= vm.top

(* Boot comes to an end: once sysmem is loaded vm gets ready, unless there *)
(* is no room for what it is sent.                                         *)
BootCompletes == bpc = "load" ~> (bpc = "abort" \/ vm.st = "ready")

(* What start_sysmem(), move_to_sysmem() and start_vm() promise of memory. *)
BootSafe ==
    BootTypeOK /\ FrameOnce /\ SysmemServed /\ RootIntact /\ NothingLost /\ DueFirst /\ VmClear
=============================================================================
