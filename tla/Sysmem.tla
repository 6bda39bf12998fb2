------------------------------- MODULE Sysmem -------------------------------
(* The memory server of system tasks, sys/sysmem: pages are allocated when   *)
(* they are touched, moved between tasks, and, when memory runs low,         *)
(* compressed in pairs into the frames of other compressed pages. Sysmem is  *)
(* single-threaded, so each handler is one step; between them tasks store    *)
(* through what the kernel has mapped for them (tlb). A page number p stands *)
(* for the addresses 2p, its first, and 2p + 1, its last; RAM that root      *)
(* hands over for a boot module has the same number as frame and as page.    *)
(* The allocator's free list is taken in order of frame number, the clock of *)
(* page replacement in any order: which pages are old is up to the tasks.    *)
EXTENDS Integers, FiniteSets, FiniteSetsExt

CONSTANTS
  Tasks,      \* system task IDs
  Top,        \* number of pages of an address space
  Early,      \* frames within first_mem
  Image,      \* other frames of sysmem's own program
  Ram,        \* frames that root sends without a destination
  Values,     \* what a page can hold
  Fresh,      \* what a frame holds at first
  CSize(_),   \* compressed size of a page's contents
  Capacity,   \* room for compressed data in a frame
  MaxSize,    \* MAX_COMPRESSED_SIZE
  Low,        \* get_free_page() replaces pages when fewer are free
  EnableAt,   \* free pages beyond which replacement is enabled
  Slots,      \* structs that fit into a page of an alloc_head
  InitBrk,    \* break of a task that has not set one
  Menus,      \* what tasks and root do: see menu
  Areas,      \* pages of the UTCB and KIP areas
  OrMasks,    \* or_mask of alter_flags(): sets of SMATTR_*
  Heads,      \* struct types that take memory: a subset of AllHeads
  MaxLp       \* bound on l_pages

AllHeads == {"systask", "p_page", "l_page"}
Pages == 1..Top
Frames == 1..Top
Lps == 1..MaxLp
None == 0
NoPage == 0
PIN == "PIN"

ASSUME SysmemAssumption ==
  /\ Top \in Nat /\ MaxLp \in Nat /\ Slots \in Nat \ {0}
  /\ Early \cup Image \cup Ram \subseteq Frames
  /\ \A m \in Menus : m.tasks \subseteq Tasks /\ m.stores \subseteq Values
  /\ Fresh \in Values /\ NoPage \notin Values
  /\ \A v \in Values : CSize(v) \in Nat \ {0}
  /\ MaxSize <= Capacity
  /\ Low \in Nat /\ Heads \subseteq AllHeads

VARIABLES
  menu,       \* what tasks and root do in this behaviour: the tasks there
              \* are, the pages they touch, what they store, the pages they
              \* send and where to, the breaks they ask for, the ranges they
              \* pin, frames that root sends to a task, and whether some of
              \* what it sends is lost
  ram,        \* frames: which list each is on and what it holds, see Init
  lp,         \* l_pages: task, page, frame (p_addr), LF_SWAP and flags
  task,       \* systasks: brk, min_fault and the areas of the kernel
  tlb,        \* what the kernel has mapped: <<task, page, frame>>
  unsent,     \* frames that root has not sent yet; it sends them in order
  failed      \* sysmem has panicked, or an assertion has failed

vars == <<menu, ram, lp, task, tlb, unsent, failed>>

NoLp == [t |-> None, a |-> None, f |-> None, swap |-> FALSE, flags |-> {}]
NoTask == [live |-> FALSE, brk |-> 0, min |-> Top + 1, areas |-> {}]
NoSlot == [lp |-> None, len |-> 0, data |-> Fresh]

(* c_hdr: two slots for compressed pages.                                    *)
NoHdr == [a |-> NoSlot, b |-> NoSlot]

Init ==
  /\ menu \in Menus
  /\ ram = [free |-> Early, heap |-> {}, reserved |-> {}, active |-> {},
            owner |-> [f \in Frames |-> None], comp |-> {}, buddy |-> {},
            hdr |-> [f \in Frames |-> NoHdr], data |-> [f \in Frames |-> Fresh],
            incomp |-> {}, num |-> Cardinality(Early), repl |-> FALSE,
            room |-> [h \in AllHeads |-> 0], trash |-> [h \in AllHeads |-> 0]]
  /\ lp = [i \in Lps |-> NoLp]
  /\ task = [t \in Tasks |-> NoTask]
  /\ tlb = {}
  /\ unsent = Early \cup Image \cup Ram \cup menu.modules
  /\ failed = FALSE

(* The parts that page replacement changes, as one value; bad: a panic.      *)
State == [ram |-> ram, lp |-> lp, tlb |-> tlb, bad |-> FALSE]

(***************************************************************************)
(* Page replacement                                                        *)
(***************************************************************************)

Unmapped(m, f) == {e \in m : e[3] # f}

Used(hdr) == hdr.a.len * (IF hdr.a.lp # None THEN 1 ELSE 0)
           + hdr.b.len * (IF hdr.b.lp # None THEN 1 ELSE 0)

(* A mutation: the search for a buddy forgets what is already in it.         *)
BuddiesUnmeasured(s, size) == s.ram.buddy

(* The buddies that leave the least room over, when that is less than what   *)
(* storing the page in its own frame would leave.                            *)
Buddies(s, size) ==
  LET Left(g) == Capacity - Used(s.ram.hdr[g]) - size
      fit == {g \in s.ram.buddy : Left(g) >= 0 /\ Left(g) < Capacity - size}
  IN  {g \in fit : \A h \in fit : Left(g) <= Left(h)}

InNewHdr(s, f, size) ==
  LET r == s.ram
      i == r.owner[f]
  IN  [s EXCEPT
        !.ram = [r EXCEPT !.active = @ \ {f}, !.owner[f] = None,
                   !.comp = @ \cup {f}, !.buddy = @ \cup {f}, !.data[f] = Fresh,
                   !.hdr[f] = [a |-> [lp |-> i, len |-> size, data |-> r.data[f]],
                               b |-> NoSlot]],
        !.lp[i].swap = TRUE,
        !.tlb = Unmapped(@, f)]

(* A mutation: a page joins its buddy in the slot that is taken.             *)
WithBuddyInA(s, f, g, size) ==
  LET r == s.ram
      i == r.owner[f]
  IN  [s EXCEPT
        !.ram = [r EXCEPT !.active = @ \ {f}, !.owner[f] = None,
                   !.free = @ \cup {f}, !.num = @ + 1, !.buddy = @ \ {g},
                   !.hdr[g].a = [lp |-> i, len |-> size, data |-> r.data[f]]],
        !.lp[i] = [@ EXCEPT !.f = g, !.swap = TRUE],
        !.tlb = Unmapped(@, f)]

WithBuddy(s, f, g, size) ==
  LET r == s.ram
      i == r.owner[f]
      slot == [lp |-> i, len |-> size, data |-> r.data[f]]
  IN  [s EXCEPT
        !.ram = [r EXCEPT !.active = @ \ {f}, !.owner[f] = None,
                   !.free = @ \cup {f}, !.num = @ + 1, !.buddy = @ \ {g},
                   !.hdr[g] = IF @.a.lp = None THEN [@ EXCEPT !.a = slot]
                                               ELSE [@ EXCEPT !.b = slot]],
        !.lp[i] = [@ EXCEPT !.f = g, !.swap = TRUE],
        !.tlb = Unmapped(@, f)]

replace_active_page(s, f) ==
  LET size == CSize(s.ram.data[f])
  IN  IF size >= MaxSize
      THEN {[s EXCEPT !.tlb = Unmapped(@, f), !.ram.incomp = @ \cup {f}]}
      ELSE IF Buddies(s, size) = {}
      THEN {InNewHdr(s, f, size)}
      ELSE {WithBuddy(s, f, g, size) : g \in Buddies(s, size)}

Mapped(s, f) == \E e \in s.tlb : e[3] = f

(* What one examination of a page can do to it besides changing its age: a   *)
(* page that was written may be compressible again; one that was not used    *)
(* for long is replaced, unless it is pinned.                                *)
Examined(s, f) ==
  IF f \in s.ram.incomp
  THEN IF Mapped(s, f) THEN {[s EXCEPT !.ram.incomp = @ \ {f}]} ELSE {}
  ELSE IF PIN \in s.lp[s.ram.owner[f]].flags THEN {} ELSE replace_active_page(s, f)

(* What a number of examinations, in any order, can lead to.                 *)
RECURSIVE replace_pages(_, _)
replace_pages(S, seen) ==
  IF S = {} THEN seen
  ELSE LET next == UNION {UNION {Examined(s, f) : f \in s.ram.active} : s \in S}
       IN  replace_pages(next \ (seen \cup S), seen \cup S)

(* Outcomes of a call: a state and the frame. When too little was freed, as  *)
(* may happen if tasks use all of their pages, sysmem panics.                *)
Panic(s) == [s |-> [s EXCEPT !.bad = TRUE], f |-> None]
get_free_page(s) ==
  IF s.ram.free = {} THEN {Panic(s)}
  ELSE LET f == Min(s.ram.free)
           popped == [s EXCEPT !.ram.free = @ \ {f}, !.ram.num = @ - 1]
       IN  IF popped.ram.repl /\ popped.ram.num < Low
           THEN {[s |-> r, f |-> f] : r \in {x \in replace_pages({popped}, {}) : x.ram.num >= Low}}
                  \cup {Panic(s)}
           ELSE {[s |-> popped, f |-> f]}

(* Memory for a struct: recycled, from the current page, or from a new page. *)
alloc(s, h) ==
  IF h \notin Heads THEN {s}
  ELSE IF s.ram.trash[h] > 0 THEN {[s EXCEPT !.ram.trash[h] = @ - 1]}
  ELSE IF s.ram.room[h] > 0 THEN {[s EXCEPT !.ram.room[h] = @ - 1]}
  ELSE {[g.s EXCEPT !.ram.room[h] = Slots - 1,
                    !.ram.heap = @ \cup (IF g.f = None THEN {} ELSE {g.f})]
          : g \in get_free_page(s)}

recycle(r, h) == IF h \in Heads THEN [r EXCEPT !.trash[h] = @ + 1] ELSE r

(***************************************************************************)
(* Logical pages                                                           *)
(***************************************************************************)

get_lpage(s, t, a) == LET at == {i \in Lps : s.lp[i].t = t /\ s.lp[i].a = a}
                      IN  IF at = {} THEN None ELSE Min(at)

FreeLps(s) == {i \in Lps : s.lp[i] = NoLp}

(* alloc_struct(l_page) and put_lpage(): the new page, at frame f.           *)
put_lpage(s, t, a, f, flags) ==
  LET i == Min(FreeLps(s))
  IN  [s EXCEPT !.lp[i] = [t |-> t, a |-> a, f |-> f, swap |-> FALSE, flags |-> flags]]

(* Frame f becomes the active page of l_page i.                              *)
Activate(s, i, f) ==
  [s EXCEPT !.ram.active = @ \cup {f}, !.ram.owner[f] = i,
            !.lp[i] = [@ EXCEPT !.f = f, !.swap = FALSE]]

Slot(hdr, i) == IF hdr.a.lp = i THEN hdr.a ELSE hdr.b
Without(hdr, i) == IF hdr.a.lp = i THEN [hdr EXCEPT !.a = NoSlot]
                                   ELSE [hdr EXCEPT !.b = NoSlot]
Empty(hdr) == hdr.a.lp = None /\ hdr.b.lp = None

(* The last compressed page of a frame expands in place; otherwise it gets a *)
(* new frame, and the one it leaves has room for another.                    *)
decompress(s, i) ==
  LET c == s.lp[i].f
      hdr == s.ram.hdr[c]
      left == [s EXCEPT !.ram.hdr[c] = Without(hdr, i)]
      data == Slot(hdr, i).data
  IN  IF Empty(left.ram.hdr[c])
      THEN {Activate([left EXCEPT !.ram.buddy = @ \ {c}, !.ram.comp = @ \ {c},
                                  !.ram.data[c] = data], i, c)}
      ELSE {IF g.f = None THEN g.s
            ELSE Activate([g.s EXCEPT !.ram.buddy = @ \cup {c},
                                      !.ram.data[g.f] = data], i, g.f)
              : g \in get_free_page(left)}

(* remove_l_page(): gives back the page's memory and the l_page.             *)
remove_l_page(s, i) ==
  LET f == s.lp[i].f
      hdr == Without(s.ram.hdr[f], i)
      gone == [s EXCEPT !.lp[i] = NoLp, !.ram = recycle(@, "l_page")]
      r == gone.ram
  IN  IF s.lp[i].swap
      THEN IF Empty(hdr)
           THEN [gone EXCEPT !.ram = [r EXCEPT !.hdr[f] = hdr, !.buddy = @ \ {f},
                   !.comp = @ \ {f}, !.free = @ \cup {f}, !.num = @ + 1]]
           ELSE [gone EXCEPT !.ram = [r EXCEPT !.hdr[f] = hdr, !.buddy = @ \cup {f}]]
      ELSE IF f \in r.active
      THEN [gone EXCEPT !.tlb = Unmapped(@, f),
              !.ram = [r EXCEPT !.active = @ \ {f}, !.owner[f] = None,
                                !.free = @ \cup {f}, !.num = @ + 1]]
      ELSE gone

RECURSIVE remove_all(_, _)
remove_all(s, S) ==
  IF S = {} THEN s ELSE remove_all(remove_l_page(s, Min(S)), S \ {Min(S)})

(***************************************************************************)
(* Handlers                                                                *)
(***************************************************************************)

(* A handler ends: with its effects, or in a panic, after which nothing is   *)
(* looked at any more.                                                       *)
Become(s) ==
  \/ ~s.bad /\ ram' = s.ram /\ lp' = s.lp /\ tlb' = s.tlb /\ UNCHANGED failed
  \/ s.bad /\ failed' = TRUE /\ UNCHANGED <<ram, lp, tlb>>

(* get_task(): tasks are known from the first time they are heard of.        *)
Known(t) == IF task[t].live THEN {State} ELSE alloc(State, "systask")
NewTask == [NoTask EXCEPT !.live = TRUE, !.brk = InitBrk]
get_task(t) == IF task[t].live THEN task[t] ELSE NewTask

(* The handler is at work: it has not panicked before.                       *)
Up == ~failed

Lower(x, y) == IF x < y THEN x ELSE y
Higher(x, y) == IF x > y THEN x ELSE y

(* What handle_pf() has done when the page is there.                         *)
Present(s, t, a) ==
  LET i == get_lpage(s, t, a)
  IN  IF s.bad \/ i = None \/ s.lp[i].f = None \/ s.lp[i].swap THEN s
      ELSE [s EXCEPT !.tlb = @ \cup {<<t, a, s.lp[i].f>>}]

pf_alloc(s, t, a) ==
  LET i == get_lpage(s, t, a)
  IN  UNION {
        LET here == IF i # None THEN s1 ELSE put_lpage(s1, t, a, None, {})
        IN  {IF g.f = None THEN g.s ELSE Activate(g.s, get_lpage(g.s, t, a), g.f)
               : g \in get_free_page(here)}
        : s1 \in IF i # None THEN {s} ELSE alloc(s, "l_page")}

(* A fault of task t at page a. The zero page, and pages beyond the break,   *)
(* are refused: the task gets no answer.                                     *)
impl_handle_fault(t, a) ==
  /\ Up
  /\ \E s0 \in Known(t) :
       LET i == get_lpage(s0, t, a)
           tk == get_task(t)
           untouched == i # None /\ s0.lp[i].f = None
       IN  /\ i # None \/ 2 * a <= tk.brk
           /\ i = None => FreeLps(s0) # {}
           /\ \E s \in IF i = None \/ untouched THEN pf_alloc(s0, t, a)
                       ELSE IF s0.lp[i].swap THEN decompress(s0, i) ELSE {s0} :
                /\ Become(Present([s EXCEPT
                     !.bad = @ \/ (untouched /\ s0.lp[i].flags = {})], t, a))
                /\ task' = [task EXCEPT ![t] = [tk EXCEPT !.min = Lower(@, a)]]
  /\ UNCHANGED unsent

(* A task that faults beyond its break is stopped by abend(), and sysmem     *)
(* with it: abend() ends in abort().                                         *)
Segv(t, a) ==
  /\ Up
  /\ task[t].live
  /\ get_lpage(State, t, a) = None /\ 2 * a > task[t].brk
  /\ failed' = TRUE
  /\ UNCHANGED <<ram, lp, task, tlb, unsent>>

impl_rm_task(t) ==
  /\ Up
  /\ task[t].live
  /\ LET s == remove_all(State, {i \in Lps : lp[i].t = t})
     IN  Become([s EXCEPT !.ram = recycle(@, "systask")])
  /\ task' = [task EXCEPT ![t] = NoTask]
  /\ UNCHANGED unsent

(* Memory for anyone; sysmem recognizes its own.                             *)
add_free_page(s, f) ==
  IF f \in Early THEN s
  ELSE IF f \in Image THEN [s EXCEPT !.ram.reserved = @ \cup {f}]
  ELSE [s EXCEPT !.ram.free = @ \cup {f}, !.ram.num = @ + 1,
                 !.ram.repl = @ \/ s.ram.num + 1 > EnableAt]

(* A task's extent grows by page b.                                          *)
Raised(tk, b) == [tk EXCEPT !.min = Lower(@, b), !.brk = Higher(@, 2 * b + 1)]

(* Memory of a boot module, where it was loaded.                             *)
add_task_page(s, t, f) ==
  LET r == put_lpage(s, t, f, None, {})
  IN  Activate(r, get_lpage(r, t, f), f)

SendPhysFree(f) ==
  /\ Up
  /\ f \in Early \cup Image \cup Ram
  /\ \E s \in alloc(State, "p_page") : Become(add_free_page(s, f))
  /\ unsent' = unsent \ {f}
  /\ UNCHANGED task

(* (Root does this before the task runs; a page that is there is a panic.)   *)
SendPhysTask(t, f) ==
  /\ Up
  /\ f \in menu.modules
  /\ get_lpage(State, t, f) = None /\ FreeLps(State) # {}
  /\ \E s0 \in Known(t) : \E s1 \in alloc(s0, "p_page") : \E s2 \in alloc(s1, "l_page") :
       Become(add_task_page(s2, t, f))
  /\ task' = [task EXCEPT ![t] = Raised(get_task(t), f)]
  /\ unsent' = unsent \ {f}

(* The grant that was announced does not arrive in time, or not as agreed:   *)
(* the frame is lost.                                                        *)
SendPhysLost(f) ==
  /\ Up
  /\ menu.lossy /\ f \notin Early
  /\ unsent' = unsent \ {f}
  /\ UNCHANGED <<ram, lp, task, tlb, failed>>

impl_send_phys ==
  /\ unsent # {}
  /\ LET f == Min(unsent)
     IN  \/ SendPhysFree(f)
         \/ \E t \in menu.tasks : SendPhysTask(t, f)
         \/ SendPhysLost(f)

(* The page moves with its l_page; what the frame was mapped to goes.        *)
Moved(s, i, u, b) ==
  [s EXCEPT !.lp[i] = [@ EXCEPT !.t = u, !.a = b], !.tlb = Unmapped(@, s.lp[i].f)]

(* What is at the destination goes first.                                    *)
Clear(s, u, b) ==
  IF get_lpage(s, u, b) = None THEN s ELSE remove_l_page(s, get_lpage(s, u, b))

(* send_virt() to a task. Sending a page onto itself would use an l_page     *)
(* that was just recycled, and is left out.                                  *)
impl_send_virt(t, a, u, b) ==
  /\ Up
  /\ <<t, a>> # <<u, b>>
  /\ task[t].live
  /\ get_lpage(State, t, a) # None
  /\ \E s \in Known(u) :
       Become(Moved(Clear(s, u, b), get_lpage(s, t, a), u, b))
  /\ task' = [task EXCEPT ![u] = Raised(get_task(u), b)]
  /\ UNCHANGED unsent

(* send_virt() to nobody.                                                    *)
Toss(t, a) ==
  /\ Up
  /\ task[t].live
  /\ get_lpage(State, t, a) # None
  /\ Become(remove_l_page(State, get_lpage(State, t, a)))
  /\ UNCHANGED <<task, unsent>>

(* Pages that begin at or above the new break, up to the end of the page     *)
(* that the old one is in.                                                   *)
Released(t, new) == {i \in Lps : /\ lp[i].t = t /\ 2 * lp[i].a >= new
                                 /\ 2 * lp[i].a <= task[t].brk}

impl_brk(t, new) ==
  /\ Up
  /\ \E s \in Known(t) :
       Become(IF new < get_task(t).brk THEN remove_all(s, Released(t, new)) ELSE s)
  /\ task' = [task EXCEPT ![t] = [get_task(t) EXCEPT !.brk = new]]
  /\ UNCHANGED unsent

(* set_kernel_areas(): once for a task that is known.                        *)
impl_set_kernel_areas(t, area) ==
  /\ Up
  /\ task[t].live /\ task[t].areas = {} /\ area # {}
  /\ task' = [task EXCEPT ![t].areas = area]
  /\ UNCHANGED <<ram, lp, tlb, unsent, failed>>

(* get_shape(): the extent of a task, from its break, its lowest fault and   *)
(* the areas of the kernel.                                                  *)
get_shape(t) ==
  LET edges == {task[t].brk \div 2, task[t].min} \cup task[t].areas
  IN  [low |-> Min(edges), high |-> Max(edges)]

(* alter_flags() for one page: the flags of a page that is there, or a       *)
(* l_page that holds the flags of one that is not.                           *)
AlterOne(s, t, a, or, and) ==
  LET i == get_lpage(s, t, a)
      flags == (s.lp[i].flags \cup or) \cap and
      altered == [s EXCEPT !.lp[i].flags = flags]
  IN  IF i = None THEN {put_lpage(r, t, a, None, or) : r \in alloc(s, "l_page")}
      ELSE IF flags = {} /\ s.lp[i].f = None THEN {remove_l_page(altered, i)}
      ELSE {altered}

RECURSIVE AlterAll(_, _, _, _, _)
AlterAll(S, t, range, or, and) ==
  IF range = {} THEN S
  ELSE AlterAll(UNION {AlterOne(s, t, Min(range), or, and) : s \in S},
                t, range \ {Min(range)}, or, and)

impl_alter_flags(t, range, or, and) ==
  /\ Up
  /\ or \subseteq and
  /\ task[t].live
  /\ range \cap task[t].areas = {}
  /\ Cardinality({a \in range : get_lpage(State, t, a) = None}) <= Cardinality(FreeLps(State))
  /\ \E s \in AlterAll({State}, t, range, or, and) : Become(s)
  /\ UNCHANGED <<task, unsent>>

(* A task stores to a page that is mapped for it.                            *)
Store(t, a, v) ==
  /\ Up
  /\ \E e \in tlb :
       /\ e[1] = t /\ e[2] = a
       /\ ram' = [ram EXCEPT !.data[e[3]] = v]
  /\ UNCHANGED <<lp, task, tlb, unsent, failed>>

Step ==
  \/ \E p \in menu.touch : impl_handle_fault(p[1], p[2])
  \/ \E p \in menu.touch : Segv(p[1], p[2])
  \/ \E t \in menu.tasks : menu.sends # {} /\ impl_rm_task(t)
  \/ impl_send_phys
  \/ \E m \in menu.sends : impl_send_virt(m[1], m[2], m[3], m[4])
  \/ \E m \in menu.sends : Toss(m[1], m[2])
  \/ \E t \in menu.tasks, b \in menu.brks : impl_brk(t, b)
  \/ \E t \in menu.tasks : menu.pins # {} /\ impl_set_kernel_areas(t, Areas)
  \/ \E t \in menu.tasks, range \in menu.pins, or \in OrMasks :
       \E and \in {or, {PIN}} : impl_alter_flags(t, range, or, and)
  \/ \E p \in menu.touch, v \in menu.stores : Store(p[1], p[2], v)

Next == Step /\ UNCHANGED menu

Spec == Init /\ [][Next]_vars

(***************************************************************************)
(* Properties                                                              *)
(***************************************************************************)

LiveLps == {i \in Lps : lp[i] # NoLp}

TypeOK ==
  /\ ram.active \cup ram.free \cup ram.heap \cup ram.reserved \cup ram.comp \subseteq Frames
  /\ ram.owner \in [Frames -> Lps \cup {None}]
  /\ ram.data \in [Frames -> Values]
  /\ lp \in [Lps -> [t : Tasks \cup {None}, a : Pages \cup {None}, f : Frames \cup {None},
                     swap : BOOLEAN, flags : SUBSET {PIN}]]
  /\ \A i, j \in LiveLps : lp[i].t = lp[j].t /\ lp[i].a = lp[j].a => i = j
  /\ tlb \subseteq Tasks \X Pages \X Frames
  /\ failed \in BOOLEAN

(* Every frame is in one place only, and the counter that decides about      *)
(* replacement counts the free ones: get_free_page(), remove_l_page(),       *)
(* replace_active_page() and decompress() move frames between the lists, and *)
(* a frame on two of them is given to two tasks.                             *)
FramesConserved ==
  /\ LET places == <<ram.free, ram.heap, ram.reserved, ram.active, ram.comp>>
     IN  \A i, j \in 1..5 : i # j => places[i] \cap places[j] = {}
  /\ ~failed => ram.num = Cardinality(ram.free)
  /\ ~failed => Early \subseteq ram.free \cup ram.heap \cup ram.active \cup ram.comp

(* An l_page, its frame's owner and its slot of a c_hdr point to each other, *)
(* whatever order pages were compressed, expanded, moved and removed in.     *)
PagesFound ==
  ~failed =>
  /\ \A i \in LiveLps : lp[i].f # None =>
       IF lp[i].swap
       THEN /\ lp[i].f \in ram.comp
            /\ (ram.hdr[lp[i].f].a.lp = i) # (ram.hdr[lp[i].f].b.lp = i)
       ELSE lp[i].f \in ram.active /\ ram.owner[lp[i].f] = i
  /\ \A f \in ram.active : ram.owner[f] \in LiveLps /\ lp[ram.owner[f]].f = f
  /\ \A f \in ram.comp : \A i \in {ram.hdr[f].a.lp, ram.hdr[f].b.lp} \ {None} :
       i \in LiveLps /\ lp[i].f = f /\ lp[i].swap

(* Compressed pages that share a frame do not overlap, and the buddy list    *)
(* has exactly the frames with room for another: replace_active_page() may   *)
(* choose from it without looking further, and remove_l_page() relies on it. *)
BuddiesHaveRoom ==
  ~failed =>
  /\ \A f \in ram.comp : Used(ram.hdr[f]) <= Capacity /\ ~Empty(ram.hdr[f])
  /\ ram.buddy = {f \in ram.comp : None \in {ram.hdr[f].a.lp, ram.hdr[f].b.lp}}

(* A task can store only to frames that are its own at that address: frames  *)
(* that were compressed, sent away, released or freed are unmapped first.    *)
NoStaleMapping ==
  \A e \in tlb : /\ e[3] \in ram.active
                 /\ lp[ram.owner[e[3]]].t = e[1] /\ lp[ram.owner[e[3]]].a = e[2]

(* Once the areas of the kernel are set, a task's shape covers all of its    *)
(* pages: root puts new UTCBs next to it (get_shape()), whatever was sent to *)
(* the task or released by it.                                               *)
ShapeCovers ==
  \A i \in LiveLps : lp[i].f # None /\ task[lp[i].t].areas # {} =>
    get_shape(lp[i].t).low <= lp[i].a /\ lp[i].a <= get_shape(lp[i].t).high

(* A pinned page that has a frame is not compressed, whoever runs out of     *)
(* memory (SMATTR_PIN: "disallows replacement once mapped", sneks/mm.h).     *)
PinnedStays ==
  [][\A i \in Lps :
       PIN \in lp[i].flags /\ PIN \in lp'[i].flags /\ ~lp[i].swap => ~lp'[i].swap]_vars

(* What a task has at a page, wherever it is kept.                           *)
Contents(i) == IF lp[i].swap THEN Slot(ram.hdr[lp[i].f], i).data ELSE ram.data[lp[i].f]
View == [t \in Tasks |-> [a \in Pages |->
          LET at == {i \in Lps : lp[i].t = t /\ lp[i].a = a /\ lp[i].f # None}
          IN  IF at = {} THEN NoPage ELSE Contents(Min(at))]]

(* A fault changes nothing that any task has: not the page that is expanded, *)
(* and none of those that are compressed to make room for it.                *)
FaultsUnseen ==
  [][(\E p \in menu.touch : impl_handle_fault(p[1], p[2])) =>
       \A t \in Tasks, a \in Pages : View[t][a] \in {NoPage, View'[t][a]}]_vars

(* Tasks have the memory that TaskMem promises: compression, expansion and   *)
(* faults of others change nothing that a task sees, and a page that is sent *)
(* arrives as it was.                                                        *)
TaskMemory == INSTANCE TaskMem WITH view <- View, Stores <- Values
TaskMemorySpec == TaskMemory!Spec

(* The books of sys/sysmem/sysmem.c: frames are neither lost nor used twice, *)
(* pages are found where they were put, compressed ones have room, and the   *)
(* kernel shows no frame to a task that gave it up.                          *)
SysmemInvariants ==
  TypeOK /\ FramesConserved /\ PagesFound /\ BuddiesHaveRoom /\ NoStaleMapping /\ ShapeCovers

(* What tasks see of sysmem: memory as TaskMem has it, no faults, and pinned *)
(* pages that stay.                                                          *)
SysmemMemory == TaskMemorySpec /\ FaultsUnseen /\ PinnedStays
=============================================================================
