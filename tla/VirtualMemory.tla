--------------------------- MODULE VirtualMemory ---------------------------
(***************************************************************************)
(* mm_pra.c, page replacement with its four policies, and mm_protect.c,    *)
(* the page-fault handler and mm_protect, of one task.                     *)
(*                                                                         *)
(* A frame descriptor is named by the address that mm_alloc_pages gave,    *)
(* not by the virtual page the fault handler maps to it: replacing a frame *)
(* unmaps the former (direct) and leaves the latter in the page table.     *)
(* Physical and virtual pages are taken to be disjoint address ranges, as  *)
(* the memory map in mmu_config.c has them.                                *)
(*                                                                         *)
(* mm_alloc_pages, mm_free_pages, swap_out, mm_mmap and the page-table     *)
(* functions are declared in mm.h and defined nowhere: a pool that gives   *)
(* its lowest page, a fixed list of regions, and functions on ptes.        *)
(***************************************************************************)
EXTENDS Naturals, SequencesExt, FiniteSetsExt

CONSTANTS
    FrameCount,   \* pra_ctx.frame_count
    Pages,        \* physical pages, as numbers
    Regions,      \* vm_area_t: the set of virtual pages of each region
    RefBits,      \* width of page_frame_t.reference
    None          \* vaddr 0, no page

ASSUME VmAssumption ==
    /\ FrameCount \in Nat \ {0} /\ RefBits \in Nat \ {0} /\ Pages \subseteq Nat /\ None \notin Pages
    /\ \A r1, r2 \in Regions : r1 = r2 \/ r1 \cap r2 = {}

Policies == {"PRA_FIFO", "PRA_CLOCK", "PRA_LRU", "PRA_NFU"}
Prot == {{"READ"}, {"READ", "WRITE"}}
Frames == 0..(FrameCount - 1)
VPages == UNION Regions

VARIABLES
    type,       \* pra_ctx.type
    frames,     \* pra_ctx.frames
    hand,       \* clock_hand, and fifo_head of fifo_select
    pool,       \* pages that mm_alloc_pages can give
    held,       \* pages that kernel code got from pra_alloc_page
    pte,        \* the page table of the task: page and protection
    flags,      \* vm_area_t.flags of each region
    alive,      \* FALSE after task_exit
    recent,     \* history: frames accessed since the last replacement
    loaded,     \* history: the frames in the order in which they were loaded
    damage      \* history: "partial": mm_protect on part of a region;
                \* "holes": a frame was freed, or could not be filled again

pra == <<type, frames, hand, pool, recent, loaded>>
vmvars == <<pra, held, pte, flags, alive, damage>>

EmptyFrame == [vaddr |-> None, accessed |-> 0, reference |-> 0]

VmInit ==
    /\ type \in Policies
    /\ frames = [i \in Frames |-> EmptyFrame]
    /\ hand = 0 /\ pool = Pages /\ held = {}
    /\ pte = [v \in VPages |-> [page |-> None, prot |-> {}]]
    /\ flags = [r \in Regions |-> {"READ", "WRITE"}]
    /\ alive = TRUE
    /\ recent = {} /\ loaded = <<>> /\ damage = {}

-----------------------------------------------------------------------------
(* Mutated forms of the definitions below. *)

\* The hand stops at a page that was accessed.
ClockIgnoresAccess(i) == i = hand

\* The page of the replaced frame goes back to the pool.
GiveBackVictim(i, page) == (pool \ {page}) \cup ({frames[i].vaddr} \ {None})

\* The protection is stored in the region only.
ProtectRegionOnly(range, prot) == pte

-----------------------------------------------------------------------------
(* Choice of a victim: the frame, the new hand and the new frames. *)
Turn(i) == (i + 1) % FrameCount

\* clock_select: the bits of the frames the hand passes are cleared; if all were
\* set it comes round to where it started.
ClockStops(i) ==
    LET dist(j) == (j + FrameCount - hand) % FrameCount
        open == {j \in Frames : frames[j].accessed = 0}
    IN IF open = {} THEN i = hand ELSE i \in open /\ \A j \in open : dist(i) <= dist(j)
ClockPasses(i) ==
    IF frames[i].accessed = 1 THEN Frames
    ELSE {j \in Frames : (j + FrameCount - hand) % FrameCount < (i + FrameCount - hand) % FrameCount}

\* lru_select and nfu_select take the first of the smallest counts; nfu_select
\* halves them all before.
Aged == [i \in Frames |-> frames[i].reference \div 2]
Counts == [i \in Frames |-> frames[i].reference]
LeastCount(ref, i) ==
    /\ \A j \in Frames : ref[i] <= ref[j]
    /\ \A j \in Frames : j < i => ref[j] > ref[i]

Selects(i) ==
    CASE type = "PRA_FIFO"  -> i = hand
      [] type = "PRA_CLOCK" -> ClockStops(i)
      [] type = "PRA_LRU"   -> LeastCount(Counts, i)
      [] type = "PRA_NFU"   -> LeastCount(Aged, i)

AfterSelect(i) ==
    CASE type = "PRA_CLOCK" -> [j \in Frames |-> IF j \in ClockPasses(i)
                                 THEN [frames[j] EXCEPT !.accessed = 0] ELSE frames[j]]
      [] type = "PRA_NFU" -> [j \in Frames |-> [frames[j] EXCEPT !.reference = Aged[j]]]
      [] OTHER -> frames
HandAfter(i) == IF type \in {"PRA_FIFO", "PRA_CLOCK"} THEN Turn(i) ELSE hand

\* mm_alloc_pages(1), and the page of the replaced frame is not given back.
TakePage(i, page) == pool \ {page}

\* pra_alloc_page with its result: a page, or None.  The frame is the first free
\* one or the victim; nothing in the code sets dirty, so there is no swap_out.
pra_alloc_page(page) ==
    LET free == {i \in Frames : frames[i].vaddr = None}
    IN \E i \in Frames :
         LET fs == IF free = {} THEN AfterSelect(i) ELSE frames IN
         /\ IF free # {} THEN i = Min(free) ELSE Selects(i)
         /\ hand' = IF free = {} THEN HandAfter(i) ELSE hand
         /\ IF pool = {}
            THEN /\ page = None
                 /\ frames' = fs
                 /\ damage' = damage \cup {"holes"}
                 /\ UNCHANGED <<pool, loaded>>
            ELSE /\ page = Min(pool)
                 /\ frames' = [fs EXCEPT ![i] = [vaddr |-> page, accessed |-> 1, reference |-> 0]]
                 /\ pool' = TakePage(i, page)
                 /\ loaded' = Append(SelectSeq(loaded, LAMBDA j : j # i), i)
                 /\ UNCHANGED damage
         /\ recent' = IF free = {} THEN {} ELSE recent
         /\ UNCHANGED type

\* Kernel code allocates, frees and uses a page of its own.
AllocDirect(page) ==
    /\ pra_alloc_page(page)
    /\ held' = held \cup ({page} \ {None})
    /\ UNCHANGED <<pte, flags, alive>>

\* A page whose frame was replaced is not found and stays allocated.
pra_free_page(page) ==
    /\ page \in held
    /\ held' = held \ {page}
    /\ IF \E i \in Frames : frames[i].vaddr = page
       THEN LET i == CHOOSE j \in Frames : frames[j].vaddr = page
            IN /\ frames' = [frames EXCEPT ![i] = EmptyFrame]
               /\ pool' = pool \cup {page}
               /\ loaded' = SelectSeq(loaded, LAMBDA j : j # i)
               /\ recent' = recent \ {i}
               /\ damage' = damage \cup {"holes"}
       ELSE UNCHANGED <<frames, pool, loaded, recent, damage>>
    /\ UNCHANGED <<type, hand, pte, flags, alive>>

HighBit == 2^(RefBits - 1)

pra_access_page(page) ==
    \E i \in Frames :
      LET ref == (frames[i].reference + 1) % 2^RefBits IN
      /\ frames[i].vaddr = page /\ page # None
      /\ frames' = [frames EXCEPT ![i].accessed = 1,
                       ![i].reference = IF type = "PRA_NFU" /\ ref < HighBit
                                        THEN ref + HighBit ELSE ref]
      /\ recent' = recent \cup {i}
      /\ UNCHANGED <<type, hand, pool, loaded, held, pte, flags, alive, damage>>

-----------------------------------------------------------------------------
(* mm_protect.c *)
RegionOf(v) == CHOOSE r \in Regions : v \in r
Needs(access) == IF access = "write" THEN {"READ", "WRITE"} ELSE {"READ"}
mayAccess(prot, access) == Needs(access) \subseteq prot

\* An access that the page table refuses raises a page fault.  Outside every
\* region, against the flags of the region, or without a page, the task exits.
\* error_code has bit 0 clear in both cases.
page_fault_handler(v, access) ==
    LET r == RegionOf(v) IN
    /\ alive
    /\ pte[v].page = None \/ ~mayAccess(pte[v].prot, access)
    /\ \/ /\ ~mayAccess(flags[r], access)
          /\ alive' = FALSE
          /\ UNCHANGED <<pra, held, pte, damage>>
       \/ /\ mayAccess(flags[r], access)
          /\ \E page \in Pages \cup {None} :
               /\ pra_alloc_page(page)
               /\ IF page = None THEN alive' = FALSE /\ UNCHANGED pte
                  ELSE /\ pte' = [pte EXCEPT ![v] = [page |-> page, prot |-> flags[r]]]
                       /\ UNCHANGED alive
          /\ UNCHANGED held
    /\ UNCHANGED flags

\* The page-table entries of the range get the new protection.
UpdateEntries(range, prot) ==
    [v \in VPages |-> IF v \in range /\ pte[v].page # None
                      THEN [pte[v] EXCEPT !.prot = prot] ELSE pte[v]]

\* The flags of the whole region are replaced, the entries of the range only.
mm_protect(r, range, prot) ==
    /\ alive /\ range # {} /\ range \subseteq r
    /\ flags' = [flags EXCEPT ![r] = prot]
    /\ pte' = UpdateEntries(range, prot)
    /\ damage' = IF range = r THEN damage ELSE damage \cup {"partial"}
    /\ UNCHANGED <<pra, held, alive>>

VmNext ==
    \/ \E page \in Pages \cup {None} : AllocDirect(page)
    \/ \E page \in Pages : pra_free_page(page) \/ pra_access_page(page)
    \/ \E v \in VPages, access \in {"read", "write"} : page_fault_handler(v, access)
    \/ \E r \in Regions, prot \in Prot :
          \E range \in {r} \cup {{v} : v \in r} : mm_protect(r, range, prot)

VmSpec == VmInit /\ [][VmNext]_vmvars

-----------------------------------------------------------------------------
(* Properties. *)

\* A physical page has one user: one virtual page, or kernel code, and it is not
\* in the pool while it is in use, although frames are replaced under their users.
PagesNotShared ==
    LET mapped == {v \in VPages : pte[v].page # None} IN
    /\ \A v, w \in mapped : pte[v].page = pte[w].page => v = w
    /\ \A v \in mapped : pte[v].page \notin pool \cup held
    /\ held \cap pool = {}
    /\ \A i, j \in Frames :
         frames[i].vaddr = frames[j].vaddr /\ frames[i].vaddr # None => i = j

Replaces(i) == /\ frames[i].vaddr # None
               /\ frames'[i].vaddr \notin {None, frames[i].vaddr}

\* A frame is replaced for a reason: under PRA_FIFO it is the one loaded first (as
\* long as none was freed and every victim filled again); under PRA_CLOCK it was
\* not accessed, or all were; under PRA_NFU it was not accessed since the last
\* replacement, or all were.  Nothing is said of PRA_LRU: mm.h calls it least
\* recently used, but lru_select takes the least count of accesses and keeps no
\* order of them, so that a page just loaded goes first.
VictimJustified ==
    [][\A i \in Frames : Replaces(i) =>
         /\ type = "PRA_FIFO" => "holes" \in damage \/ i = Head(loaded)
         /\ type = "PRA_CLOCK" /\ frames[i].accessed = 1 => \A j \in Frames : frames[j].accessed = 1
         /\ type = "PRA_NFU" /\ i \in recent => recent = Frames]_vmvars

\* As long as mm_protect is called for whole regions, the page table never allows
\* what the flags of the region forbid nor forbids what they allow, so that a fault
\* never takes the page of a mapped virtual page away.
ProtectionAgrees ==
    "partial" \notin damage =>
        \A v \in VPages : pte[v].page # None => pte[v].prot = flags[RegionOf(v)]
=============================================================================
