----------------------------- MODULE IpcTables ------------------------------
(***************************************************************************)
(* The tables of the IPC objects: the lists of message queues, pipes and   *)
(* shared memory segments, what creating one takes and gives back when a   *)
(* step fails, and attaching and detaching segments.  Nothing is ever      *)
(* taken off the lists.  Sizes count words.                                *)
(*                                                                         *)
(* External: malloc, the page allocators, fd_alloc (the lowest free        *)
(* descriptor), and the list mm->shm_areas that shm_detach reads and no    *)
(* code fills: attaching is taken to put the new area first, detaching to  *)
(* take it off.                                                            *)
(***************************************************************************)
EXTENDS Integers, FiniteSets, FiniteSetsExt, SequencesExt

CONSTANTS
    IpcTasks, IpcKeys,
    NoKey,              \* NULL: no segment
    SegmentSizes,       \* sizes asked for
    SHM_PAGE,           \* PAGE_SIZE
    VirtualPages,       \* how many virtual pages there are
    Descriptors,        \* how many file descriptors there are
    RefWrap             \* ref_count counts modulo this

\* There are fewer virtual pages than a reference count can count (2^20 and 2^32).
ASSUME IpcAssumption ==
    /\ NoKey \notin IpcKeys
    /\ SegmentSizes \subseteq Nat /\ SHM_PAGE \in Nat \ {0}
    /\ VirtualPages \in Nat /\ Descriptors \in Nat
    /\ RefWrap \in Nat /\ VirtualPages < RefWrap

VARIABLES
    msg_queues,         \* keys, last created first
    pipes,              \* pairs of descriptors, last created first
    shm_segments,       \* [key, size, ref_count], last created first
    making,             \* the segment whose creator holds shm_segments_lock, or NoKey
    found,              \* task -> the key of the segment shm_attach has found, or NoKey
    areas,              \* task -> its areas [addr, key], last attached first
    heapBlocks,         \* blocks got from malloc
    physPages,          \* pages got from mm_alloc_pages
    virtPages, mapped,  \* virtual pages given out, and those with a mapping
    openFds,            \* descriptors got from fd_alloc
    astray              \* history: shm_detach took another segment than the area's

ipcvars == <<msg_queues, pipes, shm_segments, making, found, areas,
             heapBlocks, physPages, virtPages, mapped, openFds, astray>>

ipc_init ==
    /\ msg_queues = <<>> /\ pipes = <<>> /\ shm_segments = <<>>
    /\ making = [key |-> NoKey, size |-> 0]
    /\ found = [t \in IpcTasks |-> NoKey] /\ areas = [t \in IpcTasks |-> <<>>]
    /\ heapBlocks = 0 /\ physPages = 0 /\ virtPages = {} /\ mapped = {}
    /\ openFds = {} /\ astray = FALSE

(***************************************************************************)
(* msgq_create: the structure and its buffer, or neither.                  *)
(***************************************************************************)
find_msg_queue(key) == \E i \in DOMAIN msg_queues : msg_queues[i] = key

msgq_create(key, ok, okBuffer) ==
    /\ ~find_msg_queue(key)
    /\ msg_queues' = IF ok /\ okBuffer THEN <<key>> \o msg_queues ELSE msg_queues
    /\ heapBlocks' = heapBlocks + (IF ok /\ okBuffer THEN 2 ELSE 0)
    /\ UNCHANGED <<pipes, shm_segments, making, found, areas, physPages, virtPages, mapped,
                   openFds, astray>>

\* External.
fd_alloc(used) == LET free == (0..(Descriptors - 1)) \ used
                  IN  IF free = {} THEN {} ELSE {Min(free)}

(***************************************************************************)
(* pipe_create: structure, buffer and two descriptors.  Without the second *)
(* descriptor the memory is freed, and the first one is not.               *)
(***************************************************************************)
pipe_create(ok, okBuffer) ==
    LET read  == fd_alloc(openFds)
        write == fd_alloc(openFds \cup read)
        both  == read # {} /\ write # {}
    IN  /\ IF ok /\ okBuffer
           THEN /\ openFds' = openFds \cup read \cup write
                /\ pipes' = IF both THEN <<<<Min(read), Min(write)>>>> \o pipes ELSE pipes
                /\ heapBlocks' = heapBlocks + (IF both THEN 2 ELSE 0)
           ELSE UNCHANGED <<openFds, pipes, heapBlocks>>
        /\ UNCHANGED <<msg_queues, shm_segments, making, found, areas, physPages, virtPages,
                       mapped, astray>>

-----------------------------------------------------------------------------
(* Shared memory. *)

Given(size) == size \div SHM_PAGE + 1                       \* pages allocated
Used(size)  == (size + SHM_PAGE - 1) \div SHM_PAGE          \* pages mapped
Range0(addr, n) == addr..(addr + n - 1)

find_shm_segment(key) == \E i \in DOMAIN shm_segments : shm_segments[i].key = key
Segment(key) == CHOOSE i \in DOMAIN shm_segments : shm_segments[i].key = key

\* shm_create up to malloc (that fails without an effect).
shm_create(key, size) ==
    /\ making.key = NoKey /\ ~find_shm_segment(key)
    /\ making' = [key |-> key, size |-> size] /\ heapBlocks' = heapBlocks + 1
    /\ UNCHANGED <<msg_queues, pipes, shm_segments, found, areas, physPages, virtPages, mapped,
                   openFds, astray>>

\* No pages: the structure is kept.
LinkSegmentLeaks(ok) ==
    /\ making.key # NoKey
    /\ making' = [key |-> NoKey, size |-> 0]
    /\ IF ok THEN /\ shm_segments' = <<[key |-> making.key, size |-> making.size, ref_count |-> 0]>>
                                     \o shm_segments
                  /\ physPages' = physPages + Given(making.size)
       ELSE UNCHANGED <<shm_segments, physPages>>
    /\ UNCHANGED <<msg_queues, pipes, found, areas, heapBlocks, virtPages, mapped, openFds, astray>>

\* The rest of shm_create, from mm_alloc_pages on.
LinkSegment(ok) ==
    /\ making.key # NoKey
    /\ making' = [key |-> NoKey, size |-> 0]
    /\ IF ok THEN /\ shm_segments' = <<[key |-> making.key, size |-> making.size, ref_count |-> 0]>>
                                     \o shm_segments
                  /\ physPages' = physPages + Given(making.size)
                  /\ UNCHANGED heapBlocks
       ELSE /\ heapBlocks' = heapBlocks - 1
            /\ UNCHANGED <<shm_segments, physPages>>
    /\ UNCHANGED <<msg_queues, pipes, found, areas, virtPages, mapped, openFds, astray>>

\* shm_attach finds the segment, without shm_segments_lock ...
shm_attach(t, key) ==
    /\ found[t] = NoKey /\ find_shm_segment(key)
    /\ found' = [found EXCEPT ![t] = key]
    /\ UNCHANGED <<msg_queues, pipes, shm_segments, making, areas, heapBlocks, physPages,
                   virtPages, mapped, openFds, astray>>

\* ... and maps it, if mm_alloc_virt_pages has the addresses.
MapSegment(t) ==
    LET i     == Segment(found[t])
        size  == shm_segments[i].size
        bases == {b \in 0..(VirtualPages - Given(size)) : Range0(b, Given(size)) \cap virtPages = {}}
        addr  == Min(bases)
    IN  /\ found[t] # NoKey
        /\ found' = [found EXCEPT ![t] = NoKey]
        /\ IF bases = {} THEN UNCHANGED <<virtPages, mapped, shm_segments, areas>>
           ELSE /\ virtPages' = virtPages \cup Range0(addr, Given(size))
                /\ mapped' = mapped \cup Range0(addr, Used(size))
                /\ shm_segments' = [shm_segments EXCEPT ![i].ref_count = (@ + 1) % RefWrap]
                /\ areas' = [areas EXCEPT ![t] = <<[addr |-> addr, key |-> found[t]]>> \o @]
        /\ UNCHANGED <<msg_queues, pipes, making, heapBlocks, physPages, openFds, astray>>

(***************************************************************************)
(* shm_detach of the area attached last (of any other it returns -1).  The *)
(* loop over the segments looks only at the caller's areas and stops at    *)
(* the first segment, whichever that is; its size and its ref_count are    *)
(* the ones used.                                                          *)
(***************************************************************************)
shm_detach(t) ==
    LET area == Head(areas[t])
        seg  == Head(shm_segments)
    IN  /\ making.key = NoKey
        /\ areas[t] # <<>>
        /\ mapped' = mapped \ Range0(area.addr, Used(seg.size))
        /\ virtPages' = virtPages \ Range0(area.addr, Given(seg.size))
        /\ shm_segments' = [shm_segments EXCEPT ![1].ref_count = (@ - 1) % RefWrap]
        /\ areas' = [areas EXCEPT ![t] = Tail(@)]
        /\ astray' = (astray \/ seg.key # area.key)
        /\ UNCHANGED <<msg_queues, pipes, making, found, heapBlocks, physPages, openFds>>

IpcNext ==
    \/ \E key \in IpcKeys, ok, okBuffer \in BOOLEAN : msgq_create(key, ok, okBuffer)
    \/ \E ok, okBuffer \in BOOLEAN : pipe_create(ok, okBuffer)
    \/ \E key \in IpcKeys, size \in SegmentSizes : shm_create(key, size)
    \/ \E ok \in BOOLEAN : LinkSegment(ok)
    \/ \E t \in IpcTasks, key \in IpcKeys : shm_attach(t, key)
    \/ \E t \in IpcTasks : MapSegment(t) \/ shm_detach(t)

IpcSpec == ipc_init /\ [][IpcNext]_ipcvars

-----------------------------------------------------------------------------

\* The pages of the segments, summed from the one created first.
SegmentPages ==
    LET n == Len(shm_segments)
        total[i \in 0..n] == IF i = 0 THEN 0 ELSE total[i - 1] + Given(shm_segments[n + 1 - i].size)
    IN  total[n]

OwnedFds == UNION {{pipes[i][1], pipes[i][2]} : i \in DOMAIN pipes}

Areas == UNION {ToSet(areas[t]) : t \in IpcTasks}
AreasOf(key) == {a \in Areas : a.key = key}
SizeOf(a) == shm_segments[Segment(a.key)].size
GivenPages(a) == Range0(a.addr, Given(SizeOf(a)))
UsedPages(a) == Range0(a.addr, Used(SizeOf(a)))

MemoryAccounted ==
    /\ heapBlocks = 2 * Len(msg_queues) + 2 * Len(pipes) + Len(shm_segments)
                    + (IF making.key = NoKey THEN 0 ELSE 1)
    /\ physPages = SegmentPages

KeysOnce == \A i, j \in DOMAIN shm_segments : shm_segments[i].key = shm_segments[j].key => i = j

FdsAccounted ==
    /\ Cardinality(OwnedFds) = 2 * Len(pipes)
    /\ OwnedFds = openFds \/ Cardinality(openFds) = Descriptors

AreasAgree ==
    /\ \A i \in DOMAIN shm_segments :
          shm_segments[i].ref_count = Cardinality(AreasOf(shm_segments[i].key))
    /\ \A t, u \in IpcTasks : \A i \in DOMAIN areas[t], j \in DOMAIN areas[u] :
          areas[t][i] = areas[u][j] => t = u /\ i = j
    /\ \A a, b \in Areas : GivenPages(a) \cap GivenPages(b) # {} => a = b
    /\ mapped = UNION {UsedPages(a) : a \in Areas}
    /\ virtPages = UNION {GivenPages(a) : a \in Areas}

(***************************************************************************)
(* The books of the IPC objects agree.  Whichever creations failed, and    *)
(* half way through which step, the memory taken is that of the objects on *)
(* the lists; no key is there twice, also when tasks create it at the same *)
(* time; no descriptor belongs to two pipes, and one without a pipe is     *)
(* lost only by a call that took the last one.  And until a detach has     *)
(* taken the wrong segment, every ref_count is the number of areas of the  *)
(* segment, the areas do not overlap, and exactly their pages are mapped.  *)
(***************************************************************************)
IpcAccounted == MemoryAccounted /\ KeysOnce /\ FdsAccounted /\ (~astray => AreasAgree)
=============================================================================
