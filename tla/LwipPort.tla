------------------------------ MODULE LwipPort ------------------------------
(***************************************************************************)
(* The port of lwIP: sys_arch.c (mailboxes, semaphores, time) and the      *)
(* interface of ethernetif.c.  A frame comes in through the receive        *)
(* interrupt (ethernetif_input), goes through the stack's mailbox and is   *)
(* taken out by the stack's thread; application threads put requests into  *)
(* the same mailbox and wait on a semaphore for the answer.                *)
(*                                                                         *)
(* External: the operating system's queues and semaphores (os_queue_send,  *)
(* os_sem_take, ...), the pool of pbufs, the driver's rings, and lwIP,     *)
(* whose netif->input offers the packet with sys_mbox_trypost.  The        *)
(* counters of SYS_STATS and LINK_STATS are left out.                      *)
(***************************************************************************)
EXTENDS Integers, SequencesExt, FiniteSets

CONSTANTS
    Pbufs,          \* the pool
    Apps,           \* the application threads
    Nothing,        \* NULL
    MboxSize, RingSize,     \* the capacities of the mailbox and of the receive ring
    MaxFrames, MaxTicks     \* bounds

ASSUME LwipAssumption ==
    /\ Pbufs \cap Apps = {} /\ Nothing \notin Pbufs \cup Apps
    /\ {MboxSize, RingSize, MaxFrames, MaxTicks} \subseteq Nat

VARIABLES
    ring,           \* frames in the receive ring, numbered as they arrived
    arrived,        \* how many frames arrived
    pool,           \* the free pbufs
    payload,        \* pbuf -> the frame in it
    mbox,           \* the mailbox: pbufs and application threads (their requests)
    sem,            \* application thread -> the count of its semaphore
    app,            \* application thread -> "idle", "posting", "waiting"
    fetch,          \* the stack's fetch under way: [start, timeout], or Nothing
    inHand,         \* what the stack's thread is working on
    sys_now_ms,
    delivered       \* history: the frames the stack has seen, in order

lvars == <<ring, arrived, pool, payload, mbox, sem, app, fetch, inHand, sys_now_ms, delivered>>

\* sys_init, sys_mbox_new and sys_thread_new: the port once it is up.
LwipInit ==
    /\ ring = <<>> /\ arrived = 0
    /\ pool = Pbufs /\ payload = [p \in Pbufs |-> 0]
    /\ mbox = <<>>
    /\ sem = [a \in Apps |-> 0] /\ app = [a \in Apps |-> "idle"]
    /\ fetch = Nothing /\ inHand = Nothing
    /\ sys_now_ms = 0
    /\ delivered = <<>>

\* External: the controller stores a frame, or has no room and loses it.
FrameArrives ==
    /\ arrived < MaxFrames
    /\ arrived' = arrived + 1
    /\ ring' = IF Len(ring) < RingSize THEN Append(ring, arrived') ELSE ring
    /\ UNCHANGED <<pool, payload, mbox, sem, app, fetch, inHand, sys_now_ms, delivered>>

HasRoom == Len(mbox) < MboxSize

\* sys_mbox_trypost: ERR_MEM, and no effect, when the queue is full.
sys_mbox_trypost(msg) == mbox' = IF HasRoom THEN Append(mbox, msg) ELSE mbox

\* The pbuf of a refused packet is not freed.
PoolKeepsNone(p) == pool \ {p}

\* What ethernetif_input leaves in the pool: the pbuf is freed if it was refused.
PoolAfterInput(p) == IF HasRoom THEN pool \ {p} ELSE pool

(***************************************************************************)
(* ethernetif_input: the frame is copied into a pbuf and offered to the    *)
(* stack; without a pbuf it is dropped.  The ring's buffer is released in  *)
(* any case.                                                               *)
(***************************************************************************)
ethernetif_input(p) ==
    /\ ring # <<>> /\ p \in pool
    /\ payload' = [payload EXCEPT ![p] = Head(ring)]
    /\ sys_mbox_trypost(p)
    /\ pool' = PoolAfterInput(p)
    /\ ring' = Tail(ring)
    /\ UNCHANGED <<arrived, sem, app, fetch, inHand, sys_now_ms, delivered>>

InputDrops ==
    /\ ring # <<>> /\ pool = {}
    /\ ring' = Tail(ring)
    /\ UNCHANGED <<arrived, pool, payload, mbox, sem, app, fetch, inHand, sys_now_ms, delivered>>

(***************************************************************************)
(* sys_arch_mbox_fetch: timeout 0 waits for ever.  The call notes the time,*)
(* sleeps in os_queue_receive and returns with a message, or with NULL at  *)
(* the timeout.                                                            *)
(***************************************************************************)
sys_arch_mbox_fetch(timeout) ==
    /\ fetch = Nothing /\ inHand = Nothing
    /\ fetch' = [start |-> sys_now_ms, timeout |-> timeout]
    /\ UNCHANGED <<ring, arrived, pool, payload, mbox, sem, app, inHand, sys_now_ms, delivered>>

FetchReturns ==
    /\ fetch # Nothing /\ mbox # <<>>
    /\ inHand' = Head(mbox) /\ mbox' = Tail(mbox)
    /\ fetch' = Nothing
    /\ UNCHANGED <<ring, arrived, pool, payload, sem, app, sys_now_ms, delivered>>

FetchTimesOut ==
    /\ fetch # Nothing /\ mbox = <<>>
    /\ fetch.timeout > 0 /\ sys_now_ms - fetch.start >= fetch.timeout
    /\ fetch' = Nothing
    /\ UNCHANGED <<ring, arrived, pool, payload, mbox, sem, app, inHand, sys_now_ms, delivered>>

sys_arch_mbox_tryfetch ==
    /\ fetch = Nothing /\ inHand = Nothing /\ mbox # <<>>
    /\ inHand' = Head(mbox) /\ mbox' = Tail(mbox)
    /\ UNCHANGED <<ring, arrived, pool, payload, sem, app, fetch, sys_now_ms, delivered>>

sys_sem_signal(a) == sem' = [sem EXCEPT ![a] = @ + 1]

(***************************************************************************)
(* External: the stack's thread ends its work on a packet and frees the    *)
(* pbuf, or answers a request with sys_sem_signal.                         *)
(***************************************************************************)
StackFinishes ==
    /\ inHand # Nothing
    /\ inHand' = Nothing
    /\ IF inHand \in Pbufs
       THEN /\ delivered' = Append(delivered, payload[inHand])
            /\ pool' = pool \cup {inHand}
            /\ UNCHANGED sem
       ELSE /\ sys_sem_signal(inHand)
            /\ UNCHANGED <<delivered, pool>>
    /\ UNCHANGED <<ring, arrived, payload, mbox, app, fetch, sys_now_ms>>

(***************************************************************************)
(* An application's request: sys_mbox_post, which waits for room, then     *)
(* sys_arch_sem_wait with timeout 0: an application waits for its answer   *)
(* as long as it takes.  The branch that returns SYS_ARCH_TIMEOUT is left  *)
(* out: what a caller does with its request then is not in the repository. *)
(***************************************************************************)
Request(a) ==
    /\ app[a] = "idle"
    /\ app' = [app EXCEPT ![a] = "posting"]
    /\ UNCHANGED <<ring, arrived, pool, payload, mbox, sem, fetch, inHand, sys_now_ms, delivered>>

sys_mbox_post(a) ==
    /\ app[a] = "posting" /\ HasRoom
    /\ mbox' = Append(mbox, a)
    /\ app' = [app EXCEPT ![a] = "waiting"]
    /\ UNCHANGED <<ring, arrived, pool, payload, sem, fetch, inHand, sys_now_ms, delivered>>

sys_arch_sem_wait(a) ==
    /\ app[a] = "waiting" /\ sem[a] > 0
    /\ sem' = [sem EXCEPT ![a] = @ - 1]
    /\ app' = [app EXCEPT ![a] = "idle"]
    /\ UNCHANGED <<ring, arrived, pool, payload, mbox, fetch, inHand, sys_now_ms, delivered>>

sys_tick_handler ==
    /\ sys_now_ms < MaxTicks
    /\ sys_now_ms' = sys_now_ms + 1
    /\ UNCHANGED <<ring, arrived, pool, payload, mbox, sem, app, fetch, inHand, delivered>>

LwipNext ==
    \/ FrameArrives \/ InputDrops
    \/ \E p \in Pbufs : ethernetif_input(p)
    \/ \E timeout \in 0..MaxTicks : sys_arch_mbox_fetch(timeout)
    \/ FetchReturns \/ FetchTimesOut \/ sys_arch_mbox_tryfetch \/ StackFinishes
    \/ \E a \in Apps : Request(a) \/ sys_mbox_post(a) \/ sys_arch_sem_wait(a)
    \/ sys_tick_handler

LwipSpec == LwipInit /\ [][LwipNext]_lvars

-----------------------------------------------------------------------------

\* How often a pbuf, or the request of an application thread, is on its way
\* through the mailbox or in the hand of the stack's thread.
Underway(x) ==
    Cardinality({i \in DOMAIN mbox : mbox[i] = x}) + (IF inHand = x THEN 1 ELSE 0)

\* The frames where they are, from the last station to the first: the station, the
\* place there, the number of the frame.
FramesUnderway ==
    {<<1, i, delivered[i]>> : i \in DOMAIN delivered}
    \cup {<<2, 1, payload[p]>> : p \in Pbufs \cap {inHand}}
    \cup {<<3, i, payload[mbox[i]]>> : i \in {j \in DOMAIN mbox : mbox[j] \in Pbufs}}
    \cup {<<4, i, ring[i]>> : i \in DOMAIN ring}
Ahead(f, g) == f[1] < g[1] \/ (f[1] = g[1] /\ f[2] < g[2])

(***************************************************************************)
(* Nothing that goes through the mailbox is lost.  Between the interrupt,  *)
(* the mailbox and the stack's thread no pbuf is lost or in two places,    *)
(* also when the pool or the mailbox runs out in the middle of a frame,    *)
(* and the frames the stack has seen, those in its hand, in the mailbox    *)
(* and in the ring keep the order in which they arrived.  An application   *)
(* that waits for an answer has one request under way or its semaphore has *)
(* been signalled, and never more than one of these.                       *)
(***************************************************************************)
MailConserved ==
    /\ pool \subseteq Pbufs
    /\ \A p \in Pbufs : Underway(p) = IF p \in pool THEN 0 ELSE 1
    /\ \A f, g \in FramesUnderway : Ahead(f, g) => f[3] < g[3]
    /\ \A a \in Apps : Underway(a) + sem[a] = IF app[a] = "waiting" THEN 1 ELSE 0
=============================================================================
