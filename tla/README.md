# Verification of the ARMv7-A kernel: tasks, synchronisation, IPC, memory, files and services

TLA+ models of the kernel in `src/` (C for an ARMv7-A board: task scheduling,
mutexes, semaphores, conditions, read/write locks, message queues, pipes, shared
memory, memory management, a file system) and of the services on top of it (a
key-value store, epoll, WebSocket, MQTT, the lwIP port, JSON), TLC configurations
that check them on small instances, and TLAPS proofs for any number of tasks.
Source files are named by their base name: `mutex.c` is `src/src/mutex.c`, `sync.h`
is `src/include/sync.h`.

## 1. Inventory

### 1.1 Components

| component | state it keeps | operations | interacts with |
|---|---|---|---|
| tasks (`task.c`) | `task_list`, `task_count`, `current_task`, `idle_task`; per task: state, links, stack | create, delete, exit, suspend, resume, yield, sleep, schedule | every blocking call changes `task->state` and ends in `task_yield()` |
| mutex (`mutex.c`) | `locked`, `owner`, `waiting_tasks`, `recursive_count` | lock, trylock, unlock, recursive lock and unlock; the wait queue | used by conditions, read/write locks, queues, pipes |
| semaphore (`semaphore.c`) | `count`, `waiting_tasks` | wait, trywait, post | shares `next_wait` and the wait-queue functions with `mutex.c` |
| condition (`condition.c`) | `waiting_tasks` | wait, timed wait, signal, broadcast | releases and retakes a mutex |
| read/write lock (`rwlock.c`) | `readers_count`, `writer_active`, `writer_owner` | read/write × lock, trylock, unlock | one mutex, two conditions |
| message queue (`msg_queue.c`) | ring buffer `buffer`, `head`, `tail`, `msg_count`; the list of queues | create, send, receive by type, with timeout | one mutex, two conditions |
| pipe (`pipe.c`) | byte ring `buffer`, `read_pos`, `write_pos`, `count`; the list of pipes | create, write, read, in rounds | one mutex, two conditions |
| shared memory (`shared_mem.c`, `ipc_init.c`) | list of segments with reference counts | create, attach, detach | page allocator, address space of the task |
| MLFQ scheduler (`scheduler_mlfq.c`) | queues (head, tail, count), per task `current_queue`, `time_slice` | init_task, update_queue, boost, tick, next | called from tasks and from the timer interrupt |
| scheduler core (`scheduler.c`) | `scheduler_state`, `current_policy` | start, stop, set_policy, tick, next_task | dispatches to the policies |
| real-time scheduler (`scheduler_rt.c`) | task list with period, deadline, next release | set parameters, EDF, RM, tick | makes blocked tasks ready in the tick |
| fair scheduler (`scheduler_fair.c`) | red-black tree by vruntime | enqueue, dequeue, update_vruntime | no caller |
| heap (`mm_alloc.c`, `malloc.c`) | headers and footers in memory, free list | allocate, free, split, join | everything that calls `malloc` |
| virtual memory (`mm_pra.c`, `mm_protect.c`, `mmu.c`) | frames, policy data, regions, page table | allocate, free, access, fault, protect | page allocator |
| file system (`fs_core.c`, `fs_file.c`) | superblock, bitmaps, inodes, block cache, descriptors | open, close, read, write | device |
| key-value store (`transaction.c`, `storage.c`, `index.c`) | operation list of a transaction; append-only file; skip list | begin, put, delete, get, commit, abort; write, read; insert, find | the database functions between them are not in the repository |
| epoll (`epoll.c`, `rbtree.c`) | table of instances, a red-black tree each | create, ctl, wait, close | threads |
| WebSocket (`frame.c`, `handshake.c`, `server.c`) | client table, a thread per connection | accept, handshake, receive, broadcast | sockets |
| MQTT (`mqtt_protocol.c`, `mqtt_network.c`) | network context: socket, TLS objects | new, connect, read, write, destroy; CONNECT packet | sockets, OpenSSL |
| lwIP port (`sys_arch.c`, `ethernetif.c`) | mailbox, semaphores, tick | post, fetch, wait, signal, input | network controller, lwIP |
| JSON (`cjson.c`, `cjson_print.c`) | items and texts on the heap | print and parse strings, numbers, arrays | `malloc` |
| devices, libc, audio, Bluetooth, TLS, HTTP, FAT | device registers, text and samples | I/O, formatting | external libraries |

`PROJECT.json` lists every component with its sources and its status.

### 1.2 What is hard in this code

* **Interleaving.** Tasks are preempted anywhere between `interrupt_enable()`
  and the next `interrupt_disable()`. A hand-over of a mutex happens in the
  unlocking task, and the new owner runs later; meanwhile others try and wait.
  `skiplist_find` walks without a lock while an insertion links level by level.
* **Lost wake-ups.** `condition_signal` wakes at most one task, which has to
  retake the mutex and may find that somebody else was faster, that the message
  is not of its type, or that it is late.
* **Shared links.** All wait queues are chained through the one field
  `next_wait`; the run queues through `next`, from tasks and from the interrupt.
* **Foreign wake-ups.** The primitives trust that only they make their waiters
  ready. `task_resume` and the real-time tick do not look at what a task waits for.
* **Slots used again.** A deleted task stays in whatever list it was in.
* **Partial transfers** (pipes, sockets) and **partial failures** (commits, block
  writes, creation of IPC objects, TLS set-up, printing an array).
* **Limits.** The block cache throws out blocks in the middle of a call; the pool of
  pbufs and the mailbox run out in the middle of a frame; counters wrap.
* **Crashes** between the write of a block and its sync.

### 1.3 What makes each modelled component correct

* mutex: one owner at a time, every waiter served, in order; the recursion count
  is the nesting depth; callers see a lock (`LockService`).
* semaphore: permits are neither lost nor made up; nobody sleeps next to one.
* read/write lock: a writer is alone; a sleeper has a waker; somebody gets it.
* message queue: a bounded typed channel (`MsgChannel`); who loses a wake-up.
* pipe: a byte stream; the reader is served.
* IPC tables: what failed creations took was given back; reference counts and
  mappings agree.
* run queues: no task lost or doubled; wait queues: FIFO.
* real-time scheduler: no release too early, no charge beyond the share.
* virtual memory: a page has one user; victims are chosen for a reason; page table
  and region flags agree.
* heap: every word the allocator writes is in the heap.
* file system: files hold what was written, through the cache and, after a close,
  on the device; the bitmaps say which blocks are used.
* key-value store: own writes are seen; what a failed commit leaves; acknowledged
  blocks survive; a search sees the list.
* epoll: what was registered is found; the tree stays a red-black tree.
* WebSocket: frames handled in order, once; the client table has no dead entry.
* MQTT: a broker can read the CONNECT packet; a failed connection leaks nothing.
* lwIP port: no packet and no answer is lost or doubled.
* JSON: what is printed is parsed back, in the buffers that were sized for it.

## 2. Modules

| module | models | state and actions |
|---|---|---|
| `SyncPrimitives` | `mutex.c`, `task.h` | the mutex record, the wait queue as a sequence, what lock and unlock do to it |
| `Mutex` | `mutex.c` | one action per call: `mutex_lock`, `mutex_trylock`, `mutex_unlock`, `recursive_mutex_lock`, `recursive_mutex_unlock`, and the return from `task_yield()` |
| `LockService` | contract of `sync.h` | abstract lock: out, waiting, in |
| `MutexProofs` | | theorems about `Mutex` |
| `ForeignWakeups` | `task.c`, `scheduler_rt.c` | `Mutex` plus suspend, resume and the real-time tick |
| `Dispatcher` | `scheduler_mlfq.c:161-175`, `task.c` | which task runs: the first ready one of a run queue, or any; composed with `Mutex`, `RwLock` and `Pipe` in their `MC` modules |
| `Semaphore` | `semaphore.c` | wait, trywait, post, return |
| `TaskLinks` | the links of `task_t` | what a loop along `next` or `next_wait` meets |
| `WaitQueue`, `FifoQueues` | `mutex.c:20-43` | the lists on their pointers, and FIFO queues as their abstraction |
| `Monitor` | `condition.c`, `mutex.c` as used by the next three | mutex + two conditions; where each task is (`at`) |
| `RwLock` | `rwlock.c` | `Monitor` + the lock's fields; one action per operation body |
| `MsgQueue`, `MsgChannel` | `msg_queue.c`; contract of `ipc.h` | `Monitor` + the ring; the bounded channel |
| `Pipe` | `pipe.c` | `Monitor` + the byte ring, bytes numbered in the order of writing |
| `MonitorFacts` | | invariant of `Monitor` and what each of its steps does to it |
| `RwLockProofs`, `MsgQueueProofs`, `PipeProofs` | | theorems about the three objects built on `Monitor` |
| `IpcTables` | `msgq_create`, `pipe_create`, `shared_mem.c`, `ipc_init.c` | the lists of objects, what each creation step took, areas of the tasks; `shm_create` and `shm_attach` in two steps, as their locks have it |
| `Mlfq` | `scheduler_mlfq.c`, `scheduler.c`, `task.c` | run queues on their pointers, tick, boost, policy switch, yield, sleep, suspend, resume; an enqueue and a demotion pointer write by pointer write, since the tick may come between |
| `TaskLifecycle` | `task.c:34-101` | `Mlfq` + creation and deletion of tasks in slots |
| `RtScheduler` | `scheduler_rt.c` | the list of periodic tasks, the tick with a delay, EDF and RM |
| `VirtualMemory` | `mm_pra.c`, `mm_protect.c` | frames with the four policies, page table and regions of one task |
| `Heap` | `mm_alloc.c` | memory as an array of words; `mm_alloc`, `mm_free` |
| `BlockCache` | `fs_core.c` | operators on a mounted file system: cache, device, bitmaps, inodes |
| `FileSystem` | `fs_file.c` | descriptors; open, close, read one block per step, write one allocation or block per step; a device that begins to fail |
| `KvTxn` | `transaction.c` | operation lists and the commit loop, one operation per step |
| `KvStore` | `storage.c`, `index.c` | the data file as cells, failing writes, crash and reopening; the skip list, one pointer per step |
| `RbTree` | `rbtree.c` | operators on a tree: rotations, `rb_insert_color`, `rb_erase_color` |
| `Epoll` | `epoll.c` | table of instances, calls of several threads, one step per lock |
| `WsFrame` | `frame.c` | frames as bytes: build, parse, mask |
| `WsServer` | `server.c`, `handshake.c` | accept loop, a thread per connection, client table, broadcast |
| `Mqtt` | `mqtt_protocol.c`, `mqtt_network.c` | CONNECT packet as bytes; the network context step by step |
| `LwipPort` | `sys_arch.c`, `ethernetif.c` | receive interrupt, mailbox, stack thread, applications |
| `Json` | `cjson.c`, `cjson_print.c` | printing, parsing, numbers as `sprintf` rounds them, and the allocations that exist, freed one by one |
| `TaskProofs` | | theorems about `WaitQueue` and `Mlfq` with `TaskLifecycle`: lists on their pointers |
| `KernelProofs` | | theorems about `Semaphore`, `VirtualMemory`, `RtScheduler` and `IpcTables` |
| `ServiceProofs` | | theorems about `KvTxn`, `KvStore`, `WsServer`, `Mqtt` and `LwipPort` |
| `MC*` | | instances for TLC; `MCMutex`, `MCRwLock` and `MCPipe` put their object under the `Dispatcher` and state its liveness. The constants are in the `.cfg` files. `ForeignWakeups`, `Heap`, `KvTxn` and `TaskLifecycle` need no definition of their own there and are run as they are |

Each module names a definition after the C function it translates where there is
one. Definitions described as mutated forms, or that stand just before the one they
change, are deliberate slips used to show that a property can fail; no
specification uses them.

### 2.1 Modelling decisions

* The repository does not build as it is: `next_wait`, `wake_time`,
  `scheduler_data` and `execution_time` are missing from their structures;
  `scheduler_yield`, `scheduler_rt_next`, `spinlock_*`, `pipe_close`, `fd_alloc`,
  `find_pipe_by_fd`, `kvdb_put`, `kvdb_get`, `kvdb_delete`, `cache_get_block`,
  `cache_sync`, `mm_alloc_pages`, `rb_link_node`, `rb_erase`, `print_value` and
  others are used and defined nowhere; `interrupt_disable()` is called without the
  argument that `interrupt.c` gives it. The models read the code as its authors
  evidently meant it: `interrupt_disable` and `interrupt_enable` mask the CPU,
  `scheduler_yield` is `task_schedule`, and what is missing is modelled from its
  uses and marked external.
* A stretch between `interrupt_disable()` and `interrupt_enable()`, or under one
  lock, is one step. Calls that change nothing (a failed trylock, an unlock by a
  task that is not the owner) are stuttering and have no action. Write-only
  statistics are left out.
* In the models of the primitives any ready task may run next; that covers every
  scheduling policy that only dispatches ready tasks, and the safety properties and
  proofs are about it. `TASK_RUNNING` is never assigned by the code, so a running
  task is `TASK_READY`.
* Liveness depends on who runs. `MCMutex`, `MCRwLock` and `MCPipe` therefore add
  behaviours in which `Dispatcher` decides as `scheduler_mlfq_next` does: the first
  ready task of the run queue, chosen again only when the running task yields, waits,
  suspends itself or exits. There is no preemption in them, because the tick of the
  MLFQ never calls `task_schedule`. The idle task is on no queue; when no queued task
  is ready, `current` is NULL and the processor stands still. Demotions and boosts,
  which reorder the queue, are left to `Mlfq`.
* `condition_wait` is one step up to its `task_yield()`; a body with its signal
  or broadcast is one step; the final `mutex_unlock` is a step of its own.
* Whether a timed wait ended late is a free choice (`MayBeLate`): the code only
  compares clocks after it was woken. Nothing reads `wake_time`, so a wait that
  nobody signals never ends; no action ends it.
* In `Mlfq` every `mlfq_enqueue` of a task, and the demotion that
  `scheduler_set_policy` starts in `scheduler_mlfq_update_queue`, is a sequence of
  steps (search, unlink, tail and count, new parameters, test of `head`, link, tail
  and count), because nothing masks the timer interrupt there and its handler may run
  `scheduler_mlfq_boost` between any two of them. The search itself is one step: a
  boost in the middle of it moves the tasks in their order, so that it finds what it
  would have found before or after. The interrupt handler is one step. A policy other
  than MLFQ is represented by ROUND_ROBIN, for which `scheduler_next_task` has no case.
* A data block that becomes the indirect block of a file keeps its words, as in
  `fs_file.c:190-208`. Following a word beyond the end of the file, which the file
  never wrote, is recorded in `damage`.
* A number of `Json` is a decimal of seven places, one more than `%f` prints; doubles
  are taken to be exact on these, and integers beyond `int` (`%.0f`) are left out.
* `sys_arch_sem_wait` waits without a timeout: what a caller does after
  `SYS_ARCH_TIMEOUT` is not in the repository.
* `task_create` takes the first free slot; the model takes any free slot.
* The models start after boot with their tasks in existence. As written,
  `task_init` clears the table, which makes every slot `TASK_READY` (0), and
  `task_create` looks for `TASK_TERMINATED` (4): the idle task is not created.
* Data is cut down to what decides the control: a block of the file system is a few
  words, a data file is a sequence of cells (one for a whole header), a heap word is
  a number modulo the address space. Only where a conversion is the point (frame
  headers, the remaining length, escapes) are bytes modelled.
* `malloc` and its like may fail wherever the code tests the result.
* The file system has no lock; calls are taken to be serialised by the callers.
  Calls to `epoll_create` are taken not to overlap, and `epoll_close` not to overlap
  calls on the same instance, as in `examples/http_server.c`.
* Once the code has done something after which nothing can be claimed (a failed
  write-back, a boost in the wrong place of an enqueue or a demotion, a pointer left in
  a recycled block, a detach of the wrong segment), a history
  variable (`damage`, `astray`, `torn`, `cut`, `quiet`) records it, and the properties are
  claimed up to that event. Section 3.2 lists these events.

## 3. Runs

| run | instance | checks |
|---|---|---|
| `mutex` | 4 tasks, nesting up to 3; liveness: 3 of them on a run queue | exclusion, no forgotten waiter, recursion count, FIFO hand-over, refinement of `LockService`, every waiter served |
| `rwlock` | 4 tasks; liveness: 3 of them on a run queue | writer alone, sleepers have wakers, no deadlock, somebody gets it |
| `msgq` | 3 tasks, 3 slots, 2 types, waiting and not | refinement of `MsgChannel` (a receiver gets the oldest message of the type it asks for), wake-ups lost only with a task that gives up |
| `pipe` | 1 reader, 2 writers, ring of 3, counts 1, 2, 3 and 5, 9 bytes; liveness: every order of the run queue | byte stream, reader served |
| `tasks` | 3 slots on 3 levels, boost every 4 ticks; 4 tasks on 2 wait queues | every task on its run queue, lists well formed; wait queues implement `FifoQueues` |
| `kernel` | semaphore: 5 tasks, 1 permit, 4 posts; memory: 3 frames, 5 pages, a region of 2 pages, 2-bit counters; real time: 2 tasks, periods 2 and 3, ticks up to 3 late, counter modulo 10; IPC: 2 tasks, 2 keys, 3 descriptors, 5 virtual pages; files: 8 blocks in 2 groups, 2 inodes in one block, cache of 2, 7 calls, one block that may fail | permits conserved, no sleep next to a permit, FIFO wake-up; pages not shared, protection agrees, victims justified; releases paced; IPC books agree; files intact, reads right, bitmaps agree, closed files on the device |
| `services` | transactions: 2, 2 keys, 2 operations each; store: 3 keys, 2 levels, a failing write, a crash; epoll: 6 descriptors, 2 threads; WebSocket: 3 connections, a table of 2, frames with short and extended length; MQTT: 48 configurations, 2 addresses; lwIP: 2 pbufs, 2 applications, 4 frames; JSON: strings of up to 3 of 8 characters, arrays of up to 3, numbers that `%d` prints, that `%f` keeps and rounds, and that `%e` prints, mallocs that fail | own writes read, what a failed commit leaves; acknowledged blocks readable, searches see the list; tree balanced, registrations found; messages in order, client table live; CONNECT decodes, network released; mail conserved; JSON survives |
| `foreign_wakeups` | 2 tasks | *violated*: `MutualExclusion` |
| `msgq_late` | 3 tasks | *violated*: `NoStrandedReceiver` |
| `kv_txn_order` | 1 transaction | *violated*: `CommitInOrder` |
| `task_reuse` | 3 slots | *violated*: `NoTaskTwice` |
| `heap_split` | 3 pages of 16 words, 2 sizes | *violated*: `StaysInHeap` |

The runs `tasks`, `kernel` and `services` put components side by side that share no
state. A behaviour chooses one of them at the start (`part`) and the others stay in
their initial state, so the run explores the union of the components' state spaces,
not their product: nothing is lost, as no step of one could influence another.

**Why the bounds are enough to be interesting.** Four tasks on a mutex give an
owner, two in the queue and a newcomer; on a read/write lock two readers and two
writers. The message ring has 3 slots so that a typed receive takes a message out
of the middle across the wrap-around. The pipe ring of 3 with counts up to 5
gives transfers that wrap, end exactly at the end of the buffer and need two
rounds. Three slots on three levels let a task be unlinked from the head, the
middle and the end of a queue. Three frames and five pages allow two replacements,
so that the second meets frames with and without the accessed bit. A cache of two
blocks is smaller than what one call touches (inode, bitmap, superblock, data), so
blocks are thrown out in the middle of calls; with one direct pointer and two words
per block a file of three words needs the indirect block. Six descriptors reach both
mirror images of the red-sibling, near-red and far-red cases of the removal. The
WebSocket scripts have a frame of 126 bytes (the first with an extended length) and
several frames in one `recv`. `MaxDepth`, `MaxPosts`, `MaxBytes`, `MaxOps`,
`MaxLen`, `MaxCalls`, `MaxTime`, `MaxPuts`, `MaxFrames` and their like cap what
would grow without bound.

**Constraints.** `Intact` (`tasks`, `kernel`) looks no further than the first
damage. `FaultsUnderFifo` (`kernel`) explores page faults and `mm_protect`, which
do not depend on the policy, under one policy, next to at most two pages of the
kernel's own, and the other policies with direct allocations alone. `NoFrameCut` (`services`) follows WebSocket connections until a
`recv` ends inside a frame. `OneForE2` gives the second event to one descriptor.
The view `ByPolicy` leaves out the fields of a frame that the policy at hand never
reads, and the record of partial `mm_protect` calls where no page is mapped; what the
properties look at is kept.

`CHECK_DEADLOCK FALSE` is used where the system may rightly stop: nobody is
obliged to post, send, write or commit, a task that locks a plain mutex it
owns waits for ever, and the bounds end the behaviours of the sum runs. The
read/write lock is checked for deadlock; where the dispatcher finds no ready task its
model has a step that changes nothing (`Halted`), and `SomeoneGetsIt` says that this
leaves no task inside the lock's calls unserved.

### 3.1 What the violated properties show

* `foreign_wakeups`: `mutex_lock` returns from `task_yield()` without looking at
  `owner` again. A waiter made ready by `task_suspend`/`task_resume` or by
  `scheduler_update_deadlines` returns as if it had the mutex.
* `msgq_late`: a receiver that was signalled but comes late returns -1 and passes
  the signal on to nobody. Another receiver sleeps on a queue that is not empty.
  `WakeupsReachWaiters` (run `msgq`) shows that giving up, late or for want of a
  message of the right type, is the only way in which this happens.
* `kv_txn_order`: operations are added at the head of a list and committed from
  its head, so of two writes to one key the older one wins.
* `task_reuse`: `task_delete` leaves the task linked; the slot is cleared and
  linked a second time, and the queue becomes a cycle.
* `heap_split`: `split_block` writes the footer of the shortened block over the
  header it has just written for the new block, whose size becomes an address; a
  later call writes outside the heap.

### 3.2 Observations

Known limits of what is claimed, each recorded by a history variable or an
assumption of the model, and other things seen while modelling:

* run queues: nothing masks the timer interrupt in `scheduler_set_policy`,
  `scheduler_mlfq_update_queue` and `mlfq_enqueue`. A boost between the end of the
  search and the update of tail and count (`scheduler_mlfq.c:123-132`), or between the
  test of `head` and the count (37-44), loses or doubles tasks; a boost between the
  unlinking and the enqueue does no harm. A task on queue 0 that
  used up its slice is never demoted, because only `scheduler_set_policy` calls
  `scheduler_mlfq_update_queue`; nothing ends `task_sleep`; when no queued task is
  ready `task_schedule` passes NULL to `context_switch`.
* pipes: with two readers one may sleep while there are bytes (each round signals
  one sleeper, and a partial read signals only the writers).
* real time: `execution_time` is never reset, so a task is charged only until it has
  used its execution time once; when `next_release` wraps around the counter, `>=`
  releases a task at every tick for a while.
* virtual memory: `mm.h:80` calls the policy `PRA_LRU` least recently used and
  `mm_pra.c:70` likewise, but `lru_select` takes the page with the least count of
  accesses, so a page that was just loaded goes before one that was used often long
  ago; no property is claimed of it. Under NFU, too, a page just loaded goes first.
  Replacing a frame never unmaps the virtual page that uses it nor
  gives its page back, so the pool empties although frames are replaced.
  `mm_protect` on part of a region changes the flags of all of it.
* heap: even with the footer repaired, `coalesce` treats neighbours in the list as
  neighbours in memory.
* file system: the indirect block of a file is not cleared when it is allocated. With
  one direct pointer, write 3 blocks, close, unlink, open, write 3 blocks: the block
  that becomes the indirect block still has the words of its former life, and
  `fs_write` takes one that is not 0 for a data block it owns (`fs_file.c:200-208`).
  Two files may then share a block, or a file use one that is marked free, without any
  fault of the device. `FilesIntact`, `ReadsFile`, `BitmapAgrees` and
  `ClosedFilesOnDevice` are claimed until such a word is followed. A failed write-back
  is ignored; a file larger than one indirect
  block is not handled; the cache is keyed by block number only, so that a second
  mount would share it (one mount is modelled).
* IPC tables: `pipe_create` keeps the first descriptor when the second cannot be
  had; `shm_detach` takes the first segment of the list, whichever was attached.
* key-value store: after a failed write `file->size` and the end of the file differ
  until the file is opened again. A search that overlaps an insertion may miss a key
  that was there all the time.
* epoll: two overlapping `epoll_create` calls choose the same slot; nothing ever
  puts an item on the ready list.
* WebSocket: `client_thread` keeps no bytes between two `recv` calls, so a frame cut
  in two is lost.
* JSON: `%f` and `%e` drop digits (0.1234567 comes back as 0.123457), so a number is
  parsed back to what was printed, not to what it was.
* MQTT: a context whose host was not resolved has socket 0, which
  `network_destroy` closes.
* Bluetooth: the WiFi characteristic has `PERM_WRITE_ENCRYPTED` only, and
  `handle_write_request` tests the plain write permission.

### 3.3 Fairness

No fairness of dispatching is assumed, because nothing in the repository gives it:
`scheduler_mlfq_next` (`scheduler_mlfq.c:161-175`) returns the first ready task of its
queue for as long as that task is ready. The liveness properties are claimed of
behaviours that `Dispatcher` schedules in this way, and they hold although the first
task of the queue is always preferred: a mutex is handed over, so the preferred task
comes to wait for it as well; a preferred reader or writer comes to wait for the
others.

* The processor runs: a running task that is inside a call makes its next step (`WF`
  of `ReturnFromYield` and `Continue` of the task that is `current`).
* The programs go on: a running task outside a call does not stay there for ever, but
  makes its next call or exits; a task that holds a lock does not stop, and leaves
  every level of it in the end. This is `SF`, for each task and each nesting level,
  because a task may yield, or lock and unlock a recursive mutex, any number of times
  in between. Nobody who holds nothing is obliged to start an operation: it may exit.
* Without the second condition nothing can be claimed: a preferred task that computes
  for ever keeps the processor, as the tick of the MLFQ does not switch tasks.
* `MaxBytes` ends the calls on the pipe; a task whose call it forbids exits.

## 4. Proofs

`MutexProofs` proves about `Mutex`, for every set of tasks and every nesting
bound: type correctness, `MutualExclusion`, `NoForgottenWaiter`,
`RecursionBalanced`, `NoOvertaking`, and that `Mutex` implements `LockService`.
The assumptions are that NULL is no task and the nesting bound is positive.

None of the invariants is inductive alone: that only one task is inside depends
on who is queued, and what an unlock does depends on the queue being the set of
blocked tasks. The inductive invariant `IInv` has, besides the types,
`QueueInv` (queued tasks are exactly the blocked ones, each once, in
`task_yield()`), `OwnerInv` (the mutex is locked when it has an owner, and a queue
needs an owner), `BeliefInv` (a task that believes it is inside, or that was handed
the mutex and has yet to return, is the owner) and `CountInv` (the recursion count
of the owner). Each group of calls has a lemma (taking the free mutex, queueing,
releasing with and without a waiter, recounting, returning), and `NextKeepsIInv`
assigns every action to one of them. The refinement is a step-by-step argument
over the same groups.

**The semaphore** (`KernelProofs`), for every finite set of tasks and every
initial count: types, `SleepersAreQueued`, `NoSleepOnPermit`, `PermitsConserved`
and `FifoWakeup`. The four invariants together are inductive: conservation needs to
know that the task a post wakes was blocked, and hence not yet among the woken
ones; that needs queue and states to agree.

**The objects built on a mutex and two conditions.** `MonitorFacts` states once what
`mutex.c` and `condition.c` guarantee to them. `MonitorInv` says that the queue of the
mutex holds exactly the tasks blocked in `mutex_lock`, each once; that a task is on
one condition exactly if it is blocked in `condition_wait`, and on no other; and that
the owner of the mutex is the one task inside. One lemma for each step of `Monitor`
(entering, the return of `mutex_lock`, waiting, retaking the mutex, signal, broadcast, release)
says that it keeps `MonitorInv` and what it does to queues and places. The
conclusion `OneInside`, at most one task between `mutex_lock` and `mutex_unlock`, is
the theorem `BodiesExclusive` of all three objects; it justifies that a body is one
step of the models.

* `RwLockProofs`, for every finite set of tasks: types, `WriterAlone` and
  `SleepersHaveWaker`. The fields of the lock are tied to the tasks
  (`HoldersInv`: `readers_count` is the number of tasks that hold it for reading,
  `writer_owner` is the one that holds it for writing), and what a task holds to the
  call it is in (`CallInv`, needed because an unlock body trusts its caller).
  `SleepersHaveWaker` is inductive next to these.
* `MsgQueueProofs`, for every capacity, set of messages and finite set of tasks:
  types, `WakeupsReachWaiters`, and that `MsgQueue` implements `MsgChannel`. The
  refinement rests on `RingInv` (`tail` is `msg_count` slots behind `head`, every slot
  between holds a message) and on lemmas about the ring: a send appends, and a
  receive from the middle, which moves the slots behind it, removes exactly the one
  message. `WakeupsReachWaiters` is not inductive: it only says that *somebody*
  woken is under way, and the next signal may find the queue longer. `WakeInv`
  counts: while somebody sleeps on a condition there are at least as many woken
  receivers as messages, and as many woken senders as free slots.
* `PipeProofs`, for every size, every set of readers and writers and all counts:
  `ByteStream`. `StreamInv` says which byte every cell between `read_pos` and
  `write_pos` holds; the lemmas on the two-part `memcpy` (`CopyInFacts`,
  `CopyOutFacts`) show that a copy across the end of the buffer keeps it.

**Lists on their pointers** (`TaskProofs`). `TaskLinks!Walk` is the sequence of tasks
that a loop along the link field meets; it is a recursive function on the number of
rounds. Induction is done by the least counterexample (`Least`, from the
well-foundedness of the numbers), which needs no operator parameter. The lemmas on
lists say that a walk meets exactly a list that is properly linked, and what linking
at the end, unlinking the first and unlinking from the middle do to it and to the
other lists that share the field.

* *Wait queues*, for every finite set of tasks and every set of queues: the lists of
  `mutex.c` implement FIFO queues (`ImplementsFifoQueues`). `WaitInv` says that the list
  of every queue is properly linked, has no task twice and holds just the tasks that
  wait on this queue. All lists share one `next_wait` per task, and that no task is on
  two of them is what keeps one list whole while another one changes.
* *Run queues*, for every finite set of tasks, number of levels and quanta:
  `TasksOnTheirQueue` and `QueuesWellFormed`, through creation, deletion, tick, boost,
  demotion and policy switches. `MlfqInv` says that there is a proper list behind the
  pointers of every level, and that a task is on the list its parameters name and on
  no other. It cannot speak of the queues as they are, because a tick may come between
  any two steps of a demotion or an enqueue; so it speaks of the queues as the unlinking
  or linking under way will leave them (`Settled`), with the task that is on its way
  between two lists on none. That a boost there does no harm is part of what is
  proved. The boost empties
  the lower levels one by one in a loop; that it ends with the lower levels empty and
  their tasks on level 0 is again an argument by the least counterexample.
  Both properties are claimed until a boost falls into one of the four windows of
  `Exposed` (found, cut, linking, linked) or a slot is reused while linked (`damage`),
  as their definitions say; the run `task_reuse` shows the latter.

**`KernelProofs`** has, besides the semaphore, three parts.

* *Virtual memory*, for any number of frames, pages and (disjoint) regions and all
  four policies: `PagesNotShared` and `ProtectionAgrees`. The invariant `VmInv` adds
  `FramesGivenOut`: a frame descriptor never names a page of the pool. Without it an
  allocation could name two descriptors by one page, and a later free would put a
  page back that another descriptor still names. `SelectKeepsAddresses` shows that no
  policy touches an address, so one lemma on `pra_alloc_page` serves all. From the
  same invariant follows the action property `MappedPagesStay`: while `mm_protect` is
  called for whole regions, no fault replaces the page of a mapped virtual page.
* *Real-time scheduler*, for any set of tasks, periods, execution times of at least
  one tick, delays and counter width: `RtPaced`. `ReleaseInv` gives the exact release
  time, `start + (releases + 1) * period`, while it has not wrapped; `BudgetInv` says
  that a task that is not blocked has run strictly less than its execution time since
  its release, which holds because `execution_time` is never reset and so is at least
  what was run. `BudgetsKept` shows that the second half of `RtPaced` does not need
  the bound on the counter.
* *IPC tables*, for any tasks, keys, segment sizes and limits: `IpcAccounted`. `IpcInv`
  adds to it that the key which a task is about to create is not listed yet (the other
  half of `shm_create` is a step of its own), and that keys found for an attach and
  keys of areas are those of listed segments, which holds because nothing takes a
  segment off its list. The pages of all segments are a sum over the list; the invariant
  states it with a table of partial sums that grows by one entry with every creation.

**`ServiceProofs`** has six parts.

* *Transactions*, for any transactions, keys, values and number of operations:
  `ReadsOwnWrites` and `FailedCommitIsPartial`. `KvInv` says that the list of an open
  transaction is its program reversed, and that a commit in progress has a suffix of
  that list to go while the database, if nobody else commits, is the base with the
  rest replayed. `CommitsRunBackwards` states what `kvdb_txn_commit` does where
  `CommitInOrder` is violated: it replays the program backwards, which agrees with the
  program when no key occurs twice.
* *Data file*, for any keys, values, failed writes and crashes: `AckedReadable`.
  `StoreInv` says that `size` is the end of the file unless a write failed since it was
  opened, and that every acknowledged block is, cell by cell, within the synced part of
  the file, which no crash takes away and no later write touches.
* *Index*, for any keys and heights: `FindSeesList`. `PointersInv` says that on every
  level the pointers lead rightward to keys of the lowest level, which has all of them
  in order; `InsertInv` that the predecessors an insertion collected still belong
  before the new node on the levels it has not linked; `FindInv` that a search, which
  takes no lock, is at a node of the list to the left of its key.
* *WebSocket server*, for any connections and size of the table: `ClientsAreLive`.
  `SwapRemoves` shows that moving the last client into the gap removes exactly one.
* *MQTT network*, for any number of addresses: `NetworkReleased`. `MqttInv` gives, for
  every point at which `network_connect` may fail, the socket, the open descriptors and
  the TLS objects.
* *lwIP port*, for any pbufs, applications and sizes of ring and mailbox: `MailConserved`.
  `LwipInv` says where every pbuf and every request is (exactly one place), and that the
  numbers of frames grow along ring, mailbox, hand of the stack and delivery. The
  property counts with `Underway`, a cardinality, and the proof goes from places to
  counts at the end only.

**Assumptions.** Those named in the modules, which TLC evaluates in the runs: NULL,
`None` and `NoTask` are no task, page or record; the conditions of an object are the
two its structure has; sizes, capacities and counter widths are positive; sets of
tasks are finite where tasks are counted; regions do not overlap; readers and writers
of a pipe are different tasks, and every call moves at least one byte; there is at
least one level in the run queue and in the skip list; keys of the database are
positive numbers and values sequences of bytes; pbufs and applications are
different things; and a segment's reference count is wide enough for the areas
that the address space has room for. None
restricts the instance to be small. The inductive invariants were model-checked on
small instances before they were proved (the largest, that of the message queue, on
2 million states).

**Only model-checked:**

* all liveness (`WaiterIsServed`, `SomeoneGetsIt`, `ReaderServed`): outside the
  prover's reach;
* `VictimJustified` (FIFO, clock and NFU): the FIFO part needs what `SelectSeq` keeps of a list, the NFU
  part powers of two, both inductions over data;
* the bounds on the bytes under way in `Pipe` (`TypeOK`), a sum over the tasks;
* `FilesIntact`, `ReadsFile`, `BitmapAgrees` and `ClosedFilesOnDevice` of `FileSystem`: a
  write works through indirect blocks, bitmaps and cache by folds over lists of blocks,
  and the invariant has to say of every file what each of these folds computes, an
  induction over data at every step;
* `TreeBalanced` and `RegistrationsFound` of `Epoll`, and `JsonSurvives` of `Json`: their
  trees and texts are walked by recursive operators, which the prover does not support;
* `MessagesInOrder` of `WsServer` and `ConnectDecodes` of `Mqtt`: what parsing returns of a
  text that was built byte by byte (masks, lengths in base 128) is an induction over
  the text.

## 5. Not modelled, and why

* **Fair scheduler**: no code calls `init_sched_entity`, so no task has the entity
  all its functions work on, and `dequeue_task_fair` removes nothing.
* **`malloc.c`**: a second allocator behind the C library's names; its `free`
  computes the header from a different offset than `malloc` returns, and the heap
  already shows the questions on `mm_alloc.c`.
* **Bluetooth, TLS, HTTP (`mcurl.c`, `http.c`, `ssl_server.c`, `secure_comm.c`)**:
  sequences of calls into libraries outside the repository, with next to no state of
  their own.
* **Device drivers, start-up code, MMU tables, interrupt controller, timer**:
  register writes.
* **Audio and speech**: floating-point signal processing.
* **FAT (`ff.c`, `diskio.c`), stdio, strings**: third-party style layers and text
  formatting.
* **Examples and test programs**, also those at the end of `fs_file.c`,
  `mm_protect.c`, `ipc_init.c` and `ethernetif.c`.
* Of modelled components: `task_set_priority`, the schedulability test
  (floating point), SHA-1 and base64 of the handshake, mutexes and threads of
  `sys_arch.c` (passed through), a second mount of the file system.

## 6. Plan

Done: synchronisation, IPC and its tables, run queues and tasks, real-time
scheduling, memory, files, the key-value store, epoll, the protocols; proofs for
the mutex, the semaphore, the read/write lock, the message queue, the pipe, wait and
run queues, virtual memory, real-time scheduling, the IPC tables, the key-value
store, the client table, the MQTT network and the lwIP port. What could follow:

1. **Block cache**: that looking a block up through the cache does not depend on what
   was thrown out, the core of `FilesIntact`.
2. **Virtual memory**: the clock part of `VictimJustified`.
3. **Epoll**: the red-black tree with recursive functions in place of recursive
   operators, and its shape as an invariant on pointers, along the lines of `TaskLinks`.
