----------------------------- MODULE FileSystem -----------------------------
(***************************************************************************)
(* fs_file.c on top of the block cache: fs_open, fs_close, fs_read and     *)
(* fs_write.  Reading and writing go block by block, with a copy of the    *)
(* inode that is taken at the start and, by fs_write, stored at the end.   *)
(* The code has no lock; calls of different tasks are taken to be          *)
(* serialised by the caller, so that there is one call at a time.          *)
(*                                                                         *)
(* create_file, lookup_path and fs_unlink are used by the code and defined *)
(* nowhere: an inode without blocks is written; names are the inode        *)
(* numbers; all blocks up to the size of the file are given to free_block. *)
(*                                                                         *)
(* fs_write has a defect that needs no fault of the device: it does not    *)
(* clear a block that it takes for its pointers, so a block that a deleted *)
(* file left behind brings its old words along, and one that is not zero   *)
(* is used as a block number.  Writing three words, closing, unlinking and *)
(* writing three words to a new file does it (here: W = 2, NDirect = 1).   *)
(* The model does so too; it notes "stale pointer" in m.damage when such a *)
(* word is followed, and nothing is claimed after that.                    *)
(***************************************************************************)
EXTENDS BlockCache

CONSTANTS
    Fds,        \* 0..(MAX_OPEN_FILES - 1)
    Inodes,     \* inode numbers
    Lengths,    \* sizes of reads and writes, in words
    Faulty,     \* blocks on which the device may begin to fail
    MaxCalls    \* bound on the calls of the programs and the faults together

VARIABLES
    m,           \* the mounted file system, see BlockCache
    file_descs,  \* inode, pos and count
    exists,      \* the files that have a name
    call,        \* the read or write in progress
    file,        \* history: the words each file should hold
    stable,      \* history: the files not written since the last cache_sync
    calls        \* how many calls and faults there were

fsvars == <<m, file_descs, exists, call, file, stable, calls>>

\* A disk as mkfs leaves it: data blocks are zero, the blocks up to the inode
\* table are in use.
InodeBlocks == {InodeBlock(n) : n \in Inodes}
InUse == 0..Max(InodeBlocks \cup {BitmapBlock(block_group_nr - 1)})
BitsOf(used, g) == {b % blocks_per_group : b \in {x \in used : x \div blocks_per_group = g}}
Formatted ==
    [b \in Blocks |->
       CASE b = 0 -> Cardinality(Blocks \ InUse)
         [] \E g \in 0..(block_group_nr - 1) : b = BitmapBlock(g)
              -> BitsOf(InUse, b - BitmapBlock(0))
         [] b \in InodeBlocks -> [i \in 0..(InodesPerBlock - 1) |-> EmptyInode]
         [] OTHER -> Zeros]

Idle == [op |-> "none"]

\* A program makes a call.
Calls == call = Idle /\ calls < MaxCalls /\ calls' = calls + 1

FsInit ==
    /\ m = [dev |-> Formatted, cache |-> <<>>, free |-> Cardinality(Blocks \ InUse),
            bad |-> {}, damage |-> {}]
    /\ file_descs = [fd \in Fds |-> [inode |-> 0, pos |-> 0, count |-> 0]]
    /\ exists = {} /\ call = Idle /\ calls = 0
    /\ file = [n \in Inodes |-> <<>>]
    /\ stable = Inodes

-----------------------------------------------------------------------------
(* Mutated forms of the definitions below. *)

\* The first indirect block is not looked at.
PointerDirectOnly(s, inode, n) ==
    IF n < NDirect THEN inode.direct[n] ELSE Content(s, inode.indirect)[0]

-----------------------------------------------------------------------------
(* Opening and closing. *)
FreeFds == {fd \in Fds : file_descs[fd].count = 0}   \* find_free_fd

\* A file that does not exist is created before a descriptor is looked for.
fs_open(n) ==
    /\ Calls
    /\ m' = IF n \in exists THEN m ELSE write_inode(m, n, EmptyInode)
    /\ exists' = exists \cup {n}
    /\ file' = IF n \in exists THEN file ELSE [file EXCEPT ![n] = <<>>]
    /\ stable' = IF n \in exists THEN stable ELSE stable \ {n}
    /\ file_descs' =
         IF FreeFds = {} THEN file_descs
         ELSE [file_descs EXCEPT ![Min(FreeFds)] = [inode |-> n, pos |-> 0, count |-> 1]]
    /\ UNCHANGED call

fs_close(fd) ==
    /\ Calls /\ file_descs[fd].count > 0
    /\ file_descs' = [file_descs EXCEPT ![fd].count = @ - 1]
    /\ m' = IF file_descs[fd].count = 1 THEN cache_sync(m) ELSE m
    /\ stable' = IF file_descs[fd].count = 1 THEN Inodes ELSE stable
    /\ UNCHANGED <<exists, call, file>>

-----------------------------------------------------------------------------
(* Reading and writing, one block at a time. *)

\* Words that are copied in one round, at position pos with left words to go.
InBlock(pos, left) == Min({W - (pos % W), left})

\* The block that holds block n of a file, from the pointers in the inode.
Pointer(s, inode, n) ==
    IF n < NDirect THEN inode.direct[n] ELSE Content(s, inode.indirect)[n - NDirect]

\* fs_read up to its loop: the inode is read, the count cut at the end of the file.
fs_read(fd, count) ==
    LET desc == file_descs[fd]
        size == Inode(m, desc.inode).size
    IN /\ Calls /\ desc.count > 0 /\ desc.inode \in exists
       /\ Readable(m, InodeBlock(desc.inode)) /\ desc.pos < size
       /\ m' = read_inode(m, desc.inode)
       /\ call' = [op |-> "read", fd |-> fd, inode |-> Inode(m, desc.inode),
                   left |-> Min({count, size - desc.pos}), start |-> desc.pos, buf |-> <<>>]
       /\ UNCHANGED <<file_descs, exists, file, stable>>

ReadRound ==
    LET pos   == file_descs[call.fd].pos
        n     == pos \div W
        chunk == InBlock(pos, call.left)
        m1    == IF n < NDirect THEN m ELSE read_block_unchecked(m, call.inode.indirect)
        block == Pointer(m, call.inode, n)
    IN /\ call.op = "read" /\ call.left > 0
       /\ m' = read_block_unchecked(m1, block)
       /\ call' = [call EXCEPT !.left = @ - chunk,
                               !.buf = @ \o [i \in 1..chunk |->
                                               Content(m1, block)[(pos % W) + i - 1]]]
       /\ file_descs' = [file_descs EXCEPT ![call.fd].pos = @ + chunk]
       /\ UNCHANGED <<exists, file, stable, calls>>

ReadReturns ==
    /\ call.op = "read" /\ call.left = 0
    /\ call' = Idle
    /\ UNCHANGED <<m, file_descs, exists, file, stable, calls>>

\* fs_write up to its loop.
fs_write(fd, count) ==
    LET desc == file_descs[fd] IN
    /\ Calls /\ desc.count > 0 /\ desc.inode \in exists
    /\ Readable(m, InodeBlock(desc.inode))
    /\ m' = read_inode(m, desc.inode)
    /\ call' = [op |-> "write", fd |-> fd, inode |-> Inode(m, desc.inode),
                left |-> count, block |-> 0, data |-> 10 * calls']
    /\ stable' = stable \ {desc.inode}
    /\ UNCHANGED <<file_descs, exists, file>>

\* A round of the loop of fs_write begins or goes on; call.block is the block it
\* writes to, 0 until it is known.  Beyond the first indirect block: see the README.
BlockNo == file_descs[call.fd].pos \div W
InRound == call.op = "write" /\ call.left > 0 /\ BlockNo < NDirect + W
HasPointers == BlockNo < NDirect \/ call.inode.indirect # 0
WriteFrame == UNCHANGED <<exists, stable, calls>>

\* The first block of pointers is allocated and used as it comes from alloc_block,
\* with what a deleted file left in it.
AllocIndirect ==
    /\ InRound /\ ~HasPointers
    /\ \E a \in {alloc_block(m)} :
          /\ m' = a.m
          /\ call' = [call EXCEPT !.inode.indirect = a.block,
                                  !.left = IF a.block = 0 THEN 0 ELSE @]
    /\ UNCHANGED <<file_descs, file>> /\ WriteFrame

\* The pointer is there: the block is used again.  A pointer beyond the end of the
\* file is none that fs_write has set.
Stale ==
    /\ BlockNo >= NDirect /\ BlockNo * W >= call.inode.size
    /\ Content(m, call.inode.indirect)[BlockNo - NDirect] # 0

FollowPointer ==
    /\ InRound /\ call.block = 0 /\ HasPointers
    /\ Pointer(m, call.inode, BlockNo) # 0
    /\ \E s \in {IF BlockNo < NDirect THEN m
                ELSE read_block_unchecked(m, call.inode.indirect)} :
          m' = IF Stale THEN [s EXCEPT !.damage = @ \cup {"stale pointer"}] ELSE s
    /\ call' = [call EXCEPT !.block = Pointer(m, call.inode, BlockNo)]
    /\ UNCHANGED <<file_descs, file>> /\ WriteFrame

\* It is not: a data block is allocated.  With no space the loop ends.
AllocDirectBlock ==
    /\ InRound /\ call.block = 0 /\ BlockNo < NDirect
    /\ Pointer(m, call.inode, BlockNo) = 0
    /\ \E a \in {alloc_block(m)} :
          /\ m' = a.m
          /\ call' = [call EXCEPT !.inode.direct[BlockNo] = a.block, !.block = a.block,
                                  !.left = IF a.block = 0 THEN 0 ELSE @]
    /\ UNCHANGED <<file_descs, file>> /\ WriteFrame

AllocThroughIndirect ==
    LET indirect == call.inode.indirect
        ptrs     == Content(m, indirect) IN
    /\ InRound /\ call.block = 0 /\ BlockNo >= NDirect /\ HasPointers
    /\ Pointer(m, call.inode, BlockNo) = 0
    /\ \E s \in {read_block_unchecked(m, indirect)} :
       \E a \in {alloc_block(s)} :
          /\ m' = IF a.block = 0 THEN a.m
                  ELSE write_block(a.m, indirect,
                                   [ptrs EXCEPT ![BlockNo - NDirect] = a.block])
          /\ call' = [call EXCEPT !.block = a.block,
                                  !.left = IF a.block = 0 THEN 0 ELSE @]
    /\ UNCHANGED <<file_descs, file>> /\ WriteFrame

\* The old content of a block is read if part of it is kept.
KeepsOld(offset, n) == offset > 0 \/ n < W

\* The rest of the round.  Each call writes words of its own.  The history records
\* the words that a reader of the file should see.
WriteBlock ==
    LET pos     == file_descs[call.fd].pos
        offset  == pos % W
        chunk   == InBlock(pos, call.left)
        keeps   == KeepsOld(offset, call.left)
        old     == IF keeps THEN Content(m, call.block) ELSE Zeros
        Word(i) == call.data + i
        new     == [i \in 0..(W - 1) |->
                      IF i \in offset..(offset + chunk - 1) THEN Word(pos + i - offset)
                      ELSE old[i]]
        f       == file[file_descs[call.fd].inode]
    IN /\ InRound /\ call.block # 0
       /\ \E s \in {IF keeps THEN read_block_unchecked(m, call.block) ELSE m} :
             m' = write_block(s, call.block, new)
       /\ call' = [call EXCEPT !.inode.size = Max({@, pos + chunk}),
                               !.left = @ - chunk, !.block = 0]
       /\ file_descs' = [file_descs EXCEPT ![call.fd].pos = @ + chunk]
       /\ file' = [file EXCEPT ![file_descs[call.fd].inode] =
                     [i \in 1..Max({Len(f), pos + chunk}) |->
                        IF i \in (pos + 1)..(pos + chunk) THEN Word(i - 1) ELSE f[i]]]
       /\ WriteFrame

\* write_inode at the end of fs_write.
WriteReturns ==
    /\ call.op = "write" /\ call.left = 0
    /\ m' = write_inode(m, file_descs[call.fd].inode, call.inode)
    /\ call' = Idle
    /\ UNCHANGED <<file_descs, exists, file, stable, calls>>

-----------------------------------------------------------------------------
(* The rest of the system. *)

\* The blocks of file n, lowest first, the indirect block last.
FileBlocks(s, n) ==
    LET inode == Inode(s, n)
    IN  [i \in 1..((inode.size + W - 1) \div W) |-> Pointer(s, inode, i - 1)]
        \o (IF inode.indirect = 0 THEN <<>> ELSE <<inode.indirect>>)

\* Deleting a closed file.
fs_unlink(n) ==
    /\ Calls /\ n \in exists
    /\ \A fd \in Fds : file_descs[fd].count > 0 => file_descs[fd].inode # n
    /\ Readable(m, InodeBlock(n))
    /\ m' = write_inode(FoldLeft(free_block, m, FileBlocks(m, n)), n, EmptyInode)
    /\ exists' = exists \ {n}
    /\ file' = [file EXCEPT ![n] = <<>>]
    /\ stable' = stable \ {n}
    /\ UNCHANGED <<file_descs, call>>

\* The device starts or stops failing on a block.
DeviceFails(b) ==
    /\ calls < MaxCalls /\ calls' = calls + 1
    /\ b \notin m.bad
    /\ m' = [m EXCEPT !.bad = @ \cup {b}]
    /\ UNCHANGED <<file_descs, exists, call, file, stable>>
DeviceRecovers(b) ==
    /\ b \in m.bad
    /\ m' = [m EXCEPT !.bad = @ \ {b}]
    /\ UNCHANGED <<file_descs, exists, call, file, stable, calls>>

FsNext ==
    \/ \E n \in Inodes : fs_open(n) \/ fs_unlink(n)
    \/ \E fd \in Fds : fs_close(fd)
    \/ \E fd \in Fds, count \in Lengths :
          fs_read(fd, count) \/ fs_write(fd, count)
    \/ ReadRound \/ ReadReturns
    \/ AllocIndirect \/ FollowPointer \/ AllocDirectBlock \/ AllocThroughIndirect
    \/ WriteBlock \/ WriteReturns
    \/ \E b \in Faulty : DeviceFails(b) \/ DeviceRecovers(b)

FsSpec == FsInit /\ [][FsNext]_fsvars

-----------------------------------------------------------------------------
(* Properties.  All of them are about what happens until data is lost, a   *)
(* block is used that was never read, or fs_write follows a word that a    *)
(* deleted file left in a new block of pointers (m.damage).  The last      *)
(* happens without any fault, and then a file may share blocks with        *)
(* another one or write to blocks that are free: none of these properties  *)
(* holds of the code without that exception.                               *)

Sound == m.damage = {}
Writing(n) == call.op = "write" /\ file_descs[call.fd].inode = n

\* What a file holds on the device, or through the cache, by its pointers.
Words(s, inode) ==
    [i \in 1..inode.size |-> Content(s, Pointer(s, inode, (i - 1) \div W))[(i - 1) % W]]

\* What was written to a file is what its inode and its blocks give, however the
\* cache threw blocks out and read them again, whether or not the file shares
\* its inode block with another one; during a write, by the copy of the inode.  As
\* long as no stale pointer was followed.
FilesIntact ==
    Sound => \A n \in exists :
        Words(m, IF Writing(n) THEN call.inode ELSE Inode(m, n)) = file[n]

\* The buffer of a read is the piece of the file from the position at which it
\* started, as long as no stale pointer was followed.
ReadsFile ==
    Sound /\ call.op = "read" =>
        call.buf = SubSeq(file[file_descs[call.fd].inode], call.start + 1,
                          call.start + Len(call.buf))

\* As long as no stale pointer was followed, every block of a file is used once, in
\* one file, and marked in its bitmap; no other block is marked; sb->free_blocks is
\* the number of the others, in memory and in the superblock.
BitmapAgrees ==
    Sound /\ call.op # "write" =>
        LET all    == FlattenSeq([n \in 1..Max(Inodes) |->
                          IF n \in exists THEN FileBlocks(m, n) ELSE <<>>])
            marked == {b \in Blocks : b % blocks_per_group
                                       \in Content(m, BitmapBlock(b \div blocks_per_group))}
        IN /\ Cardinality(ToSet(all)) = Len(all)
           /\ marked = InUse \cup ToSet(all)
           /\ m.free = Cardinality(Blocks \ marked)
           /\ Content(m, 0) = m.free

\* After a close, and until it is written again, a file is complete on the device
\* alone: a crash that loses the cache does not lose it.  As long as no write to the
\* device failed and no stale pointer was followed.
ClosedFilesOnDevice ==
    Sound => \A n \in exists \cap stable :
        LET s == [m EXCEPT !.cache = <<>>] IN Words(s, Inode(s, n)) = file[n]
=============================================================================
