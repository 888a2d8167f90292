----------------------------- MODULE BlockCache -----------------------------
(***************************************************************************)
(* fs_core.c: the block cache, the block bitmaps and the inode table, as   *)
(* operators on the state m of one mounted file system:                    *)
(*   m.dev    content of the blocks on the device                          *)
(*   m.cache  the ring of cache_block_t; its first element is cache_head,  *)
(*            its last one cache_head->prev                                *)
(*   m.free   sb->free_blocks in memory                                    *)
(*   m.bad    blocks on which the device fails at present                  *)
(*   m.damage history: what was lost or made up on the way                 *)
(* Block 0 holds the superblock, a bitmap block the set of its bits that   *)
(* are one, a block of the inode table a function from offsets to inodes,  *)
(* any other block W words of four bytes.                                  *)
(*                                                                         *)
(* cache_get_block and cache_sync are declared in fs.h and defined nowhere *)
(* in the repository: lookup by number, and write-back of what is dirty.   *)
(***************************************************************************)
EXTENDS Naturals, SequencesExt, FiniteSetsExt

CONSTANTS
    block_group_nr, blocks_per_group, first_data_block,
    first_inode, inodes_per_group,
    InodesPerBlock,   \* BLOCK_SIZE / inode_size
    W,                \* BLOCK_SIZE / 4
    NDirect,          \* direct block pointers of an inode
    MAX_CACHE_BLOCKS

ASSUME FsAssumption ==
    /\ {block_group_nr, blocks_per_group, inodes_per_group, InodesPerBlock,
        W, NDirect, MAX_CACHE_BLOCKS} \subseteq Nat \ {0}
    /\ {first_data_block, first_inode} \subseteq Nat

Blocks == 0..(block_group_nr * blocks_per_group - 1)
BitmapBlock(g) == first_data_block + 1 + g
Zeros == [w \in 0..(W - 1) |-> 0]
EmptyInode == [size |-> 0, direct |-> [i \in 0..(NDirect - 1) |-> 0], indirect |-> 0]

\* Position of a block in the cache (cache_get_block), 0 if it is not there.
cache_get_block(m, b) == SelectInSeq(m.cache, LAMBDA e : e.no = b)

\* A number beyond the device, or a block on which it fails, cannot be read.
Readable(m, b) == cache_get_block(m, b) # 0 \/ b \in Blocks \ m.bad

\* What a successful read of block b gives.
Content(m, b) ==
    LET i == cache_get_block(m, b)
    IN CASE i # 0 -> m.cache[i].data
         [] i = 0 /\ b \in Blocks -> m.dev[b]
         [] OTHER -> Zeros

-----------------------------------------------------------------------------
(* Mutated forms of the definitions below. *)

\* A block that is thrown out is not written back.
WriteBackNothing(m, out) == m

\* The rest of the inode block is cleared.
PutInodeAlone(m, n, inode) ==
    [i \in 0..(InodesPerBlock - 1) |-> IF i = ((n - 1) % inodes_per_group) % InodesPerBlock
                                       THEN inode ELSE EmptyInode]

-----------------------------------------------------------------------------
(* Write-back of cache entries: the result of device_write is ignored, so  *)
(* that on a failing block the data is gone.                               *)
WriteBack(m, out) ==
    LET dirty == {i \in DOMAIN out : out[i].dirty}
        done  == {i \in dirty : out[i].no \notin m.bad}
    IN [m EXCEPT
          !.dev = [b \in DOMAIN @ |->
                     IF \E i \in done : out[i].no = b
                     THEN out[CHOOSE i \in done : out[i].no = b].data ELSE @[b]],
          !.damage = IF done = dirty THEN @ ELSE @ \cup {"write failed"}]

\* The loop at the end of read_block throws out cache_head->prev, the newest
\* entry, until the cache has its size again.
Shrink(m) ==
    IF Len(m.cache) <= MAX_CACHE_BLOCKS THEN m
    ELSE LET keep == SubSeq(m.cache, 1, MAX_CACHE_BLOCKS)
             out  == SubSeq(m.cache, MAX_CACHE_BLOCKS + 1, Len(m.cache))
         IN [WriteBack(m, out) EXCEPT !.cache = keep]

\* read_block: the data is Content(m, b); here is what it does to the cache.
read_block(m, b) ==
    IF cache_get_block(m, b) # 0 \/ ~Readable(m, b) THEN m
    ELSE Shrink([m EXCEPT !.cache =
                   Append(@, [no |-> b, data |-> m.dev[b], dirty |-> FALSE])])

\* The callers that do not look at the result of read_block go on with a
\* buffer that was never filled.
read_block_unchecked(m, b) ==
    IF Readable(m, b) THEN read_block(m, b)
    ELSE [m EXCEPT !.damage = @ \cup {"read failed"}]

\* write_block never throws anything out.
write_block(m, b, data) ==
    LET i == cache_get_block(m, b)
        e == [no |-> b, data |-> data, dirty |-> TRUE]
    IN [m EXCEPT !.cache = IF i = 0 THEN Append(@, e) ELSE [@ EXCEPT ![i] = e]]

\* cache_sync, called by fs_close.
cache_sync(m) ==
    [WriteBack(m, m.cache) EXCEPT
       !.cache = [i \in DOMAIN @ |-> [@[i] EXCEPT !.dirty = FALSE]]]

-----------------------------------------------------------------------------
(* Bitmaps: bits g * blocks_per_group .. of group g. *)
Bits == 0..(blocks_per_group - 1)

\* A mutated form: the count is kept and the bitmap is not written.
CountOnly(m, g, bits, n) == [write_block(m, 0, n) EXCEPT !.free = n]

\* The new bitmap of group g, then sb->free_blocks and the superblock.
MarkBits(m, g, bits, n) ==
    [write_block(write_block(m, BitmapBlock(g), bits), 0, n) EXCEPT !.free = n]

\* The groups are read one after the other until one has a bit that is zero.
\* Block 0 stands for "none".
alloc_block(m) ==
    LET open == {g \in 0..(block_group_nr - 1) : Bits \ Content(m, BitmapBlock(g)) # {}}
        last == IF open = {} THEN block_group_nr - 1 ELSE Min(open)
        m1   == FoldLeft(LAMBDA s, g : read_block_unchecked(s, BitmapBlock(g - 1)), m,
                         [i \in 1..(last + 1) |-> i])
        used == Content(m, BitmapBlock(last))
        bit  == Min(Bits \ used)
    IN CASE m.free = 0 -> [m |-> m, block |-> 0]
         [] m.free # 0 /\ open = {} -> [m |-> m1, block |-> 0]
         [] OTHER -> [m |-> MarkBits(m1, last, used \cup {bit}, m.free - 1),
                      block |-> last * blocks_per_group + bit]

free_block(m, b) ==
    LET g    == b \div blocks_per_group
        m1   == read_block_unchecked(m, BitmapBlock(g))
        used == Content(m, BitmapBlock(g))
    IN MarkBits(m1, g, used \ {b % blocks_per_group}, m.free + 1)

-----------------------------------------------------------------------------
(* The inode table. *)
InodeBlock(n) ==
    first_inode + ((n - 1) \div inodes_per_group) * inodes_per_group
                + ((n - 1) % inodes_per_group) \div InodesPerBlock
InodeOffset(n) == ((n - 1) % inodes_per_group) % InodesPerBlock

read_inode(m, n) == read_block(m, InodeBlock(n))
Inode(m, n) == Content(m, InodeBlock(n))[InodeOffset(n)]

PutInode(m, n, inode) == [Content(m, InodeBlock(n)) EXCEPT ![InodeOffset(n)] = inode]

write_inode(m, n, inode) ==
    IF ~Readable(m, InodeBlock(n)) THEN [m EXCEPT !.damage = @ \cup {"inode not written"}]
    ELSE write_block(read_block(m, InodeBlock(n)), InodeBlock(n), PutInode(m, n, inode))
=============================================================================
