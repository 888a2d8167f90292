------------------------------ MODULE KvStore -------------------------------
(***************************************************************************)
(* The two layers under the key-value database: the append-only data file  *)
(* of storage.c and the skip list of index.c.  What joins them (kvdb_put:  *)
(* a block is written at the file's size, then the key is indexed at that  *)
(* offset) is declared in kvdb.h and missing; it is the external part.     *)
(*                                                                         *)
(* A data file is a sequence of cells: a block's header is one cell, a     *)
(* byte of a key or of a value is one.  A write may stop anywhere in a     *)
(* block; the header cut short is a cell "torn".  A crash takes any part   *)
(* of the file that was not synced.                                        *)
(*                                                                         *)
(* skiplist_insert works under the list's lock, one pointer at a time;     *)
(* skiplist_find takes no lock and walks while an insertion is under way.  *)
(* Pointer stores reach the reader in program order (one processor).       *)
(***************************************************************************)
EXTENDS Integers, SequencesExt

CONSTANTS
    KeyRange,       \* the keys: positive numbers, in their order
    StoredValues,   \* the values: sequences of bytes
    MAX_LEVEL,
    None,           \* no node
    MaxPuts, MaxFailures, MaxCrashes    \* bounds

VARIABLES
    file,           \* the cells of the data file
    synced,         \* how many of them fsync has made permanent
    size,           \* file->size
    forward,        \* node -> level -> the next node; node 0 is list->header
    level,          \* list->level
    value_offset,   \* node -> the offset it was given
    insert,         \* the insertion that holds the list's lock, or None
    find,           \* the find under way, or None
    puts, failures, crashes,    \* counters for the bounds
    torn,           \* history: a write failed since the file was opened
    acked           \* history: the blocks whose write returned KVDB_OK, file not torn

store == <<file, synced, size, torn, acked>>
list  == <<forward, level, value_offset>>
kvars == <<store, list, insert, find, puts, failures, crashes>>

Nodes == KeyRange \cup {0}

ASSUME KvAssumption ==
    /\ KeyRange \subseteq Nat \ {0} /\ StoredValues \subseteq Seq(Nat)
    /\ MAX_LEVEL \in Nat \ {0}
    /\ None \notin Nodes /\ None \notin {"found", "missing"}

NewList == [n \in Nodes |-> [i \in 1..MAX_LEVEL |-> None]]

KvInit ==
    /\ file = <<>> /\ synced = 0 /\ size = 0 /\ torn = FALSE /\ acked = {}
    /\ forward = NewList /\ level = 1 /\ value_offset = [n \in Nodes |-> None]
    /\ insert = None /\ find = None
    /\ puts = 0 /\ failures = 0 /\ crashes = 0

-----------------------------------------------------------------------------
(* storage.c *)

(***************************************************************************)
(* calculate_checksum rotates by a byte and adds: 16 bits here for 32.     *)
(***************************************************************************)
calculate_checksum(data) ==
    LET sum[i \in 0..Len(data)] ==
            IF i = 0 THEN 0
            ELSE ((sum[i - 1] % 256) * 256 + sum[i - 1] \div 256 + data[i]) % 65536
    IN  sum[Len(data)]

Cells(bytes) == [i \in DOMAIN bytes |-> <<"byte", bytes[i]>>]
Bytes(cells) == [i \in DOMAIN cells |-> cells[i][2]]

\* Key size, value size and checksum; the value's checksum overwrites the key's.
Header(key, value) == <<"header", Len(key), Len(value), calculate_checksum(value)>>

Block(key, value) == <<Header(key, value)>> \o Cells(key) \o Cells(value)

\* KVDB_OK is returned without waiting for the disk.
WriteBlockUnsynced(key, value) ==
    /\ file' = file \o Block(key, value)
    /\ size' = size + Len(Block(key, value))
    /\ acked' = IF torn THEN acked
                ELSE acked \cup {[offset |-> size, key |-> key, value |-> value]}
    /\ UNCHANGED <<synced, torn>>

(***************************************************************************)
(* write_block with every write complete and synced: KVDB_OK.              *)
(***************************************************************************)
write_block(key, value) ==
    LET new == file \o Block(key, value)
    IN  /\ file' = new
        /\ size' = size + Len(Block(key, value))
        /\ synced' = Len(new)
        /\ acked' = IF torn THEN acked
                    ELSE acked \cup {[offset |-> size, key |-> key, value |-> value]}
        /\ UNCHANGED torn

\* A write came back short after n cells, or fsync failed after them all.
WriteFails(key, value, n) ==
    LET block == Block(key, value)
    IN  /\ failures < MaxFailures /\ puts < MaxPuts
        /\ failures' = failures + 1 /\ puts' = puts + 1
        /\ file' = file \o (IF n = 0 THEN << <<"torn">> >> ELSE SubSeq(block, 1, n))
        /\ size' = IF n = Len(block) THEN size + n ELSE size
        /\ torn' = (torn \/ n < Len(block))
        /\ UNCHANGED <<synced, acked, list, insert, find, crashes>>

\* What read_block takes from the file: n cells from the given place, or fewer.
pread(offset, n) == SubSeq(file, offset + 1, IF offset + n <= Len(file) THEN offset + n ELSE Len(file))

IO == [status |-> "KVDB_ERR_IO"]
CORRUPT == [status |-> "KVDB_ERR_CORRUPT"]

read_block(offset) ==
    LET header == pread(offset, 1)
        key    == pread(offset + 1, header[1][2])
        value  == pread(offset + 1 + Len(key), header[1][3])
    IN  IF header = <<>> THEN IO
        ELSE IF header[1][1] # "header" THEN CORRUPT
        ELSE IF Len(key) # header[1][2] \/ Len(value) # header[1][3] THEN IO
        ELSE IF \E i \in DOMAIN value : value[i][1] # "byte" THEN CORRUPT
        ELSE IF calculate_checksum(Bytes(value)) # header[1][4] THEN CORRUPT
        ELSE [status |-> "KVDB_OK", key |-> key, value |-> Bytes(value)]

(***************************************************************************)
(* The machine stops; the program starts again and create_data_file takes  *)
(* the size from the file it finds.  The index was in memory.              *)
(***************************************************************************)
create_data_file(kept) ==
    /\ kept \in synced..Len(file)
    /\ crashes < MaxCrashes /\ crashes' = crashes + 1
    /\ file' = SubSeq(file, 1, kept)
    /\ synced' = kept /\ size' = kept /\ torn' = FALSE
    /\ forward' = NewList /\ level' = 1 /\ value_offset' = [n \in Nodes |-> None]
    /\ insert' = None /\ find' = None
    /\ UNCHANGED <<puts, failures, acked>>

-----------------------------------------------------------------------------
(* index.c *)

\* One level: from node n along the list while the next key is smaller.
Along(i, key) ==
    LET along[n \in Nodes] ==
            LET there == forward[n][i]
            IN  IF there # None /\ there < key THEN along[there] ELSE n
    IN  along

\* update[i], found from the top level down.
Update(i, key) ==
    LET update[j \in 1..MAX_LEVEL] ==
            Along(j, key)[IF j >= level THEN 0 ELSE update[j + 1]]
    IN  update[i]

(***************************************************************************)
(* The lock of the list is held from here on, by one insertion at a time.  *)
(* create_node makes the node, with its place on each level, or fails.     *)
(***************************************************************************)
create_node(key, offset, height) ==
    \/ UNCHANGED <<value_offset, insert>>          \* KVDB_ERR_IO
    \/ /\ value_offset' = [value_offset EXCEPT ![key] = offset]
       /\ insert' = [key |-> key, height |-> height, next |-> 1, update |->
              [i \in 1..height |-> IF i > level THEN 0 ELSE Update(i, key)]]

\* The heights that rand() may lead to.
random_level == 1..MAX_LEVEL

(***************************************************************************)
(* skiplist_insert: a key that is there gets the new offset; otherwise a   *)
(* node is made (the list's level has risen to its height by then), and    *)
(* LinkLevel links its levels from the bottom.                             *)
(***************************************************************************)
skiplist_insert(key, offset, height) ==
    LET at == forward[Update(1, key)][1]
    IN  IF at = key
        THEN /\ value_offset' = [value_offset EXCEPT ![key] = offset]
             /\ UNCHANGED <<forward, level, insert>>
        ELSE /\ level' = IF height > level THEN height ELSE level
             /\ UNCHANGED forward
             /\ create_node(key, offset, height)

\* History: an insertion overlaps the find.
DisturbFind == find' = IF find = None THEN None ELSE [find EXCEPT !.quiet = FALSE]

\* The node before is pointed at the new one before that one points on.
LinkLosesTail ==
    /\ insert # None
    /\ LET i == insert.next  u == insert.update[i]  k == insert.key
       IN  /\ forward' = [forward EXCEPT ![u][i] = k]
           /\ insert' = IF i = insert.height THEN None ELSE [insert EXCEPT !.next = i + 1]
    /\ DisturbFind
    /\ UNCHANGED <<store, level, value_offset, puts, failures, crashes>>

\* forward[i] of the new node first, then of the one before it.
LinkLevel ==
    /\ insert # None
    /\ LET i == insert.next  u == insert.update[i]  k == insert.key
       IN  /\ forward' = [forward EXCEPT ![k][i] = forward[u][i], ![u][i] = k]
           /\ insert' = IF i = insert.height THEN None ELSE [insert EXCEPT !.next = i + 1]
    /\ DisturbFind
    /\ UNCHANGED <<store, level, value_offset, puts, failures, crashes>>

\* The keys in the list: those that the pointers of the lowest level lead to.
Linked ==
    {k \in KeyRange :
        \A S \in SUBSET Nodes :
            0 \in S /\ (\A n \in S : forward[n][1] \in S \cup {None}) => k \in S}

(***************************************************************************)
(* skiplist_find, a pointer at a time.  present records whether the key    *)
(* was in the list when the find began, quiet whether no insertion         *)
(* overlapped it so far.                                                   *)
(***************************************************************************)
skiplist_find(key) ==
    /\ find = None
    /\ find' = [key |-> key, node |-> 0, i |-> level, result |-> None,
                present |-> key \in Linked, quiet |-> insert = None]
    /\ UNCHANGED <<store, list, insert, puts, failures, crashes>>

FindStep ==
    /\ find # None /\ find.i > 0
    /\ LET there == forward[find.node][find.i]
       IN  find' = IF there # None /\ there < find.key THEN [find EXCEPT !.node = there]
                   ELSE [find EXCEPT !.i = @ - 1]
    /\ UNCHANGED <<store, list, insert, puts, failures, crashes>>

\* The last comparison, and the caller takes the result.
FindEnds ==
    /\ find # None /\ find.i = 0
    /\ IF find.result = None
       THEN find' = [find EXCEPT !.result =
                       IF forward[find.node][1] = find.key THEN "found" ELSE "missing"]
       ELSE find' = None
    /\ UNCHANGED <<store, list, insert, puts, failures, crashes>>

-----------------------------------------------------------------------------

(***************************************************************************)
(* External: kvdb_put.  The lock of the list is free when the insertion    *)
(* starts; create_node may fail, and then the key stays unindexed.         *)
(***************************************************************************)
kvdb_put(key, value, height) ==
    /\ puts < MaxPuts /\ insert = None
    /\ puts' = puts + 1
    /\ write_block(<<key>>, value)
    /\ skiplist_insert(key, size, height)
    /\ DisturbFind
    /\ UNCHANGED <<failures, crashes>>

KvNext ==
    \/ \E key \in KeyRange, value \in StoredValues :
          \/ \E height \in random_level : kvdb_put(key, value, height)
          \/ \E n \in 0..Len(Block(<<key>>, value)) : WriteFails(<<key>>, value, n)
    \/ \E kept \in 0..Len(file) : create_data_file(kept)
    \/ LinkLevel
    \/ \E key \in KeyRange : skiplist_find(key)
    \/ FindStep \/ FindEnds

KvSpec == KvInit /\ [][KvNext]_kvars

-----------------------------------------------------------------------------

(***************************************************************************)
(* A block whose write was acknowledged on a file with no failed write     *)
(* before it can be read back for ever: at its offset read_block returns   *)
(* its key and its value, whatever later writes fail in the middle of a    *)
(* block and wherever a crash cuts the file.  (After a write that failed,  *)
(* file->size no longer is the end of the file until it is opened again,   *)
(* and the blocks appended meanwhile are not where their offsets say.)     *)
(***************************************************************************)
AckedReadable ==
    \A b \in acked :
        read_block(b.offset) = [status |-> "KVDB_OK", key |-> Cells(b.key), value |-> b.value]

(***************************************************************************)
(* skiplist_find answers for the list there is: when no insertion overlaps *)
(* it, it finds a key exactly if the key is in the list, whatever heights  *)
(* random_level chose and wherever earlier insertions stopped for lack of  *)
(* memory; and it never finds a key that is not linked.                    *)
(***************************************************************************)
FindSeesList ==
    find # None => /\ find.result = "missing" => ~(find.quiet /\ find.present)
                   /\ find.result = "found" => find.key \in Linked
=============================================================================
