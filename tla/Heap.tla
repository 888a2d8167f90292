-------------------------------- MODULE Heap --------------------------------
(***************************************************************************)
(* mm_alloc.c: a best-fit allocator whose blocks have a header and, behind *)
(* the data, a footer that points back to it.  Memory is an array of words *)
(* of four bytes, sizes and addresses count words, and addresses wrap.  A  *)
(* header is five words: size, magic, is_free, next, prev.  mm_lock makes  *)
(* every call one step.  mm_alloc_pages is external: it gives the next     *)
(* pages that nobody has, or none.                                         *)
(***************************************************************************)
EXTENDS Integers, SequencesExt

CONSTANTS
    AddrSpace,      \* how many words can be addressed
    Base,           \* where the pages for the heap start
    PAGE_SIZE,      \* in words
    InitialPages, MaxPages,     \* given at the start, and in all
    Sizes           \* what callers ask for, more than 0

VARIABLES
    mem,            \* address -> word
    free_list,
    pages,          \* how many pages the heap has
    given           \* the data addresses callers hold

hvars == <<mem, free_list, pages, given>>

BLOCK_MAGIC == 77
HeaderWords == 5
FooterWords == 1
MIN_BLOCK_SIZE == HeaderWords + FooterWords + 4

Size(m, b)    == m[b % AddrSpace]
IsFree(m, b)  == m[(b + 2) % AddrSpace] = 1
NextOf(m, b)  == m[(b + 3) % AddrSpace]
PrevOf(m, b)  == m[(b + 4) % AddrSpace]

Put(m, a, word) == [m EXCEPT ![a % AddrSpace] = word % AddrSpace]
SetNext(m, b, n) == Put(m, b + 3, n)
SetPrev(m, b, p) == IF b = 0 THEN m ELSE Put(m, b + 4, p)      \* if (block)
SetFree(m, b, f) == Put(m, b + 2, f)

PutHeader(m, b, size, next, prev) ==
    Put(Put(Put(Put(Put(m, b, size), b + 1, BLOCK_MAGIC), b + 2, 1), b + 3, next), b + 4, prev)
PutFooter(m, b) == Put(m, b + HeaderWords + Size(m, b), b)

\* A block that takes n pages at address b.
PageBlock(m, b, n, next) ==
    PutHeader(m, b, n * PAGE_SIZE - HeaderWords - FooterWords, next, 0)

\* mm_alloc_init.
HeapInit ==
    /\ mem = PutFooter(PageBlock([a \in 0..(AddrSpace - 1) |-> 0], Base, InitialPages, 0), Base)
    /\ free_list = Base /\ pages = InitialPages /\ given = {}

(***************************************************************************)
(* split_block.  The footer of the shortened block is written last, at the *)
(* address where the new header is.                                        *)
(***************************************************************************)
split_block(m, b, size) ==
    LET new   == b + HeaderWords + size
        next  == NextOf(m, b)
        made  == PutHeader(m, new, Size(m, b) - size - HeaderWords - FooterWords, next, b)
        short == SetNext(Put(PutFooter(made, new), b, size), b, new)
        both  == PutFooter(short, b)
    IN  IF Size(m, b) - size < MIN_BLOCK_SIZE THEN m ELSE SetPrev(both, NextOf(both, new), new)

\* b takes in the block behind it.
Absorb(m, b, n) ==
    LET grown == Put(m, b, Size(m, b) + HeaderWords + FooterWords + Size(m, n))
        out   == SetNext(grown, b, NextOf(grown, n))
    IN  PutFooter(SetPrev(out, NextOf(out, b), b), b)

coalesce(m, b) ==
    LET n  == NextOf(m, b)
        m1 == IF n # 0 /\ IsFree(m, n) THEN Absorb(m, b, n) ELSE m
        p  == PrevOf(m1, b)
    IN  IF p # 0 /\ IsFree(m1, p) THEN Absorb(m1, p, b) ELSE m1

RECURSIVE Chain(_, _)
Chain(m, b) == IF b = 0 THEN <<>> ELSE <<b>> \o Chain(m, NextOf(m, b))

\* The first of the smallest free blocks that are large enough, or 0.
BestFit(m, size) ==
    LET list == Chain(m, free_list)
        fits == {i \in DOMAIN list : IsFree(m, list[i]) /\ Size(m, list[i]) >= size}
        best == CHOOSE i \in fits : \A j \in fits :
                   Size(m, list[i]) < Size(m, list[j])
                   \/ (Size(m, list[i]) = Size(m, list[j]) /\ i <= j)
    IN  IF fits = {} THEN 0 ELSE list[best]

Take(m, b, size) ==
    /\ mem' = SetFree(split_block(m, b, size), b, 0)
    /\ given' = given \cup {b + HeaderWords}

mm_alloc(wanted) ==
    LET size == ((wanted + 1) \div 2) * 2      \* a multiple of eight bytes
        fit  == BestFit(mem, size)
        more == (size + HeaderWords + FooterWords + PAGE_SIZE - 1) \div PAGE_SIZE
        b    == Base + pages * PAGE_SIZE
    IN  \/ /\ fit # 0
           /\ Take(mem, fit, size)
           /\ UNCHANGED <<free_list, pages>>
        \/ /\ fit = 0 /\ pages + more <= MaxPages
           /\ Take(SetPrev(PageBlock(mem, b, more, free_list), free_list, b), b, size)
           /\ free_list' = b /\ pages' = pages + more

mm_free(addr) ==
    LET b == addr - HeaderWords
    IN  /\ addr \in given
        /\ given' = given \ {addr}
        /\ mem' = IF mem[b + 1] = BLOCK_MAGIC THEN coalesce(SetFree(mem, b, 1), b) ELSE mem
        /\ UNCHANGED <<free_list, pages>>

HeapNext ==
    \/ \E wanted \in Sizes : mm_alloc(wanted)
    \/ \E addr \in given : mm_free(addr)

HeapSpec == HeapInit /\ [][HeapNext]_hvars

(***************************************************************************)
(* The allocator keeps to its pages: whatever is allocated and freed, in   *)
(* any order, the words outside the heap stay as they were (0 here).       *)
(***************************************************************************)
StaysInHeap ==
    \A a \in 0..(AddrSpace - 1) :
        a \notin Base..(Base + pages * PAGE_SIZE - 1) => mem[a] = 0
=============================================================================
