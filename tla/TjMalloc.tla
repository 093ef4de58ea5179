------------------------------ MODULE TjMalloc ------------------------------
(***************************************************************************)
(* The allocator of the test programs: test_progs/tj_malloc.h.             *)
(*                                                                         *)
(* A block is a header, the link and the size, with the caller's bytes     *)
(* behind it.  Free blocks hang on a ring that is ordered by address and   *)
(* starts at `base', which is empty.  The sizes are in bytes, but the code *)
(* adds them to pointers to headers, so a sum is a multiple of the header  *)
(* away (`Plus'): that is what the joining of neighbours and the breaking  *)
(* of a block really compute.                                              *)
(***************************************************************************)
EXTENDS Integers, FiniteSets, TLC

CONSTANTS
  HEAP_SIZE,  \* bytes of the heap
  Sizes,      \* bytes that are asked for
  WORD        \* addresses and sizes are modulo WORD

ASSUME TjMallocAssumption ==
  /\ HEAP_SIZE \in Nat \ {0} /\ HEAP_SIZE % 8 = 0
  /\ Sizes \subseteq 1 .. HEAP_SIZE
  /\ WORD % 8 = 0 /\ WORD > 2 * HEAP_SIZE

VARIABLES
  heap,  \* [hdr, freep, next_index, avail_mem]; hdr is what lies in memory
         \* where a header was written: [next, size]
  live   \* history: the blocks that were handed out, address -> size

heapVars == <<heap, live>>

HEADER == 8          \* sizeof(Header)
NULL == 0
HEAP == HEADER       \* address of `heap'
BASE == HEAP + HEAP_SIZE   \* address of `base', which the linker puts behind

\* The state before the first call: no ring, no header anywhere.
NewHeap ==
  [hdr |-> <<>>, freep |-> NULL, next_index |-> HEAP, avail_mem |-> HEAP_SIZE]

\* p + n for a pointer to headers.
Plus(p, n) == (p + HEADER * n) % WORD

Wrote(hdr, p, h) == (p :> h) @@ hdr

-----------------------------------------------------------------------------
(* tj_free of the block whose header is at bp.                             *)

\* bp belongs between p and the block behind it: between two blocks, or at the
\* seam of the ring.
BelongsAfter(hdr, bp, p) ==
  \/ bp > p /\ bp < hdr[p].next
  \/ p >= hdr[p].next /\ (bp > p \/ bp < hdr[p].next)

RECURSIVE Scan(_, _, _)
Scan(hdr, bp, p) ==
  IF BelongsAfter(hdr, bp, p) THEN p ELSE Scan(hdr, bp, hdr[p].next)

tj_free(m, bp) ==
  LET p == Scan(m.hdr, bp, m.freep)
      up == m.hdr[p].next
      block == IF Plus(bp, m.hdr[bp].size) = up
               THEN [next |-> m.hdr[up].next,
                     size |-> m.hdr[bp].size + m.hdr[up].size]
               ELSE [m.hdr[bp] EXCEPT !.next = up]
      hdr == Wrote(m.hdr, bp, block)
      below == IF Plus(p, hdr[p].size) = bp
               THEN [next |-> block.next, size |-> hdr[p].size + block.size]
               ELSE [hdr[p] EXCEPT !.next = bp]
  IN  [m EXCEPT !.hdr = Wrote(hdr, p, below), !.freep = p]

-----------------------------------------------------------------------------
(* tj_malloc: the block and the heap it leaves.                            *)

Rounded(size) == IF size % 4 # 0 THEN size + 4 - (size % 4) ELSE size

\* Mutation: new memory is handed out next to the ring, not through it.
NotLinked(m, total_size) ==
  [m EXCEPT !.hdr = Wrote(@, m.next_index,
                          [next |-> m.freep, size |-> total_size]),
            !.next_index = @ + total_size,
            !.avail_mem = @ - total_size]

\* Only asked while there is room for total_size.
getmoremem(m, total_size) ==
  tj_free([m EXCEPT !.hdr = Wrote(@, m.next_index,
                                  [next |-> NULL,
                                   size |-> total_size - HEADER]),
                    !.next_index = @ + total_size,
                    !.avail_mem = @ - total_size],
          m.next_index)

\* The block p, behind prevp, is large enough.
Taken(m, size, prevp, p) ==
  LET rest == (m.hdr[p].size - (size + HEADER)) % WORD
      q == Plus(p, rest)
      cut == Wrote(m.hdr, p, [m.hdr[p] EXCEPT !.size = rest])
  IN  IF m.hdr[p].size = size
      THEN [mem |-> Plus(p, 1),
            heap |-> [m EXCEPT !.hdr[prevp].next = m.hdr[p].next,
                               !.freep = prevp]]
      ELSE [mem |-> Plus(q, 1),
            heap |-> [m EXCEPT !.hdr = Wrote(cut, q,
                                 [next |-> IF q \in DOMAIN cut
                                           THEN cut[q].next ELSE NULL,
                                  size |-> size]),
                               !.freep = prevp]]

RECURSIVE Search(_, _, _, _)
Search(m, size, prevp, p) ==
  IF m.hdr[p].size >= size THEN Taken(m, size, prevp, p)
  ELSE IF p # m.freep THEN Search(m, size, p, m.hdr[p].next)
  ELSE IF m.avail_mem < size + HEADER THEN [mem |-> NULL, heap |-> m]
  ELSE LET more == getmoremem(m, size + HEADER)
       IN  Search(more, size, more.freep, more.hdr[more.freep].next)

tj_malloc(m0, size0) ==
  LET size == Rounded(size0)
      m == IF m0.freep # NULL THEN m0
           ELSE [m0 EXCEPT !.freep = BASE,
                           !.hdr = BASE :> [next |-> BASE, size |-> 0]]
  IN  IF size0 > HEAP_SIZE THEN [mem |-> NULL, heap |-> m0]
      ELSE Search(m, size, m.freep, m.hdr[m.freep].next)

\* tj_calloc: the bytes of the block are zero; what other bytes hold stays.
\* `bytes' has a value per address, of the bytes a program looks at.
tj_calloc(bytes, mem, size) ==
  [a \in DOMAIN bytes |-> IF a \in mem .. mem + size - 1 THEN 0 ELSE bytes[a]]

-----------------------------------------------------------------------------
(* A program that takes and returns blocks.                                *)

HeapInit == heap = NewHeap /\ live = <<>>

\* A block of size bytes at mem is the caller's.
Takes(size, mem) == live' = (mem :> Rounded(size)) @@ live

Malloc(size) ==
  LET r == tj_malloc(heap, size)
  IN  /\ heap' = r.heap
      /\ IF r.mem = NULL THEN UNCHANGED live ELSE Takes(size, r.mem)

\* The first line of tj_free lets only addresses of the heap pass; a program
\* returns what it was given.
Free(mem) ==
  /\ mem \in DOMAIN live
  /\ heap' = tj_free(heap, mem - HEADER)
  /\ live' = [a \in DOMAIN live \ {mem} |-> live[a]]

HeapNext ==
  (\E size \in Sizes : Malloc(size)) \/ (\E mem \in DOMAIN live : Free(mem))

HeapSpec == HeapInit /\ [][HeapNext]_heapVars

-----------------------------------------------------------------------------
(* Properties.                                                             *)

\* The bytes of the block whose header is at bp, header and all.
Extent(bp, size) == bp .. bp + HEADER + size - 1

\* The ring of free blocks, base included, as far as it can be followed.
RECURSIVE Ring(_, _, _)
Ring(hdr, p, seen) ==
  IF p \in seen \/ p \notin DOMAIN hdr THEN seen
  ELSE Ring(hdr, hdr[p].next, seen \cup {p})

FreeBlocks ==
  IF heap.freep = NULL THEN {} ELSE Ring(heap.hdr, heap.freep, {}) \ {BASE}

\* Two blocks that a program holds share no byte, and each lies in the part of
\* the heap that has been given out: what is written through one pointer is
\* never read through another, and never over a header.
LiveBlocksAreApart ==
  \A a \in DOMAIN live :
    /\ Extent(a - HEADER, live[a]) \subseteq HEAP .. heap.next_index - 1
    /\ \A b \in DOMAIN live \ {a} :
         Extent(a - HEADER, live[a]) \cap Extent(b - HEADER, live[b]) = {}

\* Nothing is lost and nothing is there twice: the part of the heap that has
\* been given out is tiled by the blocks of the program and those of the ring,
\* however they were taken and returned.
NothingIsLost ==
  LET held == {Extent(a - HEADER, live[a]) : a \in DOMAIN live}
      free == {Extent(p, heap.hdr[p].size) : p \in FreeBlocks}
  IN  /\ UNION (held \cup free) = HEAP .. heap.next_index - 1
      /\ held \cap free = {}
      /\ \A x, y \in held \cup free : x # y => x \cap y = {}
      /\ heap.avail_mem = BASE - heap.next_index
=============================================================================
