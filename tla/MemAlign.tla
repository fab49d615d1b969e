------------------------------- MODULE MemAlign -------------------------------
(***************************************************************************)
(* The alignment benchmark of lesson_11/02_mem_align: an array at a        *)
(* multiple of the alignment and one that lies one byte behind such a      *)
(* multiple, with the address to free in front of it (02_mem_align.c).     *)
(* Addresses are numbers of bytes; what the arrays hold and the times that *)
(* are measured are left out, the elements the tests touch are not.        *)
(***************************************************************************)
EXTENDS Integers

CONSTANTS alignment,       \* 64 in main
          ARRAY_SIZE,      \* elements of each array
          NUM_ITERATIONS,
          Granule,         \* every malloc returns a multiple of this
          PtrSize, DoubleSize,
          MaxAddress       \* bound: where the heap ends

NULL == 0
Addresses == 1 .. MaxAddress
data_size == ARRAY_SIZE * DoubleSize

VARIABLES stage,           \* where main is
          test, iter,      \* its loops
          heap,            \* the blocks that are allocated
          aligned_data, unaligned_data,
          buffer,          \* what malloc gave unaligned_malloc
          original_ptr     \* where buffer was stored

vars == <<stage, test, iter, heap, aligned_data, unaligned_data, buffer, original_ptr>>

TypeOK == /\ stage \in {"aligned", "unaligned", "check", "test", "free", "unalignedFree",
                        "done", "failed", "crashed"}
          /\ test \in 0 .. 3 /\ iter \in 0 .. NUM_ITERATIONS
          /\ \A b \in heap : b.addr \in Addresses /\ b.len \in Nat
          /\ {aligned_data, buffer} \subseteq Addresses \cup {NULL}
          /\ unaligned_data \in Nat /\ original_ptr \in Int

Init == /\ stage = "aligned" /\ test = 0 /\ iter = 0 /\ heap = {}
        /\ aligned_data = NULL /\ unaligned_data = NULL
        /\ buffer = NULL /\ original_ptr = 0

\* Where malloc may place a block: on a multiple of align, clear of the others.
Places(align, len) ==
    {a \in Addresses : /\ a % align = 0 /\ a + len <= MaxAddress
                       /\ \A b \in heap : a + len <= b.addr \/ b.addr + b.len <= a}
Block(a, len) == [addr |-> a, len |-> len]
-----------------------------------------------------------------------------
aligned_malloc ==
    /\ stage = "aligned" /\ stage' = "unaligned"
    /\ \/ aligned_data' = NULL /\ UNCHANGED heap
       \/ \E a \in Places(alignment, data_size) :
            aligned_data' = a /\ heap' = heap \cup {Block(a, data_size)}
    /\ UNCHANGED <<test, iter, unaligned_data, buffer, original_ptr>>

\* Mutant: the case of a block that is aligned already is forgotten.
OffsetAlways(b) == alignment - (b % alignment) + 1

\* The distance from the block to the data.
Offset(b) == LET offset == alignment - (b % alignment)
             IN IF offset = alignment THEN 1 ELSE offset + 1

unaligned_malloc ==
    /\ stage = "unaligned" /\ stage' = "check"
    /\ \/ UNCHANGED <<heap, buffer, original_ptr, unaligned_data>>
       \/ \E b \in Places(Granule, data_size + alignment) :
            /\ buffer' = b /\ heap' = heap \cup {Block(b, data_size + alignment)}
            /\ original_ptr' = b + Offset(b) - PtrSize
            /\ unaligned_data' = b + Offset(b)
    /\ UNCHANGED <<test, iter, aligned_data>>

\* Without one of the arrays main gives up, and does not free the other.
Check == /\ stage = "check"
         /\ stage' = IF NULL \in {aligned_data, unaligned_data} THEN "failed" ELSE "test"
         /\ UNCHANGED <<test, iter, heap, aligned_data, unaligned_data, buffer, original_ptr>>

\* The elements test_rmw, test_simd_friendly and test_random_access touch. The
\* unrolled loop ends before the last four elements, the checksum takes all.
Touched(k) == (0 .. ARRAY_SIZE - 1) \cup
              (IF k # 1 THEN {}
               ELSE {j \in 0 .. ARRAY_SIZE + 3 : j - (j % 4) < ARRAY_SIZE - 4})

\* One round of run_test on both arrays; test_random_access does not test what
\* malloc gave it for its indices.
RunTest == /\ stage = "test"
           /\ \/ IF iter + 1 < NUM_ITERATIONS
                   THEN iter' = iter + 1 /\ UNCHANGED <<stage, test>>
                   ELSE /\ iter' = 0 /\ test' = test + 1
                        /\ stage' = IF test = 2 THEN "free" ELSE "test"
              \/ test = 2 /\ stage' = "crashed" /\ UNCHANGED <<test, iter>>
           /\ UNCHANGED <<heap, aligned_data, unaligned_data, buffer, original_ptr>>

Free(a) == heap' = {b \in heap : b.addr # a}

FreeAligned == /\ stage = "free" /\ stage' = "unalignedFree" /\ Free(aligned_data)
               /\ UNCHANGED <<test, iter, aligned_data, unaligned_data, buffer, original_ptr>>

\* unaligned_free reads the address back. If it was stored in front of the
\* block it lies over malloc's own record of the block, and free may crash.
unaligned_free ==
    /\ stage = "unalignedFree"
    /\ \/ stage' = "done" /\ unaligned_data - PtrSize = original_ptr /\ Free(buffer)
       \/ stage' = "crashed" /\ original_ptr < buffer /\ UNCHANGED heap
    /\ UNCHANGED <<test, iter, aligned_data, unaligned_data, buffer, original_ptr>>

Next == aligned_malloc \/ unaligned_malloc \/ Check \/ RunTest \/ FreeAligned \/ unaligned_free

Spec == Init /\ [][Next]_vars
-----------------------------------------------------------------------------
\* The array that is unaligned on purpose is one byte off, every element the
\* tests touch lies inside the block that was allocated for it, and so does the
\* address kept in front of it, unless the block came aligned from malloc.
UnalignedInside ==
    unaligned_data # NULL =>
      /\ unaligned_data % alignment = 1
      /\ \A k \in 0 .. 2 : \A j \in Touched(k) :
           unaligned_data + (j + 1) * DoubleSize <= buffer + data_size + alignment
      /\ buffer <= original_ptr \/ buffer % alignment = 0
=============================================================================
