------------------------------- MODULE Fismem -------------------------------
(***************************************************************************)
(* Level 1 of the memory manager, src/mm/fismem.c: the bitmap of physical  *)
(* pages and the counter of the free ones.                                 *)
(*                                                                         *)
(* A page is named by its number (address / PAGE_SIZE).  fis_bitmap is the *)
(* set of the pages whose bit is set.  The C bitmap has a bit for each of  *)
(* the 2^20 pages a 32-bit address can name, whatever memory is installed: *)
(* the bits from FisPages up are clear at boot, and the searches, which    *)
(* compare nothing with fis_pages, run into them.                          *)
(***************************************************************************)
EXTENDS Integers, FiniteSets

CONSTANTS
  FisPages,   \* fis_pages, the number of pages of installed memory
  UWrap       \* 2^32, where an unsigned long wraps (smaller in a run)

ASSUME FismemAssumption ==
  /\ FisPages \in Nat /\ FisPages > 1
  /\ UWrap \in Nat /\ UWrap > FisPages + 2

VARIABLES
  fis_bitmap,     \* the pages whose bit is set
  fis_freepages   \* the counter of free pages, an unsigned long

fismemVars == <<fis_bitmap, fis_freepages>>

(* The installed pages, and the bits the model keeps: three past the end   *)
(* of memory are enough to see an allocation leave memory.                 *)
Frames == 0 .. FisPages - 1
BitmapBits == 0 .. FisPages + 2

FreeFrames == Frames \ fis_bitmap
FreeCount == Cardinality(FreeFrames)

-----------------------------------------------------------------------------
(* Unsigned addition and subtraction: C wraps silently.  The mutant is a   *)
(* signed counter.                                                         *)
MinusSigned(x, c) == x - c
Plus(x, c) == IF x + c < UWrap THEN x + c ELSE x + c - UWrap
Minus(x, c) == IF x >= c THEN x - c ELSE x - c + UWrap

(* find_first_zero_bit, the search fis_find_cont_pages(1) makes: the       *)
(* lowest clear bit.  Its size argument only stops the search on a whole   *)
(* word of ones, so with no installed page free the answer is FisPages, a  *)
(* page that does not exist.  The callers test the answer against          *)
(* 0 alone.                                                                *)
Lowest(S) == CHOOSE p \in S : \A q \in S : p <= q
FirstClear(bits) == Lowest(BitmapBits \ bits)

(* fis_find_pages(count): the number of free pages it counted.  At the end *)
(* of memory it answers i+1, one page more than it found.  Its search      *)
(* starts at bit 1; bit 0 is never clear (first megabyte).                 *)
fis_find_pages(count) ==
  IF count <= FreeCount THEN count ELSE FreeCount + 1

(* fis_manual_alloc(address, count): whether the range is accepted, and    *)
(* its effect.  A range that ends exactly at the end of memory is refused, *)
(* and the counter pays for the pages of the range that were already set.  *)
(* The mutant does not look at the end of memory.                          *)
PageRange(page, count) == page .. page + count - 1

ManualAllocUnbounded(page, count) == count <= fis_freepages
ManualAllocAccepts(page, count) ==
  /\ page + count < FisPages
  /\ count <= fis_freepages

fis_manual_alloc(page, count) ==
  IF ManualAllocAccepts(page, count)
  THEN /\ fis_bitmap' = fis_bitmap \cup PageRange(page, count)
       /\ fis_freepages' = Minus(fis_freepages, count)
  ELSE UNCHANGED fismemVars

(* fis_manual_free(address, count): clears the range and credits the       *)
(* counter, whatever the bits were.                                        *)
fis_manual_free(page, count) ==
  IF page + count <= FisPages
  THEN /\ fis_bitmap' = fis_bitmap \ PageRange(page, count)
       /\ fis_freepages' = Plus(fis_freepages, count)
  ELSE UNCHANGED fismemVars

FismemTypeOK ==
  /\ fis_bitmap \subseteq BitmapBits
  /\ fis_freepages \in 0 .. UWrap - 1

=============================================================================
