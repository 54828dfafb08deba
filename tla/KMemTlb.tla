------------------------------- MODULE KMemTlb -------------------------------
(***************************************************************************)
(* The kernel heap of module KMem on a processor that keeps translations.  *)
(*                                                                         *)
(* An 80386 remembers the translations it has used and consults the page   *)
(* tables only for the others; it forgets them when CR3 is loaded, or one  *)
(* by one with invlpg.  paging_free empties the entry of a page in its     *)
(* table (src/mm/paging.c:325) and does neither: flush_tlb_one and         *)
(* invalidate, of src/include/mm/paging.h, have no caller, and CR3 is not  *)
(* loaded again once phase 2 of init_mm has begun.                         *)
(*                                                                         *)
(* The model keeps one translation.  A processor that keeps more behaves,  *)
(* for the page of that translation, like one that keeps this one.         *)
(***************************************************************************)
EXTENDS KMem

VARIABLE tlb   \* the translation kept: a page and its physical page

tlbVars == <<kmemVars, tlb>>

TlbInit == Init /\ tlb = [page |-> 0, frame |-> 0]

(* Code of the kernel uses a page of a block it holds, and the processor   *)
(* keeps where it got to.                                                  *)
Reached(v) == IF tlb.page = v THEN tlb.frame ELSE pte[v]
Access(v) ==
  /\ pc = "idle"
  /\ tlb' = [page |-> v, frame |-> Reached(v)]
  /\ UNCHANGED kmemVars

HeldPages == UNION {Pages(b) : b \in live}
HeapStep == Next /\ tlb' = tlb
TlbNext == HeapStep \/ \E v \in HeldPages : Access(v)

TlbSpec == TlbInit /\ [][TlbNext]_tlbVars

-----------------------------------------------------------------------------
(* "setta non present e azzera il campo dell'indirizzo della pagina"       *)
(* (paging.c:297): with the entry of a page emptied the page is gone, so   *)
(* that a later use of that virtual page reaches what is mapped there by   *)
(* then.                                                                   *)
UseReachesMapping ==
  pc = "idle" /\ tlb.page \in HeldPages => tlb.frame = pte[tlb.page]

=============================================================================
