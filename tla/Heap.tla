-------------------------------- MODULE Heap --------------------------------
(***************************************************************************)
(* What the kernel heap promises its callers: kmalloc(n) either gives out  *)
(* n consecutive pages that no block occupies, or gives out nothing and    *)
(* changes nothing; kfree either takes the block back or, failing, leaves  *)
(* it occupied for good.  A block nobody holds is never given out again    *)
(* unless it was taken back.                                               *)
(***************************************************************************)
EXTENDS Integers

CONSTANTS
  Space,      \* the pages blocks may lie in
  BlockSizes  \* the sizes, in pages, that may be asked for

VARIABLES
  blocks,     \* the blocks that occupy pages
  held        \* those some caller still holds

heapVars == <<blocks, held>>

Extent(b) == b.address .. b.address + b.size - 1

Blocks == [address : Space, size : BlockSizes \ {0}]

Init == blocks = {} /\ held = {}

Alloc(b) ==
  /\ Extent(b) \subseteq Space
  /\ \A c \in blocks : Extent(b) \cap Extent(c) = {}
  /\ blocks' = blocks \cup {b}
  /\ held' = held \cup {b}

Free(b) ==
  /\ b \in held
  /\ held' = held \ {b}
  /\ blocks' \in {blocks, blocks \ {b}}

Next == \E b \in Blocks : Alloc(b) \/ Free(b)

Spec == Init /\ [][Next]_heapVars

=============================================================================
