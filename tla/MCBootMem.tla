----------------------------- MODULE MCBootMem -----------------------------
(* A machine of a few pages of two units: three of low memory, page tables *)
(* of eight, and modules that end inside, at and past the first table.     *)
EXTENDS BootMem

Usable(base, length) == [base |-> base, length |-> length, usable |-> TRUE]
Reserved(base, length) == [base |-> base, length |-> length, usable |-> FALSE]

(* The map of a BIOS: low memory and its reserved end, upper memory, then  *)
(* regions past the end of memory and past 32 bits.                        *)
MCMemoryMaps == {
  <<>>,
  <<Usable(0, 6), Usable(6, 26)>>,
  <<Usable(0, 3), Reserved(3, 3), Usable(6, 26), Reserved(32, 5)>>,
  <<Usable(0, 5), Reserved(5, 1), Reserved(2, 3), Usable(6, 26),
    Reserved(60, 4), Usable(64, 70)>>,
  <<Usable(0, 6), Usable(6, 26), Usable(64, 40)>>,
  <<Usable(0, 3), Reserved(3, 1), Reserved(4, 2), Usable(6, 22),
    Reserved(28, 4), Usable(64, 8)>> }
MCModuleLists == UNION {[1 .. n -> 1 .. 5] : n \in 0 .. 2} \cup
  {<<1, 2, 3>>, <<8, 8, 2>>, <<8, 8, 3>>}
MCKernelSizes == 1 .. 6
MCExtras == 0 .. 2
=============================================================================
