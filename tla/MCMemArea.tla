------------------------------ MODULE MCMemArea ------------------------------
(* A machine of a few pages: tables of eight entries, of which the kernel  *)
(* has the sixth and the seventh, four pages of first megabyte.            *)
EXTENDS MemArea

MCKernelSizes == {1, 2}
MCTaskSizes == {3, 4}
=============================================================================
