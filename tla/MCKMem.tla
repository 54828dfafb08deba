------------------------------- MODULE MCKMem -------------------------------
(* A machine of a few pages for TLC: two reserved by boot, page tables of  *)
(* three pages, descriptor pages of two entries.                           *)
EXTENDS KMem

MCBootFrames == {0, 1}
MCDrifts == {-1, 0, 2}
MCExact == {0}
MCSizes == {0, 1, 2, 3, 40}
=============================================================================
