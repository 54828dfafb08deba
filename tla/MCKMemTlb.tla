------------------------------ MODULE MCKMemTlb ------------------------------
(* The machine of MCKMem, beside the processor.                            *)
EXTENDS KMemTlb

MCBootFrames == {0, 1}
MCExact == {0}
MCSizes == {1, 2}
=============================================================================
