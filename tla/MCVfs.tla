------------------------------- MODULE MCVfs -------------------------------
(* Names of one to five characters, the device directory being /d.         *)
EXTENDS Vfs
MCDevfsDir == <<"/", "d">>
MCDevfsName == <<"f">>
MCInitrdDevice == <<"/", "i">>
MCFilenames == SeqOf({"/", "d"}, 5) \ {<<>>}
=============================================================================
