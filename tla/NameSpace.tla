----------------------------- MODULE NameSpace -----------------------------
(***************************************************************************)
(* What the file system of the devices promises whoever names its entries: *)
(* an entry exists from its creation under an existing parent until it is  *)
(* removed with all that is under it, no operation on one entry changes    *)
(* what another name stands for, and a new entry never inherits the driver *)
(* of an old one.  A name is the sequence of its parts, <<>> the root.     *)
(***************************************************************************)
EXTENDS SequencesExt

CONSTANT Names    \* the parts of names

VARIABLE tree     \* name of an entry -> whether a driver is installed on it

Init == tree = [p \in {<<>>} |-> FALSE]

Create(p, n) ==
  /\ p \in DOMAIN tree /\ Append(p, n) \notin DOMAIN tree
  /\ tree' = [q \in DOMAIN tree \cup {Append(p, n)} |->
                q \in DOMAIN tree /\ tree[q]]

Configure(p) ==
  /\ p \in DOMAIN tree
  /\ tree' = [tree EXCEPT ![p] = TRUE]

Drop(p) ==
  /\ p \in DOMAIN tree \ {<<>>}
  /\ tree' = [q \in {q \in DOMAIN tree : ~IsPrefix(p, q)} |-> tree[q]]

Next == \E p \in DOMAIN tree :
          (\E n \in Names : Create(p, n)) \/ Configure(p) \/ Drop(p)

Spec == Init /\ [][Next]_tree

=============================================================================
