------------------------------ MODULE MCInitfs ------------------------------
(* Blocks of ten units, pages of 42, a cache for eight entries of five: as *)
(* with the 39 entries of 104 bytes in pages of 4096, entries 1 and 2 of a *)
(* mount lie across a page boundary and the others begin a little earlier  *)
(* than a page of their own.                                               *)
EXTENDS Initfs

Entry(kind, name, size) == [kind |-> kind, name |-> name, size |-> size]
Zero == Entry("zero", <<>>, 0)
Files(kind, name, size) ==
  <<Entry(kind, name, size)>> \o
    [b \in 1 .. (size + 9) \div 10 |-> Entry("data", <<"data">>, 0)]
File(name, size) == Files("header", name, size)
End == <<Zero, Zero>>

(* Seven and eight files, of which the first are a and b, the third is ab  *)
(* and the sixth is s; those that follow the cached ones are c and cb.     *)
Six == File(<<"a">>, 3) \o File(<<"b">>, 13) \o File(<<"a", "b">>, 10)
         \o File(<<"q">>, 0) \o File(<<"r">>, 1) \o File(<<"s">>, 0)
Seven == Six \o File(<<"t">>, 0)
Eight == Seven \o File(<<"u">>, 13)

(* Archives of one, two, seven, eight and ten files; of eight files cut    *)
(* before or after their end, or before the end of the two that follow, or *)
(* with one empty block before them; with a header damaged among the first *)
(* or behind them; of a file longer than a page.  A module that is no      *)
(* archive, one that is empty.                                             *)
MCModuleSets == {
  <<File(<<"a">>, 5) \o End>>,
  <<File(<<"a">>, 0) \o File(<<"b">>, 50) \o End>>,
  <<Seven \o End>>,
  <<Eight \o End>>,
  <<Eight \o File(<<"c">>, 3) \o File(<<"c", "b">>, 12) \o End>>,
  <<Eight \o Files("bad", <<"c">>, 3) \o File(<<"c", "b">>, 12) \o End>>,
  <<Eight \o <<Zero>> \o File(<<"c">>, 3) \o End>>,
  <<Eight \o File(<<"c">>, 3)>>,
  <<File(<<"a">>, 2) \o Files("bad", <<"b">>, 3) \o End>>,
  <<File(<<"a">>, 2) \o <<Zero>> \o File(<<"b">>, 3) \o End>>,
  <<File(<<"a">>, 2)>>,
  <<End, <<>>, File(<<"a">>, 30) \o End>>,
  <<End, End>> }
MCRooms == {3, 8, 12, 17, 21, 27}
MCRequests ==
  [name : {<<>>, <<"a">>, <<"b">>, <<"c">>, <<"s">>}, start : {0, 11},
   size : {4}] \cup
  {[name |-> <<"b">>, start |-> 0, size |-> 49]}
MCLeftovers == {<<>>, <<"b">>}
=============================================================================
