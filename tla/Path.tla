-------------------------------- MODULE Path --------------------------------
(***************************************************************************)
(* Names of files, src/fs/path.c.  A name is the sequence of its           *)
(* characters; of these the functions tell apart only the slash.  The      *)
(* empty name is left out: add_slash and remove_slash read the character   *)
(* before it.                                                              *)
(***************************************************************************)
EXTENDS Integers, FiniteSetsExt, SequencesExt

Slash == "/"
Slashes(name) == {i \in DOMAIN name : name[i] = Slash}

(* The part after a number of slashes, up to the next one; part 0 is the   *)
(* root, and a part behind the last is empty.                              *)
path_get_part(ptr, part) ==
  IF part = 0 THEN <<Slash>>
  ELSE IF Cardinality(Slashes(ptr)) < part THEN <<>>
  ELSE LET s == CHOOSE s \in Slashes(ptr) :
                  Cardinality({i \in Slashes(ptr) : i <= s}) = part
           ends == {i \in Slashes(ptr) : i > s} \cup {Len(ptr) + 1}
       IN  SubSeq(ptr, s + 1, Min(ends) - 1)

add_slash(name) == IF Last(name) = Slash THEN name ELSE Append(name, Slash)
remove_slash(name) == IF Last(name) = Slash THEN Front(name) ELSE name

(* The first parts of a name, the root among them, each closed by a slash  *)
(* that the last one loses again.  Mutant: one part too few.               *)
path_get_leftShort(ptr, count) ==
  LET left[i \in 0 .. count] ==
        IF i = 0 THEN <<Slash>>
        ELSE add_slash(left[i - 1] \o path_get_part(add_slash(ptr), i - 1))
  IN  IF left[count] = <<Slash>> THEN <<Slash>> ELSE Front(left[count])

path_get_left(ptr, count) ==
  LET left[i \in 0 .. count] ==
        IF i = 0 THEN <<Slash>>
        ELSE add_slash(left[i - 1] \o path_get_part(add_slash(ptr), i))
  IN  IF left[count] = <<Slash>> THEN <<Slash>> ELSE Front(left[count])

path_count_parts(name) == Cardinality(Slashes(remove_slash(name)))

(* The parts dev_get_entry_block (dev.c:249) and dev_create (dev.c:131) go *)
(* through: up to the first empty one, the root left out.                  *)
PartsOf(name) ==
  LET last == Min({i \in 0 .. Len(name) :
                     path_get_part(name, i + 1) = <<>>})
  IN  [i \in 1 .. last |-> path_get_part(name, i)]

=============================================================================
