------------------------------ MODULE VfsProofs ------------------------------
(***************************************************************************)
(* Proofs about the tables of the virtual file system, for every number of *)
(* file systems and mounts, and about names, for every length.             *)
(***************************************************************************)
EXTENDS Vfs, FiniteSetTheorems, WellFoundedInduction, TLAPS

(* Nothing is ever unmounted, so the mounts fill the table from slot 0.    *)
Filled ==
  \A m, n \in MountSlots : m < n /\ mounts[n].fs # Null => mounts[m].fs # Null

(* devfs is mounted before anything is on the root, and the initrd is what *)
(* comes to it first.                                                      *)
InitrdFirst ==
  /\ phase \in {"init_devfs", "mount_devfs"} => NothingMounted
  /\ phase \in {"register_initfs", "mount_initrd"} =>
       ~NothingMounted /\ MountAt(Root) = {}
  /\ phase = "up" => /\ MountAt(Root) # {} /\ ~NothingMounted
                     /\ meant[Min(MountAt(Root))] = "initfs"

VfsInv ==
  /\ MountMeant /\ Filled /\ InitrdFirst
  /\ DOMAIN mounts = MountSlots
  /\ \A m \in MountSlots \ FreeMounts : meant[m] # NoFs

-----------------------------------------------------------------------------
(* The searches answer with the least member of what they search.          *)
LEMMA MinLeast ==
  ASSUME NEW T \in SUBSET Nat, T # {}
  PROVE  Min(T) \in T /\ \A y \in T : Min(T) <= y
<1> DEFINE R == {ss \in Nat \X Nat : ss[1] < ss[2]}
<1>1. IsWellFoundedOn(R, Nat)
  BY NatLessThanWellFounded DEF OpToRel
<1>2. PICK x \in T : \A y \in T : ~(<<y, x>> \in R)
  BY <1>1, WFMin
<1>3. ASSUME NEW y \in T PROVE x <= y
  <2>1. x \in Nat /\ y \in Nat
    OBVIOUS
  <2>2. (y < x) => <<y, x>> \in R
    BY <2>1, SMT
  <2> QED BY <1>2, <2>1, <2>2
<1>4. \E z \in T : \A y \in T : z <= y
  BY <1>3
<1> QED BY <1>4 DEF Min

LEMMA SlotsAreNumbers ==
  MountSlots \in SUBSET Nat /\ FsSlots \in SUBSET Nat /\ 0 \in MountSlots /\ Null \notin FsSlots
BY VfsAssumption DEF MountSlots, FsSlots, Null

LEMMA FreeIsNull ==
  ASSUME VfsInv
  PROVE  \A m \in MountSlots : m \in FreeMounts <=> mounts[m].fs = Null
BY DEF VfsInv, MountMeant

(* Whichever way mount goes, it takes the first free slot, and no mount    *)
(* but the first is elsewhere than on the root.                            *)
LEMMA FirstFreeTaken ==
  ASSUME VfsInv, NEW mp, NEW device, NEW s, mount(mp, device, s)
  PROVE  \E m \in MountSlots :
           /\ Mounted(m, mp, device, s)
           /\ mounts[m].fs = Null
           /\ \A n \in MountSlots : n < m => mounts[n].fs # Null
           /\ ~NothingMounted => mp = Root
<1>1. CASE MountFirst(mp, device, s)
  <2>1. Mounted(0, mp, device, s) /\ NothingMounted
    BY <1>1 DEF MountFirst
  <2>2. 0 \in MountSlots /\ mounts[0].fs = Null
    BY <2>1, SlotsAreNumbers DEF NothingMounted
  <2>3. \A n \in MountSlots : ~(n < 0)
    BY SlotsAreNumbers
  <2> QED BY <2>1, <2>2, <2>3
<1>2. CASE MountDevice(mp, device, s) \/ MountNodev(mp, device, s)
  <2>1. FreeMounts # {} /\ mp = Root /\ Mounted(Min(FreeMounts), mp, device, s)
    BY <1>2 DEF MountDevice, MountNodev
  <2>2. FreeMounts \in SUBSET Nat /\ FreeMounts \subseteq MountSlots
    BY SlotsAreNumbers DEF FreeMounts
  <2> PICK m \in FreeMounts : m = Min(FreeMounts) /\ \A y \in FreeMounts : m <= y
    BY <2>1, <2>2, MinLeast
  <2>3. \A n \in MountSlots : n < m => n \notin FreeMounts
    BY <2>2, SlotsAreNumbers
  <2> QED BY <2>1, <2>2, <2>3, FreeIsNull
<1> QED BY <1>1, <1>2 DEF mount

(* Taking the first free slot disturbs no mount and no answer.             *)
LEMMA MountedKeeps ==
  ASSUME VfsInv, NEW mp, mp # <<>>, NEW device, NEW s \in FsSlots,
         fs_collection[s] # NoFs, looked'.mount \in MountSlots \cup {Null},
         NEW m \in MountSlots, Mounted(m, mp, device, s), mounts[m].fs = Null,
         \A n \in MountSlots : n < m => mounts[n].fs # Null
  PROVE  /\ MountMeant' /\ Filled' /\ DOMAIN mounts' = MountSlots
         /\ \A n \in MountSlots \ FreeMounts' : meant'[n] # NoFs
         /\ \A n \in MountSlots : mounts[n].fs # Null => mounts'[n] = mounts[n]
         /\ \A n \in MountSlots \ {m} : mounts'[n] = mounts[n] /\ meant'[n] = meant[n]
         /\ mounts'[m].mount_point = mp /\ mounts'[m].fs # Null
         /\ meant'[m] = fs_collection[s]
<1>1. TypeOK
  BY DEF VfsInv, MountMeant
<1>2. /\ DOMAIN mounts' = MountSlots
      /\ \A n \in MountSlots \ {m} : mounts'[n] = mounts[n] /\ meant'[n] = meant[n]
      /\ mounts'[m] = [device |-> device, mount_point |-> mp, fs |-> s]
      /\ meant'[m] = fs_collection[s]
      /\ fs_collection' = fs_collection /\ stale' = stale \ {m}
      /\ meant' \in [MountSlots -> Kinds \cup {NoFs}]
  BY <1>1 DEF VfsInv, Mounted, TypeOK
<1>3. mounts'[m].mount_point = mp /\ mounts'[m].fs = s /\ s # Null
  BY <1>2, SlotsAreNumbers
<1>4. TypeOK'
  BY <1>1, <1>2, <1>3 DEF TypeOK
<1>5. /\ m \notin FreeMounts'
      /\ \A n \in MountSlots \ {m} : n \in FreeMounts' <=> n \in FreeMounts
  BY <1>2, <1>3 DEF FreeMounts
<1>6. MountMeant'
  <2>1. ASSUME NEW n \in MountSlots
        PROVE  /\ n \in FreeMounts' <=> mounts'[n].fs = Null
               /\ n \notin FreeMounts' \cup stale' =>
                    fs_collection'[mounts'[n].fs] = meant'[n]
    <3>1. CASE n = m
      BY <1>2, <1>3, <1>5, <3>1
    <3>2. CASE n # m
      BY <1>2, <1>5, <3>2 DEF VfsInv, MountMeant
    <3> QED BY <3>1, <3>2
  <2> QED BY <1>4, <2>1 DEF MountMeant
<1>7. Filled'
  <2> SUFFICES ASSUME NEW k \in MountSlots, NEW n \in MountSlots, k < n, mounts'[n].fs # Null
               PROVE  mounts'[k].fs # Null
    BY DEF Filled
  <2>1. CASE k = m
    BY <1>3, <2>1
  <2>2. CASE k # m
    BY <1>2, <2>2 DEF VfsInv, Filled
  <2> QED BY <2>1, <2>2
<1>8. \A n \in MountSlots \ FreeMounts' : meant'[n] # NoFs
  BY <1>2, <1>5 DEF VfsInv
<1> QED BY <1>2, <1>3, <1>6, <1>7, <1>8

(* What get_mount_point finds on a place that has a mount stays.           *)
LEMMA FoundStays ==
  ASSUME NEW m \in MountSlots, NEW place, MountAt(place) # {},
         \A n \in MountSlots \ {m} : mounts'[n] = mounts[n],
         mounts'[m] = mounts[m] \/ \A n \in MountAt(place) : n < m
  PROVE  /\ Min(MountAt(place))' = Min(MountAt(place)) /\ MountAt(place)' # {}
         /\ Min(MountAt(place)) \in MountAt(place)
         /\ Found(place)' = Found(place)
<1>1. MountAt(place) \in SUBSET Nat
  BY SlotsAreNumbers DEF MountAt
<1>2. /\ Min(MountAt(place)) \in MountAt(place)
      /\ \A y \in MountAt(place) : Min(MountAt(place)) <= y
  BY <1>1, MinLeast
<1> PICK T : T = MountAt(place)'
  OBVIOUS
<1>3. /\ T \in SUBSET MountSlots
      /\ \A n \in MountSlots : n \in T <=> mounts'[n].mount_point = place
  BY DEF MountAt
<1>4. MountAt(place) \ {m} = T \ {m} /\ (mounts'[m] = mounts[m] => T = MountAt(place))
  BY <1>3 DEF MountAt
<1>5. Min(T) = Min(MountAt(place)) /\ T # {}
  <2>1. CASE mounts'[m] = mounts[m]
    BY <1>4, <2>1
  <2>2. CASE \A n \in MountAt(place) : n < m
    <3>1. m \in Nat /\ m \notin MountAt(place)
      BY <2>2, SlotsAreNumbers
    <3>2. T \in SUBSET Nat /\ T # {} /\ Min(MountAt(place)) \in T
      BY <1>2, <1>3, <1>4, <3>1, SlotsAreNumbers
    <3>3. Min(T) \in T /\ \A y \in T : Min(T) <= y
      BY <3>2, MinLeast
    <3>4. Min(T) <= Min(MountAt(place)) /\ Min(MountAt(place)) < m
      BY <1>2, <2>2, <3>2, <3>3
    <3>5. Min(T) # m
      BY <1>1, <1>2, <3>1, <3>2, <3>3, <3>4
    <3>6. Min(T) \in MountAt(place)
      BY <1>4, <3>3, <3>5
    <3> QED BY <1>1, <1>2, <3>2, <3>3, <3>4, <3>6
  <2> QED BY <2>1, <2>2
<1> QED BY <1>2, <1>5 DEF Found

-----------------------------------------------------------------------------
Stays ==
  \A n \in MountSlots : mounts[n].fs # Null =>
    /\ mounts'[n] = mounts[n]
    /\ \A place : place = mounts[n].mount_point => Found(place)' = Found(place)

LEMMA UnmovedStays ==
  ASSUME mounts' = mounts
  PROVE  Stays /\ MountAt(Root)' = MountAt(Root) /\ NothingMounted' = NothingMounted
         /\ Filled' = Filled
BY DEF Stays, Found, MountAt, NothingMounted, Filled, Root

LEMMA MountSteps ==
  ASSUME VfsInv, NEW mp, mp # <<>>, NEW device, NEW s \in FsSlots,
         fs_collection[s] # NoFs, looked'.mount \in MountSlots \cup {Null},
         mount(mp, device, s)
  PROVE  /\ MountMeant' /\ Filled' /\ DOMAIN mounts' = MountSlots
         /\ \A n \in MountSlots \ FreeMounts' : meant'[n] # NoFs
         /\ Stays /\ ~NothingMounted'
         /\ ~NothingMounted => mp = Root
         /\ MountAt(Root) # {} =>
              MountAt(Root)' # {} /\ meant[Min(MountAt(Root))]' = meant[Min(MountAt(Root))]
         /\ MountAt(Root) = {} /\ mp # Root => MountAt(Root)' = {}
         /\ MountAt(Root) = {} /\ mp = Root =>
              MountAt(Root)' # {} /\ meant[Min(MountAt(Root))]' = fs_collection[s]
<1> PICK m \in MountSlots :
      /\ Mounted(m, mp, device, s) /\ mounts[m].fs = Null
      /\ \A n \in MountSlots : n < m => mounts[n].fs # Null
      /\ ~NothingMounted => mp = Root
  BY FirstFreeTaken
<1>1. /\ MountMeant' /\ Filled' /\ DOMAIN mounts' = MountSlots
      /\ \A n \in MountSlots \ FreeMounts' : meant'[n] # NoFs
      /\ \A n \in MountSlots : mounts[n].fs # Null => mounts'[n] = mounts[n]
      /\ \A n \in MountSlots \ {m} : mounts'[n] = mounts[n] /\ meant'[n] = meant[n]
      /\ mounts'[m].mount_point = mp /\ mounts'[m].fs # Null
      /\ meant'[m] = fs_collection[s]
  BY MountedKeeps
<1>2. ASSUME NEW place, place # <<>>, NEW n \in MountAt(place) PROVE n < m
  <2>1. n \in MountSlots /\ mounts[n].mount_point # <<>>
    BY <1>2 DEF MountAt
  <2>2. mounts[n].fs # Null
    BY <2>1, FreeIsNull DEF FreeMounts
  <2>3. n # m /\ ~(m < n)
    BY <2>1, <2>2 DEF VfsInv, Filled
  <2> QED BY <2>1, <2>3, SlotsAreNumbers
<1>3. Stays
  <2> SUFFICES ASSUME NEW n \in MountSlots, mounts[n].fs # Null,
                      NEW place, place = mounts[n].mount_point
               PROVE  Found(place)' = Found(place)
    BY <1>1 DEF Stays
  <2>1. n \in MountAt(place) /\ place # <<>>
    BY FreeIsNull DEF MountAt, FreeMounts
  <2> QED BY <1>1, <1>2, <2>1, FoundStays
<1>4. ~NothingMounted'
  BY <1>1 DEF NothingMounted
<1>5. Root # <<>>
  BY DEF Root
<1>6. ASSUME MountAt(Root) # {}
      PROVE  MountAt(Root)' # {} /\ meant[Min(MountAt(Root))]' = meant[Min(MountAt(Root))]
  <2> PICK first : first = Min(MountAt(Root))
    OBVIOUS
  <2> PICK root : root = Root
    OBVIOUS
  <2>1. \A n \in MountAt(root) : n < m
    BY <1>2, <1>5
  <2>2. /\ Min(MountAt(root))' = Min(MountAt(root)) /\ MountAt(root)' # {}
        /\ Min(MountAt(root)) \in MountAt(root)
    BY <1>1, <1>6, <2>1, FoundStays
  <2>3. first \in MountSlots /\ first # m
    BY <1>2, <1>5, <2>2, SlotsAreNumbers DEF MountAt
  <2>4. MountAt(Root)' # {} /\ Min(MountAt(Root))' = first
    BY <2>2 DEF Root
  <2> QED BY <1>1, <2>3, <2>4
<1>7. \A n \in MountSlots : n \in MountAt(Root)' <=> mounts'[n].mount_point = Root
  BY DEF MountAt, Root
<1>8. ASSUME MountAt(Root) = {}, mp # Root PROVE MountAt(Root)' = {}
  <2>1. \A n \in MountSlots : mounts[n].mount_point # Root
    BY <1>8 DEF MountAt
  <2>2. \A n \in MountSlots : mounts'[n].mount_point # Root
    BY <1>1, <1>8, <2>1
  <2>3. \A n : n \in MountAt(Root)' => n \in MountSlots
    BY DEF MountAt
  <2> QED BY <1>7, <2>2, <2>3
<1>9. ASSUME MountAt(Root) = {}, mp = Root
      PROVE  MountAt(Root)' # {} /\ meant[Min(MountAt(Root))]' = fs_collection[s]
  <2>1. MountAt(Root)' = {m}
    BY <1>1, <1>9 DEF MountAt, Root
  <2>2. {m} \in SUBSET Nat /\ Min({m}) = m
    <3>1. {m} \in SUBSET Nat
      BY SlotsAreNumbers
    <3> QED BY <3>1, MinLeast
  <2>3. Min(MountAt(Root))' = m
    BY <2>1, <2>2
  <2> QED BY <1>1, <2>1, <2>3
<1> QED BY <1>1, <1>3, <1>4, <1>6, <1>8, <1>9

(* A file system goes into a slot that no mount leads to, but stale ones.  *)
LEMMA RegisterKeeps ==
  ASSUME VfsInv, NEW kind \in Kinds, register_fs(kind), UNCHANGED <<mounts, meant, stale>>,
         looked'.mount \in MountSlots \cup {Null}
  PROVE  MountMeant' /\ FreeMounts' = FreeMounts
<1>1. FreeFs \in SUBSET Nat /\ FreeFs # {}
  BY SlotsAreNumbers DEF FreeFs, register_fs
<1> PICK f \in FreeFs : f = Min(FreeFs)
  BY <1>1, MinLeast
<1>2. f \in FsSlots /\ fs_collection[f] = NoFs /\ fs_collection' = [fs_collection EXCEPT ![f] = kind]
  BY DEF FreeFs, register_fs
<1>3. FreeMounts' = FreeMounts
  BY DEF FreeMounts
<1>4. TypeOK'
  BY <1>2 DEF VfsInv, MountMeant, TypeOK
<1>5. \A m \in MountSlots : m \notin FreeMounts \cup stale => mounts[m].fs # f
  BY <1>2 DEF VfsInv, MountMeant
<1>6. \A m \in MountSlots : m \notin FreeMounts => mounts[m].fs \in FsSlots
  BY DEF VfsInv, MountMeant, TypeOK
<1> QED BY <1>2, <1>3, <1>4, <1>5, <1>6 DEF VfsInv, MountMeant, TypeOK

LEMMA StepVfs == VfsInv /\ [Next]_vfsVars => VfsInv' /\ Stays
<1> SUFFICES ASSUME VfsInv, [Next]_vfsVars PROVE VfsInv' /\ Stays
  OBVIOUS
<1>0. looked.mount \in MountSlots \cup {Null} /\ NoAnswer.mount = Null /\ TypeOK
  BY DEF VfsInv, MountMeant, TypeOK, NoAnswer
<1>1. ASSUME NEW kind \in Kinds, register_fs(kind), UNCHANGED <<mounts, meant, stale>>,
             looked' \in {looked, NoAnswer}, InitrdFirst'
      PROVE  VfsInv' /\ Stays
  <2>1. MountMeant' /\ FreeMounts' = FreeMounts
    BY <1>0, <1>1, RegisterKeeps
  <2> QED BY <1>1, <2>1, UnmovedStays DEF VfsInv
<1>2. CASE InitDevfs
  <2>1. InitrdFirst'
    BY <1>2, UnmovedStays DEF InitDevfs, VfsInv, InitrdFirst
  <2> QED BY <1>1, <1>2, <2>1 DEF InitDevfs, Kinds
<1>3. CASE RegisterInitfs
  <2>1. InitrdFirst'
    BY <1>3, UnmovedStays DEF RegisterInitfs, VfsInv, InitrdFirst
  <2> QED BY <1>1, <1>3, <2>1 DEF RegisterInitfs, Kinds
<1>4. ASSUME NEW kind \in Drivers, Register(kind) PROVE VfsInv' /\ Stays
  <2>1. InitrdFirst'
    BY <1>4, UnmovedStays DEF Register, VfsInv, InitrdFirst
  <2> QED BY <1>1, <1>4, <2>1 DEF Register, Kinds
<1>5. CASE MountDevfs
  <2>1. DevfsDir # <<>> /\ DevfsDir # Root
    BY VfsAssumption DEF Root
  <2> PICK s \in FsSlots : fs_collection[s] = "devfs" /\ mount(DevfsDir, DevfsName, s)
    BY <1>5 DEF MountDevfs
  <2>2. /\ phase = "mount_devfs" /\ phase' = "register_initfs" /\ looked' = looked
    BY <1>5 DEF MountDevfs
  <2>3. NothingMounted
    BY <2>2 DEF VfsInv, InitrdFirst
  <2>4. MountAt(Root) = {}
    <3>1. \A n \in MountSlots : mounts[n].mount_point = <<>>
      BY <2>3, FreeIsNull DEF NothingMounted, FreeMounts
    <3> QED BY <3>1 DEF MountAt, Root
  <2>5. "devfs" # NoFs
    BY DEF NoFs
  <2>6. /\ MountMeant' /\ Filled' /\ DOMAIN mounts' = MountSlots
        /\ \A n \in MountSlots \ FreeMounts' : meant'[n] # NoFs
        /\ Stays /\ ~NothingMounted' /\ MountAt(Root)' = {}
    BY <1>0, <2>1, <2>2, <2>4, <2>5, MountSteps
  <2>7. InitrdFirst'
    BY <2>2, <2>6 DEF InitrdFirst
  <2> QED BY <2>6, <2>7 DEF VfsInv
<1>6. CASE MountInitrd
  <2> PICK device : device = DevfsDir \o InitrdDevice
    OBVIOUS
  <2> PICK s \in FsSlots : fs_collection[s] = "initfs" /\ mount(Root, device, s)
    BY <1>6 DEF MountInitrd
  <2>1. phase = "mount_initrd" /\ phase' = "up" /\ looked' = looked
    BY <1>6 DEF MountInitrd
  <2>2. MountAt(Root) = {} /\ Root # <<>>
    BY <2>1 DEF VfsInv, InitrdFirst, Root
  <2>3. "initfs" # NoFs
    BY DEF NoFs
  <2>4. /\ MountMeant' /\ Filled' /\ DOMAIN mounts' = MountSlots
        /\ \A n \in MountSlots \ FreeMounts' : meant'[n] # NoFs
        /\ Stays /\ ~NothingMounted' /\ MountAt(Root)' # {}
        /\ meant[Min(MountAt(Root))]' = "initfs"
    BY <1>0, <2>1, <2>2, <2>3, MountSteps
  <2>5. InitrdFirst'
    BY <2>1, <2>4 DEF InitrdFirst
  <2> QED BY <2>4, <2>5 DEF VfsInv
<1>7. ASSUME NEW s \in FsSlots, NEW device, Mount(Root, device, s) PROVE VfsInv' /\ Stays
  <2>1. /\ phase = "up" /\ phase' = "up" /\ looked' = NoAnswer
        /\ fs_collection[s] # NoFs /\ mount(Root, device, s)
    BY <1>7 DEF Mount
  <2>2. MountAt(Root) # {} /\ meant[Min(MountAt(Root))] = "initfs" /\ Root # <<>>
    BY <2>1 DEF VfsInv, InitrdFirst, Root
  <2>3. /\ MountMeant' /\ Filled' /\ DOMAIN mounts' = MountSlots
        /\ \A n \in MountSlots \ FreeMounts' : meant'[n] # NoFs
        /\ Stays /\ ~NothingMounted' /\ MountAt(Root)' # {}
        /\ meant[Min(MountAt(Root))]' = "initfs"
    BY <1>0, <2>1, <2>2, MountSteps
  <2>4. InitrdFirst'
    BY <2>1, <2>3 DEF InitrdFirst
  <2> QED BY <2>3, <2>4 DEF VfsInv
<1>8. ASSUME NEW s \in FsSlots, unregister_fs(s) PROVE VfsInv' /\ Stays
  <2>1. /\ fs_collection' = [fs_collection EXCEPT ![s] = NoFs]
        /\ stale' = stale \cup {m \in MountSlots : mounts[m].fs = s}
        /\ looked' = NoAnswer /\ UNCHANGED <<mounts, phase, meant>>
    BY <1>8 DEF unregister_fs
  <2>2. TypeOK'
    BY <1>0, <2>1 DEF TypeOK
  <2>3. FreeMounts' = FreeMounts
    BY <2>1 DEF FreeMounts
  <2>4. \A m \in MountSlots : m \notin FreeMounts => mounts[m].fs \in FsSlots
    BY <1>0 DEF VfsInv, MountMeant, TypeOK
  <2>5. MountMeant'
    BY <1>0, <2>1, <2>2, <2>3, <2>4 DEF VfsInv, MountMeant, TypeOK
  <2>6. InitrdFirst'
    BY <2>1, UnmovedStays DEF VfsInv, InitrdFirst
  <2> QED BY <2>1, <2>3, <2>5, <2>6, UnmovedStays DEF VfsInv
<1>9. ASSUME UNCHANGED <<fs_collection, mounts, meant, stale>>, phase' \in {phase, "panic"},
             looked'.mount \in MountSlots \cup {Null}
      PROVE  VfsInv' /\ Stays
  <2>1. TypeOK' /\ FreeMounts' = FreeMounts
    BY <1>0, <1>9 DEF TypeOK, FreeMounts
  <2>2. MountMeant'
    BY <1>9, <2>1 DEF VfsInv, MountMeant
  <2>3. InitrdFirst'
    BY <1>9, UnmovedStays DEF VfsInv, InitrdFirst
  <2> QED BY <1>9, <2>1, <2>2, <2>3, UnmovedStays DEF VfsInv
<1>10. CASE Panics \/ UNCHANGED vfsVars
  BY <1>0, <1>9, <1>10 DEF Panics, vfsVars
<1>11. ASSUME NEW filename, NEW n, get_mount_point(filename, n) PROVE VfsInv' /\ Stays
  <2> PICK place : place = path_get_left(filename, n)
    OBVIOUS
  <2>1. Found(place) \in MountSlots \cup {Null}
    <3>1. MountAt(place) \in SUBSET Nat /\ MountAt(place) \subseteq MountSlots
      BY SlotsAreNumbers DEF MountAt
    <3> QED BY <3>1, MinLeast DEF Found
  <2>2. looked'.mount = Found(place) /\ UNCHANGED <<fs_collection, mounts, phase, meant, stale>>
    BY <1>11 DEF get_mount_point
  <2> QED BY <1>9, <2>1, <2>2
<1> QED
  BY <1>2, <1>3, <1>4, <1>5, <1>6, <1>7, <1>8, <1>10, <1>11 DEF Next

LEMMA InitVfs == Init => VfsInv
<1> SUFFICES ASSUME Init PROVE VfsInv
  OBVIOUS
<1>1. \A m \in MountSlots : mounts[m].mount_point = <<>> /\ mounts[m].fs = Null
  BY DEF Init, FreeMount
<1>2. FreeMounts = MountSlots /\ NothingMounted /\ DOMAIN mounts = MountSlots
  BY <1>1 DEF FreeMounts, NothingMounted, Init
<1>3. TypeOK
  BY <1>1 DEF TypeOK, Init, NoAnswer
<1> QED BY <1>1, <1>2, <1>3 DEF VfsInv, MountMeant, Filled, InitrdFirst, Init

(* In every order of registrations, mounts and removals a mount leads to   *)
(* the file system it was made with, until that one is unregistered.       *)
THEOREM Meant == Spec => []MountMeant
<1>1. VfsInv => MountMeant
  BY DEF VfsInv
<1> QED BY <1>1, InitVfs, StepVfs, PTL DEF Spec

(* What get_mount_point answers for a place with a mount never changes,    *)
(* and the initrd stays the root.                                          *)
THEOREM Stable == Spec => LookupStable
<1>1. VfsInv /\ [Next]_vfsVars =>
        /\ \A m \in {m \in MountSlots : mounts[m].fs # Null} :
             LET place == mounts[m].mount_point
             IN  Found(place)' = Found(place) /\ mounts'[m] = mounts[m]
        /\ phase' = "up" => meant'[Found(Root)'] = "initfs"
  <2> SUFFICES ASSUME VfsInv, [Next]_vfsVars
               PROVE  /\ \A m \in {m \in MountSlots : mounts[m].fs # Null} :
                           /\ Found(mounts[m].mount_point)' = Found(mounts[m].mount_point)
                           /\ mounts'[m] = mounts[m]
                      /\ phase' = "up" => meant'[Found(Root)'] = "initfs"
    OBVIOUS
  <2>1. VfsInv' /\ Stays
    BY StepVfs
  <2>2. ASSUME NEW m \in MountSlots, mounts[m].fs # Null
        PROVE  /\ Found(mounts[m].mount_point)' = Found(mounts[m].mount_point)
               /\ mounts'[m] = mounts[m]
    <3> PICK place : place = mounts[m].mount_point
      OBVIOUS
    <3>1. Found(place)' = Found(place) /\ mounts'[m] = mounts[m]
      BY <2>1, <2>2 DEF Stays
    <3>2. mounts[m].mount_point' = place
      BY <3>1
    <3> QED BY <3>1, <3>2
  <2>3. phase' = "up" => meant'[Found(Root)'] = "initfs"
    BY <2>1 DEF VfsInv, InitrdFirst, Found
  <2> QED BY <2>2, <2>3
<1>2. Init => VfsInv
  BY InitVfs
<1>3. VfsInv /\ [Next]_vfsVars => VfsInv'
  BY StepVfs
<1> QED BY <1>1, <1>2, <1>3, PTL DEF Spec, LookupStable

-----------------------------------------------------------------------------
(* The characters of names, and the slashes up to a place in a name.       *)
Chars == STRING \cup {Slash}
SlashesTo(name, m) == {i \in Slashes(name) : i <= m}

(* Numbered(name, n, at): the n slashes of a name are at[1], at[2], ... ,  *)
(* from left to right.                                                     *)
Numbered(name, n, at) ==
  /\ n \in Nat /\ Cardinality(Slashes(name)) = n
  /\ \A k \in 1 .. n : at[k] \in Slashes(name) /\ Cardinality(SlashesTo(name, at[k])) = k
  /\ \A j, k \in 1 .. n : j < k => at[j] < at[k]
  /\ \A s \in Slashes(name) : \E k \in 1 .. n : s = at[k]

LEMMA SlashesAre ==
  ASSUME NEW name \in Seq(Chars)
  PROVE  /\ Slashes(name) \subseteq 1 .. Len(name) /\ Len(name) \in Nat
         /\ IsFiniteSet(Slashes(name))
         /\ SlashesTo(name, Len(name)) = Slashes(name)
         /\ \A m \in Nat : /\ SlashesTo(name, m) \in SUBSET Slashes(name)
                           /\ IsFiniteSet(SlashesTo(name, m))
                           /\ Cardinality(SlashesTo(name, m)) \in Nat
<1>1. Slashes(name) \subseteq 1 .. Len(name) /\ Len(name) \in Nat
  BY DEF Slashes
<1>2. IsFiniteSet(1 .. Len(name))
  BY <1>1, FS_Interval
<1>3. IsFiniteSet(Slashes(name))
  BY <1>1, <1>2, FS_Subset
<1>4. ASSUME NEW m \in Nat
      PROVE  /\ SlashesTo(name, m) \in SUBSET Slashes(name)
             /\ IsFiniteSet(SlashesTo(name, m))
             /\ Cardinality(SlashesTo(name, m)) \in Nat
  <2>1. SlashesTo(name, m) \in SUBSET Slashes(name)
    BY DEF SlashesTo
  <2>2. IsFiniteSet(SlashesTo(name, m))
    BY <1>3, <2>1, FS_Subset
  <2> QED BY <2>1, <2>2, FS_CardinalityType
<1>5. SlashesTo(name, Len(name)) = Slashes(name)
  BY <1>1 DEF SlashesTo
<1> QED BY <1>1, <1>3, <1>4, <1>5

(* The number of slashes grows by one at each.                             *)
LEMMA CountGrows ==
  ASSUME NEW name \in Seq(Chars)
  PROVE  /\ Cardinality(SlashesTo(name, 0)) = 0
         /\ \A m \in 1 .. Len(name) :
              Cardinality(SlashesTo(name, m)) =
                IF m \in Slashes(name) THEN Cardinality(SlashesTo(name, m - 1)) + 1
                ELSE Cardinality(SlashesTo(name, m - 1))
         /\ \A i, j \in Nat : i < j /\ j \in Slashes(name) =>
              Cardinality(SlashesTo(name, i)) < Cardinality(SlashesTo(name, j))
<1>0. Slashes(name) \subseteq 1 .. Len(name) /\ Len(name) \in Nat
  BY SlashesAre
<1>1. Cardinality(SlashesTo(name, 0)) = 0
  <2>1. SlashesTo(name, 0) = {}
    BY <1>0 DEF SlashesTo
  <2> QED BY <2>1, FS_EmptySet
<1>2. ASSUME NEW m \in 1 .. Len(name)
      PROVE  Cardinality(SlashesTo(name, m)) =
                IF m \in Slashes(name) THEN Cardinality(SlashesTo(name, m - 1)) + 1
                ELSE Cardinality(SlashesTo(name, m - 1))
  <2>1. m - 1 \in Nat
    BY <1>0
  <2>2. IsFiniteSet(SlashesTo(name, m - 1)) /\ m \notin SlashesTo(name, m - 1)
    BY <2>1, SlashesAre DEF SlashesTo
  <2>3. CASE m \in Slashes(name)
    <3>1. SlashesTo(name, m) = SlashesTo(name, m - 1) \cup {m}
      BY <1>0, <2>3 DEF SlashesTo
    <3>2. Cardinality(SlashesTo(name, m - 1) \cup {m}) = Cardinality(SlashesTo(name, m - 1)) + 1
      BY <2>2, FS_AddElement
    <3> QED BY <2>3, <3>1, <3>2
  <2>4. CASE m \notin Slashes(name)
    <3>1. SlashesTo(name, m) = SlashesTo(name, m - 1)
      BY <1>0, <2>4 DEF SlashesTo
    <3> QED BY <2>4, <3>1
  <2> QED BY <2>3, <2>4
<1>3. ASSUME NEW i \in Nat, NEW j \in Nat, i < j, j \in Slashes(name)
      PROVE  Cardinality(SlashesTo(name, i)) < Cardinality(SlashesTo(name, j))
  <2>1. /\ SlashesTo(name, i) \in SUBSET SlashesTo(name, j)
        /\ SlashesTo(name, i) # SlashesTo(name, j)
    BY <1>0, <1>3 DEF SlashesTo
  <2>2. IsFiniteSet(SlashesTo(name, j))
    BY SlashesAre
  <2>3. /\ Cardinality(SlashesTo(name, i)) <= Cardinality(SlashesTo(name, j))
        /\ Cardinality(SlashesTo(name, i)) # Cardinality(SlashesTo(name, j))
    BY <2>1, <2>2, FS_Subset
  <2>4. /\ Cardinality(SlashesTo(name, i)) \in Nat
        /\ Cardinality(SlashesTo(name, j)) \in Nat
    BY SlashesAre
  <2> QED BY <2>3, <2>4
<1> QED BY <1>1, <1>2, <1>3

LEMMA SlashesNumbered ==
  ASSUME NEW name \in Seq(Chars)
  PROVE  \E n, at : Numbered(name, n, at)
<1> DEFINE C(m) == Cardinality(SlashesTo(name, m))
           n == Cardinality(Slashes(name))
           at == [k \in 1 .. n |-> CHOOSE s \in Slashes(name) : C(s) = k]
<1>0. /\ Slashes(name) \subseteq 1 .. Len(name) /\ Len(name) \in Nat
      /\ n \in Nat /\ C(Len(name)) = n /\ \A m \in Nat : C(m) \in Nat
  BY SlashesAre, FS_CardinalityType
<1>1. /\ C(0) = 0
      /\ \A m \in 1 .. Len(name) : C(m) = IF m \in Slashes(name) THEN C(m - 1) + 1 ELSE C(m - 1)
      /\ \A i, j \in Nat : i < j /\ j \in Slashes(name) => C(i) < C(j)
  BY CountGrows
<1> HIDE DEF C, n
<1>a. \A s \in Slashes(name) : s \in Nat /\ s - 1 \in Nat /\ s \in 1 .. Len(name)
  <2> TAKE s \in Slashes(name)
  <2>1. s \in 1 .. Len(name) /\ Len(name) \in Nat
    BY <1>0
  <2> QED BY <2>1
<1>b. n \in Nat /\ C(Len(name)) = n /\ Len(name) \in Nat /\ \A m \in Nat : C(m) \in Nat
  BY <1>0
<1>2. ASSUME NEW k \in 1 .. n PROVE at[k] \in Slashes(name) /\ C(at[k]) = k
  <2> DEFINE T == {m \in 1 .. Len(name) : C(m) >= k}
  <2>1. T \in SUBSET Nat
    OBVIOUS
  <2>2. T # {}
    <3>1. Len(name) # 0
      BY <1>b, <1>1
    <3>2. Len(name) \in 1 .. Len(name) /\ C(Len(name)) >= k
      BY <1>b, <3>1
    <3> QED BY <3>2
  <2> HIDE DEF T
  <2>3. Min(T) \in T /\ \A y \in T : Min(T) <= y
    BY <2>1, <2>2, MinLeast
  <2> PICK x \in T : \A y \in T : x <= y
    BY <2>3
  <2>4. x \in 1 .. Len(name) /\ C(x) >= k /\ x - 1 \in Nat
    BY <1>0 DEF T
  <2>5. C(x - 1) < k
    <3>1. CASE x = 1
      BY <1>1, <3>1
    <3>2. CASE x # 1
      <4>1. x - 1 \in 1 .. Len(name) /\ ~(x <= x - 1)
        BY <1>b, <2>4, <3>2
      <4>2. x - 1 \notin T
        BY <4>1
      <4>3. C(x - 1) \in Nat
        BY <1>b, <2>4
      <4> QED BY <4>1, <4>2, <4>3 DEF T
    <3> QED BY <3>1, <3>2
  <2>6. x \in Slashes(name) /\ C(x) = k
    <3>1. C(x) = IF x \in Slashes(name) THEN C(x - 1) + 1 ELSE C(x - 1)
      BY <1>1, <2>4
    <3>2. C(x) \in Nat /\ C(x - 1) \in Nat
      <4>1. x \in Nat
        BY <2>4
      <4> QED BY <1>b, <2>4, <4>1
    <3> QED BY <2>4, <2>5, <3>1, <3>2
  <2> QED BY <2>6
<1> HIDE DEF at
<1>3. ASSUME NEW i \in Slashes(name), NEW j \in Slashes(name)
      PROVE  C(i) < C(j) => i < j
  <2>1. i \in Nat /\ j \in Nat
    BY <1>a
  <2>2. j < i => C(j) < C(i)
    BY <1>1, <2>1
  <2>3. C(i) \in Nat /\ C(j) \in Nat
    BY <1>b, <2>1
  <2> QED BY <2>1, <2>2, <2>3
<1>4. \A j, k \in 1 .. n : j < k => at[j] < at[k]
  BY <1>2, <1>3
<1>5. ASSUME NEW s \in Slashes(name) PROVE \E k \in 1 .. n : s = at[k]
  <2>1. s \in Nat /\ s - 1 \in Nat /\ s \in 1 .. Len(name)
    BY <1>a
  <2>2. C(s) \in 1 .. n
    <3>1. C(s) >= 1
      <4>1. C(s) = C(s - 1) + 1
        BY <1>1, <2>1
      <4> QED BY <1>0, <2>1, <4>1
    <3>2. C(s) <= n
      <4>1. Cardinality(SlashesTo(name, s)) <= Cardinality(Slashes(name))
        BY <2>1, SlashesAre, FS_Subset
      <4> QED BY <4>1 DEF C, n
    <3> QED BY <1>0, <2>1, <3>1, <3>2
  <2>3. at[C(s)] \in Slashes(name) /\ C(at[C(s)]) = C(s)
    BY <1>2, <2>2
  <2>4. at[C(s)] \in Nat
    BY <1>a, <2>3
  <2>5. (s < at[C(s)] => C(s) < C(at[C(s)])) /\ (at[C(s)] < s => C(at[C(s)]) < C(s))
    BY <1>1, <2>1, <2>3, <2>4
  <2>6. C(s) \in Nat
    BY <1>b, <2>1
  <2>7. ~(s < at[C(s)]) /\ ~(at[C(s)] < s)
    BY <2>3, <2>5, <2>6
  <2>8. s = at[C(s)]
    BY <2>1, <2>4, <2>7
  <2> QED BY <2>2, <2>8
<1>6. Numbered(name, n, at)
  BY <1>0, <1>2, <1>4, <1>5 DEF Numbered, C, n
<1> QED BY <1>6

(* A part of a name is what lies between two slashes.                      *)
LEMMA PartIs ==
  ASSUME NEW name \in Seq(Chars), NEW n, NEW at, Numbered(name, n, at)
  PROVE  /\ path_get_part(name, 0) = <<Slash>>
         /\ \A k \in 1 .. n : k < n =>
              path_get_part(name, k) = SubSeq(name, at[k] + 1, at[k + 1] - 1)
         /\ 0 < n => path_get_part(name, n) = SubSeq(name, at[n] + 1, Len(name))
         /\ \A k \in Nat : n < k => path_get_part(name, k) = <<>>
<1>0. Slashes(name) \subseteq 1 .. Len(name) /\ Len(name) \in Nat
  BY SlashesAre
<1>1. /\ n \in Nat /\ Cardinality(Slashes(name)) = n
      /\ \A k \in 1 .. n : at[k] \in Slashes(name) /\ Cardinality(SlashesTo(name, at[k])) = k
      /\ \A j, k \in 1 .. n : j < k => at[j] < at[k]
      /\ \A s \in Slashes(name) : \E k \in 1 .. n : s = at[k]
  BY DEF Numbered
<1>2. ASSUME NEW k \in 1 .. n, NEW e, e \in {s \in Slashes(name) : s > at[k]} \cup {Len(name) + 1},
             \A s \in {s \in Slashes(name) : s > at[k]} \cup {Len(name) + 1} : e <= s
      PROVE  path_get_part(name, k) = SubSeq(name, at[k] + 1, e - 1)
  <2>1. \A s \in Slashes(name) : Cardinality({i \in Slashes(name) : i <= s}) = k <=> s = at[k]
    <3>1. ASSUME NEW j \in 1 .. n PROVE Cardinality({i \in Slashes(name) : i <= at[j]}) = j
      BY <1>1 DEF SlashesTo
    <3> QED BY <1>1, <3>1
  <2>2. (CHOOSE s \in Slashes(name) : Cardinality({i \in Slashes(name) : i <= s}) = k) = at[k]
    BY <1>1, <2>1
  <2> DEFINE E == {s \in Slashes(name) : s > at[k]} \cup {Len(name) + 1}
  <2>3. Min(E) = e
    <3>1. E \in SUBSET Nat /\ E # {}
      BY <1>0
    <3>2. e \in E /\ \A s \in E : e <= s
      BY <1>2
    <3> HIDE DEF E
    <3>3. Min(E) \in E /\ \A s \in E : Min(E) <= s
      BY <3>1, MinLeast
    <3>4. Min(E) \in Nat /\ e \in Nat /\ Min(E) <= e /\ e <= Min(E)
      BY <3>1, <3>2, <3>3
    <3> QED BY <3>4
  <2>4. k # 0 /\ ~(Cardinality(Slashes(name)) < k)
    BY <1>1
  <2> QED BY <2>2, <2>3, <2>4 DEF path_get_part
<1>3. ASSUME NEW k \in 1 .. n, k < n
      PROVE  path_get_part(name, k) = SubSeq(name, at[k] + 1, at[k + 1] - 1)
  <2>1. k + 1 \in 1 .. n
    BY <1>1, <1>3
  <2>2. at[k + 1] \in Slashes(name) /\ at[k + 1] > at[k] /\ at[k + 1] <= Len(name)
    <3>1. at[k + 1] \in 1 .. Len(name) /\ at[k] \in 1 .. Len(name) /\ at[k] < at[k + 1]
      BY <1>0, <1>1, <2>1, <1>3
    <3> QED BY <1>1, <2>1, <3>1
  <2>3. ASSUME NEW s \in Slashes(name), s > at[k] PROVE at[k + 1] <= s
    <3> PICK j \in 1 .. n : s = at[j]
      BY <1>1
    <3>1. at[j] \in 1 .. Len(name) /\ at[k] \in 1 .. Len(name) /\ at[k + 1] \in 1 .. Len(name)
      BY <1>0, <1>1, <2>1
    <3>2. ~(j < k) /\ j # k
      <4>1. j < k => at[j] < at[k]
        BY <1>1
      <4> QED BY <2>3, <3>1, <4>1
    <3>3. k + 1 < j \/ k + 1 = j
      BY <1>1, <3>2
    <3> QED BY <1>1, <2>1, <3>1, <3>3
  <2>4. at[k + 1] <= Len(name) + 1
    BY <1>0, <2>2
  <2> QED BY <1>2, <2>2, <2>3, <2>4
<1>4. ASSUME 0 < n PROVE path_get_part(name, n) = SubSeq(name, at[n] + 1, Len(name))
  <2>1. n \in 1 .. n
    BY <1>1, <1>4
  <2>2. {s \in Slashes(name) : s > at[n]} = {}
    <3> SUFFICES ASSUME NEW s \in Slashes(name), s > at[n] PROVE FALSE
      OBVIOUS
    <3> PICK j \in 1 .. n : s = at[j]
      BY <1>1
    <3>1. at[j] \in 1 .. Len(name) /\ at[n] \in 1 .. Len(name)
      BY <1>0, <1>1, <2>1
    <3>2. j < n => at[j] < at[n]
      BY <1>1, <2>1
    <3>3. j < n \/ j = n
      BY <1>1
    <3> QED BY <3>1, <3>2, <3>3
  <2>3. path_get_part(name, n) = SubSeq(name, at[n] + 1, Len(name) + 1 - 1)
    <3>1. {s \in Slashes(name) : s > at[n]} \cup {Len(name) + 1} = {Len(name) + 1}
      BY <2>2
    <3> DEFINE e == Len(name) + 1
               E == {s \in Slashes(name) : s > at[n]} \cup {e}
    <3>2. e \in E /\ \A s \in E : e <= s
      BY <1>0, <3>1
    <3>3. ASSUME NEW x, x = e PROVE path_get_part(name, n) = SubSeq(name, at[n] + 1, x - 1)
      <4>1. x \in E /\ \A s \in E : x <= s
        BY <3>2, <3>3
      <4> QED BY <1>2, <2>1, <3>3, <4>1
    <3> QED BY <3>3
  <2>4. Len(name) + 1 - 1 = Len(name)
    BY <1>0
  <2> QED BY <2>3, <2>4
<1>5. path_get_part(name, 0) = <<Slash>>
  BY DEF path_get_part
<1>6. ASSUME NEW k \in Nat, n < k PROVE path_get_part(name, k) = <<>>
  BY <1>1, <1>6 DEF path_get_part
<1> QED BY <1>3, <1>4, <1>5, <1>6

(* Of a name cut off after a number of slashes, these are the slashes.     *)
LEMMA NumberedPrefix ==
  ASSUME NEW name \in Seq(Chars), NEW n, NEW at, Numbered(name, n, at),
         NEW k \in 0 .. n, NEW m \in 0 .. Len(name),
         0 < k => at[k] <= m, k < n => m < at[k + 1]
  PROVE  /\ Numbered(SubSeq(name, 1, m), k, at)
         /\ SubSeq(name, 1, m) \in Seq(Chars) /\ Len(SubSeq(name, 1, m)) = m
         /\ \A i \in 1 .. m : SubSeq(name, 1, m)[i] = name[i]
<1> DEFINE cut == SubSeq(name, 1, m)
<1>0. Slashes(name) \subseteq 1 .. Len(name) /\ Len(name) \in Nat
  BY SlashesAre
<1>1. /\ n \in Nat /\ Cardinality(Slashes(name)) = n
      /\ \A j \in 1 .. n : at[j] \in Slashes(name) /\ Cardinality(SlashesTo(name, at[j])) = j
      /\ \A i, j \in 1 .. n : i < j => at[i] < at[j]
      /\ \A s \in Slashes(name) : \E j \in 1 .. n : s = at[j]
  BY DEF Numbered
<1>2. cut \in Seq(Chars) /\ Len(cut) = m /\ \A i \in 1 .. m : cut[i] = name[i]
  <2>1. m \in Nat /\ m <= Len(name)
    BY <1>0
  <2>2. /\ \A i \in 1 .. m : name[i] \in Chars
    BY <2>1
  <2> QED BY <1>0, <2>1, <2>2
<1> HIDE DEF cut
<1>3. Slashes(cut) = SlashesTo(name, m)
  <2>1. \A i : i \in Slashes(cut) <=> i \in 1 .. m /\ cut[i] = Slash
    BY <1>2 DEF Slashes
  <2>2. \A i : i \in SlashesTo(name, m) <=> i \in 1 .. m /\ name[i] = Slash
    BY <1>0 DEF SlashesTo, Slashes
  <2> QED BY <1>2, <2>1, <2>2
<1>4. \A j \in 1 .. n : at[j] \in 1 .. Len(name)
  BY <1>0, <1>1
<1>5. ASSUME NEW j \in 1 .. n PROVE at[j] <= m <=> j <= k
  <2>1. ASSUME j <= k PROVE at[j] <= m
    <3>1. k \in 1 .. n /\ 0 < k
      BY <1>1, <2>1
    <3>2. j = k \/ at[j] < at[k]
      BY <1>1, <2>1, <3>1
    <3>3. at[j] \in 1 .. Len(name) /\ at[k] \in 1 .. Len(name) /\ at[k] <= m
      BY <1>4, <3>1
    <3> QED BY <3>2, <3>3
  <2>2. ASSUME ~(j <= k) PROVE ~(at[j] <= m)
    <3>1. k + 1 \in 1 .. n /\ k < n
      BY <1>1, <2>2
    <3>2. j = k + 1 \/ at[k + 1] < at[j]
      BY <1>1, <2>2, <3>1
    <3>3. at[j] \in 1 .. Len(name) /\ at[k + 1] \in 1 .. Len(name) /\ m < at[k + 1]
      BY <1>4, <3>1
    <3> QED BY <3>2, <3>3
  <2> QED BY <2>1, <2>2
<1>6. ASSUME NEW j \in 1 .. k
      PROVE  at[j] \in Slashes(cut) /\ Cardinality(SlashesTo(cut, at[j])) = j
  <2>1. j \in 1 .. n /\ j <= k
    BY <1>1
  <2>2. at[j] \in Slashes(name) /\ at[j] <= m /\ at[j] \in 1 .. Len(name)
    BY <1>1, <1>4, <1>5, <2>1
  <2>3. SlashesTo(cut, at[j]) = SlashesTo(name, at[j])
    <3>1. \A i \in Slashes(name) : i <= at[j] => i <= m
      BY <1>0, <2>2
    <3> QED BY <1>3, <3>1 DEF SlashesTo
  <2> QED BY <1>1, <1>3, <2>1, <2>2, <2>3 DEF SlashesTo
<1>7. Cardinality(Slashes(cut)) = k
  <2>1. CASE k = 0
    <3>1. Slashes(cut) = {}
      <4> SUFFICES ASSUME NEW s \in SlashesTo(name, m) PROVE FALSE
        BY <1>3
      <4>1. s \in Slashes(name) /\ s <= m
        BY DEF SlashesTo
      <4> PICK j \in 1 .. n : s = at[j]
        BY <1>1, <4>1
      <4> QED BY <1>5, <2>1, <4>1
    <3> QED BY <2>1, <3>1, FS_EmptySet
  <2>2. CASE k # 0
    <3>1. k \in 1 .. n /\ k \in 1 .. k
      BY <1>1, <2>2
    <3>2. SlashesTo(name, at[k]) = SlashesTo(name, m)
      <4>1. ASSUME NEW s \in Slashes(name) PROVE s <= at[k] <=> s <= m
        <5> PICK j \in 1 .. n : s = at[j]
          BY <1>1
        <5>1. at[j] <= m <=> j <= k
          BY <1>5
        <5>2. (j < k => at[j] < at[k]) /\ (k < j => at[k] < at[j])
          BY <1>1, <3>1
        <5>3. at[j] \in 1 .. Len(name) /\ at[k] \in 1 .. Len(name)
          BY <1>4, <3>1
        <5>4. at[j] <= at[k] <=> j <= k
          BY <1>1, <3>1, <5>2, <5>3
        <5> QED BY <5>1, <5>4
      <4> QED BY <4>1 DEF SlashesTo
    <3> QED BY <1>1, <1>3, <3>1, <3>2
  <2> QED BY <2>1, <2>2
<1>8. ASSUME NEW s \in Slashes(cut) PROVE \E j \in 1 .. k : s = at[j]
  <2>1. s \in Slashes(name) /\ s <= m
    BY <1>3 DEF SlashesTo
  <2> PICK j \in 1 .. n : s = at[j]
    BY <1>1, <2>1
  <2>2. j <= k
    BY <1>5, <2>1
  <2>3. j \in 1 .. k
    BY <2>2
  <2> QED BY <2>3
<1>9. \A i, j \in 1 .. k : i < j => at[i] < at[j]
  <2>1. \A j \in 1 .. k : j \in 1 .. n
    BY <1>1
  <2> QED BY <1>1, <2>1
<1>10. k \in Nat
  BY <1>1
<1>11. Numbered(cut, k, at)
  BY <1>6, <1>7, <1>8, <1>9, <1>10 DEF Numbered
<1> QED BY <1>2, <1>11 DEF cut


-----------------------------------------------------------------------------
(* A name that begins and ends with a slash, of parts that are not empty.  *)
Framed(name, c, at) ==
  /\ name \in Seq(Chars) /\ c \in Nat /\ Numbered(name, c + 1, at)
  /\ at[1] = 1 /\ at[c + 1] = Len(name)
  /\ \A i \in 1 .. c : at[i] + 1 < at[i + 1]
Piece(name, at, i) == SubSeq(name, at[i] + 1, at[i + 1] - 1)
Pieces(name, at, k) == [i \in 1 .. k |-> Piece(name, at, i)]
Upto(name, at, k) == SubSeq(name, 1, at[k + 1])
Stem(name, at, k) == IF k = 0 THEN <<Slash>> ELSE SubSeq(name, 1, at[k + 1] - 1)

LEMMA SubSeqIs ==
  ASSUME NEW s \in Seq(Chars), NEW a \in Nat \ {0}, NEW b \in Nat, b <= Len(s), a <= b + 1
  PROVE  /\ SubSeq(s, a, b) \in Seq(Chars) /\ Len(SubSeq(s, a, b)) = b - a + 1
         /\ \A i \in 1 .. b - a + 1 : SubSeq(s, a, b)[i] = s[i + a - 1]
<1>1. Len(s) \in Nat
  OBVIOUS
<1>2. \A i \in 1 .. b - a + 1 : i + a - 1 \in 1 .. Len(s)
  BY <1>1
<1>3. \A i \in 1 .. b - a + 1 : s[i + a - 1] \in Chars
  BY <1>2
<1> QED BY <1>1, <1>2, <1>3

LEMMA CutIs ==
  ASSUME NEW s \in Seq(Chars), NEW m \in Nat, m <= Len(s)
  PROVE  /\ SubSeq(s, 1, m) \in Seq(Chars) /\ Len(SubSeq(s, 1, m)) = m
         /\ \A i \in 1 .. m : SubSeq(s, 1, m)[i] = s[i]
         /\ m = Len(s) => SubSeq(s, 1, m) = s
<1> DEFINE u == SubSeq(s, 1, m)
<1>1. 1 \in Nat \ {0} /\ 1 <= m + 1 /\ m - 1 + 1 = m /\ \A i \in 1 .. m : i + 1 - 1 = i
  OBVIOUS
<1>2. /\ u \in Seq(Chars) /\ Len(u) = m - 1 + 1
      /\ \A i \in 1 .. m - 1 + 1 : u[i] = s[i + 1 - 1]
  BY <1>1, SubSeqIs
<1> HIDE DEF u
<1>3. u \in Seq(Chars) /\ Len(u) = m /\ \A i \in 1 .. m : u[i] = s[i]
  BY <1>1, <1>2
<1>4. ASSUME m = Len(s) PROVE u = s
  <2>1. Len(u) = Len(s) /\ \A i \in 1 .. Len(u) : u[i] = s[i]
    BY <1>3, <1>4
  <2> QED BY <1>3, <2>1
<1> QED BY <1>3, <1>4 DEF u

LEMMA ConcatIs ==
  ASSUME NEW s \in Seq(Chars), NEW t \in Seq(Chars)
  PROVE  /\ s \o t \in Seq(Chars) /\ Len(s \o t) = Len(s) + Len(t)
         /\ \A i \in 1 .. Len(s) : (s \o t)[i] = s[i]
         /\ \A i \in 1 .. Len(t) : (s \o t)[Len(s) + i] = t[i]
<1>1. Len(s) \in Nat /\ Len(t) \in Nat
  OBVIOUS
<1>2. \A i \in 1 .. Len(s) + Len(t) : (s \o t)[i] = IF i <= Len(s) THEN s[i] ELSE t[i - Len(s)]
  OBVIOUS
<1>3. \A i \in 1 .. Len(s) : i \in 1 .. Len(s) + Len(t) /\ i <= Len(s)
  BY <1>1
<1>4. \A i \in 1 .. Len(t) :
        Len(s) + i \in 1 .. Len(s) + Len(t) /\ ~(Len(s) + i <= Len(s)) /\ Len(s) + i - Len(s) = i
  BY <1>1
<1>5. s \o t \in Seq(Chars) /\ Len(s \o t) = Len(s) + Len(t)
  OBVIOUS
<1> QED BY <1>2, <1>3, <1>4, <1>5

LEMMA SubSeqTwice ==
  ASSUME NEW s \in Seq(Chars), NEW m \in Nat, m <= Len(s),
         NEW a \in Nat \ {0}, NEW b \in Nat, b <= m, a <= b + 1
  PROVE  SubSeq(SubSeq(s, 1, m), a, b) = SubSeq(s, a, b)
<1> DEFINE cut == SubSeq(s, 1, m)
           u == SubSeq(cut, a, b)
           v == SubSeq(s, a, b)
<1>0. Len(s) \in Nat /\ b <= Len(s)
  OBVIOUS
<1>1. cut \in Seq(Chars) /\ Len(cut) = m /\ \A i \in 1 .. m : cut[i] = s[i]
  BY CutIs
<1> HIDE DEF cut
<1>2. /\ u \in Seq(Chars) /\ Len(u) = b - a + 1
      /\ \A i \in 1 .. b - a + 1 : u[i] = cut[i + a - 1]
  BY <1>1, SubSeqIs
<1>3. /\ v \in Seq(Chars) /\ Len(v) = b - a + 1
      /\ \A i \in 1 .. b - a + 1 : v[i] = s[i + a - 1]
  BY <1>0, SubSeqIs
<1> HIDE DEF u, v
<1>4. \A i \in 1 .. b - a + 1 : i + a - 1 \in 1 .. m
  OBVIOUS
<1>5. \A i \in 1 .. Len(u) : u[i] = v[i]
  BY <1>1, <1>2, <1>3, <1>4
<1>6. u = v
  BY <1>2, <1>3, <1>5
<1> QED BY <1>6 DEF u, v, cut

LEMMA FramedIs ==
  ASSUME NEW name, NEW c, NEW at, Framed(name, c, at)
  PROVE  /\ Len(name) \in Nat /\ c + 1 <= Len(name)
         /\ \A i \in 1 .. c + 1 : /\ at[i] \in Nat /\ 1 <= at[i] /\ at[i] <= Len(name)
                                  /\ name[at[i]] = Slash
         /\ \A i \in 1 .. c : at[i] + 1 < at[i + 1]
         /\ \A i \in 0 .. c : at[i + 1] \in Nat /\ 1 <= at[i + 1] /\ at[i + 1] <= Len(name)
<1>0. name \in Seq(Chars) /\ c \in Nat /\ Numbered(name, c + 1, at)
  BY DEF Framed
<1>1. Slashes(name) \subseteq 1 .. Len(name) /\ Len(name) \in Nat
  BY <1>0, SlashesAre
<1>2. ASSUME NEW i \in 1 .. c + 1
      PROVE  at[i] \in Nat /\ 1 <= at[i] /\ at[i] <= Len(name) /\ name[at[i]] = Slash
  <2>1. at[i] \in Slashes(name)
    BY <1>0 DEF Numbered
  <2>2. at[i] \in 1 .. Len(name)
    BY <1>1, <2>1
  <2> QED BY <1>1, <2>1, <2>2 DEF Slashes
<1>3. c + 1 <= Len(name)
  <2>1. IsFiniteSet(1 .. Len(name)) /\ Cardinality(1 .. Len(name)) = Len(name)
    <3>1. Cardinality(1 .. Len(name)) = IF 1 > Len(name) THEN 0 ELSE Len(name) - 1 + 1
      BY <1>1, FS_Interval
    <3>2. IsFiniteSet(1 .. Len(name))
      BY <1>1, FS_Interval
    <3> QED BY <1>1, <3>1, <3>2
  <2>2. Cardinality(Slashes(name)) <= Cardinality(1 .. Len(name))
    BY <1>1, <2>1, FS_Subset
  <2>3. Cardinality(Slashes(name)) = c + 1
    BY <1>0 DEF Numbered
  <2> QED BY <2>1, <2>2, <2>3
<1>4. \A i \in 0 .. c : i + 1 \in 1 .. c + 1
  BY <1>0
<1>5. \A i \in 1 .. c : at[i] + 1 < at[i + 1]
  BY DEF Framed
<1> QED BY <1>1, <1>2, <1>3, <1>4, <1>5

LEMMA UptoIs ==
  ASSUME NEW name, NEW c, NEW at, Framed(name, c, at), NEW k \in 0 .. c
  PROVE  /\ Framed(Upto(name, at, k), k, at)
         /\ Len(Upto(name, at, k)) = at[k + 1]
         /\ Pieces(Upto(name, at, k), at, k) = Pieces(name, at, k)
<1> DEFINE m == at[k + 1]
<1>0. name \in Seq(Chars) /\ c \in Nat /\ Numbered(name, c + 1, at) /\ at[1] = 1
  BY DEF Framed
<1>1. /\ Len(name) \in Nat /\ m \in Nat /\ 1 <= m /\ m <= Len(name)
      /\ \A i \in 1 .. c : at[i] + 1 < at[i + 1]
      /\ \A i \in 1 .. c + 1 : at[i] \in Nat /\ 1 <= at[i] /\ at[i] <= Len(name)
  BY FramedIs
<1>2. /\ k + 1 \in 0 .. c + 1 /\ m \in 0 .. Len(name)
      /\ k + 1 < c + 1 => m < at[k + 1 + 1]
  <2>1. k + 1 < c + 1 => k + 1 \in 1 .. c
    BY <1>0
  <2>2. k + 1 < c + 1 => at[k + 1] + 1 < at[k + 1 + 1] /\ at[k + 1 + 1] \in Nat
    <3> HAVE k + 1 < c + 1
    <3>1. k + 1 + 1 \in 1 .. c + 1
      BY <1>0
    <3> QED BY <1>1, <2>1, <3>1
  <2> QED BY <1>0, <1>1, <2>2
<1>3. /\ Numbered(Upto(name, at, k), k + 1, at)
      /\ Upto(name, at, k) \in Seq(Chars) /\ Len(Upto(name, at, k)) = m
  <2>1. m <= m
    BY <1>1
  <2> HIDE DEF m
  <2>2. 0 < k + 1 => at[k + 1] <= m
    BY <2>1 DEF m
  <2>3. /\ Numbered(SubSeq(name, 1, m), k + 1, at)
        /\ SubSeq(name, 1, m) \in Seq(Chars) /\ Len(SubSeq(name, 1, m)) = m
    BY <1>0, <1>2, <2>2, NumberedPrefix
  <2> QED BY <2>3 DEF Upto, m
<1>4. \A i \in 1 .. k : at[i] + 1 < at[i + 1] /\ i \in 1 .. c
  BY <1>0, <1>1
<1>5. Framed(Upto(name, at, k), k, at)
  BY <1>0, <1>3, <1>4 DEF Framed
<1>6. ASSUME NEW i \in 1 .. k PROVE Piece(Upto(name, at, k), at, i) = Piece(name, at, i)
  <2>1. i \in 1 .. c /\ i \in 1 .. c + 1 /\ i + 1 \in 1 .. c + 1
    BY <1>0
  <2>2. at[i] \in Nat /\ at[i + 1] \in Nat /\ at[i] + 1 < at[i + 1]
    BY <1>1, <2>1
  <2>3. at[i + 1] <= m
    <3>1. i + 1 \in 1 .. k + 1
      BY <1>0
    <3>2. /\ Len(Upto(name, at, k)) = m
          /\ at[i + 1] <= Len(Upto(name, at, k))
      BY <1>3, <1>5, <3>1, FramedIs
    <3> QED BY <3>2
  <2> DEFINE a == at[i] + 1
             b == at[i + 1] - 1
  <2>4. a \in Nat \ {0} /\ b \in Nat /\ b <= m /\ a <= b + 1
    BY <1>1, <2>2, <2>3
  <2> HIDE DEF a, b, m
  <2>5. SubSeq(SubSeq(name, 1, m), a, b) = SubSeq(name, a, b)
    BY <1>0, <1>1, <2>4, SubSeqTwice
  <2> QED BY <2>5 DEF Piece, Upto, a, b, m
<1>7. Pieces(Upto(name, at, k), at, k) = Pieces(name, at, k)
  BY <1>6 DEF Pieces
<1> QED BY <1>3, <1>5, <1>7


(* Closed by a slash or not, a name has these parts, and the slash makes   *)
(* no other difference.                                                    *)
LEMMA FramedParts ==
  ASSUME NEW name, NEW c, NEW at, Framed(name, c, at), NEW m \in Nat \ {0},
         m = Len(name) \/ m = Len(name) - 1
  PROVE  /\ PartsOf(SubSeq(name, 1, m)) = Pieces(name, at, c)
         /\ path_count_parts(SubSeq(name, 1, m)) = c
         /\ add_slash(SubSeq(name, 1, m)) = name
<1> DEFINE cut == SubSeq(name, 1, m)
           body == SubSeq(name, 1, Len(name) - 1)
<1>0. name \in Seq(Chars) /\ c \in Nat /\ Numbered(name, c + 1, at) /\ at[1] = 1 /\ at[c + 1] = Len(name)
  BY DEF Framed
<1>1. /\ Len(name) \in Nat /\ c + 1 <= Len(name)
      /\ \A i \in 1 .. c : at[i] + 1 < at[i + 1]
      /\ \A i \in 1 .. c + 1 : at[i] \in Nat /\ 1 <= at[i] /\ at[i] <= Len(name) /\ name[at[i]] = Slash
  BY FramedIs
<1>2. c + 1 \in 1 .. c + 1 /\ name[Len(name)] = Slash /\ m <= Len(name)
      /\ (0 < c => c \in 1 .. c /\ c \in 1 .. c + 1 /\ at[c] + 1 < Len(name) /\ at[c] \in Nat)
  <2>1. c + 1 \in 1 .. c + 1 /\ (0 < c => c \in 1 .. c /\ c \in 1 .. c + 1)
    BY <1>0
  <2> QED BY <1>0, <1>1, <2>1
<1>3. Len(name) - 1 \in 0 .. Len(name) /\ Len(name) - 1 \in Nat
  BY <1>0, <1>1
<1>4. /\ Numbered(body, c, at) /\ body \in Seq(Chars) /\ Len(body) = Len(name) - 1
      /\ \A i \in 1 .. Len(name) - 1 : body[i] = name[i]
  <2>1. c \in 0 .. c + 1 /\ (0 < c => at[c] <= Len(name) - 1)
        /\ (c < c + 1 => Len(name) - 1 < at[c + 1])
    BY <1>0, <1>1, <1>2
  <2> DEFINE l == Len(name) - 1
  <2>2. /\ l \in 0 .. Len(name) /\ c \in 0 .. c + 1
        /\ 0 < c => at[c] <= l
        /\ c < c + 1 => l < at[c + 1]
    BY <1>3, <2>1
  <2> HIDE DEF l
  <2>3. /\ Numbered(SubSeq(name, 1, l), c, at)
        /\ SubSeq(name, 1, l) \in Seq(Chars) /\ Len(SubSeq(name, 1, l)) = l
        /\ \A i \in 1 .. l : SubSeq(name, 1, l)[i] = name[i]
    BY <1>0, <2>2, NumberedPrefix
  <2> QED BY <2>3 DEF l
<1>5. SubSeq(name, 1, Len(name)) = name
  BY <1>0, <1>1, CutIs
<1>6. cut = IF m = Len(name) THEN name ELSE body
  BY <1>5
<1>7. ASSUME NEW i \in 1 .. c
      PROVE  /\ at[i] + 1 \in Nat \ {0} /\ at[i + 1] - 1 \in Nat
             /\ at[i + 1] - 1 <= Len(name) - 1 /\ at[i] + 1 <= at[i + 1] - 1
  <2>1. i \in 1 .. c + 1 /\ i + 1 \in 1 .. c + 1
    BY <1>0
  <2>2. at[i] \in Nat /\ at[i + 1] \in Nat /\ at[i + 1] <= Len(name) /\ at[i] + 1 < at[i + 1]
    BY <1>1, <2>1
  <2> QED BY <1>1, <2>2
<1>8. ASSUME NEW i \in 1 .. c
      PROVE  Piece(name, at, i) # <<>> /\ SubSeq(body, at[i] + 1, at[i + 1] - 1) = Piece(name, at, i)
  <2> DEFINE a == at[i] + 1
             b == at[i + 1] - 1
  <2>1. a \in Nat \ {0} /\ b \in Nat /\ b <= Len(name) - 1 /\ a <= b
    BY <1>7
  <2> HIDE DEF a, b
  <2>2. SubSeq(SubSeq(name, 1, Len(name) - 1), a, b) = SubSeq(name, a, b)
    BY <1>0, <1>1, <1>3, <2>1, SubSeqTwice
  <2>3. Len(SubSeq(name, a, b)) = b - a + 1
    BY <1>0, <1>1, <2>1, SubSeqIs
  <2>4. Len(SubSeq(name, a, b)) # 0
    BY <2>1, <2>3
  <2>5. SubSeq(name, a, b) # <<>>
    <3> DEFINE u == SubSeq(name, a, b)
    <3>1. Len(u) # 0
      BY <2>4
    <3> HIDE DEF u
    <3>2. u # <<>>
      BY <3>1
    <3> QED BY <3>2 DEF u
  <2> QED BY <2>2, <2>5 DEF Piece, a, b
<1>9. /\ \A i \in 1 .. c : path_get_part(cut, i) = Piece(name, at, i)
      /\ path_get_part(cut, c + 1) = <<>>
  <2>1. CASE m = Len(name)
    <3>1. c + 1 \in Nat /\ (\A i \in 1 .. c : i \in 1 .. c + 1 /\ i < c + 1) /\ 0 < c + 1
      BY <1>0
    <3>2. /\ \A i \in 1 .. c + 1 : i < c + 1 =>
               path_get_part(name, i) = SubSeq(name, at[i] + 1, at[i + 1] - 1)
          /\ path_get_part(name, c + 1) = SubSeq(name, at[c + 1] + 1, Len(name))
      BY <1>0, <3>1, PartIs
    <3>3. SubSeq(name, Len(name) + 1, Len(name)) = <<>>
      <4> DEFINE u == SubSeq(name, Len(name) + 1, Len(name))
      <4>1. u \in Seq(Chars) /\ Len(u) = 0
        <5>1. /\ Len(name) + 1 \in Nat \ {0} /\ Len(name) \in Nat /\ Len(name) <= Len(name)
              /\ Len(name) + 1 <= Len(name) + 1 /\ Len(name) - (Len(name) + 1) + 1 = 0
          BY <1>1
        <5>2. u \in Seq(Chars) /\ Len(u) = Len(name) - (Len(name) + 1) + 1
          BY <1>0, <5>1, SubSeqIs
        <5> QED BY <5>1, <5>2
      <4> HIDE DEF u
      <4>2. u = <<>>
        BY <4>1
      <4> QED BY <4>2 DEF u
    <3> QED BY <1>0, <1>6, <2>1, <3>1, <3>2, <3>3 DEF Piece
  <2>2. CASE m # Len(name)
    <3>1. /\ \A i \in 1 .. c : i < c =>
               path_get_part(body, i) = SubSeq(body, at[i] + 1, at[i + 1] - 1)
          /\ 0 < c => path_get_part(body, c) = SubSeq(body, at[c] + 1, Len(body))
          /\ path_get_part(body, c + 1) = <<>>
      <4>1. c + 1 \in Nat /\ c < c + 1
        BY <1>0
      <4> HIDE DEF body
      <4>2. /\ \A i \in 1 .. c : i < c =>
                 path_get_part(body, i) = SubSeq(body, at[i] + 1, at[i + 1] - 1)
            /\ 0 < c => path_get_part(body, c) = SubSeq(body, at[c] + 1, Len(body))
            /\ \A k \in Nat : c < k => path_get_part(body, k) = <<>>
        BY <1>4, PartIs
      <4> QED BY <4>1, <4>2
    <3>2. Len(body) = at[c + 1] - 1
      BY <1>0, <1>4
    <3>3. ASSUME NEW i \in 1 .. c PROVE i < c \/ (i = c /\ 0 < c)
      BY <1>0
    <3> HIDE DEF body
    <3>4. \A i \in 1 .. c : path_get_part(body, i) = SubSeq(body, at[i] + 1, at[i + 1] - 1)
      BY <3>1, <3>2, <3>3
    <3> QED BY <1>6, <1>8, <2>2, <3>1, <3>4
  <2> QED BY <2>1, <2>2
<1>10. Len(cut) = m /\ cut \in Seq(Chars)
  BY <1>0, <1>1, <1>4, <1>6
<1> HIDE DEF cut
<1>11. PartsOf(cut) = Pieces(name, at, c)
  <2> DEFINE E == {i \in 0 .. Len(cut) : path_get_part(cut, i + 1) = <<>>}
  <2>1. E \in SUBSET Nat
    BY <1>10
  <2>2. c \in E
    BY <1>0, <1>1, <1>9, <1>10
  <2>3. ASSUME NEW i \in E, i < c PROVE FALSE
    <3>1. i + 1 \in 1 .. c
      BY <1>0, <2>1, <2>3
    <3> QED BY <1>8, <1>9, <3>1
  <2> HIDE DEF E
  <2>4. Min(E) \in E /\ \A i \in E : Min(E) <= i
    BY <2>1, <2>2, MinLeast
  <2>5. Min(E) \in Nat /\ Min(E) <= c /\ ~(Min(E) < c)
    BY <2>1, <2>2, <2>3, <2>4
  <2>6. Min(E) = c
    BY <1>0, <2>5
  <2> QED BY <1>9, <2>6 DEF PartsOf, Pieces, E
<1>12. ASSUME m # Len(name) PROVE Last(body) # Slash /\ Last(body) = body[Len(name) - 1]
  <2>1. 0 < c /\ Len(name) - 1 = m
    <3>1. Len(name) - 1 = m
      BY <1>12
    <3>2. CASE c = 0
      <4>1. c + 1 = 1 /\ Len(name) = at[c + 1] /\ at[1] = 1
        BY <1>0, <3>2
      <4> QED BY <3>1, <4>1
    <3>3. CASE c # 0
      BY <1>0, <3>1, <3>3
    <3> QED BY <3>2, <3>3
  <2>2. Last(body) = body[Len(name) - 1]
    BY <1>4 DEF Last
  <2>3. ASSUME body[Len(name) - 1] = Slash PROVE FALSE
    <3>1. Len(name) - 1 \in Slashes(body)
      BY <1>4, <2>1, <2>3 DEF Slashes
    <3> PICK j \in 1 .. c : Len(name) - 1 = at[j]
      BY <1>4, <3>1 DEF Numbered
    <3>2. j \in 1 .. c + 1 /\ (j = c \/ j < c)
      BY <1>0
    <3>3. j < c => at[j] < at[c]
      BY <1>2, <1>4, <2>1 DEF Numbered
    <3> QED BY <1>1, <1>2, <2>1, <3>2, <3>3
  <2> QED BY <2>2, <2>3
<1>13. remove_slash(cut) = body
  <2>1. CASE m = Len(name)
    <3>1. Last(name) = Slash /\ Front(name) = body
      BY <1>2 DEF Last, Front
    <3> QED BY <1>6, <2>1, <3>1 DEF remove_slash
  <2>2. CASE m # Len(name)
    BY <1>6, <1>12, <2>2 DEF remove_slash
  <2> QED BY <2>1, <2>2
<1>14. path_count_parts(cut) = c
  BY <1>4, <1>13 DEF path_count_parts, Numbered
<1>15. add_slash(cut) = name
  <2>1. CASE m = Len(name)
    <3>1. Last(name) = Slash
      BY <1>2 DEF Last
    <3> QED BY <1>6, <2>1, <3>1 DEF add_slash
  <2>2. CASE m # Len(name)
    <3>1. add_slash(cut) = Append(body, Slash)
      BY <1>6, <1>12, <2>2 DEF add_slash
    <3> HIDE DEF body
    <3>2. Slash \in Chars
      BY DEF Chars
    <3> DEFINE u == Append(body, Slash)
    <3>3. u \in Seq(Chars) /\ Len(u) = Len(name) /\ u[Len(name)] = Slash
          /\ \A i \in 1 .. Len(name) - 1 : u[i] = body[i]
      BY <1>1, <1>3, <1>4, <3>2
    <3> HIDE DEF u
    <3>4. \A i \in 1 .. Len(u) : u[i] = name[i]
      <4> TAKE i \in 1 .. Len(u)
      <4>1. i = Len(name) \/ i \in 1 .. Len(name) - 1
        BY <1>1, <3>3
      <4> QED BY <1>2, <1>4, <3>3, <4>1
    <3>5. u = name
      BY <1>0, <3>3, <3>4
    <3> QED BY <3>1, <3>5 DEF u
  <2> QED BY <2>1, <2>2
<1> QED BY <1>11, <1>14, <1>15 DEF cut


(* The first parts of a name, with the slash behind them and without.      *)
LEMMA StemIs ==
  ASSUME NEW name, NEW c, NEW at, Framed(name, c, at), NEW k \in 0 .. c
  PROVE  /\ PartsOf(Stem(name, at, k)) = Pieces(name, at, k)
         /\ add_slash(Stem(name, at, k)) = Upto(name, at, k)
         /\ (Upto(name, at, k) = <<Slash>>) <=> k = 0
         /\ 0 < k => Front(Upto(name, at, k)) = Stem(name, at, k)
         /\ 0 < k => Stem(name, at, k) = Upto(name, at, k - 1) \o Piece(name, at, k)
         /\ Stem(name, at, k) \in Seq(Chars)
<1> DEFINE up == Upto(name, at, k)
           m == at[k + 1]
<1>0. name \in Seq(Chars) /\ c \in Nat /\ at[1] = 1 /\ k \in Nat /\ k <= c
  BY DEF Framed
<1>1. /\ Len(name) \in Nat
      /\ \A i \in 1 .. c : at[i] + 1 < at[i + 1]
      /\ \A i \in 1 .. c + 1 : at[i] \in Nat /\ 1 <= at[i] /\ at[i] <= Len(name) /\ name[at[i]] = Slash
  BY FramedIs
<1>2. /\ Framed(up, k, at) /\ Len(up) = m /\ Pieces(up, at, k) = Pieces(name, at, k)
      /\ up \in Seq(Chars)
  BY UptoIs DEF Framed
<1>3. m \in Nat /\ 1 <= m /\ m <= Len(name) /\ name[1] = Slash
  <2>1. k + 1 \in 1 .. c + 1 /\ 1 \in 1 .. c + 1
    BY <1>0
  <2> QED BY <1>0, <1>1, <2>1
<1>4. 0 < k => at[k] \in Nat /\ 1 <= at[k] /\ at[k] + 1 < m
  <2> HAVE 0 < k
  <2>1. k \in 1 .. c + 1 /\ k \in 1 .. c
    BY <1>0
  <2> QED BY <1>1, <2>1
<1>5. CASE k = 0
  <2>1. m = 1
    BY <1>0, <1>5
  <2>2. up = <<Slash>>
    <3>1. SubSeq(name, 1, 1) \in Seq(Chars) /\ Len(SubSeq(name, 1, 1)) = 1
          /\ SubSeq(name, 1, 1)[1] = name[1]
      <4>1. 1 \in Nat /\ 1 <= Len(name) /\ 1 \in 1 .. 1
        BY <1>3, <2>1
      <4> QED BY <1>0, <4>1, CutIs
    <3> DEFINE u == SubSeq(name, 1, 1)
    <3>2. u \in Seq(Chars) /\ Len(u) = 1 /\ u[1] = Slash
      BY <1>3, <3>1
    <3> HIDE DEF u
    <3>3. u = <<Slash>>
      BY <3>2
    <3> QED BY <2>1, <3>3 DEF Upto, u
  <2>3. SubSeq(up, 1, 1) = up /\ Stem(name, at, k) = up
    BY <1>5, <2>2 DEF Stem
  <2>4. PartsOf(SubSeq(up, 1, 1)) = Pieces(up, at, k) /\ add_slash(SubSeq(up, 1, 1)) = up
    <3>1. 1 \in Nat \ {0} /\ 1 = Len(up)
      BY <1>2, <2>1
    <3> HIDE DEF up
    <3> QED BY <1>2, <3>1, FramedParts
  <2>5. ~(0 < k) /\ up \in Seq(Chars)
    BY <1>2, <1>5
  <2> HIDE DEF up
  <2>6. /\ PartsOf(Stem(name, at, k)) = Pieces(name, at, k)
        /\ add_slash(Stem(name, at, k)) = up
        /\ Stem(name, at, k) \in Seq(Chars)
    BY <1>2, <2>3, <2>4, <2>5
  <2> QED BY <1>5, <2>2, <2>5, <2>6 DEF up
<1>6. CASE k # 0
  <2>1. 0 < k /\ m - 1 \in Nat \ {0} /\ m - 1 <= m /\ m # 1
    BY <1>0, <1>3, <1>4, <1>6
  <2>2. Stem(name, at, k) = SubSeq(name, 1, m - 1)
    BY <1>6 DEF Stem
  <2>3. SubSeq(up, 1, m - 1) = SubSeq(name, 1, m - 1)
    <3>1. 1 \in Nat \ {0} /\ 1 <= m - 1 + 1 /\ m - 1 \in Nat
      BY <1>3
    <3> HIDE DEF m
    <3>2. SubSeq(SubSeq(name, 1, m), 1, m - 1) = SubSeq(name, 1, m - 1)
      BY <1>0, <1>3, <2>1, <3>1, SubSeqTwice
    <3> QED BY <3>2 DEF Upto, m
  <2>4. PartsOf(SubSeq(up, 1, m - 1)) = Pieces(up, at, k) /\ add_slash(SubSeq(up, 1, m - 1)) = up
    <3>1. m - 1 \in Nat \ {0} /\ m - 1 = Len(up) - 1
      BY <1>2, <2>1
    <3> HIDE DEF up, m
    <3> QED BY <1>2, <3>1, FramedParts
  <2>5. up # <<Slash>>
    <3>1. Len(up) # 1
      BY <1>2, <2>1
    <3> HIDE DEF up
    <3> QED BY <3>1
  <2>6. Front(up) = SubSeq(name, 1, m - 1)
    BY <1>2, <2>3 DEF Front
  <2>7. /\ SubSeq(name, 1, m - 1) \in Seq(Chars) /\ Len(SubSeq(name, 1, m - 1)) = m - 1
        /\ \A i \in 1 .. m - 1 : SubSeq(name, 1, m - 1)[i] = name[i]
    <3> DEFINE b == m - 1
    <3>1. b \in Nat /\ b <= Len(name)
      BY <1>3
    <3> HIDE DEF b
    <3>2. /\ SubSeq(name, 1, b) \in Seq(Chars) /\ Len(SubSeq(name, 1, b)) = b
          /\ \A i \in 1 .. b : SubSeq(name, 1, b)[i] = name[i]
      BY <1>0, <3>1, CutIs
    <3> QED BY <3>2 DEF b
  <2>8. SubSeq(name, 1, m - 1) = Upto(name, at, k - 1) \o Piece(name, at, k)
    <3> DEFINE u == SubSeq(name, 1, m - 1)
               v == Upto(name, at, k - 1)
               w == Piece(name, at, k)
               p == at[k]
    <3>0. k - 1 \in 0 .. c /\ k - 1 + 1 = k /\ p \in Nat /\ 1 <= p /\ p + 1 < m
      BY <1>0, <1>4, <2>1
    <3>1. v \in Seq(Chars) /\ Len(v) = p /\ \A i \in 1 .. p : v[i] = name[i]
      <4>1. v = SubSeq(name, 1, p)
        BY <3>0 DEF Upto
      <4>2. p <= Len(name) /\ p \in Nat
        BY <1>3, <3>0
      <4> HIDE DEF p
      <4>3. /\ SubSeq(name, 1, p) \in Seq(Chars) /\ Len(SubSeq(name, 1, p)) = p
            /\ \A i \in 1 .. p : SubSeq(name, 1, p)[i] = name[i]
        BY <1>0, <4>2, CutIs
      <4> QED BY <4>1, <4>3
    <3>2. w \in Seq(Chars) /\ Len(w) = m - 1 - p /\ \A i \in 1 .. m - 1 - p : w[i] = name[i + p]
      <4> DEFINE a == p + 1
                 b == m - 1
      <4>1. a \in Nat \ {0} /\ b \in Nat /\ b <= Len(name) /\ a <= b + 1 /\ b - a + 1 = m - 1 - p
        <5> HIDE DEF p, m
        <5>1. Len(name) \in Nat /\ m \in Nat /\ p \in Nat /\ 1 <= m /\ m <= Len(name) /\ p + 1 < m
          BY <1>1, <1>3, <3>0
        <5> QED BY <5>1
      <4>2. \A i \in 1 .. m - 1 - p : i + a - 1 = i + p
        BY <1>3, <3>0
      <4>3. w = SubSeq(name, a, b)
        BY DEF Piece
      <4> HIDE DEF a, b, w
      <4>4. /\ SubSeq(name, a, b) \in Seq(Chars) /\ Len(SubSeq(name, a, b)) = b - a + 1
            /\ \A i \in 1 .. b - a + 1 : SubSeq(name, a, b)[i] = name[i + a - 1]
        BY <1>0, <4>1, SubSeqIs
      <4> HIDE DEF p, m
      <4> QED BY <4>1, <4>2, <4>3, <4>4
    <3>3. u \in Seq(Chars) /\ Len(u) = m - 1 /\ \A i \in 1 .. m - 1 : u[i] = name[i]
      BY <2>7
    <3> HIDE DEF u, v, w, p, m
    <3> DEFINE z == v \o w
    <3>4. /\ z \in Seq(Chars) /\ Len(z) = Len(v) + Len(w)
          /\ \A i \in 1 .. Len(v) : z[i] = v[i]
          /\ \A i \in 1 .. Len(w) : z[Len(v) + i] = w[i]
      BY <3>1, <3>2, ConcatIs
    <3> HIDE DEF z
    <3>5. ASSUME NEW i \in 1 .. m - 1 PROVE z[i] = name[i]
      <4>1. CASE i <= p
        <5>1. i \in 1 .. p
          BY <4>1
        <5> QED BY <3>1, <3>4, <5>1
      <4>2. CASE ~(i <= p)
        <5>1. i - p \in 1 .. m - 1 - p /\ i - p + p = i /\ p + (i - p) = i
          BY <1>3, <3>0, <4>2
        <5>2. z[p + (i - p)] = w[i - p]
          BY <3>1, <3>2, <3>4, <5>1
        <5> QED BY <3>2, <5>1, <5>2
      <4> QED BY <4>1, <4>2
    <3>6. Len(u) = Len(z)
      <4>1. p + (m - 1 - p) = m - 1
        BY <1>3, <3>0
      <4> QED BY <3>1, <3>2, <3>3, <3>4, <4>1
    <3>7. \A i \in 1 .. Len(u) : u[i] = z[i]
      BY <3>3, <3>5
    <3>8. u = z
      BY <3>3, <3>4, <3>6, <3>7
    <3> QED BY <3>8 DEF u, v, w, z, m
  <2> QED BY <1>2, <1>6, <2>1, <2>2, <2>3, <2>4, <2>5, <2>6, <2>7, <2>8
<1> QED BY <1>5, <1>6


LEMMA GoesOn ==
  ASSUME NEW N \in Nat, NEW S, 0 \in S, \A n \in 1 .. N : n - 1 \in S => n \in S
  PROVE  0 .. N \subseteq S
<1> DEFINE T == 0 .. N \ S
<1>1. ASSUME T # {} PROVE FALSE
  <2>1. T \in SUBSET Nat
    OBVIOUS
  <2>2. PICK m \in T : \A y \in T : m <= y
    <3> HIDE DEF T
    <3> QED BY <1>1, <2>1, MinLeast
  <2>3. m \in 1 .. N /\ m \notin S
    BY <2>2
  <2>4. m - 1 \in S
    BY <2>2, <2>3
  <2> QED BY <2>3, <2>4
<1> QED BY <1>1

(* path_get_left cuts the name off after a number of its parts.            *)
LEMMA LeftIs ==
  ASSUME NEW ptr, NEW c, NEW at, Framed(add_slash(ptr), c, at),
         \A i \in 1 .. c : path_get_part(add_slash(ptr), i) = Piece(add_slash(ptr), at, i),
         NEW k \in 0 .. c
  PROVE  path_get_left(ptr, k) = Stem(add_slash(ptr), at, k)
<1> DEFINE name == add_slash(ptr)
           F(h) == [i \in 0 .. k |-> IF i = 0 THEN <<Slash>>
                      ELSE add_slash(h[i - 1] \o path_get_part(name, i))]
           f == [i \in 0 .. k |-> Upto(name, at, i)]
           left == CHOOSE h : h = F(h)
<1> HIDE DEF name
<1>0. c \in Nat /\ k \in Nat /\ \A i \in 0 .. k : i \in 0 .. c
  BY DEF Framed
<1>1. f = F(f)
  <2>1. ASSUME NEW i \in 0 .. k PROVE f[i] = F(f)[i]
    <3>1. CASE i = 0
      <4>1. Upto(name, at, i) = <<Slash>>
        BY <1>0, <3>1, StemIs DEF name
      <4> QED BY <3>1, <4>1
    <3>2. CASE i # 0
      <4>1. i \in 0 .. c /\ 0 < i /\ i - 1 \in 0 .. k /\ i \in 1 .. c
        BY <1>0, <3>2
      <4>2. /\ Stem(name, at, i) = Upto(name, at, i - 1) \o Piece(name, at, i)
            /\ add_slash(Stem(name, at, i)) = Upto(name, at, i)
        BY <4>1, StemIs DEF name
      <4>3. path_get_part(name, i) = Piece(name, at, i)
        BY <4>1 DEF name
      <4>4. f[i - 1] = Upto(name, at, i - 1)
        BY <4>1
      <4> QED BY <3>2, <4>2, <4>3, <4>4
    <3> QED BY <3>1, <3>2
  <2> QED BY <2>1
<1>2. left = F(left)
  <2> HIDE DEF F, f
  <2> QED BY <1>1
<1>3. left[k] = Upto(name, at, k)
  <2> HIDE DEF left
  <2> DEFINE S == {i \in 0 .. k : left[i] = Upto(name, at, i)}
  <2>1. 0 \in S
    <3>1. Upto(name, at, 0) = <<Slash>>
      <4>1. 0 \in 0 .. c
        BY <1>0
      <4> QED BY <4>1, StemIs DEF name
    <3>2. 0 \in 0 .. k
      BY <1>0
    <3>3. left[0] = <<Slash>>
      BY <1>2, <3>2
    <3> QED BY <3>1, <3>2, <3>3
  <2>2. ASSUME NEW i \in 1 .. k, i - 1 \in S PROVE i \in S
    <3>1. /\ i \in 0 .. k /\ i # 0 /\ i - 1 \in 0 .. k /\ f[i] = Upto(name, at, i)
          /\ f[i - 1] = Upto(name, at, i - 1)
      BY <1>0
    <3>2. left[i] = add_slash(left[i - 1] \o path_get_part(name, i))
      BY <1>2, <3>1
    <3>3. f[i] = add_slash(f[i - 1] \o path_get_part(name, i))
      <4> HIDE DEF f
      <4> QED BY <1>1, <3>1
    <3>4. left[i - 1] = Upto(name, at, i - 1)
      BY <2>2
    <3> HIDE DEF f
    <3> QED BY <3>1, <3>2, <3>3, <3>4
  <2> HIDE DEF S
  <2>3. 0 .. k \subseteq S
    BY <1>0, <2>1, <2>2, GoesOn
  <2>4. k \in S
    BY <1>0, <2>3
  <2> QED BY <2>4 DEF S
<1>4. path_get_left(ptr, k) = IF left[k] = <<Slash>> THEN <<Slash>> ELSE Front(left[k])
  BY DEF path_get_left, name
<1>5. /\ (Upto(name, at, k) = <<Slash>>) <=> k = 0
      /\ 0 < k => Front(Upto(name, at, k)) = Stem(name, at, k)
  BY StemIs DEF name
<1>6. k = 0 => Stem(name, at, k) = <<Slash>>
  BY DEF Stem
<1>7. k = 0 \/ 0 < k
  BY <1>0
<1> HIDE DEF left
<1>8. path_get_left(ptr, k) = Stem(name, at, k)
  BY <1>3, <1>4, <1>5, <1>6, <1>7
<1> QED BY <1>8 DEF name

LEMMA SlashMoves ==
  ASSUME NEW s \in Seq(Chars), NEW t \in Seq(Chars)
  PROVE  /\ Append(s, Slash) \o t = s \o (<<Slash>> \o t)
         /\ <<Slash>> \o t \in Seq(Chars)
<1> DEFINE w == <<Slash>> \o t
           v == Append(s, Slash)
<1>0. Slash \in Chars /\ Len(s) \in Nat /\ Len(t) \in Nat
  BY DEF Chars
<1>1. /\ w \in Seq(Chars) /\ Len(w) = Len(t) + 1 /\ w[1] = Slash
      /\ \A i \in 1 .. Len(t) : w[i + 1] = t[i]
  <2>1. <<Slash>> \in Seq(Chars) /\ Len(<<Slash>>) = 1 /\ <<Slash>>[1] = Slash
    BY <1>0
  <2> DEFINE o == <<Slash>>
  <2> HIDE DEF o
  <2>2. /\ o \o t \in Seq(Chars) /\ Len(o \o t) = 1 + Len(t) /\ (o \o t)[1] = Slash
        /\ \A i \in 1 .. Len(t) : (o \o t)[i + 1] = t[i]
    <3>1. o \in Seq(Chars) /\ Len(o) = 1 /\ o[1] = Slash
      BY <2>1 DEF o
    <3>2. /\ o \o t \in Seq(Chars) /\ Len(o \o t) = Len(o) + Len(t)
          /\ \A i \in 1 .. Len(o) : (o \o t)[i] = o[i]
          /\ \A i \in 1 .. Len(t) : (o \o t)[Len(o) + i] = t[i]
      BY <3>1, ConcatIs
    <3>3. 1 \in 1 .. 1 /\ \A i \in 1 .. Len(t) : 1 + i = i + 1
      BY <1>0
    <3> QED BY <3>1, <3>2, <3>3
  <2>3. 1 + Len(t) = Len(t) + 1
    BY <1>0
  <2> QED BY <2>2, <2>3 DEF o
<1>2. /\ v \in Seq(Chars) /\ Len(v) = Len(s) + 1 /\ v[Len(s) + 1] = Slash
      /\ \A i \in 1 .. Len(s) : v[i] = s[i]
  BY <1>0
<1> HIDE DEF w, v
<1> DEFINE l == v \o t
           r == s \o w
<1>3. /\ l \in Seq(Chars) /\ Len(l) = Len(s) + 1 + Len(t)
      /\ \A i \in 1 .. Len(s) + 1 : l[i] = v[i]
      /\ \A i \in Len(s) + 2 .. Len(s) + 1 + Len(t) : l[i] = t[i - (Len(s) + 1)]
  BY <1>0, <1>2
<1>4. /\ r \in Seq(Chars) /\ Len(r) = Len(s) + 1 + Len(t)
      /\ \A i \in 1 .. Len(s) : r[i] = s[i]
      /\ \A i \in Len(s) + 1 .. Len(s) + 1 + Len(t) : r[i] = w[i - Len(s)]
  <2>1. /\ r \in Seq(Chars) /\ Len(r) = Len(s) + Len(w)
        /\ \A i \in 1 .. Len(s) : r[i] = s[i]
        /\ \A i \in 1 .. Len(w) : r[Len(s) + i] = w[i]
    BY <1>1, ConcatIs
  <2> HIDE DEF r
  <2>2. Len(r) = Len(s) + 1 + Len(t)
    BY <1>0, <1>1, <2>1
  <2>3. ASSUME NEW i \in Len(s) + 1 .. Len(s) + 1 + Len(t) PROVE r[i] = w[i - Len(s)]
    <3>1. i - Len(s) \in 1 .. Len(w) /\ Len(s) + (i - Len(s)) = i
      BY <1>0, <1>1
    <3>2. r[Len(s) + (i - Len(s))] = w[i - Len(s)]
      BY <2>1, <3>1
    <3> QED BY <3>1, <3>2
  <2> QED BY <2>1, <2>2, <2>3
<1> HIDE DEF l, r
<1>5. ASSUME NEW i \in 1 .. Len(l) PROVE l[i] = r[i]
  <2>1. CASE i <= Len(s)
    <3>1. i \in 1 .. Len(s) /\ i \in 1 .. Len(s) + 1
      BY <1>0, <2>1
    <3> QED BY <1>2, <1>3, <1>4, <3>1
  <2>2. CASE i = Len(s) + 1
    <3>1. i \in 1 .. Len(s) + 1 /\ i \in Len(s) + 1 .. Len(s) + 1 + Len(t) /\ i - Len(s) = 1
      BY <1>0, <2>2
    <3> QED BY <1>1, <1>2, <1>3, <1>4, <2>2, <3>1
  <2>3. CASE ~(i <= Len(s)) /\ i # Len(s) + 1
    <3>1. /\ i \in Len(s) + 2 .. Len(s) + 1 + Len(t) /\ i \in Len(s) + 1 .. Len(s) + 1 + Len(t)
          /\ i - (Len(s) + 1) \in 1 .. Len(t) /\ i - (Len(s) + 1) + 1 = i - Len(s)
      BY <1>0, <1>3, <2>3
    <3>2. l[i] = t[i - (Len(s) + 1)] /\ r[i] = w[i - Len(s)]
      BY <1>3, <1>4, <3>1
    <3>3. w[i - (Len(s) + 1) + 1] = t[i - (Len(s) + 1)]
      BY <1>1, <3>1
    <3> QED BY <3>1, <3>2, <3>3
  <2> QED BY <2>1, <2>2, <2>3
<1>6. l = r
  BY <1>3, <1>4, <1>5
<1> QED BY <1>1, <1>6 DEF l, r, w, v

(* So does joining them.                                                   *)
LEMMA JoinedIs ==
  ASSUME NEW name, NEW c, NEW at, Framed(name, c, at), NEW k \in 0 .. c
  PROVE  Joined(Pieces(name, at, k)) = Stem(name, at, k)
<1> DEFINE seqs == [i \in 1 .. k |-> <<Slash>> \o Piece(name, at, i)]
           F(h) == [i \in 1 .. k |-> IF i = 1 THEN seqs[i] ELSE h[i - 1] \o seqs[i]]
           f == [i \in 1 .. k |-> Stem(name, at, i)]
           flat == CHOOSE h : h = F(h)
<1>0. /\ c \in Nat /\ k \in Nat /\ name \in Seq(Chars)
      /\ \A i \in 0 .. k : i \in 0 .. c
  BY DEF Framed
<1>a. ASSUME NEW i \in 1 .. k PROVE Piece(name, at, i) \in Seq(Chars)
  <2>1. i \in 1 .. c /\ i \in 1 .. c + 1 /\ i + 1 \in 1 .. c + 1
    BY <1>0
  <2>2. /\ at[i] \in Nat /\ at[i + 1] \in Nat /\ at[i + 1] <= Len(name) /\ at[i] + 1 < at[i + 1]
        /\ Len(name) \in Nat
    BY <2>1, FramedIs
  <2> DEFINE a == at[i] + 1
             b == at[i + 1] - 1
  <2>3. a \in Nat \ {0} /\ b \in Nat /\ b <= Len(name) /\ a <= b + 1
    BY <2>2
  <2> HIDE DEF a, b
  <2>4. SubSeq(name, a, b) \in Seq(Chars)
    BY <1>0, <2>3, SubSeqIs
  <2> QED BY <2>4 DEF Piece, a, b
<1>b. ASSUME NEW i \in 1 .. k PROVE seqs[i] \in Seq(Chars)
  <2>1. Piece(name, at, i) \in Seq(Chars)
    BY <1>a
  <2>2. <<Slash>> \o Piece(name, at, i) \in Seq(Chars)
    BY <2>1, SlashMoves
  <2> QED BY <2>2
<1>1. ASSUME NEW i \in 1 .. k
      PROVE  Stem(name, at, i) = IF i = 1 THEN seqs[i] ELSE Stem(name, at, i - 1) \o seqs[i]
  <2>0. i \in 0 .. c /\ 0 < i /\ i - 1 \in 0 .. c /\ (i # 1 => 0 < i - 1)
    BY <1>0
  <2>1. Stem(name, at, i) = Upto(name, at, i - 1) \o Piece(name, at, i)
    BY <2>0, StemIs
  <2>2. CASE i = 1
    <3>1. Upto(name, at, i - 1) = <<Slash>>
      BY <2>0, <2>2, StemIs
    <3> QED BY <2>1, <2>2, <3>1
  <2>3. CASE i # 1
    <3> DEFINE s == Stem(name, at, i - 1)
               u == Upto(name, at, i - 1)
    <3>1. s \in Seq(Chars) /\ add_slash(s) = u /\ Front(u) = s
      BY <2>0, <2>3, StemIs
    <3>2. u \in Seq(Chars) /\ Len(u) \in Nat \ {0}
      <4> DEFINE j == i - 1
      <4>0. j \in 0 .. c
        BY <2>0
      <4> HIDE DEF j
      <4>1. Len(Upto(name, at, j)) = at[j + 1] /\ Framed(Upto(name, at, j), j, at)
        BY <4>0, UptoIs
      <4>2. at[j + 1] \in Nat /\ 1 <= at[j + 1]
        BY <4>0, FramedIs
      <4>3. Upto(name, at, j) \in Seq(Chars) /\ Len(Upto(name, at, j)) \in Nat \ {0}
        BY <4>1, <4>2 DEF Framed
      <4> QED BY <4>3 DEF j
    <3> HIDE DEF s, u
    <3>3. Front(u) # u
      <4> DEFINE m == Len(u) - 1
      <4>1. m \in Nat /\ m <= Len(u) /\ m # Len(u)
        BY <3>2
      <4> HIDE DEF m
      <4>2. Len(SubSeq(u, 1, m)) = m
        BY <3>2, <4>1, CutIs
      <4>3. SubSeq(u, 1, m) # u
        BY <4>1, <4>2
      <4> QED BY <4>3 DEF Front, m
    <3>4. u = Append(s, Slash)
      BY <3>1, <3>3 DEF add_slash
    <3>5. Append(s, Slash) \o Piece(name, at, i) = s \o (<<Slash>> \o Piece(name, at, i))
      BY <3>1, <1>a, SlashMoves
    <3>6. Stem(name, at, i) = u \o Piece(name, at, i)
      BY <2>1 DEF u
    <3>7. Stem(name, at, i) = s \o seqs[i]
      BY <3>4, <3>5, <3>6
    <3> QED BY <2>3, <3>7 DEF s
  <2> QED BY <2>2, <2>3
<1>2. f = F(f)
  <2>1. ASSUME NEW i \in 1 .. k PROVE f[i] = F(f)[i]
    <3>1. i # 1 => i - 1 \in 1 .. k
      BY <1>0
    <3> HIDE DEF seqs
    <3> QED BY <1>1, <3>1
  <2> HIDE DEF seqs
  <2> QED BY <2>1
<1>3. flat = F(flat)
  <2> HIDE DEF F, f
  <2> QED BY <1>2
<1>4. ASSUME NEW i \in 1 .. k PROVE flat[i] = Stem(name, at, i)
  <2> DEFINE S == {0} \cup {j \in 1 .. k : flat[j] = Stem(name, at, j)}
  <2>1. ASSUME NEW j \in 1 .. k, j - 1 \in S PROVE j \in S
    <3> HIDE DEF flat, seqs
    <3>1. flat[j] = IF j = 1 THEN seqs[j] ELSE flat[j - 1] \o seqs[j]
      BY <1>3
    <3>2. j # 1 => flat[j - 1] = Stem(name, at, j - 1)
      BY <2>1
    <3>3. flat[j] = Stem(name, at, j)
      BY <1>1, <3>1, <3>2
    <3> QED BY <3>3
  <2>2. 0 \in S
    OBVIOUS
  <2> HIDE DEF S
  <2>3. 0 .. k \subseteq S
    BY <1>0, <2>1, <2>2, GoesOn
  <2>4. i \in S /\ i # 0
    BY <1>0, <2>3
  <2> HIDE DEF flat
  <2> QED BY <2>4 DEF S
<1> DEFINE parts == Pieces(name, at, k)
<1>5. [i \in DOMAIN parts |-> <<Slash>> \o parts[i]] = seqs /\ DOMAIN parts = 1 .. k
  BY DEF Pieces
<1>6. /\ parts \in Seq(Seq(Chars)) /\ Len(parts) = k /\ seqs \in Seq(Seq(Chars)) /\ Len(seqs) = k
  <2>1. parts \in [1 .. k -> Seq(Chars)] /\ seqs \in [1 .. k -> Seq(Chars)]
    BY <1>a, <1>b DEF Pieces
  <2> HIDE DEF parts, seqs
  <2> QED BY <1>0, <2>1
<1>7. CASE k = 0
  <2> HIDE DEF parts
  <2>1. parts = <<>>
    BY <1>6, <1>7
  <2>2. Joined(parts) = <<Slash>>
    BY <2>1 DEF Joined, Root
  <2> QED BY <1>7, <2>2 DEF Stem, parts
<1>8. CASE k # 0
  <2>1. k \in 1 .. k /\ Len(seqs) # 0
    BY <1>0, <1>6, <1>8
  <2>2. parts # <<>>
    <3> HIDE DEF parts
    <3> QED BY <1>6, <1>8
  <2>3. FlattenSeq(seqs) = flat[k]
    <3> HIDE DEF seqs
    <3>1. Len(seqs) = k
      BY <1>6
    <3> QED BY <2>1, <3>1 DEF FlattenSeq
  <2>4. Joined(parts) = FlattenSeq(seqs)
    <3> HIDE DEF seqs, parts
    <3> QED BY <1>5, <2>2 DEF Joined
  <2>5. flat[k] = Stem(name, at, k)
    BY <1>4, <2>1
  <2> QED BY <2>3, <2>4, <2>5
<1> QED BY <1>7, <1>8


(* Every absolute name without an empty part is one of these, its last     *)
(* slash apart.                                                            *)
LEMMA AbsoluteFramed ==
  ASSUME NEW name \in Seq(Chars), name # <<>>, IsAbsolute(name)
  PROVE  /\ \E c, at : Framed(add_slash(name), c, at)
         /\ Len(name) \in Nat \ {0}
         /\ Len(name) = Len(add_slash(name)) \/ Len(name) = Len(add_slash(name)) - 1
         /\ SubSeq(add_slash(name), 1, Len(name)) = name
<1> DEFINE A == add_slash(name)
<1>0. Len(name) \in Nat \ {0} /\ Slash \in Chars
  <2>1. Len(name) \in Nat /\ Len(name) # 0
    OBVIOUS
  <2> QED BY <2>1 DEF Chars
<1>1. /\ name[1] = Slash
      /\ \A i \in 1 .. Len(name) - 1 : ~(name[i] = Slash /\ name[i + 1] = Slash)
  BY DEF IsAbsolute
<1>2. /\ A \in Seq(Chars) /\ Len(A) \in Nat \ {0}
      /\ Len(name) = Len(A) \/ Len(name) = Len(A) - 1
      /\ \A i \in 1 .. Len(name) : A[i] = name[i]
      /\ A[Len(A)] = Slash
      /\ \A i \in 1 .. Len(A) - 1 : ~(A[i] = Slash /\ A[i + 1] = Slash)
  <2>1. CASE Last(name) = Slash
    <3>1. A = name /\ name[Len(name)] = Slash
      BY <2>1 DEF add_slash, Last
    <3> HIDE DEF A
    <3> QED BY <1>0, <1>1, <3>1
  <2>2. CASE Last(name) # Slash
    <3>1. A = Append(name, Slash) /\ name[Len(name)] # Slash
      BY <2>2 DEF add_slash, Last
    <3>2. /\ Append(name, Slash) \in Seq(Chars) /\ Len(Append(name, Slash)) = Len(name) + 1
          /\ \A i \in 1 .. Len(name) : Append(name, Slash)[i] = name[i]
          /\ Append(name, Slash)[Len(name) + 1] = Slash
      BY <1>0
    <3> HIDE DEF A
    <3>3. /\ A \in Seq(Chars) /\ Len(A) = Len(name) + 1 /\ A[Len(A)] = Slash
          /\ \A i \in 1 .. Len(name) : A[i] = name[i]
      BY <3>1, <3>2
    <3>4. ASSUME NEW i \in 1 .. Len(A) - 1, A[i] = Slash PROVE A[i + 1] # Slash
      <4>1. i \in 1 .. Len(name)
        BY <1>0, <3>3
      <4>2. i # Len(name)
        BY <3>1, <3>3, <3>4, <4>1
      <4>3. i \in 1 .. Len(name) - 1 /\ i + 1 \in 1 .. Len(name)
        BY <1>0, <4>1, <4>2
      <4> QED BY <1>1, <3>3, <3>4, <4>1, <4>3
    <3>5. Len(A) \in Nat \ {0} /\ Len(name) = Len(A) - 1
      BY <1>0, <3>3
    <3> QED BY <3>3, <3>4, <3>5
  <2> QED BY <2>1, <2>2
<1> HIDE DEF A
<1>3. SubSeq(A, 1, Len(name)) = name
  <2> DEFINE m == Len(name)
             u == SubSeq(A, 1, m)
  <2>1. m \in Nat /\ m <= Len(A)
    BY <1>0, <1>2
  <2> HIDE DEF m
  <2>2. u \in Seq(Chars) /\ Len(u) = m /\ \A i \in 1 .. m : u[i] = A[i]
    BY <1>2, <2>1, CutIs
  <2> HIDE DEF u
  <2>3. Len(u) = Len(name) /\ \A i \in 1 .. Len(u) : u[i] = name[i]
    BY <1>2, <2>2 DEF m
  <2>4. u = name
    BY <2>2, <2>3
  <2> QED BY <2>4 DEF u, m
<1>4. PICK n, at : Numbered(A, n, at)
  BY <1>2, SlashesNumbered
<1>5. /\ n \in Nat /\ \A k \in 1 .. n : at[k] \in Slashes(A)
      /\ \A j, k \in 1 .. n : j < k => at[j] < at[k]
      /\ \A s \in Slashes(A) : \E k \in 1 .. n : s = at[k]
  BY <1>4 DEF Numbered
<1>6. ASSUME NEW k \in 1 .. n
      PROVE  at[k] \in 1 .. Len(A) /\ A[at[k]] = Slash /\ at[k] \in Nat
  <2>1. at[k] \in Slashes(A)
    BY <1>5
  <2>2. at[k] \in 1 .. Len(A) /\ A[at[k]] = Slash
    BY <1>2, <2>1 DEF Slashes
  <2> QED BY <2>2
<1>7. n \in Nat \ {0} /\ at[1] = 1 /\ 1 \in 1 .. n
  <2>1. 1 \in Slashes(A)
    <3>1. 1 \in 1 .. Len(name) /\ 1 \in 1 .. Len(A)
      BY <1>0, <1>2
    <3>2. A[1] = Slash
      BY <1>1, <1>2, <3>1
    <3> QED BY <1>2, <3>1, <3>2 DEF Slashes
  <2> PICK k \in 1 .. n : 1 = at[k]
    BY <1>5, <2>1
  <2>2. n \in Nat \ {0} /\ 1 \in 1 .. n /\ (k = 1 \/ 1 < k)
    BY <1>5
  <2>3. at[1] \in 1 .. Len(A)
    BY <1>6, <2>2
  <2>4. 1 < k => at[1] < at[k]
    BY <1>5, <2>2
  <2>5. at[1] = 1
    BY <2>2, <2>3, <2>4
  <2> QED BY <2>2, <2>5
<1>8. at[n] = Len(A)
  <2>1. Len(A) \in Slashes(A)
    BY <1>2 DEF Slashes
  <2> PICK k \in 1 .. n : Len(A) = at[k]
    BY <1>5, <2>1
  <2>2. n \in 1 .. n /\ (k = n \/ k < n)
    BY <1>7
  <2>3. at[n] \in 1 .. Len(A)
    BY <1>6, <2>2
  <2>4. k < n => at[k] < at[n]
    BY <1>5, <2>2
  <2>5. at[n] <= Len(A) /\ at[n] \in Nat
    BY <1>2, <2>3
  <2> QED BY <1>2, <2>2, <2>4, <2>5
<1> DEFINE c == n - 1
<1>9. c \in Nat /\ c + 1 = n
  BY <1>7
<1>10. ASSUME NEW i \in 1 .. c PROVE at[i] + 1 < at[i + 1]
  <2>1. i \in 1 .. n /\ i + 1 \in 1 .. n /\ i < i + 1
    BY <1>9
  <2>2. at[i] < at[i + 1]
    BY <1>5, <2>1
  <2>3. /\ at[i] \in 1 .. Len(A) /\ at[i + 1] \in 1 .. Len(A)
        /\ A[at[i]] = Slash /\ A[at[i + 1]] = Slash
    BY <1>6, <2>1
  <2>4. at[i] + 1 # at[i + 1]
    <3> SUFFICES ASSUME at[i] + 1 = at[i + 1] PROVE FALSE
      OBVIOUS
    <3>1. at[i] \in 1 .. Len(A) - 1
      BY <1>2, <2>3
    <3>2. A[at[i] + 1] = Slash
      BY <2>3
    <3> QED BY <1>2, <2>3, <3>1, <3>2
  <2> QED BY <2>2, <2>3, <2>4
<1> HIDE DEF c
<1>11. Framed(A, c, at)
  BY <1>2, <1>4, <1>7, <1>8, <1>9, <1>10 DEF Framed
<1>12. \E cc, aa : Framed(A, cc, aa)
  BY <1>11
<1> QED BY <1>0, <1>2, <1>3, <1>12 DEF A

LEMMA ByParts ==
  ASSUME NEW name \in Seq(Chars), name # <<>>, IsAbsolute(name), NEW count \in Nat
  PROVE  /\ add_slash(Joined(PartsOf(name))) = add_slash(name)
         /\ path_count_parts(name) = Len(PartsOf(name))
         /\ count <= Len(PartsOf(name)) =>
              /\ path_get_left(name, count) = Joined(SubSeq(PartsOf(name), 1, count))
              /\ PartsOf(path_get_left(name, count)) = SubSeq(PartsOf(name), 1, count)
<1> DEFINE A == add_slash(name)
           m == Len(name)
<1>1. /\ \E c, at : Framed(A, c, at)
      /\ m \in Nat \ {0} /\ (m = Len(A) \/ m = Len(A) - 1) /\ SubSeq(A, 1, m) = name
  BY AbsoluteFramed
<1>2. PICK c, at : Framed(A, c, at)
  BY <1>1
<1>3. /\ A \in Seq(Chars) /\ c \in Nat /\ Numbered(A, c + 1, at)
      /\ c \in 0 .. c /\ at[c + 1] = Len(A)
  BY <1>2 DEF Framed
<1>4. PartsOf(name) = Pieces(A, at, c) /\ path_count_parts(name) = c
  <2> HIDE DEF A, m
  <2>1. PartsOf(SubSeq(A, 1, m)) = Pieces(A, at, c) /\ path_count_parts(SubSeq(A, 1, m)) = c
    BY <1>1, <1>2, FramedParts
  <2> QED BY <1>1, <2>1
<1>5. \A i \in 1 .. c : path_get_part(A, i) = Piece(A, at, i)
  <2> HIDE DEF A
  <2> DEFINE n == c + 1
  <2>n. Numbered(A, n, at)
    BY <1>3
  <2> HIDE DEF n
  <2>p. \A i \in 1 .. n : i < n =>
          path_get_part(A, i) = SubSeq(A, at[i] + 1, at[i + 1] - 1)
    BY <1>3, <2>n, PartIs
  <2>1. \A i \in 1 .. c + 1 : i < c + 1 =>
          path_get_part(A, i) = SubSeq(A, at[i] + 1, at[i + 1] - 1)
    BY <2>p DEF n
  <2>2. \A i \in 1 .. c : i \in 1 .. c + 1 /\ i < c + 1
    BY <1>3
  <2> QED BY <2>1, <2>2 DEF Piece
<1>6. \A k : Pieces(A, at, k) = [i \in 1 .. k |-> Piece(A, at, i)]
  BY DEF Pieces
<1>7. Len(PartsOf(name)) = c
  <2> HIDE DEF A
  <2>1. PartsOf(name) \in [1 .. c -> {Piece(A, at, i) : i \in 1 .. c}]
    BY <1>4, <1>6
  <2> QED BY <1>3, <2>1
<1>8. add_slash(Joined(PartsOf(name))) = A
  <2>1. Joined(PartsOf(name)) = Stem(A, at, c)
    BY <1>2, <1>3, <1>4, JoinedIs
  <2>2. add_slash(Stem(A, at, c)) = Upto(A, at, c)
    BY <1>2, <1>3, StemIs
  <2>3. Upto(A, at, c) = A
    <3> HIDE DEF A
    <3>1. Len(A) \in Nat /\ Len(A) <= Len(A)
      BY <1>3
    <3>2. SubSeq(A, 1, Len(A)) = A
      BY <1>3, <3>1, CutIs
    <3> QED BY <1>3, <3>2 DEF Upto
  <2> QED BY <2>1, <2>2, <2>3
<1>9. ASSUME count <= c
      PROVE  /\ path_get_left(name, count) = Joined(SubSeq(PartsOf(name), 1, count))
             /\ PartsOf(path_get_left(name, count)) = SubSeq(PartsOf(name), 1, count)
  <2>1. count \in 0 .. c
    BY <1>3, <1>9
  <2>2. path_get_left(name, count) = Stem(A, at, count)
    BY <1>2, <1>5, <2>1, LeftIs
  <2>3. PartsOf(Stem(A, at, count)) = Pieces(A, at, count)
    BY <1>2, <2>1, StemIs
  <2>4. Joined(Pieces(A, at, count)) = Stem(A, at, count)
    BY <1>2, <2>1, JoinedIs
  <2>5. SubSeq(PartsOf(name), 1, count) = Pieces(A, at, count)
    <3> HIDE DEF A
    <3> DEFINE T == {Piece(A, at, i) : i \in 1 .. c}
               p == PartsOf(name)
               q == Pieces(A, at, count)
    <3>1. p \in [1 .. c -> T] /\ \A i \in 1 .. c : p[i] = Piece(A, at, i)
      BY <1>4, <1>6
    <3>2. q \in [1 .. count -> T] /\ \A i \in 1 .. count : q[i] = Piece(A, at, i)
      <4>1. \A i \in 1 .. count : i \in 1 .. c
        BY <1>3, <1>9
      <4> QED BY <1>6, <4>1
    <3> HIDE DEF p, q, T
    <3>3. p \in Seq(T) /\ Len(p) = c /\ q \in Seq(T) /\ Len(q) = count
      BY <1>3, <3>1, <3>2
    <3> DEFINE r == SubSeq(p, 1, count)
    <3>4. \A i \in 1 .. count : i \in 1 .. c /\ p[i] \in T
      BY <1>3, <1>9, <3>1
    <3>5. r \in Seq(T) /\ Len(r) = count /\ \A i \in 1 .. count : r[i] = p[i]
      BY <1>3, <1>9, <3>3, <3>4
    <3> HIDE DEF r
    <3>6. \A i \in 1 .. Len(r) : r[i] = q[i]
      BY <3>1, <3>2, <3>4, <3>5
    <3>7. r = q
      BY <3>3, <3>5, <3>6
    <3> QED BY <3>7 DEF r, p, q
  <2> QED BY <2>2, <2>3, <2>4, <2>5
<1> QED BY <1>4, <1>7, <1>8, <1>9

-----------------------------------------------------------------------------
(* The last answer of get_mount_point is a mount that is still where it    *)
(* was looked for.                                                         *)
Answers(answer, places) ==
  /\ answer.filename \in Seq(Chars) /\ answer.filename # <<>> /\ answer.count \in Nat
  /\ answer.mount # Null =>
       /\ answer.mount \in MountSlots
       /\ places[answer.mount].mount_point = path_get_left(answer.filename, answer.count)
LookedInv == Answers(looked, mounts) /\ (looked.mount # Null => phase = "up")

LEMMA NoAnswerAnswers == \A places : Answers(NoAnswer, places) /\ NoAnswer.mount = Null
<1>1. Root \in Seq(Chars) /\ Root # <<>>
  <2>1. Slash \in Chars
    BY DEF Chars
  <2> QED BY <2>1 DEF Root
<1>2. NoAnswer.filename = Root /\ NoAnswer.count = 0 /\ NoAnswer.mount = Null
  BY DEF NoAnswer
<1> QED BY <1>1, <1>2 DEF Answers

LEMMA StepLooked == LookedInv /\ [Next]_vfsVars => LookedInv'
<1> SUFFICES ASSUME LookedInv, [Next]_vfsVars PROVE LookedInv'
  OBVIOUS
<1>1. CASE looked' = NoAnswer
  BY <1>1, NoAnswerAnswers DEF LookedInv
<1>2. CASE looked' = looked /\ looked.mount = Null
  BY <1>2 DEF LookedInv, Answers
<1>3. CASE looked' = looked /\ mounts' = mounts /\ phase' = phase
  BY <1>3 DEF LookedInv
<1>4. ASSUME NEW filename \in Filenames, NEW n \in 0 .. Len(filename), get_mount_point(filename, n)
      PROVE  LookedInv'
  <2> PICK place : place = path_get_left(filename, n)
    OBVIOUS
  <2>1. /\ phase = "up" /\ mounts' = mounts /\ phase' = phase
        /\ looked' = [filename |-> filename, count |-> n, mount |-> Found(place)]
    BY <1>4 DEF get_mount_point
  <2>2. filename \in Seq(Chars) /\ filename # <<>> /\ n \in Nat
    <3>1. filename \in Seq(STRING) /\ filename # <<>>
      BY VfsAssumption
    <3>2. filename \in [1 .. Len(filename) -> Chars] /\ Len(filename) \in Nat
      BY <3>1 DEF Chars
    <3> QED BY <3>1, <3>2
  <2>3. Found(place) # Null =>
          Found(place) \in MountSlots /\ mounts[Found(place)].mount_point = place
    <3>1. MountAt(place) \in SUBSET Nat
      BY SlotsAreNumbers DEF MountAt
    <3>2. MountAt(place) # {} => Min(MountAt(place)) \in MountAt(place)
      BY <3>1, MinLeast
    <3> QED BY <3>2 DEF Found, MountAt
  <2>4. Answers(looked', mounts)
    BY <2>1, <2>2, <2>3 DEF Answers
  <2> QED BY <2>1, <2>4 DEF LookedInv
<1>5. CASE InitDevfs \/ MountDevfs \/ RegisterInitfs \/ MountInitrd \/ Panics
  <2>1. looked' = looked /\ phase # "up"
    BY <1>5 DEF InitDevfs, MountDevfs, RegisterInitfs, MountInitrd, Panics
  <2> QED BY <1>2, <2>1 DEF LookedInv
<1>6. ASSUME NEW kind \in Drivers, Register(kind) PROVE LookedInv'
  BY <1>1, <1>6 DEF Register
<1>7. ASSUME NEW s \in FsSlots,
             unregister_fs(s) \/ \E device \in Devices : Mount(Root, device, s)
      PROVE  LookedInv'
  BY <1>1, <1>7 DEF unregister_fs, Mount
<1>8. CASE UNCHANGED vfsVars
  BY <1>3, <1>8 DEF vfsVars
<1> QED BY <1>4, <1>5, <1>6, <1>7, <1>8 DEF Next

(* What get_mount_point answers for an absolute name without empty parts   *)
(* is the mount on the first of its parts: path_count_parts counts them,   *)
(* path_get_left cuts the name off behind them, and joined again they give *)
(* the name.                                                               *)
THEOREM FoundByParts == Spec => []LookupByParts
<1>1. Init => LookedInv
  BY NoAnswerAnswers DEF Init, LookedInv
<1>2. LookedInv => LookupByParts
  <2> SUFFICES ASSUME LookedInv, IsAbsolute(looked.filename)
               PROVE  LookupByParts
    BY DEF LookupByParts
  <2> PICK name, count : name = looked.filename /\ count = looked.count
    OBVIOUS
  <2>1. /\ name \in Seq(Chars) /\ name # <<>> /\ IsAbsolute(name) /\ count \in Nat
        /\ looked.mount # Null => mounts[looked.mount].mount_point = path_get_left(name, count)
    BY DEF LookedInv, Answers
  <2>2. /\ add_slash(Joined(PartsOf(name))) = add_slash(name)
        /\ path_count_parts(name) = Len(PartsOf(name))
        /\ count <= Len(PartsOf(name)) =>
             /\ path_get_left(name, count) = Joined(SubSeq(PartsOf(name), 1, count))
             /\ PartsOf(path_get_left(name, count)) = SubSeq(PartsOf(name), 1, count)
    BY <2>1, ByParts
  <2> QED BY <2>1, <2>2 DEF LookupByParts
<1> QED BY <1>1, <1>2, StepLooked, PTL DEF Spec

=============================================================================
