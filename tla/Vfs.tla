-------------------------------- MODULE Vfs --------------------------------
(***************************************************************************)
(* The tables of the virtual file system, src/fs/vfs.c: the file systems   *)
(* drivers register and the places they are mounted on.  A mount holds the *)
(* address of a slot of the first table, not a file system: unregister_fs  *)
(* clears the slot whoever uses it, and register_fs gives it out again.    *)
(*                                                                         *)
(* umount, open, read and the other calls on files are stubs that answer   *)
(* VFS_SUCCESS.  A call the code refuses changes nothing and is a          *)
(* stuttering step.  What identify and mount handlers answer is taken from *)
(* all they can answer; Initfs models those of the initrd.                 *)
(***************************************************************************)
EXTENDS Path

CONSTANTS
  MaxFs,        \* MAX_FS
  MaxMounts,    \* MAX_MOUNTS
  DevfsDir,     \* DEVFS_DIR
  DevfsName,    \* "devfs", the device it is mounted from
  InitrdDevice, \* "/" INITRD_DEVICE
  Filenames     \* bound of the model: the names looked up and mounted

ASSUME VfsAssumption ==
  /\ MaxFs \in Nat \ {0} /\ MaxMounts \in Nat \ {0}
  /\ Filenames \subseteq Seq(STRING) /\ <<>> \notin Filenames
  /\ DevfsDir \notin {<<>>, <<Slash>>}

VARIABLES
  fs_collection, \* slot -> the kind of file system in it
  mounts,        \* slot -> fsmount
  phase,         \* how far init_vfs is
  meant,         \* mount -> the kind of file system it was made with
  stale,         \* the mounts whose file system was unregistered since
  looked         \* the last answer of get_mount_point

vfsVars == <<fs_collection, mounts, phase, meant, stale, looked>>

(* A slot whose fsname is empty is free; the kinds are the file systems of *)
(* the kernel and two of drivers, one of them without a device.            *)
NoFs == ""
Drivers == {"diskfs", "nodevfs"}
Kinds == {"devfs", "initfs"} \cup Drivers
FsSlots == 0 .. MaxFs - 1
MountSlots == 0 .. MaxMounts - 1
Null == -1
Root == <<Slash>>
FreeMount == [device |-> <<>>, mount_point |-> <<>>, fs |-> Null]
NoAnswer == [filename |-> Root, count |-> 0, mount |-> Null]

Init ==
  /\ fs_collection = [s \in FsSlots |-> NoFs]
  /\ mounts = [m \in MountSlots |-> FreeMount]
  /\ phase = "init_devfs"
  /\ meant = [m \in MountSlots |-> NoFs] /\ stale = {}
  /\ looked = NoAnswer

-----------------------------------------------------------------------------
(* register_fs copies the file system into the first free slot; the mutant *)
(* takes one whose file system is not mounted.                             *)
FreeFsUnmounted ==
  {s \in FsSlots : \A m \in MountSlots \ {0} : mounts[m].fs # s}
FreeFs == {s \in FsSlots : fs_collection[s] = NoFs}

register_fs(kind) ==
  /\ FreeFs # {}
  /\ fs_collection' = [fs_collection EXCEPT ![Min(FreeFs)] = kind]

Register(kind) ==
  /\ phase = "up" /\ register_fs(kind)
  /\ looked' = NoAnswer /\ UNCHANGED <<mounts, phase, meant, stale>>

unregister_fs(s) ==
  /\ phase = "up" /\ fs_collection[s] # NoFs
  /\ fs_collection' = [fs_collection EXCEPT ![s] = NoFs]
  /\ stale' = stale \cup {m \in MountSlots : mounts[m].fs = s}
  /\ looked' = NoAnswer /\ UNCHANGED <<mounts, phase, meant>>

-----------------------------------------------------------------------------
nodev(s) == fs_collection[s] \in {"devfs", "nodevfs"}

(* What hidentify of a file system may answer: that of devfs compares the  *)
(* device with its own name, that of initfs looks at the initrd.           *)
Identifies(s, device) ==
  CASE fs_collection[s] = "devfs" -> {IF device = DevfsName THEN 1 ELSE 0}
    [] fs_collection[s] = "initfs" ->
         IF device = InitrdDevice THEN {0, 1} ELSE {0}
    [] OTHER -> {0, 1}

(* Two ways to see a free slot: by its mount point, and by its fs.  Mutant *)
(* of the slots: the first of all.                                         *)
FreeMountsAll == MountSlots
FreeMounts == {m \in MountSlots : mounts[m].mount_point = <<>>}
NothingMounted == \A m \in MountSlots : mounts[m].fs = Null

Mounted(m, mount_point, device, s) ==
  /\ mounts' = [mounts EXCEPT ![m] = [device |-> device,
                                      mount_point |-> mount_point, fs |-> s]]
  /\ meant' = [meant EXCEPT ![m] = fs_collection[s]]
  /\ stale' = stale \ {m}
  /\ UNCHANGED fs_collection

(* The first mount goes into slot 0: anywhere, but without a device.       *)
MountFirst(mount_point, device, s) ==
  /\ FreeMounts # {} /\ NothingMounted
  /\ nodev(s) /\ 1 \in Identifies(s, device)
  /\ Mounted(0, mount_point, device, s)

(* The test of the device compares as many characters as DEVFS_DIR has,    *)
(* not the slash behind it; what follows is looked up as dev_get_entry_    *)
(* block does, for which a name without a slash is the root.               *)
InDevfs(device) ==
  Len(device) >= Len(DevfsDir) /\ SubSeq(device, 1, Len(DevfsDir)) = DevfsDir
devicefs(device) == SubSeq(device, Len(DevfsDir) + 1, Len(device))
DevEntries == {<<>>, PartsOf(InitrdDevice)}
HasParams(device) == PartsOf(devicefs(device)) \in DevEntries

(* Any other mount is on the root, whatever is mounted there already.      *)
MountDevice(mount_point, device, s) ==
  /\ FreeMounts # {} /\ ~NothingMounted
  /\ ~nodev(s) /\ InDevfs(device) /\ HasParams(device)
  /\ 1 \in Identifies(s, devicefs(device))
  /\ mount_point = Root
  /\ Mounted(Min(FreeMounts), mount_point, device, s)

(* Without a device the answer of hidentify is read the other way round,   *)
(* and hmount gets a pointer that was never set: it may like what it finds.*)
MountNodev(mount_point, device, s) ==
  /\ FreeMounts # {} /\ ~NothingMounted
  /\ nodev(s) /\ 0 \in Identifies(s, device)
  /\ mount_point = Root
  /\ Mounted(Min(FreeMounts), mount_point, device, s)

mount(mount_point, device, s) ==
  \/ MountFirst(mount_point, device, s)
  \/ MountDevice(mount_point, device, s)
  \/ MountNodev(mount_point, device, s)

Mount(mount_point, device, s) ==
  /\ phase = "up" /\ fs_collection[s] # NoFs
  /\ mount(mount_point, device, s)
  /\ looked' = NoAnswer /\ UNCHANGED phase

-----------------------------------------------------------------------------
(* init_vfs, from the registration of devfs to the mount of the initrd.    *)
InitDevfs ==
  /\ phase = "init_devfs" /\ register_fs("devfs")
  /\ phase' = "mount_devfs"
  /\ UNCHANGED <<mounts, meant, stale, looked>>

MountDevfs ==
  /\ phase = "mount_devfs"
  /\ \E s \in FsSlots : /\ fs_collection[s] = "devfs"
                        /\ mount(DevfsDir, DevfsName, s)
  /\ phase' = "register_initfs" /\ UNCHANGED looked

RegisterInitfs ==
  /\ phase = "register_initfs" /\ register_fs("initfs")
  /\ phase' = "mount_initrd"
  /\ UNCHANGED <<mounts, meant, stale, looked>>

MountInitrd ==
  /\ phase = "mount_initrd"
  /\ \E s \in FsSlots : /\ fs_collection[s] = "initfs"
                        /\ mount(Root, DevfsDir \o InitrdDevice, s)
  /\ phase' = "up" /\ UNCHANGED looked

(* There is no initrd, or it cannot be mounted, or devfs has no memory.    *)
Panics ==
  /\ phase \in {"init_devfs", "mount_initrd"}
  /\ phase' = "panic"
  /\ UNCHANGED <<fs_collection, mounts, meant, stale, looked>>

-----------------------------------------------------------------------------
(* get_mount_point.  A semicolon ends its loop before the body, which runs *)
(* once, for mount_count parts of the name; rest is always empty.  It      *)
(* changes no table: that one answer is followed by a change of the tables *)
(* before the next is a bound of the model.  Mutant: where a search ended. *)
MountAt(left) == {m \in MountSlots : mounts[m].mount_point = left}
FoundPast(left) == IF MountAt(left) = {} THEN MaxMounts ELSE Min(MountAt(left))
Found(left) == IF MountAt(left) = {} THEN Null ELSE Min(MountAt(left))

get_mount_point(filename, mount_count) ==
  /\ phase = "up" /\ looked = NoAnswer
  /\ looked' = [filename |-> filename, count |-> mount_count,
                mount |-> Found(path_get_left(filename, mount_count))]
  /\ UNCHANGED <<fs_collection, mounts, phase, meant, stale>>

Devices == {DevfsName, DevfsDir \o InitrdDevice, DevfsDir \o <<"x">>}

Next ==
  \/ InitDevfs \/ MountDevfs \/ RegisterInitfs \/ MountInitrd \/ Panics
  \/ \E kind \in Drivers : Register(kind)
  \/ \E s \in FsSlots :
       \/ unregister_fs(s)
       \/ \E device \in Devices : Mount(Root, device, s)
  \/ \E filename \in Filenames :
       \E n \in 0 .. Len(filename) : get_mount_point(filename, n)

Spec == Init /\ [][Next]_vfsVars

-----------------------------------------------------------------------------
TypeOK ==
  /\ fs_collection \in [FsSlots -> Kinds \cup {NoFs}]
  /\ \A m \in MountSlots : mounts[m].fs \in FsSlots \cup {Null}
  /\ meant \in [MountSlots -> Kinds \cup {NoFs}]
  /\ stale \subseteq MountSlots
  /\ looked.mount \in MountSlots \cup {Null}

(* A mount leads to the file system it was made with until that one is     *)
(* unregistered, however many are registered and mounted meanwhile; and    *)
(* the two ways to see a free slot agree.  The slot is shared: what comes  *)
(* into it after unregister_fs is what the mount leads to.                 *)
MountMeant ==
  /\ TypeOK
  /\ \A m \in MountSlots :
       /\ (m \in FreeMounts <=> mounts[m].fs = Null)
       /\ (m \notin FreeMounts \cup stale =>
             fs_collection[mounts[m].fs] = meant[m])

(* Once something is mounted on a place, what get_mount_point answers for  *)
(* it never changes: the initrd stays the root, and what is mounted on the *)
(* root later is recorded and never found.                                 *)
LookupStable ==
  [][/\ \A m \in {m \in MountSlots : mounts[m].fs # Null} :
          LET place == mounts[m].mount_point
          IN  Found(place)' = Found(place) /\ mounts'[m] = mounts[m]
     /\ phase' = "up" => meant'[Found(Root)'] = "initfs"]_vfsVars

(* The answer is the mount on the first parts of the name, compared part   *)
(* by part: for every absolute name without an empty part its parts are    *)
(* counted and cut off right, and joined again they give the name.         *)
Joined(parts) ==
  IF parts = <<>> THEN Root
  ELSE FlattenSeq([i \in DOMAIN parts |-> <<Slash>> \o parts[i]])
IsAbsolute(name) ==
  /\ name[1] = Slash
  /\ \A i \in 1 .. Len(name) - 1 : ~(name[i] = Slash /\ name[i + 1] = Slash)
LookupByParts ==
  LET parts == PartsOf(looked.filename)
      left == SubSeq(parts, 1, looked.count)
  IN  IsAbsolute(looked.filename) =>
        /\ add_slash(Joined(parts)) = add_slash(looked.filename)
        /\ path_count_parts(looked.filename) = Len(parts)
        /\ looked.count <= Len(parts) =>
             path_get_left(looked.filename, looked.count) = Joined(left)
        /\ looked.count <= Len(parts) /\ looked.mount # Null =>
             PartsOf(mounts[looked.mount].mount_point) = left

=============================================================================
