# Blueport, specified

Blueport is a 32-bit x86 kernel started by a multiboot loader.  This directory
holds TLA+ specifications of it, the TLC configurations that check them on small
instances, and proofs checked by TLAPS.  Every definition is translated from the
C code; `PROJECT.json` names the lines each one stands for, the hazards the
properties are aimed at, and the disagreements found between the code and its
own comments.

## The system

| part | state | operations | talks to |
|---|---|---|---|
| physical pages, `mm/fismem.c` | bitmap of pages, counter of free pages | `fis_alloc`, `fis_free`, searches, manual reservation at boot | nobody below |
| paging, `mm/paging.c` | page directory and page tables | `paging_alloc`, `paging_free`, `get_physical`, directories of tasks | takes page tables from physical pages |
| virtual pages, `mm/virmem.c` | one bitmap per memory area | `vir_alloc`, `vir_free` | paging and physical pages, page by page |
| descriptors, `mm/mem_desc.c` | a chain of pages of (address, size) | `init_desc`, `new_allocation`, `free_allocation` | allocates its own pages through `vir_alloc` |
| memory areas and heap, `mm/mem_area.c`, `mm/kmem.c` | `kmem_area`, areas of tasks | `kmalloc`, `kfree`, `init_memory_area`, `switch_memory_area` | all the above |
| page faults, `mm/page_fault.c` | none of its own | copies directory entries of the kernel | paging |
| boot, `mm/mem.c`, `multiboot.c` | memory map, modules | `init_mm` in two phases, `prepare_modules`, `copy_modules` | reserves physical pages, then uses the heap |
| device file system, `fs/dev.c` | entries in the blocks of a ramdisk | create, link, remove, configure, request | drivers through their handlers |
| initrd file system, `fs/initfs.c` | cache of archive entries in a device | mount, unmount, read, identify | requests to the device, heap |
| virtual file system, `fs/vfs.c` | tables of file systems and mounts | register, mount, look up | file systems through function tables |
| names, `fs/path.c` | none | parts of a name: get, count, join | the two file systems above |
| interrupts, `irq.c`, `asm.S`, `idt.c` | masks of two controllers, handlers | enable, disable, entry code | the handlers |
| keyboard, `dev/keyboard.c` | modifiers, leds, console | the interrupt handler | video, controller ports |
| console and log, `video.c`, `kernel.c` | cursor, pages, log buffer | `putc`, `kprint`, `klogcat` | everybody prints |
| formatting and numbers, `var/vsprintf.c`, `var/stdlib.c` | none between calls | `vsprintf`, `strtol`, `strtoul`, `strtoi`, `ucvt` | `kprint` and `panic` format, `initfs.c` reads numbers |

The order of calls is fixed at boot: `start_kernel` counts memory and sets up
the physical and virtual bitmaps (phase 1 of `init_mm`), reserves the modules,
then `kernel_main` makes the descriptor chain (phase 2), copies the modules, lets
interrupts in, and mounts file systems.  Only the keyboard has an interrupt
handler and it never allocates, so the memory manager and the file systems run
one call at a time.  What makes them hard is not concurrency but depth: one
`kmalloc` updates four records of the same fact in four files, calls itself for
its own bookkeeping, and may fail between any two of those updates.

What makes each part correct:

- physical pages and paging: a page has one owner; the three bitmaps and tables agree;
- heap: blocks held never overlap, stay where they are, and failures give everything back;
- device file system: the lists of a directory stay lists, names stay apart;
- boot: what is reserved is never handed out, and the counter matches the bitmap;
- initrd: buffers are given back once, reads answer the bytes of the file;
- areas of tasks: they see what the kernel maps, and never free what it uses;
- virtual file system: a mount leads to the file system it was made with, a name
  to the place it was mounted on;
- formatting: a format is never read past its end, a number reads back as it was
  written;
- interrupts, keyboard, console: masks survive a handler, every command is
  acknowledged, writes stay on the page, the log is the end of what was printed.

## The modules

| module | what it is |
|---|---|
| `Fismem` | level 1: the bitmap of physical pages, the counter, the searches with their edges |
| `KMem` | the kernel heap through all levels, one pass of a loop per step; extends `Fismem` |
| `Heap` | what the heap promises its callers, abstract; `KMem` is shown to implement it |
| `KMemTlb` | `KMem` beside a processor that keeps a translation; extends `KMem` |
| `MemArea` | memory areas of tasks, their page directories, and the page fault handler |
| `KMemProofs` | the heap: types, exclusive pages, agreement of bitmap and page tables; what it owes its callers: blocks, leaks, counters; and that `KMem` implements `Heap` |
| `MemAreaProofs` | the memory areas: directories that only copy, one task, what releases take |
| `InitfsProofs` | the initial file system: where the cache is written, what it finds, what is lost |
| `DevFsProofs` | the device file system: its links, and that it implements `NameSpace` |
| `BootMemProofs`, `VfsProofs`, `KeyboardProofs`, `ConsoleProofs` | the proofs about `BootMem`, `Vfs` with `Path`, `Keyboard`, and `Console` with `Format` and `Numbers` |
| `DevFs` | the device file system: entries, links, partial removal |
| `NameSpace` | what the device file system promises, abstract; `DevFs` is shown to implement it |
| `BootMem` | the boot of the memory manager: what is reserved, and the copy of the modules into the heap; extends `Fismem` |
| `Initfs` | the initial file system: the search for the initrd, its mount, reads, and the pages each of them takes, gives back and loses |
| `Keyboard` | the keyboard driver and its interrupt, with the keyboard and the controllers around it |
| `Console` | the cursor and the page, `kprint`, and the log it fills, with a `kprint` of the keyboard handler between its steps |
| `Path` | the functions on names, as operators |
| `Vfs` | the tables of file systems and mounts, `init_vfs` and lookups; extends `Path` |
| `Numbers` | numbers written and read, as operators |
| `Format` | `vsprintf` character by character; extends `Numbers` |
| `MCKMem`, `MCKMemTlb`, `MCMemArea`, `MCDevFs`, `MCBootMem`, `MCInitfs`, `MCVfs`, `MCKeyboard`, `MCConsole` | values of the constants for TLC |

### KMem

State against code: `fis_bitmap` and `fis_freepages` are the variables of
`fismem.c`, sets of page numbers instead of bits; `page_bitmap` is
`kmem_area.page_bitmap`; `pde` and `pte` are the directory and the tables it
points to, flags left out (the heap maps everything alike); `chain` is the list
of descriptor pages from `kmem_area.first_alloc`, each with its virtual page, its
counter and its array.  `pc`, `run` and `block` say where in a call the kernel
is, and `live` is what callers hold.

| action | code |
|---|---|
| `InitDesc` | `init_desc(.., 1, ..)` in phase 2 of `init_mm` |
| `KmallocBegins`, `KmallocRefused` | `kmalloc` → `mem_alloc` → the checks of `vir_alloc` |
| `MapPage`, `MapPageAndTable`, `MapRefused`, `MapLost` | one pass of the loop of `vir_alloc`, `paging_alloc` with it, by outcome |
| `RecordBlock`, `AddDescriptorPage`, `DescriptorPageRefused`, `RecordOverruns` | `new_allocation`, by outcome, and the failure path of `mem_alloc` |
| `KfreeFinds`, `KfreeMisses` | `kfree` → `mem_free` → `free_allocation` |
| `UnmapPage` | one pass of the loop of `vir_free` |

Quirks kept because the properties turn on them: the search for a free page has
no bound and answers a page past the end of memory; `fis_find_pages` answers one
too many; the last descriptor page is never searched; `kfree(0)` matches an empty
descriptor; a page table placed on the first page past memory reads back as all
present.  The counter starts off by a member of `Drifts`, because `init_fismem`
counts one page too few as used and regions of the memory map twice when they
overlap what is reserved.  The bits of the bitmap past memory are kept as far as
the third.

Two things the passing run shows that its comments do not say.  `vir_alloc` passes
its checks, which count the pages of the block and not the page table
`paging_alloc` creates, and then runs out of memory: `LostOnlyByTables` says that
this is the only way.  And `kfree(0)`, which `initfs.c:531` makes after a failed
`kmalloc`, adds one to the free counter of a descriptor page: when the page is full
`new_allocation` trusts the counter and writes behind the array, over the counter
itself (`RecordOverruns`); `DescriptorCountsExact` says by how much each counter is
off.

`KMemTlb` adds a processor that keeps one translation.  `paging_free` empties the
entry of a page and does not tell the processor; the code has two functions that
would, and no caller for either (finding `kmem_tlb`).  All other modules give
memory the contents the tables say.

Calls the code cannot finish (memory it does not have, a write past the
descriptor array, a panic) are states where the model stops, so deadlock is not
checked in these runs.

### MemArea

`word[f]` is the content of a physical page that is a directory or a table; both
are pages of entries, and which of the two a page is depends on who reads it.  The
processor walks from the directory in CR3; `paging.c` works at two virtual
addresses, `PD_VIRT` and `PT_VIRT`, the last page and the last table of the address
space, and sees there whatever the last entry of the current directory leads to.
`area` holds the `memory_area` structures that exist, `cmem_area` the current one.

| action | code |
|---|---|
| `Allocate`, `AllocateInTask`, `MapPage`, `MapRefused`, `MapLost` | `mem_alloc` in the area of the kernel or of a task: `vir_alloc`, one pass of its loop per step |
| `Free`, `FreeInTask` | `mem_free` |
| `SwitchArea` | `switch_memory_area` |
| `InitMemoryArea`, `AllocDirectory`, `DirectoryRefused`, `InitPagingData`, `InitDesc`, `InitMemoryAreaFails` | `init_memory_area` between its allocations, and its two ways out |
| `FreeArea` | `free_memory_area` |
| `Use`, `CopiesEntry`, `FaultPanics` | an access to a page the processor does not find, `page_fault` |

The last entry of a new directory is copied from the kernel's with the others, so
that in every task `PD_VIRT` is the directory of the kernel and not that of the
task.  What follows is the reverse of what one expects: tables made for a task are
entered in the kernel's directory only, the task itself never sees them, and the
copy that `page_fault` makes is of an entry onto itself.  Nothing is shared that
should not be (`TasksOwnNoTables`); the mutant, a directory whose last entry points
to itself as the comments intend, shows that with it the two directories diverge.
The first page a task is given, for its descriptors, is in the table all
directories share, so there is at most one finished area (`OneTask`).

Blocks are given back by address.  `kdesc` is the page of descriptors in its order,
because `free_allocation` empties the first that records the address, whatever its
size and whoever made it (`FreeAllocation`), and `vir_free` then goes through as many
pages as it says, up to one that is not allocated (`PagesFreed`).
`free_memory_area` gives back one page of the two of a directory and leaves its
descriptor, and the way out after a failed `init_desc` gives `free_paging_data` a
physical address for a virtual one and gives back no page of it.  When a block is made at the
address of such a descriptor and given back, the descriptor that is found may be the
old one: the second page of the directory goes too, and it is the block's own
descriptor that stays, to be found by a later release.  So pages of directories are
lost and found again, and descriptors of other blocks outlive them.  What holds through
all of it is `ReleasesTakeOwnPages`: a release never takes a page of a block somebody
holds, of an area or of a directory.  The reason is that the second page of the
directory stays taken for as long as a descriptor covers it, so that nothing else is
put there.  Its mutant gives back both pages of a directory: then the descriptor that
stays does cover a neighbour, whose page is freed under it.

`page_fault` stands in the interrupt table itself.  The processor pushes the error
code last, so that what the C function takes for its argument is EIP, whose lowest
bit decides between a missing page and a violated protection, and its `ret` goes on
at the error code, in page 0.  Every fault ends in panic, the repairable ones one fault
later (`FaultsNeverReturn`), while the comment of `page_fault` says that a kernel page
which is allocated and not present is mapped (finding `memarea_fault`).

Only a disabled test in `kernel_main` makes areas.  The model takes the calls from
there and lets kernel code and tasks allocate in between; it stops allocating when the
`Descriptors` of one page are used, and leaves the chain of pages to `KMem`.  A task's
own descriptors are the set of blocks they record: a task never gives a block back in
part, so that there an address stands for one block.

### DevFs

A path is the sequence of its parts; the parsing of `path.c` is left out, as is
what `dev_setparams` stores but the presence of a handler.  No function
distinguishes a device from a directory, so both are one type.  A call the code
refuses changes nothing and is a stuttering step.  `Removed` follows `dev_remove`
case by case: which of the neighbours and the parent is written, and when the
entry is erased.  `dev_link` takes the answer of `dev_create`, 0 for success, as
the block of the link: the name of the file is written into the root's block, the
link stays without a file, and `NameSpace` promises no more of a link than that.

### BootMem

Boot is a sequence, but its input is not: what the loader filled in, the size of
the kernel, the memory map and the modules are chosen in `Init`, and all the code
has to agree on how many pages each of them takes.

| action | code |
|---|---|
| `MultibootCheck` | `multiboot_check`: where it reads the groups of `multiboot_info` |
| `TooSmall` | the sum of the memory map in `init_mm`, 32 bits wide |
| `ReserveKernel`, `ReserveRegion` | the two halves of `init_fismem` |
| `RegionsReserved`, `Prepare`, `PrepareRefused` | `prepare_modules`; index 0 is the page of the descriptions |
| `InitDesc` | phase 2 of `init_mm` |
| `MapModule`, `CopyModule`, `ReleaseModule` | one pass of the loop of `copy_modules`: `identity_mapping`; `kmalloc` and `memcpy`; `paging_free` and `fis_manual_free` |
| `AllocationRefused`, `MemoryLost` | an allocation answers 0 and boot panics; memory runs out below the checks, as in `KMem` |

A `kmalloc` is here the number of pages it takes, those of its block and up to
two more for page tables and descriptors; how it takes them is `KMem`.  Pages
searched for one at a time are the lowest clear ones, and stop at the end of
memory (past it the model says "lost").

What the code does that one might not expect, and the model keeps.
`multiboot_check` goes from group to group and steps over one that is missing only
when it is that of the modules ("purtroppo ci sta lo stesso", `multiboot.c:85`); the
loader leaves every group its place.  A loader that leaves out the command line or
the symbols has its modules or its memory map read where something else is; the
model stops there, and when the memory map has more than `MAX_MMAP` regions, which
are copied all the same.  `LoaderRead` says that nothing else goes wrong in reading.
`init_fismem`
reserves one page more than it counts, so the counter starts one too high;
`fis_manual_alloc` counts again what was reserved before (the descriptions and
the BIOS regions lie in the first megabyte, and the first module may share a page
with what was reserved for the kernel), so it then falls behind; `CounterTold`
says by exactly how much.  A module that ends exactly at the end of memory is
refused and boot panics.  `copy_modules` overwrites `mod_start` before it passes
it to `fis_manual_free`, which refuses the virtual address of the copy: the old
pages of the modules are never given back, and on these machines nothing else is
harmed.  The sum of a memory map that reaches past 4 GB wraps.

`KMem` takes what boot leaves as constants: `BootFrames` is `fis_bitmap` when
phase 1 ends and its `Drifts` are the values of `again - 1`.  The machine has less
than 3 GB (`FisPages <= KernelVirtual`).

### Initfs

One action per function, or per way a function ends; `bufs` holds the pages of
the local pointers of the running call, `mem` the pages in use and those among
them to which nobody keeps a pointer.  `kmalloc` is the first run of free pages,
as `KMem` has it; where a page comes from is kept because one property depends on
it.  An archive is a sequence of blocks: headers (right or damaged), data, empty
blocks; checksums and octal sizes are abstracted to that, and the size of a
damaged header is taken to be readable.

| action | code |
|---|---|
| `TryModule`, `NoInitrd` | the loop of `init_vfs` over the modules, `initfs_hidentify` |
| `MountBegins`, `MountFails` | `mount`, and `initfs_hmount` up to its loop |
| `CacheEntry`, `CacheEnds`, `CacheFull`, `CacheFails` | one pass of that loop, by outcome |
| `ReaderTakes`, `HreadBegins`, `HreadRefused`, `HreadNull` | the caller's buffer, `initfs_hread` |
| `FindCached`, `FindFaults`, `FindNoMemory`, `FindWild`, `FindManually`, `FindRefused` | `get_file_block` through the cache |
| `WalkOn`, `WalkEnds`, `WalkFails` | its loop over the headers behind the cache |
| `SizeRefused`, `SizeKnown` | `get_file_size` and the test for the end of the file |
| `ReadNoMemory`, `ReadBlocks`, `ReadOverruns` | the rest of `read_file` |

What was found on the way.  `initfs_cache` is an array type and `cache` a pointer
to it, so `cache[i]` is `i` whole caches of 4056 bytes away: entry `i` is written
almost `i` pages beyond the one page allocated.  It works because
`initrd_handler` loses one page of parameters per request and the first free pages
are those behind the cache: before entry `i` is written, `i + 1` requests have put
lost pages there.  `MountWritesOwn` checks this, and its mutant, the handler
without the leak, shows that repairing the leak alone makes mount write over
whatever comes next.  The model assumes for this that the heap has no hole behind
its first pages when `init_vfs` starts and that no descriptor page falls among
those pages (fewer than `ALLOC_NUM` allocations).  A search for a name that is not
cached goes through entries that were never written: it may meet a page that is
not mapped (`FindFaults`) or start at a block memory happens to hold
(`FindWild`).  The model stops there, as it does when a `kmalloc` of `hread`
answers 0 (`HreadNull`; for an empty name nothing is copied and `read_file` refuses the
null pointer) and when the copy of a read runs past its buffer
(`ReadOverruns`).  `initfs_hread` copies the name behind its first slash without the
terminator (`initfs.c:360`), into a page that `kmalloc` does not clear: the name that is
searched goes on with what the page held, up to the first 0 there (`Leftovers`), so that
a read of `/a` may read `/ab`.  The name of `/` is empty; when nothing follows it, the
search finds the entry that ends the cache, or the empty block that ends the archive,
and the read ends there.  `FoundWhereItIs` is about the name that is searched.  Names
are taken to begin with a slash, as the comment at `initfs.c:356` has them.
`req_type` is not initialised in `get_file_block` and
`get_file_size`: each request there may be refused.  `read_file` takes one byte
too many when it reads to the end of the file (`toread`), and its number of blocks
mixes an absolute and a relative block number: for any file but the first of the
archive it is too small, and when it is 0 or negative the `kmalloc` of line 132 is
refused and the caller told that memory is insufficient while most of it is free
(`ReadNoMemory`).

### Path and Vfs

A name is the sequence of its characters, of which only the slash counts.  The
functions of `path.c` are operators; `LookupByParts` compares what they compute with
the parts of the name.  `Vfs` has the two tables, `fs_collection` and `mounts`, with
`init_vfs` from the registration of devfs to the mount of the initrd, then
`register_fs`, `unregister_fs` and `mount` in any order and `get_mount_point` in
between.  `meant` and `stale` are not in the code: the file system a mount was made
with, and the mounts whose file system has been unregistered.

| action | code |
|---|---|
| `InitDevfs`, `MountDevfs`, `RegisterInitfs`, `MountInitrd`, `Panics` | `init_vfs` |
| `Register`, `unregister_fs` | the functions of these names |
| `Mount` (`MountFirst`, `MountDevice`, `MountNodev`) | `mount`, by its three ways to accept |
| `get_mount_point` | the function of this name |

Kept as they are: `unregister_fs` leaves the mounts of what it clears, which lead to
what is registered next in the slot (`stale`); a mount on the root is accepted
however many there are, and only the first is found; the test for a device below
`/dev` compares the characters of `/dev` and not the slash, so that `/devx` passes
and names the root of devfs; without a device the answer of `hidentify` is read the
other way round, with a pointer that was never set; a semicolon ends the loop of
`get_mount_point` (`vfs.c:371`) before its body, which runs once, and its rest of
the name, which the comment at `vfs.c:362` promises, is always empty.  `umount`,
`open`, `read` and the other calls on files answer `VFS_SUCCESS` and do nothing.

### Numbers and Format

A word has `Bits` bits and is its unsigned value.  `Format` reads a format one
character per step and chooses the next character when the code reads it, so that
formats of every length are followed; `piece` is what the current directive wrote.
`NumbersReadBack` gives every piece that is a number to the three functions that
read numbers.

Kept as they are: `fmt` stays on a `*`, which is then taken for the conversion, so
that `%*d` prints `%*d`; `strtoi` answers the least number one too high; the
negation of the least number is itself.  Left out: `isalpha` accepts the six
characters between `Z` and `a`, which `strtol` would read as digits.

### Keyboard

Two actors: the user, who types on the keyboard, and the processor, in the
handler or out of it.  `wire` is what the keyboard has to send, `obuf` and `ibuf`
the two buffers of the controller (ports 0x60 and 0x64), `frames` the running
handlers.  A byte is a code, with the bit that says whether the key goes up; the
codes that only print are one.  `kernel_main` does not call `init_keyboard`; the
model starts the driver as it stands, after `sti`.

| action | code |
|---|---|
| `Press`, `Release`, `Arrives`, `Obeys` | the hardware, as the code uses it |
| `AddHandler`, `EnableIrq` | `init_keyboard` |
| `Enter`, `Leave` | `HWINT_MASTER(1)` before and after the handler |
| `Read`, `Prefix` | `keyboard_interrupt`, up to the table |
| `ModifierDown`, `ModifierUp`, `Prints`, `Nothing`, `Pad`, `Del`, `Reboot`, `CapsDown`, `CapsRepeats`, `CapsUp`, `NumOrScroll` | the entries of `key_table` |
| `KbWait`, `KbAck` | one look of the loops of `kb_wait` and `kb_ack` in `set_leds` |

What the handler cannot know shows in two variables the code does not have.
`muddled`: `kb_ack` reads every byte that comes and drops those that are not the
answer; the interrupt those bytes requested stays requested, so the handler runs
once more, finds the buffer empty and handles the last byte a second time.  With
a right Ctrl the second time is without its prefix: a left Ctrl that stays down.
The bytes reach the handler as they were typed only while this has not happened,
and `ModifiersFollow` and `RebootMeant` say what holds then.  `hurried`: `kb_wait`
gives up when the controller is slow and the next command replaces the last;
`LedsTell` holds until then.  The controller is taken to keep an interrupt it has
requested although the byte is read by polling, as the common ones do, and to
give the last byte again when it has none.  Pause sends the codes of Ctrl and Num
Lock after E1; the prefix is used up by the first of them, and Pause then works as
Num Lock.  The grey keys, for which a keyboard adds shifts of its own, are not
typed on; `del` and `pad` are keys of the numeric pad.

### Console

`ink` is the set of cells that show a character (which one and in which colour is
left out), `log` the bytes from `kprint_log` on, those of the buffer and `MaxPast` behind
it, `frames` the calls of `kprint`, at most one of the kernel and one of the handler.
`said`, `whole`, `returned` and `disturbed` are not in the code: what `strcat` was given
so far, and three facts the properties depend on.

| action | code |
|---|---|
| `Kprint`, `KeyPrints` | a call of `kprint`, from the kernel or from the handler that interrupts it |
| `Printc` | one pass of its loop: `putc` and `scroll_up` |
| `Measure`, `Shift`, `Strcat` | the condition, the `memcpy` and the `strcat` of `klogcat` |

Characters go to the page with interrupts disabled, so two strings may be mixed
there and nothing worse.  The log is not protected, and it does not stay in its buffer.
A `kprint` between the steps of another makes the length that was measured too small,
and what is appended then runs past the end.  Without any interrupt the same comes of a
log of exactly `LOG_SIZE` characters: `kernel.c:147` compares with `>`, nothing is
shifted, and the terminator falls behind the buffer.  From then on `strlen` goes over
the end, the `memcpy` moves what is in the buffer and no terminator into it, and every
later string is appended behind the buffer, where it grows without a bound.  The comment
at `kernel.c:142` says that a log which has reached its largest size is shifted so that
the string fits; a log that has reached it exactly never takes a string again.

The model follows this.  `LogLen` counts over the end of the buffer, `Strcat` writes
wherever that is, and `MaxPast` bounds how far.  What lies behind the buffer belongs to
other variables; that their owners leave those bytes alone meanwhile is an assumption
of the model, and what becomes of the owners is not in it.  `LogIsRecent` has two parts.
`LogInOrder` holds always: a log that ends in its buffer is the end of what was given
to `strcat`, in that order and whatever interrupted, and one that does not holds behind
the buffer all that was said since.  `LogLong`, that the log is all there was or too
long for one more string, holds for a log in its buffer unless a call was interrupted
(`disturbed`).  Interrupts within the copy of `memcpy` or `strcat` are not modelled.
Strings are at most half as long as the log, as the 2048 bytes of `kprint` make them.

## The runs

| run | shows | bounds |
|---|---|---|
| `kmem` | all safety, action and liveness properties of the heap, and that it implements `Heap` | nine physical pages, two reserved; page tables of three pages; descriptor pages of two entries; requests of 0, 1, 2, 3 pages and one too large; counter off by -1, 0, 2, wrapping at 32 |
| `memarea` | the directories of tasks copy the kernel's and own nothing; at most one area is finished; releases by address take no page of a block somebody holds | fourteen physical pages, four of the first megabyte and one of image; directories and tables of eight entries, two of them the kernel's; a directory asked for as two pages; four descriptors; two blocks of kernel code, of one or two pages, and one of the task, of three or four |
| `boot` | what the loader says is read right; nothing reserved is handed out, nothing handed out overlaps; the counter is off by a known amount | every set of flags; sixteen pages of two units, three of low memory; page tables of eight; six sizes of kernel; six memory maps, one too long; up to two modules of 1 to 5 units and three lists of three; up to two extra pages per allocation; counter wrapping at 32 |
| `vfs` | mounts lead where they were meant to; what is found at a place never changes; names are compared by parts | three slots of each table; two file systems of drivers, one without a device; names of one to five characters |
| `devfs` | the tree of entries and that it implements `NameSpace` | four blocks, three names, paths of two parts |
| `initfs` | mount writes only to its cache and to lost pages; entries and searches lead to the right block; nothing else is lost or freed | a cache of eight entries in the proportions of the real one; thirteen sets of modules; heaps of 3 to 27 pages, one taken; five names, two offsets, three lengths |
| `keyboard` | the handler never interrupts itself and always returns; modifiers, leds and restarts follow the keys | six sets of up to four keys; typed while fewer than two bytes wait; two looks at each port |
| `console` | the two halves of `kprint`: a format is not read past its end and numbers read back; then writes stay on the page or just behind, text is not covered, the log is the end of what was printed, behind its buffer too | words of six bits, all values, two decimal digits, numbers up to 11 in a format, stars of both signs; a page of two lines of three cells, tabs of two; a log of five characters and three bytes behind it; four strings of the kernel and three of the handler |
| `kmem_lastpage` | expected violation: a block in the last descriptor page cannot be freed | as `kmem`, counter exact |
| `kmem_tlb` | expected violation: a page that was freed and mapped again is reached where it was | as `kmem_lastpage`, one translation kept |
| `memarea_fault` | expected violation: a kernel page that is allocated and missing in a task's directory is never mapped | as `memarea`, seventeen pages and one block of kernel code |
| `devfs_removed` | expected violation: the first entry of the root survives its removal | as `devfs` |

Why the bounds are enough.  Seven pages of heap are the least that let a block
span two page tables while a descriptor page is added for another, with memory
running out at each point of either; descriptor pages of two entries give chains
of three pages.  Tables of three pages put a block inside one table, across two,
and at the start of a new one.  `UWrap` is 32 so that the counter really wraps.
In `boot`, pages of two units give every size both a whole and a partial last
page; the modules end inside, at and past the first page table and at the end of
memory, and their copies exhaust it at each allocation; the maps have no region,
regions inside the first megabyte that begin in the middle of a page, regions past
memory and past 32 bits.  Three entries are the least for a directory with a middle, the one case
`dev_remove` erases, and four blocks force erased blocks to be reused.

In `memarea`, tables of eight entries leave room for a first table, tables of the
task, two tables of the kernel, so that one is added after an area was made, and the
last entry.  Fourteen pages let memory run out at each allocation of
`init_memory_area`, and a block of four pages reaches from the first table of a task
into its second.  Two blocks of kernel code beside an area, of one page and of two, are
the least for a block to be made at the address of an old descriptor, another to lie
behind it, and the first to be given back through the wrong one; of four descriptors the
last is then the one an old one has used up.  `memarea_fault` needs the second table of
the kernel, hence more pages.

In `vfs`, after the two mounts of `init_vfs` a third slot is left for each table: the
least for which a file system can be unregistered, replaced and mounted again while
the others stay.  Names of five characters have every order of up to three parts,
with slashes behind and doubled.

In the formats of `console`, six bits are the least for which a base of 10 and of 16 have numbers of
two digits on both sides of the largest signed one; two decimals and 11 give widths
and precisions below, at and above the length of every number.

In `initfs`, eight entries are the least for which an archive of one file leaves
entries on pages no request has mapped; the archives end before, at and behind the
last entry, cut or damaged at each of these places; the sizes of files are empty,
within a block, exactly a block, and more than a page.  The smallest heaps fail
at every allocation of mount, the larger ones at every allocation of a read.

In `keyboard`, each set is the keys one property depends on: the two keys of a code
with its prefix, both Alts with the pad, locks with a key of two bytes.  Two looks
let a wait succeed at once, succeed late and give up; two bytes and what follows
them let a key come before, between and after the two answers of a led command.

On the page of `console`, a tab may begin in the last cell and reach behind it, a line
may fill exactly, and every string comes with the log empty, filling, full and shifted.
The lengths 0 to 3 meet a log of 5 below, at and above its size, and once it is exactly
full three bytes behind it let another string of each length follow, and the handler's
after it.  A string that reaches farther is not printed: what it would do is what the
one before did.  The formats are all tried before anything is printed, since `vsprintf`
keeps nothing from one call to the next.

Fairness: in `KMem`, `FairSpec` asks that the kernel goes on executing a call it has
entered, which it does because interrupt handlers return; nothing is asked of
callers.  It is used for `CallsReturn` only.  In `Keyboard`, `FairSpec` asks that the
processor goes on executing the handler; nothing is asked of the user, nor of the
keyboard and its controller, which may never answer.  It is used for
`HandlerReturns` only.  In `MemArea`, `FairSpec` asks that the kernel goes on executing
a call or a fault it has entered; nothing is asked of those who call.  It is used
for `AllocatedPageMapped` only, which is violated all the same.

Every property of a passing run is broken by a mutant of the model named in
`PROJECT.json`, a plausible bug put into one definition.

## What is proved

Every safety property and every action property the run `kmem` checks is proved for
every size of memory, of page tables, of descriptor pages, every set of request
sizes and every drift of the counter, and so is the refinement of `Heap`.

`KMemProofs`: `Typing` (`Spec => []TypeOK`), `Exclusive` (`FramesExclusive`),
`BitmapAgrees` (`BitmapMatchesPaging`), and `Invariance`, the inductive invariant
they follow from.  `IInv` adds to these three `BootReserved` (what boot
reserved keeps its bit, page 0 with it) and `CallShape` (while a call runs, the
page its loop is at, and how many are left, lie inside the block it works on, and
the block inside the heap).  Neither can be left out: `FramesExclusive` alone says
nothing about whether the page a step maps is already mapped, and that the step
stays inside the domain of the page tables is a fact about the running loop, not
about a single state of the tables.  The central lemma is that the page a search
finds is clear in the bitmap, hence owned by nobody (`NewPageIsClear`,
`NewTableIsClear`), together with the one that a run accepted by the checks of
`vir_alloc` lies in clear virtual pages (`AcceptedRun`).

There too: `BlocksIntact` (`HeldBlocksIntact`), `NoLeak` (`NothingLeaks`),
`StaysPut` (`HeldPagesStayPut`), `CountsExact` (`DescriptorCountsExact`).  `BlockInv`
follows a block from the checks of `vir_alloc` to its descriptor and back.  What a
call has mapped so far (`InHand`), what it has still to map (`ToDo`) and what is
recorded are apart (`CallApart`, `BlocksApart`); together with the descriptor pages
they are all that is mapped (`AllOwned`), unless a page table lies past memory; and
no block is recorded twice (`RecordedOnce`), without which freeing it once would
leave a record of pages that are gone.

`CounterKept` (`CounterConserved`) is proved by what each step does to the
number of clear bits and to the counter, and `LostByTables` (`LostOnlyByTables`) too.
For the second, as long as a loop of `vir_alloc` runs, either the pages it still
needs are free, or the counter is too high, or a page table was taken that so far
maps pages of this call alone: `LostInv`.

And `PromiseKept` (`Spec => HeapPromise`).  The descriptors are the
blocks of `Heap`; `RecordBlock` is its `Alloc`, `KfreeFinds` and `KfreeMisses` its
`Free` in its two outcomes, and all other steps leave its variables alone.

Two theorems say more than any run.  `ForgetsAllButTheLast` is the exact extent of what
`kmem_lastpage` shows on one example: until someone passes `kfree` a 0, a call of
`kfree` leaves its block recorded if and only if the block is recorded in the last page
of a chain of two pages or more.  A held block is known by its address
(`AddressTells`), and a page that records one never looks empty by its counter
(`UsedIsCounted`, from `DescriptorCountsExact`), so the search fails on no other page.
`CallsAreBounded` is the part of `CallsReturn` that needs no fairness: while a call runs
nothing but its own steps happens, and each makes `CallLeft`, at most
`2 * MaxPages + 3`, smaller.  For this the descriptor page that was just linked must be
one `new_allocation` then finds an entry in (`AddedIsFound`); else the two would go
round for ever.

Assumptions: `FismemAssumption` and `KMemAssumption`.  The one with content says
that memory runs out before the heap reaches the last page table of the
directory, which the kernel maps onto the directory itself and does not reserve
in its bitmap of virtual pages; that is so on machines with less than 1 GB.

`BootMemProofs` proves `KeptThroughout`, `Spec => []MemoryKept`, for every machine,
memory map and list of modules within `BootMemAssumption`.  From the moment the
kernel is reserved no step clears the bit of anything reserved or handed out, so
what is handed out next, being clear, lies over none of it (`KernelInv`,
`HandedInv`); `ShapeInv` says where boot is in its lists.  A module is safe between
`prepare_modules` and its copy because the two round its size up alike
(`RoundedAlike`).  `CounterIsTold` (`CounterTold`) and `BootTyped` (`TypeOK`) follow
from `CountInv` beside it: what is taken is clear and inside memory
(`LowestClearIs`: the `n` lowest clear bits are `n`), so each page taken leaves both
the free ones and the counter, while a range `fis_manual_alloc` accepts leaves the
counter whole and the free pages without its overlap with what was reserved; the
wrapped difference is followed as a number without a wrap (`Told`).  That the pages of
a module lie inside memory is a sum over the modules before it, a recursive function:
`SumsExist` and `LoadedIs` unfold it by the least index where the claim would fail.

`VfsProofs` proves `Meant` (`MountMeant`) and `Stable` (`LookupStable`) for every number
of slots.  The mounts fill their table from slot 0 (`Filled`), since nothing is ever
unmounted: a new mount on a place is behind all that are there, and is not found.
`InitrdFirst` says that nothing is on the root before the initrd, for which
`DEVFS_DIR` must not be the root (`VfsAssumption`).  There too: `FoundByParts`
(`LookupByParts`), for names of every length.  It rests on where the slashes are: every
name has its slashes numbered from left to right (`SlashesNumbered`), the least place at
which so many have been met being the next of them (`CountGrows`), and a part is what
lies between two (`PartIs`).  An absolute name without empty parts is then, its last
slash apart, a name that begins and ends with one (`Framed`, `AbsoluteFramed`), of which
every beginning up to a slash is another (`UptoIs`); so its parts are counted
(`FramedParts`), and the loop of `path_get_left` and the joining of the parts, recursive
functions both, go from one such beginning to the next (`LeftIs`, `JoinedIs`).
`LookedInv` is the rest: the tables do not change under an answer.

`MemAreaProofs` proves `NeighboursKept` (`ReleasesTakeOwnPages`),
`DirectoriesAreCopies` (`TasksOwnNoTables`), `NoSecondTask` (`OneTask`) and
`AreasTyped` (`TypeOK`): every invariant the run `memarea` checks, for every size of
memory, of tables, of the boot's memory, of areas, directories and blocks, and any
number of descriptors, within
`MemAreaAssumption`.  None of them is inductive, and none can be proved before the
others.  A directory of a task lies in heap pages, so it keeps its content only if no
other page and no table is mapped onto its first page (`MemInv`); but that a page is
mapped once rests on what `paging_alloc` finds at `PD_VIRT`, which in a task is the
kernel's directory only as long as the last entry of the task's shows it
(`DirectoryInv`).  Which page is mapped next is decided by the bitmaps, so these must
say what is mapped (`BitmapsTell`); a block given back must take no page of another,
so the blocks, those in the making too, lie apart (`BlocksInv`).  A release may find
any descriptor of its address, so `SlotsInv` is about all descriptors, old or not: what
each covers behind its first page is taken, apart from what the others cover there, and
holds no page a known block begins with.  `RoomInv`
says that a call which was let in finds a descriptor free when it is done.  For which
area a loop works is known only from where the call stands (`AreasInv`, `JobInv`).
`OneTask` comes out of `BitmapsTell`: the first page of a task is mapped for all areas
at once, so the loop that would map it for a second area finds it mapped and never
finishes that area.  `FaultsNeverReturn` is what `memarea_fault` shows on one example,
for all: after a fault the only steps are the panic and one copy of an entry, whose
return faults on a page that is never repaired.

`InitfsProofs` proves `MountStaysOwn` (`MountWritesOwn`), `FoundRight`
(`FoundWhereItIs`), `NothingForgotten` (`NothingElseLost`) and `InitfsTyped`
(`TypeOK`): every invariant the run `initfs` checks, for every archive, list of
modules, size of the heap, number and size of entries and set of requests.  That
`hmount` writes to no page of somebody else depends on which pages the heap happens to
hand out, so the invariant accounts for the heap page by page.  `HeapInv` says whose
each page in use is, and what the running call holds.  `SegmentInv` says where they
are: until the cache is taken they are a run from the beginning with one hole at most,
that of the buffer `initfs_hidentify` freed, which the next request fills with the
parameters it loses (`IdentifiedHole`); the cache is then the last page of a run
without a hole, and each entry is preceded by a request that lost the page next to it
(`LeftBehind`).  Entry `i` begins less than `i` pages beyond the cache because all the
entries fit in one page, and so lies in the cache or in these.  `CellsInv` and `CallInv`
say that the walk stands between two files: there the headers before it are as many as
the cells, and the next header is where `NextHeader` says (`NextHeaderIs`).

Assumptions: `InitfsAssumption`.  Those with content are that the cache fits in a page
and a block is no larger than one, which `initfs.h` says; that an archive is one
(`IsArchive`): the blocks of a file follow its header and no file has an empty name,
while headers may be damaged, the end missing, and a module with no header at all be
anything.  What memory holds behind a name is any of a set of texts (`Leftovers`), with
nothing at all among them.

`KeyboardProofs` proves every safety property of `keyboard` for every set of keys,
every wire and every bound of the waits.  `MaskKept` (`MaskHolds`) adds that the stack
of handlers is empty or one frame, not only at most one long, and that nothing runs
before `enable_irq`: the first is what lets a step be known to put back the frame it
takes, the second what `enable_irq`, which clears the mask, relies on.
`KeyboardTyped` (`TypeOK`) needs the shape of the frame at every place of the handler.
`LedsTold` (`LedsTell`) follows a command to the keyboard (`LedInv`): the leds it shows
are those of `kleds` or will be when it takes the value that waits, except between the
two bytes and while the first waits to be sent.  `ModifiersTold` (`ModifiersFollow`)
and `RebootsMeant` (`RebootMeant`) share `StreamInv`: the byte being handled, the one in
the controller and those on the wire lead, by what each byte means to the driver, from
its present modifiers to those of the keys that are down.  A press adds the bytes of
its key at the end of that path and a read takes one from its start, so a prefix and
its code stay together wherever a handler may wait between them.  `HandlerIsBounded` is
the part of `HandlerReturns` that needs no fairness: `Remaining`, the parts of the
handler still ahead and the looks left in the present wait, is at most `7 * Polls`,
every step of the handler makes it smaller, and what the user, the keyboard and the
entry code do meanwhile leaves it alone.

`ConsoleProofs` proves `PageStaysIntact` (`PageIntact`), `LogStaysRecent`
(`LogIsRecent`) and `ConsoleTyped` (`TypeOK`) for every size of the page, of the tab and
of the log, and all strings of at most half the log, which is the bound below which
one shift makes room (`ConsoleAssumption`).  `PageInv` bounds the text by the line of
the cursor, which is what scrolling and the line feed keep.  `LogInv` is about every byte
from the buffer on: what lies between the start of the text, in the buffer or at its
end, and the first 0 is the end of `said` (`TextIs`); a shift comes only where one is
needed (`ShiftNeeded`), so it takes at most the text there is; and unless something was
interrupted the text is long enough together with the string to come (`Enough`).
`ShiftMoves` and `StrcatAppends` say what the two steps do to that text on either side of
the buffer's end.  There too:
`InFormat` (`StaysInFormat`), about `vsprintf`: the only character stepped over without
another look is the one a conversion ended with, and it is never the terminator.

`NumbersAreRead` (`NumbersReadBack`), in `ConsoleProofs` too, holds for words of every
width from four bits on, every word, base, width and precision and every set of flags,
`MaxNumber` bounding nothing of it.  `NumbersInv` is the inductive invariant: from a
conversion to the next step `piece` is what `number` or `ucvt` writes of `arg` under the
flags still to be seen, and `SIGN` is among them just for `%d`.  The rest is about the
operators of `Numbers`, and goes by way of one description of the texts between writer
and reader, `Written`: blanks, a sign, a prefix, zeros, the digits from the first that
is not 0 on, blanks.  `Spells` says that digits of a base say a number (a sequence of
partial sums leads to it), and each recursive function is tied to it: the digits that
are divided out spell the number and are no more than it needs (`DigitsOfIs`,
`LengthIs`); a sequence that spells a number is summed up to it by `strtol` and
`strtoul` if it is within the limit and gives the overflow if not, whichever digit meets
the limit (`AccumulatedIs`); `strtoi`, which wraps around and compares each sum with the
one before, notices every number up to a word that is no long, and only those (`SumIs`).
`NumberIs` and `UcvtIs` then say that what is written keeps to `Written` and how long it
is, `PartsRead` that the readers find the sign, the base and the digits of such a text,
and `ReadsBack` adds the arithmetic of the two's complement, where `strtoi` is one off
at the least number.  Assumptions: `NumbersAssumption`, `FormatAssumption`.  Recursion
here runs over numbers up to a bound, so that the set of the numbers a statement holds
for can stand in for the statement (`GoesOn`, `AllBelow`); that is why these recursive
functions could be proved about without an induction theorem over formulas.

`DevFsProofs` proves `LinksStaySound` (`LinksSound`), `NamesKept` (`Spec =>
NamesPromise`) and `DevTyped` (`TypeOK`) for every number of blocks, all names and every
depth.  `LinksSound` says nothing of how the lists came about, so the invariant says what
the ramdisk stands for (`StandsFor`): there are a set of names closed under taking the
name above (`Named`), a block of its own for each (`Placed`), and for each the list of
the names under it (`Listed`), such that the links of the blocks are those of the lists
(`Linked`).  Three things had to be found.  A block that is erased, or that was unlinked
and leaked, is in use by no name, so nothing need be said of its content, and
`dev_create` may give it out.  The previous entry of an entry under the root may be
missing: `dev_remove` on the first entry of the root, whose parent is not written,
leaves the entry in its list and only clears the link back of the second; the same call
on that one then does as little.  And the root has neither neighbours nor a parent, so
that removing it changes nothing.  `Reads` is the bridge to what the code computes: the
loops of `dev_get_entry_block` and `dev_create`, unfolded along a list that is shorter
than there are blocks (`ListIs`), find in such a ramdisk exactly its names
(`SearchFinds`, `LookupIs`) and the last entry of each list (`LastIs`).  Each step then
is a change of names, blocks and lists (`CreatedStands`, `RemovedStands`,
`StaysStands`, `LinksSame`), and that change is a step of `NameSpace` or none
(`Moves`).  That the loops, recursive functions, have a value at all is proved too
(`RecursionExists`).  `RemovesAllButTheFirst` is the exact extent of what
`devfs_removed` shows on one example: `dev_remove` leaves a name, and all under it, if
and only if its entry is one of the root without a previous entry, and otherwise what
is found is what was found before less that name and those under it.  Assumption: `DevFsAssumption`, whose content is that no part of a
name is a slash.

Only model-checked: `CallsReturn` and `HandlerReturns`, liveness being
out of the prover's reach.  Of each the half that is safety is proved
(`CallsAreBounded`, `HandlerIsBounded`): the steps of the call or
handler run out.  That one of them is always possible until then, and is taken, is
ENABLED and fairness and stays with TLC.  Every safety property of a passing run has
its theorem.

## Plan

The plan of the modules is done: `Fismem`, `KMem` and `Heap` first, the heap being
what everything else stands on; then `DevFs` and `NameSpace`, `BootMem`, `Initfs`,
`Keyboard`, `Console`, `MemArea`, `Vfs` with `Path`, `Format` with `Numbers`.

## Not modelled

The set-up of the processor (`boot.S`, `idt.c`, `register.c`), stubs (`sys.c`,
`driver.c`, `critical.c`, the calls on files of `vfs.c` and the handlers behind
them), code nobody calls (`clean_paging`, `paging_multi`, `initfs_humount`,
`disable_irq`, `change_videopage`, random numbers and floating point in
`stdlib.c`), the string functions but for what the console does with them, and dead
code (`var/old`, `include/mm/old`, `string.historical.h`).  The second interrupt
controller and the timer have no handler.  The contents of files, colours and the
hardware cursor are abstracted away.
