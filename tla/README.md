# au_os: specifications, model checking and proofs

au_os is a small single-CPU 64-bit kernel: preemptive kernel threads driven by a
timer, spin locks, mutexes and condition variables, a buddy page allocator with a
slab allocator on top, four-level page tables and kernel mappings, a RAM file system filled from a cpio
archive, and a beginning of system calls. A boot allocator over a red-black tree
leads memory from the boot loader's map to the page allocator. This directory holds TLA+ modules that
model its core, TLC configurations that check them, and TLAPS proofs.

    tlc -config MCThreads.cfg Threads          # a run: see "Runs"
    tlapm SyncProofs.tla                       # the proofs of a module

## The system

| component | state | operations | interacts with |
|---|---|---|---|
| threads (`threads.c`, `switch.S`) | `current`, `idle_thread`, `runqueue`, each thread's `state`, `time`, stack, `preempt_cnt`, the TSS | create, fork, activate, exit, join, destroy, `schedule`, `force_schedule`, `idle`, enable/disable preemption | called by everything that sleeps; by the timer |
| timer (`time.c`) | `jiffies` | tick | calls `schedule()` from interrupt context |
| interrupts (`ints.c`, `entry.S`, `i8259a.c`) | IDT, handler tables, the CPU's interrupt flag, what the controller holds back | dispatch with its ack, register, enable, disable | interrupt gates clear the flag, `iretq` restores it |
| spin locks (`spinlock.c`) | none: they disable preemption, and interrupts in the irqsave form | lock, unlock, irqsave, irqrestore | guard every list below |
| mutexes (`mutex.c`) | `locked`, wait queue of nodes on the waiters' stacks | lock, unlock with hand-over | block and activate threads |
| condition variables (`condition.c`) | wait queue | wait, signal, broadcast | nest `mutex_unlock` in their own lock |
| page allocator (`memory.c`) | per zone: free lists by order, flags of each page | setup from the boot allocator's ranges, alloc, free | thread stacks, slabs, page tables |
| slab allocator (`alloc.c`) | per cache: free, partial, busy pools and their bitmaps | alloc, free, shrink, release, `mem_alloc` | pages; `struct thread`; everything in ramfs |
| kernel mappings (`paging.c`) | page tables, kmap ranges with boundary tags, translations the CPU remembers | `paging_setup`, `kmap_setup`, `kmap`, `kunmap`, mapping of ranges | the boot allocator, then pages |
| boot allocator (`balloc.c`) | two sets of ranges: all memory, free memory; a pool of nodes | parse the map, add, remove, alloc, free | feeds page tables, zones and the page allocator |
| ordered tree (`rbtree.c`) | links and colours in its user's nodes | insert, erase, next, previous, search | the boot allocator |
| file system (`ramfs.c`, `initramfs.c`) | a tree of entries, one mutex each | mkdir, open, close, read, write | mutexes, slabs |
| system calls (`syscall.c`, `syscall_asm.S`) | a table | write, fork | threads |
| boot (`main.c`, `bootstrap.S`) | - | the order of the setups | calls everything above |
| console, utilities | - | - | pure, or polled I/O |

**What is hard about it.** There is one CPU and a timer that may interrupt any
instruction while the interrupt flag is set and switch to any other thread. So the
behaviours that matter are: what a thread observes between leaving one protected
stretch and entering the next (between `spin_unlock_irqrestore` and `schedule()` in
`mutex_lock`; between two turns of the loop of `condition_broadcast`; between the two
assignments of `idle()`); state that one thread leaves for its successor to finish
(`place_thread` runs on the stack of the thread that was switched *to*); memory that
belongs to somebody who may be gone (wait nodes and the TSS point to stacks); and, in
the allocators, long sequences of splits, merges and list moves.

**What makes each component correct**

- scheduler: a thread has one list link, so it is queued at most once and never while
  it runs; no runnable thread is lost; a thread counts as finished only off its
  stack; a thread that went to sleep returns only after an activation; nobody is
  overtaken; disabled preemption keeps the CPU; exits and joins come to an end;
- sections: nobody enters a section of another, flags and the one preemption count
  come back right from every nesting;
- mutexes and condition variables: one owner, also while a mutex changes hands;
  first come first served; a thread is blocked exactly while its node is on a list;
  nodes outlive their time on a list; release-and-sleep is atomic;
- page allocator: every page is in exactly one block, blocks are aligned, merging
  trusts only flags that are true, buddies never stay apart;
- slab allocator: a block has one home, counts and bitmaps say what clients have, memory
  handed out never overlaps, a shrink destroys only what is and stays empty;
- kernel mappings: boundary tags tile the window, free ranges are maximal, the page
  tables map physical memory and the kernel for any size of memory, and in the window what
  clients have, also for a processor that remembers translations;
- file system: entries are in one directory, under one name, what was created is found and
  stays, a file is locked exactly while it is open, a loaded archive is all there;
- boot allocator: ranges neither overlap nor touch, no node leaks, what is free is what is
  known and neither reserved nor handed out, and all of it reaches the page allocator;
- ordered tree: links agree in both directions, both walks and the search see the members in
  order at any time, the tree is balanced between calls, balancing ends.

The numbered list of what can go wrong where, with the property that covers each
hazard, is `hazards` in `PROJECT.json`.

## Modules

| module | models | says |
|---|---|---|
| `Spinlock` | `spinlock.c`, `schedule()`, the timer interrupt, one machine-level step at a time | a protected stretch is indivisible |
| `Threads` | `threads.c`, `switch.S`, `time.c`; one action per protected stretch | the scheduler's invariants and liveness |
| `Sync` | `mutex.c`, `condition.c`, EXTENDS `Threads` | ownership, wakeups, wait nodes |
| `Monitor` | the promise of `mutex.h` and `condition.h` | abstract specification that `Sync` implements |
| `PageAlloc` | `memory.c`, with the carving of the free ranges a step at a time | the buddy system |
| `Slab` | `alloc.c`: one cache and `mem_alloc`, `mem_free`, `mem_realloc` on top of it | pools, bitmaps and page bits agree |
| `Heap` | the promise of `alloc.h` | abstract specification that `Slab` implements |
| `SlabLayout` | `alloc.c`: the layout of a pool, the loops that look for a cache or an order, `mem_realloc`'s choice | layouts fit, requests are served |
| `Paging` | `paging.c`: page tables, how they are built, extended and read | a function from addresses to frames |
| `Window` | `paging.c`: the tagged ranges behind `kmap` and `kunmap` | the window is tiled, free ranges are maximal and filed |
| `Kmap` | `paging.c`: `kmap`, `kunmap` whole, EXTENDS `Window` and `Paging` | the tagged ranges, the tables and the TLB agree |
| `RBTree` | `rbtree.c`, one turn of a loop at a time, with the search of `balloc.c` | walks, colours, progress |
| `OrderedSet` | the promise of `rbtree.h` | abstract specification that `RBTree` implements |
| `Balloc` | `balloc.c` | the sets of ranges |
| `Boot` | the memory side of `main.c` with `paging_setup` and the setup of zones, EXTENDS `Balloc` | memory arrives where it should |
| `Ramfs` | `ramfs.c`, a step of a call at a time | tree, lookup, locking |
| `Initramfs` | `initramfs.c`, EXTENDS `Ramfs` | what an archive leaves in the file system |
| `QueueLemmas` | `list.c` as sequences | what adding, taking and unlinking do to the elements of a list; least elements |
| `SpinlockProofs`, `SyncProofs`, `PageProofs`, `SlabProofs`, `WindowProofs`, `BootProofs`, `RamfsProofs` | - | theorems about the module of that name; `SyncProofs` also about `Threads`, `BootProofs` about `Balloc` with `Boot`, `RamfsProofs` about `Initramfs` with `Ramfs` |
| `MC*` | - | instances and symmetry sets for TLC |

**Spinlock justifies the rest.** It interleaves the steps of `spin_lock_irqsave` (read the flag,
clear it, count), its inverse, `schedule()` (test the count, read, clear, switch, restore) and the
timer handler, at any instruction where the flag and the interrupt controller (`in_service`, until
`pic_ack`) allow it. A spin lock has no state on this kernel, so all locks are one lock. Each thread
has its own point `ip`, the saved flags of its nested calls (`saved`), and the point where an
interrupt stopped it (`ret`). Its properties say that inside a section a thread is alone on the CPU;
the other modules therefore use one action per stretch.

**Threads.** `pc[t]` names the interruptible point of thread `t`; it keeps its value
while `t` is switched out. A thread `struct` is a slot of the constant set `Thread`,
`free` when it is not allocated. `PlaceThread` is `place_thread`, which finishes and
requeues the predecessor; it is part of the action that calls `__schedule`, because
interrupts stay off across the switch. `ran` is `jiffies - current->time`, which is all
that `__schedule` looks at; `SLICE` stands for "at least the slice". The boot thread's `time` is not
initialised (`memset` of a pointer's size, threads.c:211), so `ran` starts anywhere; a
negative value is a time ahead of the clock. `BUG()` and a fault stop the machine (`Halted`).
Clients are any program that respects the calls' preconditions: they do not exit, go
idle, join or sleep with preemption disabled (`BUG_ON` in `force_schedule`), one joiner
per thread, and the boot thread never sleeps or exits - it is the one everybody falls back on.
`Block`/`BlockSched` stand for any sleeping call; in `Sync` they are replaced by the real ones.

**Sync** adds the wait queues. `list[t]` is the local list of a broadcast, `want[t]` the
mutex a call will own, `held[t]` those whose lock call has returned. An owner is a
thread that holds the mutex or one that `mutex_unlock` has taken off the queue and that
has yet to return (`HandedTo`). Everything of `Threads` runs unchanged beside it.
`ImplementsMonitor` maps it to `Monitor`, whose four variables mention neither thread states
nor the run queue.

**PageAlloc.** `lists[z][k]` are the free lists in order, `mark[p]` the order in the flags
of a page if it is marked free, `live` the blocks clients have, `rest[i]` the page at which the
part of free range `i` begins that is not carved yet. `Carve` is one turn of the loop of
`__page_alloc_zone_free`; ranges are carved one after the other, before anybody can ask for
memory (`Ready`). The descriptors of the pages in `Stale` hold anything at first, those of other pages
read as busy. Splitting and merging are total operators; a descriptor's flags change only
where the code writes them, so `mark` goes stale inside larger blocks just as in memory. Zones
and free ranges are sequences of pairs that neither overlap nor touch (`Separate`): that is what `RangesApart`
says of the boot allocator's trees, and it survives the rounding, which moves ends down and beginnings
up. The theorem `TreesStaySound` shows it of every map.

**Slab.** A block is a run of pages as large as a pool of the cache; the page allocator
below is the set `avail`, which is what `PageAlloc` shows it to be. `pool[b]` is the struct
at the end of a block, its `bitmask` the set of bits that are one; a block that is no pool
holds whatever its last user left. `list` are the three lists in order. Allocation and
freeing run under the lock of the cache and are one action each; `mem_cache_shrink` moves
the free list to a local one under the lock and destroys the pools after it, so
`DestroyNext` is a step of its own; `mem_realloc` allocates in one step and frees in
another. `mem_free` goes by `PAGE_CACHE_BIT`, as in the code. A client frees what it has, once.
`MemCacheRelease` happens when its caller may call it: everything returned, nobody shrinking.
`AbstractHeap` maps the clients' memory to `Heap`, whose only variable is the set of pieces held.

**SlabLayout** computes `mem_cache_layout_setup` with the kernel's own numbers; its counting
loop appears as the number it stops at. `mem_pool_lookup` and `mem_order_calculate` run a turn at a
time (`LookupTurn`, `OrderTurn`; `turn` is the loop variable), and `mem_realloc` may follow with any
other size, for as long as it likes. Every allocation may fail. `Served` says, without a loop, which
blocks are of the least size that is enough.
That there is room for two objects in every pool (`PoolsFit`) is
what lets `Slab` assume that a pool is never empty and full at once.

**Paging.** `pt.table` are the tables, the root first, `pt.bug` the `BUG_ON` that has fired.
`MapPages` is `__pt_map_pages`: it descends four levels, splits a range at the boundaries of
entries, uses a large page where one fits, and adds tables on the way. `Translate` is what the
processor does with the result, independent of how it was built. `DirectlyMapped` says what
it should be after `paging_setup`.

**Window and Kmap.** `Window` has the ranges alone, `Kmap` conjoins its operations with those on the
page tables. `tag[i]` is the length in entry `i` of the array of ranges, true only at the ends of a
range; `empty` are the entries whose link points to itself, which is how the code tells that a range
is with a client. `list_del` leaves null pointers, so entries inside a range keep stale links as
they do in memory. Initial tags are garbage, as `mem_alloc` returns them. Filling in the page table
entries is part of `kmap`, and clearing them of `kunmap`: both hold `kmap_lock`. `tlb` remembers the
translation of a page until that page is flushed; the processor never remembers that there is none.
Requests of 2^KMAP_ORDERS pages or more always fail, for every list is below their order, even in an
empty window of twice the size; `FindsRoom` stops short of them.

**RBTree.** A node is a number, its key, and `tree` holds the pointers as they are in memory,
links up included, and the colour of each node. Linking and unlinking are one step each, and
every turn of `rb_insert` and of `rb_erase_fix` is one; `at` and `above` are the variables of the
loops. The mirror images in the code are one action with a side as parameter. `OrderedSet`
has only the sequence of members: balancing stutters.

**Balloc and Boot.** A tree of ranges is the set of its ranges, which is what `OrderedSet` allows;
`InOrder` is the walk. `AddRange`, `RemoveRange` and `Alloc` are the functions of `balloc.c` with
all their merging and splitting, and `mem.nodes` counts the pool of nodes, at each moment of a call
(`low`); once nodes have run out `BUG_ON` has fired and the trees stay as they are. `pc` and `at`
say which loop of the boot runs and where: the two loops of `balloc_parse_mmap`, the page tables,
the zones, the free ranges. `blocks` is what the boot allocator has given away, `given` what the
page allocator has got. A `BUG_ON` or a table at address 0, which `paging_setup_get_page` takes for
a failure, stops the boot.

**Ramfs.** `ent[e]` is an entry with its children in order, and `ready` once the last lines of
`fentry_create` have run. The steps of a call are separate wherever another thread may come in
between and it matters: the lookups, the three tests of `__root` and the assignment to it - in
`get_directory_name` (`CreateParent`), after the directory was looked for (`FindParent`,
`CheckParent`), in `fentry_create` (`CreateFirst`, `CreateRoot`) -, the insertion under the
directory's mutex, the initialisation after it, the lock of `ramfs_open`. A walk through the tree is
one step; a walk that needs a field of an entry that is not ready yields `Wild`, and using that is a
fault, which stops the machine; `is_dir` of such an entry may be either. A mutex is the field
`owner`, which is what `Monitor` promises of it. `ramfs_open` with its entry locked until `ramfs_close` is the state
`open`; a thread has one file open. Memory does not run out. `Scenario` are the ways a run may go, and
`scene` the one it goes: what is loaded at boot, the names that threads use, and whether a thread
may call the file system while another is in the middle of creating; where it may not, the
properties are about sequential use. Failures that the code does not test for
(`ramfs_mkdir` uses the result of a failed creation, a second name without '/') are faults too.

**Initramfs** runs a record of the archive in one step, as the boot thread is alone then, and
lets the threads of `Ramfs` loose afterwards. The archive is in the order in which `find` lists
it (`make_initramfs.sh`): a directory before what is in it, and no name twice.

Definitions whose comment starts with "variant" are plausible mistakes in the code;
they are not used by any specification and serve to confirm that a property notices them.

## Runs

| run | instance | checks |
|---|---|---|
| `threads` | boot thread + 2 slots, slice 2, nesting 1, faults, fairness | `NoRunnableLost`, the inductive `ThreadsInv`; `PreemptHolds`, `QueueIsFair`, `IdleOnlyWhenNothingRuns`; `QueuedRuns`, `ExitingFinishes`, `JoinReturns` |
| `spinlock` | 3 threads, depth 3 | `FlagRestored`, the inductive `IInv`, `NoSwitchInSection` |
| `sync` | boot thread + 3, one mutex, one condition | `NoLostWakeup`, the inductive `SyncInv`, `HandedInOrder`, `ImplementsMonitor` |
| `sync_fair` | boot thread + 2, fairness | `LockerGetsMutex`, `BroadcastReachesAll` |
| `page_alloc` | two zones of 6 and 8 pages, three orders, boot blocks of each, garbage in 4 descriptors | `PagesAccounted`, `MergesExact`, `AllFreeRestores` |
| `slab` | 3 blocks, 3 objects in a pool, 2 threads | `OneHome`, `PoolsExact`, `ImplementsHeap` |
| `slab_layout` | every size up to the largest of a cache, sizes around each order | `RequestServed`, with `PoolsFit` |
| `kmap` | tables of 4 entries, a window of 8 pages, 3 orders, every size of memory | `WindowTiled`, `MappedExactly`, `FindsRoom` |
| `ramfs` | 2 threads, 5 entries, fairness; an archive of 3 records and then one creator at a time, or no archive or one of 1 record and creating at any time | `TreeSound`, `LockedWhileOpen`, `NamesLoaded`; `FinishedStay`; `OpenReturns` |
| `rbtree` | 9 nodes | `WalksAgree`, `RedBlack`, `Climbs`, `ImplementsSet` |
| `boot` | every map of up to 3 entries over 21 ranges, with and without an initrd | `RangesApart`, `FreeExactly`, `ListedKnown`, `HandsOver` |
| `initramfs_files` | as `ramfs`, with the archive | violated: `FilesLoaded` |

The type invariant of a module is the first conjunct of its main invariant (`ThreadsInv`, `IInv`,
`SyncInv`, `PagesAccounted`, `OneHome`, `WindowTiled`, `TreeSound`, `WalksAgree`, `RangesApart`). What
`ThreadsInv`, `IInv` and `SyncInv` are made of beyond the invariants listed (`RunqueueSound`,
`FinishedIsOffCpu`, `SectionExclusive`, `OneOwner`, `ClientsRunActive`, `JoinSound`,
`PreemptCountIsCurrents`, `NodesAlive`, ...) is checked with them; likewise `TagsTile` and `FreeFiled`
in `WindowTiled`, and `CreatedIsFound` in `NamesLoaded`.

**Bounds, and why they suffice.** Three slots besides the boot thread, as in `sync`, are the fewest
with one thread running, two waiting on one queue (so that order matters) and the idle thread; a
fourth would stand where the third does. `sync` runs everything of `Threads` but faults with them,
and `SyncInv` contains the invariants of the scheduler; `threads` itself has two, since it is
checked for liveness, and the theorems are for any number. A slice of 2 has a tick that preempts and
one that does not; 1 is enough where the slice is not the subject. The depth of 3 in `spinlock` is
the deepest nesting in the code: condition lock, mutex lock, run queue lock. Nesting of
`disable_preempt()` (`MaxPreempt`) is bounded by 1 with the scheduler: only zero or not matters
there, and `spinlock` counts further; with the mutexes it is 0, and faults are left out. In
`page_alloc` zones start and end off alignment, one range ends inside a buddy pair, one page is
reserved in the middle of a zone, and page 0 is in the first zone; descriptors with garbage are
those of pages that are not the first of a boot block, in a block of two pages and in one of four. In `slab` three objects are the
fewest with a first, a middle and a last one, so that a pool is partial before and after a change;
with two objects to a word the bitmap has a padding bit; three blocks let one pool be shrunk away
while another is filled and a client has the third. `kmap` has eight pages so that a range can be
merged on both sides and a request can be served from the list below its order; the last of three
lists also holds what is longer. Its page tables have four levels of four entries: every level is
split in the middle by some size of memory, levels 2 and 3 have large pages that fit and some that
do not, the window shares tables with the kernel's mapping and with the end of memory; after boot
(`Explored`) only the largest machine is followed. With 9 nodes in `rbtree` trees have four levels,
so that a red pair climbs and a missing black node climbs twice before it meets a rotation. In
`boot` the ranges overlap, touch, contain each other or lie apart, on and off page boundaries; three
entries with the kernel and the initrd are five, enough for one that is merged with both neighbours;
`BALLOC_MAX_RANGES` is such that some maps use up the nodes. The file system has names of three
levels and one whose directory is missing; two threads are enough for every race between a lookup
and a creation, as only one may be inside a directory's mutex, and for two that both make the first
entry; with five entries the root can be made twice and both roots get a file. In `slab_layout`
`mem_realloc` asks for sizes on both sides of the steps between caches and orders. An offset or size of 0 or 1
(`MaxSize`) tells writes within a file from writes past its end. `CHECK_DEADLOCK FALSE` is used
where a fault or `BUG()` may stop the machine and where the boot is over. Symmetry (threads of
`spinlock` and `sync`, blocks of `slab`) is used only in runs without liveness.

**Fairness.** The timer never stops: strong fairness of a tick that finds preemption
enabled, which assumes that a client that disables and enables preemption in a loop does
not do so in step with the timer (`enable_preempt()` does not catch up on a suppressed
tick; a weaker assumption does not suffice). A client that disabled preemption enables it
some day. A thread that gets the CPU over and over again gets on with the kernel call it is
in: each time it has a slice of ten ticks and a step is microseconds. In `sync_fair` the
owner of a mutex releases it some day. Nothing is assumed about a client calling the kernel.
`ramfs` assumes that a thread closes the file it has open, and strong
fairness of taking a mutex, which is handed over first come first served (`HandedInOrder`).
Where the machine can stop, in `threads` and `ramfs`, liveness is "or it has stopped". The loops of
`rbtree` need no fairness: `Climbs` bounds them.

**Findings.** The run `initramfs_files` shows that the code does not do what it sets out to
do: the test of the offset in `ramfs_write` is the wrong way round (ramfs.c:427), so every
file of the archive is left empty.

**Divergences** that the models contain, and that no run is about:

- the zone setup clears no page descriptor, as the size of its `memset` is zero (memory.c:78). For the
  pages that the allocator is given it does not matter, as it writes a descriptor before it reads it;
  but beside a page that is reserved at boot and whose descriptor reads as free (so not `ReservedClean`)
  `page_free` may merge with that page. With `MCPageAllocGarbage.cfg`, TLC finds `MergesListed`, the first
  half of `MergesExact`, violated;
- the child of `fork()` starts in a null function (threads.c:278, 282) although its saved
  `rax` is set to the return code (286): `ThreadEntryNull` ends in a fault;
- `place_thread` loads the TSS with the stack of the thread it leaves (threads.c:222), while
  `__current_thread_regs` (108-111) expects the trap frame on the current thread's own stack;
- `mem_cache_layout_setup` rounds the size of a pool down (alloc.c:77), so pools may hold fewer than
  `MIN_POOL_OBJS` objects: `Layout(449)` has 7;
- an entry is in the tree before its mutex is set up (ramfs.c:48, 64-65), so the second attempt of
  `ramfs_open` (366) may find an entry that it cannot lock: a fault in `Ramfs`;
- `next = NULL` in `fentry_create` (ramfs.c:57) comes after the entry was linked (48), so what others have
  put behind it meanwhile is dropped from the directory, and is not found any more. `FinishedStay` says that
  nothing else is, and `NamesLoaded` that nothing is while one thread creates at a time;
- `__root` is tested and set without a lock (ramfs.c:37-39, 233, 269). Of two threads that make the first
  entry, one that has passed 233 may look for the directory of a name without '/', which is the name
  itself, and find the root of the other: it then puts a second entry of that name under the root, so
  that a directory is in itself by name. One that has passed 37 overwrites the other's root, and
  everything in it is lost. One that finds a root only at 37 goes on to lock the mutex of a null parent
  (46), a fault. `TreeSound` says what holds all the same, and what holds if the first entry is made
  alone, as by `initramfs()`;
- plain files get children (ramfs.c:278), though ramfs.h:14 has them for directories only;
  `ramfs_mkdir` itself makes plain files (327);
- a range that is added takes the end of the first range behind it that it reaches, even if its own
  is later, and looks no further (balloc.c:68-72): entries that overlap others of the map may
  lose memory, though the comment before `balloc_parse_mmap` (175-182) expects maps that
  overlap. `ListedKnown` is therefore about entries that do not;
- the end of the initrd is its start plus the *address* where it ends (initramfs.c:73), so memory
  behind it is reserved too; defines.h:211 gives `mod_end` as an end;
- entries of single pages carry the large-page bit of their callers' flags (paging.c:101, 112, 149), which
  there selects a memory type; types of memory are left out of `Paging`.

## Proofs

Seven modules prove what the runs check on small instances, for every value of the constants;
lemmas that they share are in an eighth, `QueueLemmas`.
Each theorem of an invariant comes from an inductive one, which TLC checked before it was proved:
`IInv`, `ThreadsInv` and `SyncInv` in the runs, the others on the same instances.

*Induction.* The only induction is that a set of numbers that is not empty has a least element
(`LeastElement` of `QueueLemmas`): whatever is claimed for all orders, sizes or turns of a loop is
refuted at the least number where it fails. The other lemmas of that module say what appending,
popping, prepending and unlinking do to a list without duplicates.

*Spinlock.* The invariant `IInv` is `TypeOK`, `SectionExclusive`, `PreemptCountIsCurrents` and `PointsAgree`,
which ties the interrupt flag and the saved flags to the points in the code: the n-th
nested call of a thread has saved "enabled" exactly if n = 1, and a thread that is
switched out stands at a switch point with nothing to undo, and the timer is acked whenever one
can be switched to. It is needed because
`SectionExclusive` alone says nothing of what a later restore will load into the flag.
`LocalStep` reduces a step of a thread's own code to what that thread owes,
`HandOver` covers both calls of `__schedule`, `KeepsPoints` entering and leaving the
handler. Theorems: `SpinlockInvariant`, `SectionsExclude`, `OneCounter`,
`FlagsRestored`, `NoSwitch`.

*Threads (in `SyncProofs`).* `SchedInv`, which mentions no program point, is preserved by
`__schedule` (`PlaceThreadKeeps`, `NoSwitchKeeps`, `DoScheduleKeeps`) and by
`thread_activate` (`ActivateKeeps`); `GivesUpCpu` shows that a thread that is not
runnable always finds somebody to switch to, which needs `BootThread`. `ThreadsInv` adds
`PcMatchesState`, the states possible at each point, without which a step of
`thread_exit` or `thread_join` may start from a state no execution has. Theorems:
`ThreadsInvariant`, `ThreadsTyped`, `RunqueueCorrect`, `FinishedOffCpu`, `SleepersStay`,
and of the actions `PreemptionHolds`, `IdleIsLast` and `QueueInOrder`, which rest on
`OnlyScheduleSwitches`: nothing but a pass through `__schedule` takes from the queue or the CPU.

*Sync.* `SyncInv` ties four things to each other: the scheduler's state, the point of each
thread inside a call, the wait lists, and who owns a mutex. It holds `JoinSound` and
`ClientsRunActive` of `Threads` as well, because a step of a call ends in `__schedule`, whose lemmas need
them. `StepKeepsSched` shows that every step that `Threads` and `Sync` share keeps the scheduler's
invariant whatever the points of other threads are, so that nothing is proved twice; `CallMoves`
reduces a step of a call to the one thread it moves and the one it wakes; `UnlockMoves` shows that a mutex
with a queue goes to its first waiter, who sleeps. Theorems: `SyncInvariant`, `MutualExclusion`,
`WakeupsKept`, `NodesLive`, and `HandOverInOrder`, which says of every wait queue and every broadcast's list
that it is left at its head and joined at its tail (`NobodyOvertakes`), and of a mutex that its next owner
is the first in its queue. `MonitorImplemented` is the refinement: with the mapping of
`AbstractMonitor` every step of `Sync` is a step of `Monitor` or leaves its variables alone, in particular the
release and the sleep of `condition_wait()` are one.

*Slab.* The inductive invariant says that a block is in one of four situations - with the page allocator, a
pool on the list that its count belongs to, a pool that a shrinking thread has taken off the cache, a
client's - and in each of them what its page bit, count, bitmap and clients say. `OneHome` alone is not
inductive: that a free bit is found, and that the pool of a shrinking thread is still empty when it is
destroyed after the lock was released, are in the second half. `Untouched` is the frame: a step changes one block, and
the others keep their situation. Theorems: `SlabInvariant`, `BlocksHaveOneHome`, `PoolsStayExact` (no `BUG_ON` of
the allocator fires), and `HeapImplemented`, the refinement of `Heap`.

*Window.* Between taking a range off a list and filing what becomes of it the window is tiled by
free ranges, clients' ranges and *one range in hand*. `Tiled`, `Filed` and `Sound` say so of any
state of the ranges, and one lemma for each step of `kmap_free_range` and `kmap_alloc_range` shows
what the range in hand grows or shrinks to (`TileTake`, `TileJoinPrev`, `TileJoinNext`, `TileGive`,
`TileInsert`), while entries inside ranges hold old links and tags. Theorems: `WindowInvariant`,
`WindowStaysTiled`, `RoomFound`, `RangesStayApart`. They are about `Window`, whose actions are
conjuncts of those of `Kmap`; that `Kmap` implements it cannot be stated to the prover, because
`Paging` is recursive.

*PageAlloc.* `SizeDefined` shows that the recursive table of sizes exists, `SizeDivides` that larger
sizes are multiples of smaller ones; from these follow the facts about aligned blocks: two that
overlap are nested (`Nested`), a block and its buddy are the halves of the next larger one
(`BuddyIs`), being buddies is mutual. `PageInv` says that blocks do not overlap and cover exactly
the pages carved so far, that none reaches from zone to zone, that the flag of the *first* page of a
block is true and that of a page in no block is "busy" (`FlagsTrue`), that no two free blocks are
buddies, and, while a range is being carved, that its blocks could not have been larger
(`CarvedLarge`). What splitting makes of a block and what merging puts together is the same set,
`Chain`: a block with the buddies it meets on the way up (`ChainIs`), and `Replaced` shows that
blocks may give way to others of the same pages. The heart of it is `MergeTarget`: a flag that says
what the loop of `page_free` looks for is never a stale one, for a larger block around it would hold
the page that is freed. `Fills` gives `AllFreeRestores`: what free blocks cover, no two of them
buddies, is one of them. Theorems: `PageInvariant`, `EveryPageAccounted`, `MergesAreExact`,
`FreeingRestores`. All four have the hypothesis `ReservedClean`: the descriptors of pages that are
reserved at boot, which no client ever gets, read as busy. Nothing is assumed of the others.
memory.c:78 does not see to it, and without it the theorems are false (see Divergences).

*Boot, with Balloc.* `Trees` says of both trees of ranges that no two of their ranges overlap or
touch (`Apart`), and that the pool of nodes is exact to the node, at every moment of a call
(`Counted`). `AddIs` and `RemoveIs` say which addresses a tree has after a call: adding joins the
new range with the neighbours it touches, removing takes the common addresses off each range that it
meets, one turn of its loop for each (`Turns`, an induction over the ranges met). From these every
loop of the boot keeps one half of `BootInv` and uses the other: `ListedSoFar` and `KnownSoFar`
(while the map is read the trees are equal, and what they have is what was read), `FreeSoFar` (from
then on, what is free is what is known and neither reserved so far nor handed out), `BlocksApart`,
`ZonesSoFar` and `GivenSoFar` (every range that a loop has passed and that has a whole page became a
zone, or went to the zone that contains it). `FreeExactly` alone is not inductive: it speaks of the
end of the loops. A range is found by its rank (`Ith`); that ranks name all ranges, in order, is the
lemma behind each of the loops that walks a tree. Theorems: `BootInvariant`, `TreesStaySound`, on
which `PageAlloc` rests, `FreeIsExact`, `ListedStaysKnown` (if no two entries of the map overlap)
and `PagesHandedOver`. The last has the hypothesis `Mappable`, that memory ends below MAX_PMEM_SIZE,
which is 128 TiB: what is beyond it is handed over too, though `paging_setup` does not map it.

*Ramfs, with Initramfs.* `LockInv` says that a thread owns the mutex of an entry exactly while it
has it open (`OwnedWhileOpen`), that memory not in use has no owner and is not ready, and that the
entry a creation has in hand has a name; `LoadInv` adds that nobody calls the file system while the
archive is loaded. `MoveKeeps` reduces a step to what it may do to mutexes and to entries in use.
The tree is `TreeInv`: `Tree` says that whoever is in a directory is in no other, and in the one that
`get_directory_name` gave (`DirOf`), that no name is twice in a directory, that the root is in none and that
memory not in use has no part in it; `WorkOK` that the directory in which a call is about to create is
that one, and that what it creates is not yet ready; `Apart` that no two threads create one entry. It
holds for any mixture of steps, and speaks of *all* entries, also of those that `next = NULL`
(ramfs.c:57) or another root has cut off, for a thread may still be working on one. A directory is
created before what is in it, and `Tree` says so of the entries' numbers; so the tree has levels
(`Lvl`), even if two roots were made, and what holds at the lowest or the highest level where it could
fail holds everywhere: `SearchDefined` and `FindIs` say what the recursive search of `ramfs_find` returns,
`BelowIs` what is below an entry. `FirstInv` is about the case that nobody else is there when the first
entry is made: what a thread has seen of `__root` is still true when it acts on it (`Steady`), so only the
root's name has no '/' (`Slashed`), and as a directory's name is shorter than those in it, two entries of
one name are one (`NamesUnique`). `OneCreator`, which needs that one thread creates at a time, adds that
everything in use has a parent (`Rooted`) because an entry that is being created is still the last of
its list when its fields are written (`Making`), and that the records loaded so far are there
(`Present`). `FinishedFilesStay` needs of the invariant that what is being created is not ready:
`StayCut` shows that a list is only cut behind such an entry. Theorems: `LoadInvariant`, `FilesLocked`,
`FilesInvariant`, `TreeStaysSound`, `NamesAreLoaded`, `FinishedFilesStay`.

*Assumptions.* `SpinlockAssumption` and `ThreadsAssumption` (the boot thread is a thread, the null
pointer is not, slice and depth are positive), `SyncAssumption` (the null mutex is not a mutex),
`SlabAssumption` (a pool has at least two objects, which `PoolsFit` checks), `WindowAssumption`
(there are pages and lists), `PageAllocAssumption` (zones and free ranges are apart, and free ranges
lie in zones) and `RamfsAssumption` (entries are numbers, each name has a directory, whose name is
shorter, and at most `RAMFS_MAX_FILENAME_SIZE` characters; null values are neither),
`ArchiveAssumption` (a directory comes before what is in it, and has size 0; no name is in the
archive twice), `BallocAssumption` (ranges are not empty and end below half of UINTPTR_MAX, so that
no sum of two addresses overflows), `LayoutAssumption` (the table of caches is sorted) and `BootAssumption` (sizes are numbers, pages and units not 0).
TLC evaluates each of them in the runs.

*Only model-checked:* liveness and `Climbs` (fairness and ENABLED are beyond the prover);
`MappedExactly` and `SlabLayout`, which use recursive operators or powers; `RBTree`, whose walks are
recursive functions over the links, with its refinement of `OrderedSet`.

## Not modelled

Contents of stacks and registers, pids and output; the programming of the interrupt controller, the
IDT and the PIT, and interrupts other than the timer, for which no handler is ever registered;
that pointer lists implement sequences; system call dispatch beyond `fork`; the assembler that
enters 64-bit mode and the self-tests of `main.c`;
formatting and string helpers; the prototypes under `src/1` and `src/2`. Of the modelled
parts: descriptors of a zone that lie in a last partial page, which `paging_setup` does not map; protection bits and `pt_count_pages`, which nothing calls; running out of memory for page tables after
boot, where `kmap` needs none (`MappedExactly`); `fentry_release`, which nothing calls; contents of files, and running out of memory in
`ramfs.c`; the parsing of archive headers; the caches of `mem_alloc` beyond one.

## Plan

1. `Threads`, `Spinlock`, `Sync` with `Monitor`, `PageAlloc` - done.
2. `Slab` with `Heap`, `SlabLayout` - done.
3. `Paging`, `Kmap` - done.
4. `RBTree` with `OrderedSet`, `Balloc`, `Boot` - done.
5. `Ramfs`, `Initramfs` - done; left: running out of memory, reading.
6. `Traps`: frames on stacks, the TSS and `fork`'s copy; dispatch of system calls.
   `Lists`: the links of `list.c` against sequences.
7. Proofs: `Threads`, `Spinlock`, `Sync` with `Monitor`, `Slab` with `Heap`, `Window`, `PageAlloc`, `Ramfs` with
   `Initramfs`, `Balloc` with `Boot` - done. Next: that the links of `RBTree` agree in both directions; `PoolsFit`.
