# Verification of SO-TP02

A TLA+ model of the kernel (processes, scheduler, semaphores, keyboard, pipes, both
memory managers, text output), of the parts of user space that carry a protocol (the
shell's input, semaphores by name, `mvar`, `test_sync`) and of the disk tool that
builds the image. TLC checks it on small instances; TLAPS proves the central
properties of the kernel, the pipe, `mvar`, the first-fit memory manager, the keyboard's
ring and the disk tool for all of them.

## The system

| Part | Source | State it owns |
|---|---|---|
| Scheduler | `Kernel/proc/scheduler.c` | three ready queues, `blocked_q`, `finished_q`, `current`, `idle_p`, `need_resched`, the tick of the last switch |
| Processes | `Kernel/proc/process.c`, `include/process.h` | the PCBs and the links that thread them through queues, wait lists and the family tree |
| Semaphores | `Kernel/ipc/semaphore.c` | a table of 64 slots, ids that are never reused, a FIFO of waiters per slot |
| Keyboard | `Kernel/drivers/keyBoardDriver.c` | shift, caps lock and Ctrl, a ring of 256 bytes, the semaphore that announces them |
| Pipes | `Kernel/ipc/pipe.c` | 64 slots, each with a ring of 4096 bytes and three semaphores |
| Memory | `Kernel/mm/mm_simple.c` or `mm_buddy.c` | the heap that PCBs and stacks come from |
| Video | `Kernel/drivers/videoDriver.c` | the frame buffer and the cursor |
| System calls | `Kernel/syscalls/` | none: they combine the parts above |
| Interrupt entry | `Kernel/asm/interrupts.asm` | the stacked registers, the interrupt flag |
| Shell | `Userland/.../shell/` | the line being typed |
| User library | `Userland/.../lib/` | the table of semaphore names, shared by all processes |
| Tests | `Userland/.../tests/` | user programs |
| Disk tool | `Bootloader/BMFS/bmfs.c` | the disk image |
| IDT, loaders, boot loader, image packer | the rest | I/O and straight-line initialisation |

There is one processor. The timer interrupt calls `schedule`, the keyboard
interrupt pushes bytes or kills the foreground process, and `int 80h` runs a
system call. All three run with interrupts off. A system call gives up the
processor only through `scheduler_yield_current`, which raises the timer's
vector; everything the call does after that point happens later, on state that
others have changed. User code is preempted anywhere, and all processes share one
address space.

## Modules

| Module | Models |
|---|---|
| `Iteration` | bounded repetition of a function: the loops of the C code |
| `Maps` | functions used as maps: headers and owners by address |
| `ProcessQueue` | `process_queue_push/pop/remove`, `detach_from_queue`, link by link |
| `KernelState` | the constants and the record type of the kernel's memory |
| `Scheduler` | priorities, aging, block and unblock, lookup by pid, `nice`, `ps`, foreground lookup |
| `Semaphore` | `sem_alloc/open/close/wait/signal/set` and the list of waiters |
| `Keyboard` | the buffer as a sequence, and the semaphore behind it |
| `Kernel` | `schedule`, `save_context`, `kill`, creation, `wait`, the system calls and interrupts as actions, `Init`, `Next` |
| `KernelProperties` | invariants, action properties, liveness, the fairness they assume |
| `MCKernel` | the sets of calls the configurations allow |
| `Allocator` | what a memory manager promises: a block handed out lies in the heap, is as large as asked for (unless the size wraps) and overlaps no block in use |
| `MemSimple` | `mm_simple.c`: first fit, split, coalescing, statistics |
| `MemBuddy` | `mm_buddy.c`: a free list per level, split, merge, statistics |
| `Heap`, `MCHeap` | the one of the two that was built in, behind `mm.h` |
| `Pipe` | `pipe.c` for one pipe, the reads and writes of its processes, the close they make when they end, and the shell that starts them and kills the left side |
| `UserSem` | `lib_process.c`: semaphores by name over the kernel's ids |
| `TestSync` | `test_sync.c`, with `my_sem_open` split at its accesses to shared memory |
| `MVar` | the command `mvar`: `mvarCmd`, the loops of its writers and readers, named semaphores, the pipe |
| `Video` | text output: wrapping, tabs, backspace, scrolling |
| `Text` | `printf` and `sprintf` of integers, `atoi`, a line split into words |
| `Console`, `MCConsole` | keys and the ring, `getchar`, `readLine`, the loop of the shell, `CommandParse`, over `Video` and `Text` |
| `Bmfs`, `MCBmfs` | the commands of `bmfs.c` |
| `DataProofs` | theorems on loops and linked lists, for the others |
| `KernelProofs`, `PipeProofs`, `PipeSleepProofs`, `MVarProofs`, `SimpleProofs`, `ConsoleProofs`, `BmfsProofs` | theorems on the modules they extend |

**Kernel.** The kernel's memory is one record `k`. A C function is an operator from
that record to that record, so a handler that calls several functions is their
composition in the order of the calls, and one handler is one action. A field
`f` of PCB `p` is `k.f[p]`. PCBs are slots `1..MaxProc` that are recycled as the
allocator recycles memory: a freed PCB keeps its contents and the pointers to
it. A call that is suspended in `wait` or `read` keeps what it has left to do in
`k.context[p]`. A walk along a queue that has become circular never ends with
interrupts off; the model then sets `k.hung`.

Left out of the state: pids (a live pid names one PCB), names, stacks,
`waiting_on_pid` and `waiting_on_sem` (never read), the sibling lists, file
descriptors. `elapsed` is `ticks_elapsed() - last_switch_tick`, saturated at the
quantum. Semaphores are indexed by id, never reused; reuse of their slots is
abstracted.

**Memory.** The managers keep a header for every address where a block starts; a
header that is absorbed by a merge leaves the function, so that a read of stale
memory is an evaluation error TLC reports. `owned` is a history variable: the
requests behind the blocks in use, which is also the state of `Allocator`. Both
managers are shown to implement `Allocator` (`IsAllocator`). Neither tests the size for
overflow: one above 2^64 - 48 wraps when it is aligned and the header is added, and the
call hands out a small block instead of failing. `Allocator` promises 16 bytes then
(`Usable`). `mm_buddy.c` also treats a size beyond its last level as one of that level,
which needs a heap of 128 GiB; the heaps of the run are smaller than the last level. The
statistics are modelled but for the count of failed allocations.

**Pipe.** The variable `cpu` names the process inside a system call: those run with
interrupts off until they sleep. A process that ends comes from `process_start`
with interrupts **on**, so its close is a sequence of small steps (`todo`): take a
spin lock, do the semaphore operation, block. A process preempted there while it
holds the lock leaves others spinning, and the model sets `hung`. The semaphores
are counters with a queue of sleepers; their lists are the subject of `Semaphore`.
The shell opens the ends in any order (`mvar`'s processes open theirs themselves) and,
as `execute_pipeline` does, kills the left side when the right one has ended or could
not be created. The last writer sends a signal to each reader, but never more than 100
(`MaxWakes`). Both calls look the pipe up, may sleep on its mutex and go on with the
slot they found, which may be free by then: a process opened so reads 0 bytes. The
kill is modelled for a left side without children. With a second writer, a process
killed in the queue of the mutex would be woken as a dead PCB, which is the subject of
`Kernel` and not of this module.

**User space.** `UserSem` has the kernel's semaphores as seen from outside, and the
two arrays of `lib_process.c`, of which there is one copy for all processes. In `MVar`
a system call is one step and the pipe is the queue of bytes that `Pipe` implements;
`sys_pipe_open` is given the id only, so the role the kernel takes from the next
register is any. The delay loops, the letters and the colours are left out, and so
are the failures of `pipe_open` and `pipe_dup`, which need an invalid id or
descriptor. In `TestSync` every access to the arrays and to `global` is a step.

**Console.** One step is a key, or a turn of the loop of `readLine`: only the ring
is shared between the two. `queue` is a history variable, the sequence that `Keyboard`
uses, and `RingIsSequence` is the refinement mapping between them. Characters are
model strings, the screen is a matrix of them. `sys_read` returns 0 for the byte of
Ctrl+D and `getchar` then asks again, so the branch of `readLine` for 0x04 is never
reached and `ignores_eot` has no effect but to consume it. A pipeline is
checked as `execute_pipeline` does and its run is abstracted to what it prints; so is
a command that runs as a process of its own, which Ctrl+C kills instead of the shell.
The output of processes in the background is left out.

**Bmfs.** Sizes are counted in blocks, and a command that writes the image several
times is several steps with `stop` possible between any two. In bytes, `read` and `write`
count with an `int`, which overflows for files of 2 GiB and more; the model does not
show that. The system that `initialize` writes may reach beyond block 0, as in the code,
which checks no size. `damaged`, `foreign` and `kept` are history variables: whether
files have been lost or overlap since the last format, whether a format stopped between
the tag and the directory and so left a directory it did not write, and what each
completely written file holds.

## Runs

| Run | Checks | Shows |
|---|---|---|
| `Lifecycle` | `QueuesLinked`, `QueuedByState`, `AgingBoosts`, `HigherPriorityPreempts` | create, exit, kill of others, block, unblock, nice and ticks keep the lists doubly linked, each process in the one queue its state names, aging on time, preemption |
| `Fair` | `StarvationFree`, `FinishedAreCollected`, `WaitReturns`, `SomeoneInForeground` | with a fair timer every ready process runs, every finished one is freed, a waiter is woken by the end of its target, the terminal keeps an owner |
| `Inputs` | `BlockedAreListed`, `SemaphoresAreFifo`, `NoLostKey`, `KeysAreRead` | no interleaving of keys and readers loses a wake-up, and the keyboard's and the users' semaphores list exactly those who sleep and serve them in order |
| `AnyCalls` | `TypeOK`, `IdleIsAvailable`, `NoTokenWithWaiters` | calls without discipline: self-kill, unblock of anything, semaphores closed in use, Ctrl+C |
| `Heap` | `HeapIsTiled`, `FreeListsAreExact`, `FreedIsWhole`, `StatsAreExact`, `IsAllocator` | for both managers: blocks tile the heap, the free lists hold exactly the free blocks, what is freed merges, the statistics are exact but for the allocations `mm_buddy.c` does not count, requests at the end of the word included |
| `Pipe` | `RingIsFifo`, `NobodySleepsForNothing`, `NothingIsLeaked`, `EndIsFinal`, `EndIsSeen`, `ShellReturns` | interleaved reads and writes keep the order of the bytes, no reader sleeps beside a byte nor writer beside room; `read` returns 0 only when the writers have gone and all bytes are read, and sleeping readers are woken to see it; the shell comes back when the pipe is destroyed while it sleeps on the mutex; processes that end or are killed leave neither pipe nor semaphores behind |
| `MVar` | `OneValueAtMost`, `NobodySleepsInThePipe`, `EveryoneTakesPart` | one token goes round, refused transfers included; nobody sleeps in the pipe with the mutex; every writer's letter is shown and every reader reads, again and again |
| `Console` | `RingIsSequence`, `LineIsShown`, `ArgsAreWords`, `NumbersAreReadBack` | from keys to words: the ring is a FIFO, the screen shows what `readLine` has stored, commands and both sides of a pipeline get the words of the line, numbers survive printing and parsing |
| `Bmfs` | `ContentsKept`, `SizeIsExact`, `DamageNeedsDeleted`, `BootSurvives` | what was written reads back in spite of interrupted commands; nothing but `initialize` changes the boot sector; `create` does damage in few cases only |
| `PsMisses` (violation) | `PsListsAll` | README.md:99 says `ps` lists all processes. A waiter woken from `wait` is pushed on a ready queue while it is still in `blocked_q`; the shared links then drop other processes from every list |
| `KilledRuns` (violation) | `KillIsFinal` | README.md:100 says `kill` terminates the process. A process killed while it runs, whose next kernel call blocks, is marked BLOCKED again and lives on |
| `TestSync` (violation) | `ResultIsZero` | README.md:121 says the result with a semaphore is always 0. `my_sem_open` stores the name before the id, so a process that runs in between waits on semaphore 0, which does not exist; and the first `my_sem_close` removes the name for all |

`AnyCalls` does not check deadlock: those clients can drive the kernel into the
endless walk above, where it really stops. `Pipe`, `MVar`, `Console`, `Bmfs` and
`TestSync` do not either: processes end, a reader without writers waits for ever, the
bound on keys is reached, the tool has nothing more to do.

**Two more disagreements with the documentation.** README.md:101 says of `nice` that the
priorities are 0-4 and 0 is the highest. In the code they are 0-2 (README.md:186 agrees)
and the largest is the highest: `HigherPriorityPreempts`, which `Lifecycle` checks, is
stated and holds in that direction. README.md:113 says that `mem` shows the number of
allocations. `mm_buddy.c` never increments its counter, so the figure stays 0;
`StatsAreExact`, which `Heap` checks, says so for the buddy manager.

**Conditions in the properties.** `DamageNeedsDeleted` names the ways in which
`create` can put a file over another or past the end. Two need a deleted record: the
free gap is an unsigned difference that wraps after a deleted record whose blocks are in
use again, and a full directory has no end marker, so that it counts as empty. The third
is a disk of less than two blocks, where the difference wraps at once. Damage also comes
from a format that stopped before it wrote the directory; what `create` does on a
damaged disk is not counted. `ContentsKept` holds on disks without damage.
`BootSurvives` holds on damaged disks too, and excludes only the directory that an
interrupted format left (`foreign`): it may name a file at block 0, and a `write` to it
overwrites the boot sector. It is about block 0; what `initialize` wrote beyond it is not
protected from the first `create`. `EndIsSeen` is stated for pipes with at most
`MaxWakes` readers: of more, the code leaves some asleep. `LineIsShown` excludes lines with a
tab, which one backspace does not take back, and `NumbersAreReadBack` excludes the
smallest `int` for `printf`, whose negation overflows. `EndIsSeen` excludes the hang
described above. `ShellReturns` excludes it too, and a process that is stranded with
the mutex because it was woken before it blocked itself (`Stranded`).
`NothingIsLeaked` excludes a left side that is killed after it has freed the pipe and
before it has closed the three semaphores: those stay allocated.

**What the runs leave to each other.** `QueuesLinked` and `QueuedByState` do not
hold once a process uses `wait` (that is what `PsMisses` shows), so `Lifecycle`
has no `wait`. `Fair` has the shell waiting for its own children only.
`Inputs` has no kill and no close: a killed waiter stays in the list of the
semaphore, and closing with waiters abandons them. Both are listed as hazards.

**What no run combines.** Each run gives the shell and the other processes a
subset of the calls (`MCKernel`), because all calls together exceed what TLC
explores in minutes. In `Lifecycle` only the shell creates, kills and changes
priorities; in `Fair` only the shell creates, and it never ends. `AnyCalls` has
one user semaphore and one child at a time, and leaves out `block`, `wait`,
`read`, `sem_open` and keys other than Ctrl+C, so `TypeOK`, `IdleIsAvailable` and
`NoTokenWithWaiters` rest, for those calls, on the proofs below, which cover
every call of `Next`. For the other properties the combinations are unchecked.
`MVar` and `TestSync` are composed with the semaphores' interface, not with `Kernel`.

The long chains of functions pass the intermediate memory as a parameter
(`Dispatch`, `SwitchIfDue`, `AppendTo`) rather than in a LET, because TLC's
coverage statistics expand every use of a LET.

**Bounds.** Two to three user processes besides idle, enough for one running,
one ready and one blocked or finished, and for the reuse of a freed PCB.
`QUANTUM_TICKS` 1 or 2 instead of 8, `AGING_THRESHOLD` 1 or 2 instead of 200,
one finished process collected per switch instead of 4: each smaller value makes
the boundary case come sooner. The buffer holds one or two bytes instead of 256,
so it fills. Priorities asked for include one above the range. The heaps have room
for a handful of blocks, unaligned starts and sizes included, with requests of 0
bytes, an exact fit, more than the heap, and the last size that does not wrap and the
first that does (with a `Word` of 2^16), which takes the smallest block. The pipe holds two bytes instead
of 4096, so that it fills, empties and wraps within four bytes, and `MaxWakes` is 2 for
its two readers. `MVar` has three
writers, so that two wait and their order matters, and one reader; its proofs cover
any number. The screen has two lines of three characters, the line buffer five bytes,
a command two words and an `int` eight bits: five keys wrap a line, scroll, fill the
ring and exceed the words. The disk has up to five blocks and three directory entries
for three names, so that both become full; names and contents are symmetric, and no
property distinguishes them. A damaged disk is followed as long as its files end within
the largest disk (`Bounded`), with the contents of its blocks other than block 0
forgotten (`View`), which neither commands nor properties look at then. The system
reaches up to two blocks. `Word` is 1000, so that the size `44P` overflows.

**Fairness.** The timer's interrupt stays pending in the PIC while interrupts
are off, so it is taken eventually even if a process enters the kernel again and
again: strong fairness of `Tick`. A resumed system call goes on by itself: weak
fairness of the two resumptions. Nothing is assumed of user code or of the
keyboard. `Pipe` assumes that a process that can go on inside a pipe call, or in its
own end, does so (round robin and aging, checked in `Fair`), not that it calls
anything or ends, and the same of the shell once it has been woken. `MVar` assumes the same of the writers and readers, which never
leave their loops, and nothing of the shell.

## Proofs

| Theorem | Property | For every |
|---|---|---|
| `KernelProofs!SafeInvariant`, `TypeCorrect`, `IdleStaysAvailable`, `NoTokenIsIgnored` | `TypeOK`, `IdleIsAvailable`, `NoTokenWithWaiters` | number of PCBs (at least two), semaphores, keys, positive sizes |
| `PipeProofs!PipeIsFifo`, `PipeIsFreed`, `PipeEndIsFinal` | `RingIsFifo`, `NothingIsLeaked`, `EndIsFinal` | size of the buffer, sets of readers and writers, length of calls |
| `PipeSleepProofs!ReadersAreWoken`, `SleepersAreWoken` | the readers' half of `NobodySleepsForNothing`; all of it for one writer | the same |
| `MVarProofs!OneValue`, `NobodySleeps` | `OneValueAtMost`, `NobodySleepsInThePipe` | number of writers and readers, size of the pipe, at least three names and semaphores |
| `SimpleProofs!SimpleIsTiled`, `SimpleListIsExact`, `SimpleIsWhole`, `SimpleIsAllocator` | for `mm_simple.c` alone: `HeapIsTiled`, the exact free list, `FreedIsWhole`, and that `MemSimple` implements `Allocator` | heap and request sizes |
| `ConsoleProofs!RingIsQueue` | `RingIsSequence` | size of the ring, keys, shell |
| `BmfsProofs!FilesAreKept`, `SystemSurvives`, `DamageOnlyByDeleted` | `ContentsKept`, `BootSurvives`, `DamageNeedsDeleted` | disk, directory, names, contents |

The assumptions are the `ASSUME`s of the modules, and two that the statements name.
`SimpleAssumption` is what the unsigned arithmetic of `mm_simple.c` needs: addresses
and sizes are words, the number of words is a multiple of 16 (it is 2^64), and the heap
does not start at the null address. Sizes that wrap are included. `SleepersAreWoken` has
one writer, as the shell's pipelines do: with two of them the writers' half fails when
the readers drop to none and another one opens the pipe later.

**Loops and lists.** `DataProofs` has the rule that what one turn preserves, any number
of turns preserve, and the lists of the C code as rings through NULL or a sentinel
(`IsRing`): insertion, removal, reversal, and that a walk along a ring visits its nodes
and ends. Induction is the least-element principle over sets.

**Kernel.** `Safe` is the inductive invariant: the type `KState`, and besides it that
all queue and wait links point to user PCBs or are NULL, that idle is allocated,
RUNNING and in user mode, that semaphore ids start at 1, and that no semaphore has a
token beside a waiter. `KState` alone is not inductive: a queue that held idle would
let `Switch` or kill change idle's state, and a resumed call needs its context. There
is one lemma per C function, saying that it maps `Safe` to `Safe`, and one step per
action.

**Pipe.** For `PipeIsFifo` the invariant is `RingIsFifo` with the types; the arithmetic of
the two indices modulo the size is in lemmas of its own. `PipeIsFreed` and
`PipeEndIsFinal` rest on `EndsInv`: the counters `readers` and `writers` are the numbers
of processes that have the end open and have not yet counted themselves out, whoever is
on the way out has the remaining operations in `todo` in the right order, and a spin
lock is held by the one process that is between its two steps. The numbers are
statements about enumerations (`Counts`), not cardinalities, so that they hold of any
set of processes. For the sleepers, `SleepInv` says that a queue holds only processes
that sleep there, once each, and that while somebody sleeps on `sem_items` at least as
many readers are on their way as there are bytes; this survives although the value
of `sem_items` drifts away from the number of bytes. `SpacesInv` says that the one writer
sleeps only while the ring is full.

**MVar.** `OneValueAtMost` is not inductive: that the token is not handed out twice
needs the queues. The invariant `IInv` says that before the command no name is in use;
and afterwards that the three names stand for three different semaphores, that the
queues of `slots` and `items` hold exactly the sleeping writers and readers, once
each, and only while the value is 0, that nobody sleeps on the mutex, and that either
the token is in one of the two semaphores and the mutex is free, or exactly one
process holds the token. The lemmas say what `my_sem_wait` and `my_sem_post` do to
such semaphores; there is one step per action.

**Memory.** A list is a ring through the sentinel, a tiling is the set of blocks with
their physical neighbours, and `Sound` says that the list holds the free blocks of the
tiling and no two of them are neighbours. Inside `mm_free` one free block is not in
the list yet (`Pending`); each merge keeps that. The refinement of `Allocator` follows:
a block that is handed out was free, and free blocks overlap nothing.

**Console.** `RingInv` adds to `RingIsSequence` that the write index follows the last byte.

**Bmfs.** `BmfsInv` says that, on a disk without damage, files lie apart, no file is larger
than its reservation, a write in progress has copied the blocks before its counter, and
`kept` is on the disk. `DamageOnlyByDeleted` is about the allocation of `create`: with the
records in the order `qsort` leaves, the first gap that is large enough is free.
`SystemSurvives` has an invariant of its own, `BehindBoot`, because it is about damaged
disks too: unless the directory is foreign, no record starts at block 0, since every gap
that `create` finds begins at block 1 or at the end of another record.

**Only model-checked.** Everything under fairness. For the kernel the queues
(`QueuesLinked`, `QueuedByState`, `AgingBoosts`, `HigherPriorityPreempts`), the lists of waiters
(`BlockedAreListed`, `SemaphoresAreFifo`, `NoLostKey`) and `SomeoneInForeground`.
The buddy manager, because its levels are powers of two, on which the provers have no
arithmetic. `StatsAreExact`, `SizeIsExact`, `LineIsShown`, `ArgsAreWords` and
`NumbersAreReadBack` compare with sums, digits and words that are defined by recursion over data.

## Not modelled

- Exceptions, the IDT, module loading, the boot loader, the image packer and the text
  console: they share no state with the parts above or are straight-line I/O.
- Pixels, fonts, colours, the clock, sound.
- The kill of a reader, or of one of several writers, inside a pipe call.
- The copies `execute_pipeline` makes of the arguments, and the pipe it leaves behind
  when a side has no entry function.
- The table of pipes and the reuse of its slots, `pipe_close` and `pipe_release`.
- A second `mvar` beside the first: it opens the same semaphores and another pipe.
- The remaining commands and tests, which print or make single system calls.

`PROJECT.json` lists every part with its status, and the hazards of these. README.md:196
reports that the shell sometimes freezes for an unknown reason. The model has two ways
for the kernel to stop (the circular queue behind `k.hung` and the spin lock behind
`hung` of `Pipe`); neither has been tied to that report.
