# PennOS in TLA+

TLA+ models, TLC runs and TLAPS proofs for PennOS, a user-level operating
system: one host process that runs a shell and its programs as `ucontext`
threads under a preemptive scheduler, with a FAT file system in a host file.
Paths below are relative to `src/src/`.

## 1. Inventory

| component | code | state it keeps | operations | correct if |
|---|---|---|---|---|
| kernel | `pennos/kernel.c`, `PCB.h`, `macros.h` | process table, pcbs (pid, ppid, status, prevStatus, priority, ticksLeft, children, zombies), asleep queue, foreground process, current process | create, cleanup, kill, `decrementTicks`, `schedule`, `switchContext`, `setForeground`, `unblockParent`, the handlers of ^C, ^Z and SIGALRM | pids identify processes; lists lead only to processes of the table; the dead never run and can be reaped; nothing ready is forgotten; sleepers end |
| user calls | `pennos/user_level_funcs.c` | none of their own | `p_spawn`, `p_waitpid`, `p_kill`, `p_nice`, `p_sleep`, `p_exit`, `checkForTerminalControl` | a wait reports every change once, and never blocks for what has happened already |
| scheduler | `pennos/scheduler.c` | three ready queues, a table of 19 quanta, the next index | add, remove, `getNextProcess` | every ready process runs within a bound; nobody is in two queues |
| queues | `pennos/queue.c`, `node.c` | front, back, next, prev | push, pop, front, search, remove | a FIFO sequence with removal |
| shell and programs | `pennos/shell.c`, `iter.c`, `handlejob.c` | the line read, the job of the command | prompt, poll, command, `nice`, `nice_pid`, `logout`; busy, sleep, zombify, orphanify, kill ... | the prompt comes back; jobs end in the queue or in nothing |
| job control | `pennos/jobcontrol.c`, `jobQueue.c`, `job.c` | the job queue, job numbers, isRunning | fg, bg, jobs, `putJobInForeground`, `pollJobChanges` | the number printed finds the job; every job that ended is reaped |
| file descriptors | `pennos/filedescriptor.c`, and their users in `shell.c`, `iter.c` | one list of open files for all processes: number, mode, position, entry | open, read, write, close, mv, unlink, lseek, chmod, ls | a number leads to the file it was given for; one writer per file; nothing stays open when nobody uses it; bytes go where the position is |
| FAT file system | `fs/file.c`, `fs/fat.c` | the table in the mapped file, the directory list, the count of free blocks | make, load, save, read, write, append, delete, rename, chmod | chains are disjoint, end, and hold the file's bytes |
| pennfat | `pennfat/*.c` | the mounted file system | mkfs, mount, umount, touch, mv, rm, cat, cp, ls, chmod | every byte read is the one last written there, whatever was deleted, cut short, unmounted and mounted in between |
| parser, tokens, p_errno | `include/parsejob.h` (binary), `pennos/token.c`, `include/p_errno.c` | none of interest | | |

**How they interact.** Everything runs on one host thread. A process calls user
calls, which call the kernel, which edits the table, the lists, the three
ready queues and the asleep queue. Every call that ends in `switchContext`
goes through `schedule()`: it counts the sleepers down, retires a process whose
function has returned, and asks the scheduler for the next one. SIGALRM
(every 100 ms) does the same from any point of a process. The keys ^C and ^Z
become a signal for the foreground process. The shell talks to the rest only through
user calls; its job queue holds pids and is brought up to date by
`pollJobChanges`, one pass per line read. The file system is used by two
programs, never at once: `pennfat`, one command at a time, and PennOS,
whose processes share one list of descriptors and whose calls interleave.

**What is hard.** A tick may fall between any two statements of a user or kernel
call, and nothing masks it there. Wakeups are given by whoever changes the
status of the *foreground* process, not by whoever is waited for. Pids are
handed out from the back of the table, so they come again; the job queue and
the asleep queue keep pids or pcbs beyond their process. Zombies, orphans and
descendants are removed by recursion over lists of pids that the same recursion
edits. A process may be in a ready queue, the asleep queue, a children list and
a zombies list at once, and signals change its status in any of them. In the file
system the table and the bytes reach the host file at once, the directory only
when it is saved; a descriptor keeps a pointer to a directory entry that others
rename, delete and write; numbers of descriptors come again. The list
in `PROJECT.json` under `hazards` names each place.

## 2. Modules

| module | models | composed of |
|---|---|---|
| `Kernel` | `kernel.c`: one record `k` for all kernel data, each kernel call an operator from kernel states to kernel states | |
| `UserCalls` | `user_level_funcs.c` up to the point where the caller is switched out | `Kernel` |
| `PennOS` | the running system: clock, keys, the shell's loop, programs, jobs | `UserCalls` |
| `MCPennOS` | constants for TLC | `PennOS` |
| `PennOSProofs`, `QuietProofs` | proofs | `Kernel`, `PennOS` |
| `Dispatcher` | abstract: what `scheduler.h` promises, and what `Kernel` assumes (any ready process may run, none else) | |
| `RoundRobin` | `scheduler.c`: queues, quanta, rotation | implements `Dispatcher` |
| `MCRoundRobin`, `RoundRobinProofs` | runs and proofs | `RoundRobin` |
| `Fifo` | abstract: the queue of `queue.h` | |
| `LinkedQueue` | `queue.c`: the pointers | implements `Fifo` |
| `LinkedQueueProofs` | proofs | `LinkedQueue` |
| `JobTable` | the job queue, its numbers and how fg and bg find a job | |
| `MCJobTable`, `JobTableProofs` | constants for TLC, proofs | `JobTable` |
| `Fat` | `file.c`, `fat.c`: the table of links, the bytes, the directory in memory and on disk, the free count; operators from file systems to file systems | |
| `Files` | abstract: a function from names to bytes and permissions | |
| `Pennfat` | `pennfat.c`, `pennfathandler.c`: one action per command | `Fat`; implements `Files` |
| `MCPennfat` | constants for TLC | `Pennfat` |
| `FileDescriptors` | `filedescriptor.c`; cat, touch, cp, rm, mv, chmod of `shell.c`; redirections of `iter.c` | `Fat` |
| `MCFileDescriptors` | constants for TLC | `FileDescriptors` |
| `FatProofs` | lemmas on names, addresses, permissions, chains, the free count and the bytes of files, proofs | `Fat` |
| `PennfatProofs` | proofs, with that of the refinement of `Files` | `Pennfat`, `FatProofs` |
| `FileDescriptorsProofs` | proofs | `FileDescriptors`, `FatProofs` |

**Correspondence.** A kernel handler makes several calls and then gives up the
processor. So that it stays one atomic action whatever it calls, `Kernel` and
`UserCalls` have no variables: `k_process_kill(k, p, signal)`,
`dealWithUnwaitedProcess(k, p)` and so on return the next kernel state, and an
action of `PennOS` composes them in the order of the code. `schedule(k)` is the
common end of every handler that calls `switchContext`; `Continue(k)` is
the end of one that does not. `pc` says where each process would go on: the saved
`ucontext`. For the shell the places are the points of `shell.c`, `iter.c` and
`jobcontrol.c` between two kernel calls; for a program, the few kernel
calls it makes. A program without kernel calls is one that returns (`cat`
stands for all of them) or does not (`busy`).

A process is an object numbered in the order of the table, and its pid a field,
because the code searches by pid and pids are not unique for ever. Linked lists
whose order is that of creation (process table, children) are sets; those
with an order of their own (zombies, asleep) are sets of stamped nodes. The
pointers themselves, and that the C lists behave like lists, are the subject of
`LinkedQueue`.

`Fat` has no variables either, for the same reason: a command of pennfat or a
call of `filedescriptor.c` makes several calls of `file.c` and then saves, and
is one action. `writeFileToFAT` is split where the code computes
`changeInFreeBlocks`: `Create`, `Overwrite`, `WriteAt`, `AppendTo`; they meet in
`Write`, whose `Grow` is the loop that takes one block after the other, with the search that starts
behind the last one. Bytes live in cells (block, index), and block 0, which the
code reaches through a link of 0, is the last block of the table.

`Pennfat` keeps the file system, whether it is mounted, and what the user sees of
it: for each name the bytes the code would read and the permissions. That view is the refinement
mapping to `Files`.

In `FileDescriptors` each call of a program is an action, because a tick may come
between any two of them, so that the calls of programs, of the shell and of rm, mv
and chmod interleave freely. `prog[p]` is the point a program has reached
in its function of `shell.c`, what it has open and its buffer; `shell` is the same
for `iter`. The files a line is redirected to are opened by the shell, used by the
program and closed by the shell, as numbers of the one list. Numbers carry, as a
ghost, the entry they were given for (`Held`).

**What is abstracted.**

* A kernel or user call is atomic except at three windows, which a run may open
  (`Windows`): `"enrol"` inside `p_sleep`, `"link"` inside `k_process_create`,
  `"block"` inside `p_waitpid`. They are the places where state is read before
  and used after a point where SIGALRM makes a visible difference. Elsewhere,
  notably between `k_process_create` and the end of `p_spawn`, and inside the list operations
  themselves, a tick is assumed to fall before or after the call. The behaviour
  of a SIGALRM that arrives inside `schedule()` is not modelled: it
  overwrites the scheduler's own saved context.
* Which ready process runs is left open in `PennOS`; `RoundRobin` is shown to
  make only such choices, and to make them fairly.
* Jobs have one command. Pipelines (the code gives all commands of a line the same
  files, and has no pipes), the log, `waitedOn`, `pgid`, `timeExpired` and all output
  are left out.
* No program's child has children of its own (true of `zombify` and `orphanify`),
  so the recursion of `traverseChild` ends at the first level.
* `pollJobChanges` visits the jobs in any order. In `JobTable` it is one step: any
  jobs may have left, the others keep their order, and any of them may have stopped.
* A byte of a file is a model value or `Junk`, a byte nobody wrote there. Names are
  equal or not; types and times of entries are left out.
* `Situations` of `Fat` names what the code does wrong (section 6). The
  operator where it happens adds the name to the field `damage`, and a
  specification takes no step (`Pennfat`), or starts again from the first file system
  (`FileDescriptors`), if the name is not allowed. The passing runs allow none, and so show
  that there is no other one at their bounds.
* A link out of the table is not followed: `Header`, the value of entry 0, is taken
  to be one, as it is for one block of 512 bytes.
* In `FileDescriptors` a command line names what leads to calls. One program runs in the
  foreground and the others in the background; ^Z is left out, since a stopped
  program is one that takes no step for a while. rm, mv and chmod come at any time,
  also while the shell waits, as background commands may. A read of the
  terminal is left out, a write to it is a call without effect. So `cat` has files or a
  redirected input, `cp` two names and `touch` at least one: any other line of theirs
  makes no call. A process without a program is `NoProgram`.
* `malloc` gives a new directory entry an address that no entry has; there are as many
  addresses as names (`DescriptorAssumption`).
* Each call of the file system is atomic. In the code nothing masks
  SIGALRM there.
* A signal to pid 1 from `kill`, the shell stopping itself through the terminal
  apart, is excluded: it ends or freezes PennOS.

## 3. Runs

Nine runs pass, three show a fault.

| run | bounds | checks | shows |
|---|---|---|---|
| `anything` | 3 processes; sleep, zombify, orphanify, kill; stop, continue, terminate; one ^C; a priority; sleeps of none, 0 and a time; windows enrol and block | `TypeOK PidsAscending QueuedInTable ChildrenInTable IInv DoneNeverRuns NeverRequeued` | the structure of the kernel survives everything together; the inductive invariant is checked before it is proved |
| `quiet` | 4 processes; sleep, zombify, orphanify; no signals | `ScheduledIffAlive DeadIsReapable BlockedIsEnrolled ReapedIsDeadOrOrphan` | scheduled = alive, dead = reapable, asleep = counted down, only dead or orphaned processes are reaped |
| `terminal` | 3 processes; busy, cat, zombify, orphanify; three keys | `WaitsForTheLiving WaitsForTheMoving ForegroundMatchesWait NoCrash NoSpuriousWakeup StaysDead` | the protocol of wait, foreground and wakeup over fg, bg, ^Z and ^C |
| `live` | 3 processes; cat, sleep; window link; fairness | `PromptReturns SleepersEnd ZombiesReaped` | no wakeup is lost, every sleep ends, every zombie is reaped |
| `round_robin` | 3 processes, symmetric | `IInv BoundedWait NoOvertaking Dispatches` | refinement of `Dispatcher`; a ready process waits at most for a bounded number of quanta |
| `linked_queue` | 5 nodes | `IInv IsFifo` | pointers implement `Fifo` |
| `job_numbers` | 3 jobs, numbers to 5 | `IInv NumberFindsJob` | the number `jobs` prints leads to that job |
| `pennfat` | 3 names, symmetric; 3 data blocks of 2 bytes, 2 directory entries in a block; texts of 1 and 3 bytes, lists of 1 and 2 names | `TypeOK ChainsWhole ChainsDisjoint NoLostBlocks NeverOvercommits IsFiles` | outside the situations no order of commands, failures half way, umounts and mounts damages table or directory, makes the free count promise too much, or loses or mixes up a byte |
| `descriptors` | 2 names, 2 data blocks of 3 bytes; a program in the foreground and one in the background; `cat < a > b`, `cat a >> a`, `cat a`, `cp a b`, `touch b &`, `jobs > b`, an unknown command; rm, mv, ^C, the end of PennOS and `chmod -- a` at any time | `TypeOK OwnFile OneWriter NoneLeftOpen WritesInPlace ProgramsEnd` | the protocol of the shared list of descriptors, in every interleaving of calls |
| `lost_wakeup` | 2 processes, window block | `WaitsForTheLiving` violated | section 6 |
| `double_pid` | 4 processes, window link | `PidsAscending` violated | section 6 |
| `second_write` | 2 names, 4 data blocks of 2 bytes, `cat a > b` | `WritesInPlace` violated | section 6 |

**Why the bounds are enough, and where they end.** Three processes are the shell, a
job and either a second job or the child of the first: enough for a zombie, an
orphan, two sleepers in a row, a second job while one is stopped, a reused pid.
`zombify` without room for a child is
a program that runs until it is killed, and `kill` without a target, or a sleeper,
one that ends by itself: `busy` and `cat` add nothing next to them in the two
large runs. Four processes allow a job with a child next to another job, and two creators at once. `quiet` leaves signals
out because with them its invariants are false by the faults of section 6 (a
sleeper that is killed). `terminal` stays at three processes because at four,
with stopped jobs and programs that spawn, a job left in the queue
may have a pid that was given out again, and then foreground and
waited-for process differ. `MaxKeys`, `MaxProc` and `MaxId` are bounds of the
models only; at `MaxProc` the shell can still poll, wait and continue
jobs, and a descriptor beyond `MaxId` is treated like a situation. `RoundRobin`'s
counter of quanta waited saturates above the bound it is checked against.

`pennfat` has files of no, one and two blocks, full and partly filled last blocks, a
full disk, and a directory that grows to a second block and shrinks again; 3
names are the fewest that do so. A directory on disk that differs from the one in
memory is kept only where it may be loaded (`Outdated` otherwise), since
loading it is the situation `load_unsaved`; `Settle` forgets bytes that no file
holds. In `descriptors` files have up to 6 bytes and two blocks; cat reads its
standard input in pieces of 2 and other files in pieces of 3, so that it writes
several times within a block and goes beyond one by appending; numbers go from 3 to `MaxId` = 5 and come again, three
descriptors at once. `cp` is interleaved with `touch` and rm, not with a
program that makes its source grow.

**Fairness.** In `PennOS` (`FairSpec`): `ClockTicks`: the interval timer is never disarmed, so
ticks keep coming while a sleeper counts down. `NoStarvation(p)`: a process that stays ready gets the
processor again and again, since `BoundedWait` of `RoundRobin` bounds the
entries of the scheduler it waits for. `GetsOn(p)` is strong
fairness of the next step of a running process: a quantum is 100 ms, and
a kernel call takes a fraction of it, so that a process that runs again and again
gets through. The user is under no obligation: `UserTypes` is a
hypothesis of `ZombiesReaped` alone. The conditions are written out instead of
with `WF` and `SF` of the actions since the steps concerned share a process, not
an action. `live` opens the window `"link"`, to show that a tick inside
`k_process_create` does no harm while the shell alone spawns. It uses only `cat` and `sleep`: a program that never ends
does not give the prompt back, and one that spawns would meet `MaxProc`.

In `FileDescriptors` each program has weak fairness: it is ready whenever it
has a call to make, and `BoundedWait` gives it the processor again and
again. The shell and the user owe nothing, and a program may be killed.
`MCFairSpec` says the same without `ENABLED`, for TLC's sake: a program can always
take its next step, and nobody else changes what it is about to do, save by ending it.

## 4. Proofs

TLAPS checks these for every value of the constants.

* `PennOSProofs`: `Invariance` (`Spec => []IInv`), from which `TypeCorrect`,
  `PidsAlwaysAscend`, `QueuedAlwaysInTable` and `ChildrenAlwaysInTable`. They
  assume `"link" \notin Windows`: with a tick inside `k_process_create` pids are
  not unique (run `double_pid`), so that assumption cannot be dropped.
  `IInv` = types + `KernelInv` + what the shell knows at each place. Why it is
  needed: that pids ascend follows only if the table is never empty (the
  shell never leaves it), which follows only if no list of zombies, children,
  sleepers or jobs ever leads to the shell and no process but the shell has pid
  1. That a children list leads into the table needs that cleanup
  unlinks by a pid that identifies the process, i.e. `PidsAscending` again.
  Its first half has one lemma per kernel and user call: it preserves
  `KernelInv`; the second one step per action.
* `RoundRobinProofs`: `Invariance` (each process is once in the queue of its
  priority, and those that ran since a waiting process became ready are behind it),
  `NeverOvertakenTwice` from it, and `Implements`: the round robin is a
  `Dispatcher`. `WaitsAreBounded` (`BoundedWait`), for any number of processes, needs to
  account for each call waited (`WaitInv`): a quantum of the own queue takes one process
  from in front (`Served` counts those that are not there any more, `Front` those that
  still are), and the quanta of the other queues come in full rounds of the cycle of 19,
  of which `Fits` says where in the cycle (`Phase`) the wait stands. A renice or a newcomer only
  makes the front smaller. The bound is then division by the quanta a queue owns.
* `LinkedQueueProofs`: `Invariance` (next and prev are inverse along one list
  from front to back; nodes outside have no links) and `Implements`: every
  operation on pointers is the operation of `Fifo` on the sequence.

* Also in `PennOSProofs`, also for `"link" \notin Windows`: `ReturnedNeverResumed`
  (`DoneNeverRuns`) and `LeavesForGood` (`NeverRequeued`). The second needs a relation
  between kernel states that every kernel and user call is in and that composes
  (`NoRevival`: who is in no ready queue stays so, and no status of a process that has
  left the table is changed). The first needs to know what a returned process can
  still be: dead, or a sleeper without a time that no tick wakes; and that no place of
  a running process is behind its return.
* `QuietProofs`: the invariants of `quiet`, most of those of `terminal` and its
  action properties, for a quiet system (below).
* `JobTableProofs`: `Invariance` and `NumbersFindJobs`. A job is in the queue once and the
  numbers ascend, since a job goes to the back with the number of the back plus one and
  what remains when others leave keeps its order; then the first number that is
  not less than the one wanted is the one wanted.
* `FileDescriptorsProofs`: `Soundness` (`Spec => []IInv`), from which `NumbersLeadHome`
  (`OwnFile`), `SingleWriter` (`OneWriter`) and `EverythingIsClosed` (`NoneLeftOpen`), for any
  processes, names, blocks and lines. `OwnFile` is far from inductive: a number
  given out again belongs to the wrong file if somebody still holds it, so that `IInv` says who
  may hold what. Numbers ascend along the list, so that a search by number finds one
  descriptor. Every descriptor has an entry of the directory, and no two that write
  have the same. A program closes only numbers it has opened itself (`Own`, read
  off its place in the function of `shell.c`), and nobody else holds those; the shell
  closes what it handed on, when no program holds it any more. Where nobody leaves a
  file open, a program has from the shell what it has not opened itself, and every
  number in the list is held by somebody (`AllHeld`). `f_open` compares names
  and a descriptor knows an entry: the two agree because no two entries have one name or one
  address, which `FatProofs` shows of every operation of `Fat` (`FsOK`), with what each
  does to names and addresses.
  Assumptions: the situations `closed_behind`, `unlink_open` and `mv_over_readonly` are not allowed,
  in each of which the code breaks the property (section 6), and `left_open` for
  `EverythingIsClosed`. All other situations may be allowed: they damage bytes and
  links, not the list. The constants satisfy `DescriptorAssumption`, of which the proofs use
  that the mounted directory has no name or address twice and that there are as many addresses as
  names.
  The invariant was run through TLC on the configuration of `descriptors` first.
* Also in `FileDescriptorsProofs`: `DescriptorsTyped` (`TypeOK`), `TableIsKept`, that what
  `PennfatProofs` shows of the file system under pennfat holds under PennOS too, and
  `WrittenInPlace` (`WritesInPlace`), on the bytes under PennOS (below).
* `PennfatProofs`: `FileSystemTyped` (`TypeOK`), `FilesAreWhole` (`ChainsWhole`),
  `FilesAreApart` (`ChainsDisjoint`), `NothingIsLost` (`NoLostBlocks`) and `CountIsKept`
  (`NeverOvercommits`), for any sizes of table, block and directory block, any texts and lists of
  names; and `FilesAreKept` (`IsFiles`), that pennfat implements `Files` (below).

**The quiet system.** `AlwaysQuiet` (`Spec => []QuietInv`), from which
`LivingAreScheduled`, `DeadCanBeReaped`, `SleepersAreEnrolled`, `TerminalFollowsTheWait`,
`ShellWaitsForTheLiving`, `NeverCrashes`, `TheDeadStayDead`, `NoStrangerWakesTheShell`
and `TheLivingAreNotReaped`: what `quiet` and `terminal` check of three and four processes, for
any number of them.

They assume `QuietSystem`: no signals from `kill`, no window, no `sleep 0`, of the keys only
^C, and that only where nobody sleeps. The constants of `quiet` satisfy it, and so
do those of `terminal` without ^Z. None of it can be dropped, for the properties fail by the
faults of section 6: a signal wakes a zombie, which is scheduled though dead; a tick inside `p_sleep`
leaves a sleeper that is in no queue, one inside `p_waitpid` a shell that waits for the dead; a `sleep 0`
is twice a zombie; a sleeper ended by ^C is retired a second time by its pid. With ^Z a job
may stay in the queue when its process has been reaped, and its pid comes again.
Programs, priorities, the number of keys and what the user types are free. `NeverCrashes` alone
assumes in addition that nobody uses nice, which fails on a zombie.

The properties are far from inductive, because each needs the others: a dead process is a zombie of its
parent only if its parent is found, so that it must not have been reaped; nobody is reaped alive
only if the shell's jobs are its own children and a zombies list has each dead child once; who is
alive is scheduled only if a sleeper that is retired was blocked, and woken where it slept.
`QuietInv` therefore has these parts:

* `Families`: every process but the shell is in the children list of one parent, a zombies list
  has each dead child once, all the dead are in one, and the tree has three levels;
* `Lives`: a process of the table is in the ready queues if and only if it has not ended. A
  sleeper stays there too, as `BLOCKED`, and nobody is stopped;
* `Sleepers`: what the asleep queue has to do with the status;
* `OnTop`, `Awaited`: the shell is blocked exactly while a living child of it has the
  terminal. `Awaited` is for a moment false inside a call, between the end of a process and
  the release of the shell, which is why the lemmas about the kernel speak of `Settling` states
  and those about whole calls of `Quiet` ones;
* `JobsKnown`: a job of the queue is a child of the shell not yet reaped, or the one whose
  end `pollJobChanges` has just been told; no two jobs have one pid;
* `Running`, `Places`, `NoFault`: who runs is ready, who will spawn or sleep is a child of
  the shell.

What a call does is one of three relations that compose: time passes and processes end (`Passing`),
nobody's life changes (`SameLives`), one dead process is removed (`Buried`). Each implies
`Lawful`, which says what a step may do to the living and the dead and from which the action
properties follow. One lemma per call gives its relation, one per action keeps `QuietInv`. The
invariant was run through TLC before it was proved, with the constants of `quiet` and, with four
processes, those of `terminal` without ^Z.

**The file system under pennfat.** The five theorems follow from one invariant, `IInv` of
`PennfatProofs`. While a file system is mounted it is `Sound`: the directory has a chain of
some `k` blocks and each file the chain that its size calls for, these chains are
disjoint and make up all of the table that is not free (`Layout`), and the count of free
blocks is not above what is free after the directory has got the blocks that its next
save takes without a test (`Lacking`); the lemmas on this are in `FatProofs`. The entries on disk are the ones in
memory, or a directory that must not be loaded. While nothing is mounted,
what is in the host file is such a file system (`Stored`), from which `load` makes a sound one.

A chain is given by a path, a list of different blocks each linked to the next. That
`Chain`, the walk of the code along the links, arrives at the blocks of the path, that
`Grow`, the loop of `writeFileToFAT`, takes free blocks only and makes a path of them, and that the
folds over command lines keep what each step keeps are inductions. They are done without the induction
theorems of the library, by the least number at which a set fails (`UpTo`), and recursive
functions are shown to exist by the same (`Recursion`). Then each function of `file.c` keeps a
sound file system sound, one lemma each, with what it does to the count; a command is a sequence
of them and a save, unless one has failed, and the invariant has to hold after each prefix.

Assumptions: `Careful`, that six situations are not allowed: `no_room_behind`,
`append_to_empty`, `touch_full_block`, `block_1_taken`, `load_unsaved` and
`load_long_directory`, in each of which the code breaks one of the five (section 6). All
others may be allowed: they do no harm to the table. And `EofIsNoBlock`:
the end mark is no entry of the table. It excludes the largest table
`mkfs` accepts: there the block 0xFFFF exists, and a link to it reads as an end.
`PennfatAssumption` says that there are addresses for entries (for `malloc`), that every name
can be given alone to a command (cp of a file is a `Cat` of one in `Files`) and that `NoFile` is no
file; TLC evaluates it in the run.

**pennfat keeps files.** `FilesAreKept` says `Spec => IsFiles`. The user sees the contents of the
directory in memory, or of the one in the host file while nothing is mounted; `Contents` computes
them from links and bytes, and `Files` knows neither. To `IInv` the proof adds
`Seen`: each file of the directory is at its name, once, with its bytes and permissions, and no
other name has one (`Shows`). On this rest the two facts of the refinement, that a
first state is one of `Files`, and that a step is one of `Files` or leaves `user` alone.

The lemmas go up in three stages. Of bytes (`FatProofs`): the byte at an offset lies in the block to which
the walk along the chain leads, so that a function which leaves the blocks of a file alone (`Spares`)
leaves its bytes alone. A write fills the blocks that `Grow` has found, one after the
other, and reading them back gives what was written; append keeps what was there before
(`Makes`, `Rewrites`). A save, an umount, a mount and what the model forgets between commands
keep the bytes of every file (`Preserves`). Of functions (`PennfatProofs`): what each makes of the
files that are shown (`WriteShown`, `DeleteFileShown`, `RenameShown`, `ChmodShown`), and if it
fails, nothing. Of commands: touch, rm and cat go through a list and stop where one fails, and then
some first part of the list has been done (`TurnsShown`), which is just what `Files` allows:
with the files it went through, one after the other, given as a function of their
number (`Follows`). That cat of many sources ends with the bytes of all of
them joined is by the same induction over the length as above.

The assumptions are those of the five theorems, and `MovesClear`: that mv of a file to itself and mv over a
file that must not be written are not done. After the first the file is gone, after
the second there are two of one name (section 6); both are in no promise of `Files`. The run has no
situation at all, so that the theorem covers it.

**The file system under PennOS.** There processes open, write, close, remove and rename in any
order, a write may begin at an offset, and the directory is saved by a close, with
whatever others have written so far. `TypeInv` of `FileDescriptorsProofs` says that the file system
is `Intact` (`Sound`, as above) in every state, and that descriptors, programs and
shell are in their types; it is inductive together with `IInv`, which finds for each descriptor
its entry. A call is `Fine`: it leaves a file system that is still sound and a list with its types,
unless it has met a situation that damages the table. One lemma per call shows that, one per
action that the action goes on with what the call gave it. A restart loads what the last
save left. `TypeOK` and the four statements of `TableIsKept` (every file has its
blocks, none belongs to two, none is lost, the free count is safe) follow.

Assumptions, besides `NumbersKept` and `EofIsNoBlock`: `MountedSound`, that PennOS is started with a
sound file system saved on disk, which is what the invariant of `PennfatProofs` says of one
that pennfat has made; and `Unharmed`, that neither the six situations of `Careful` are
allowed nor the four of a write at an offset (`offset_...`). Those four are common: a program
that writes more than one block to a file it did not append to meets the first of them
(run `second_write`). So the theorems say that all damage under PennOS comes from the situations
listed, and none from the order of the calls of different processes.
The attempt to prove this found that the model went on after a restart whose `load` had met a
situation that is not allowed; it does not any more. The four statements were run through TLC
with the constants of `descriptors` first.

**What is written stays written.** `WrittenInPlace` says `Spec => WritesInPlace`: a descriptor
whose position goes on finds in front of it what was there before, while others write to the same
file system between any two of its calls. By itself that is not inductive: a program that appends
knows the end only as it was when the file was opened, and its `f_write` goes to the end that
the file has now, and no bytes are lost only if that is not in front of its position. So `Within`
(who appends is not behind the end) goes with `IInv` and `TypeInv`; that it stays so needs
`OneWriter`, and that no call but a write changes a size (`SameSizes`). A call is
`InPlace` if each descriptor it leaves is `Right`: one that was there and has moved on has kept
the bytes in front (`KeepsFront`), any other is as it was, and a new one has a new number. A write has
three cases. From the beginning of a file there is nothing in front; an append keeps
all (`Rewrites`); and a write at an offset frees the chain first and links it anew, and the block in
which the offset lies stays where it is only if it is the first one and not full
(`WriteAtKeepsFront`). That is why the four situations `offset_...` are not allowed here:
in a later block the bytes in front are lost (`second_write`). After the call the model forgets
bytes that no file has, which changes none of those that one has (`SettledText`).
The assumptions are those of `TableIsKept`. The run of `descriptors` has no situation at all, so
that the theorem covers it.

Only model-checked, and why:

* liveness, and with it that what the theorems on `RoundRobin` bound is fair;
* the properties of `terminal` with ^Z. They are not properties of all larger instances: with
  more processes and programs that spawn, a pid in a job may have been given out again (section 3).
  `WaitsForTheMoving` says nothing without ^Z and has no theorem.

## 5. Not modelled

`parsejob` (a binary without source), tokens, error texts, the log and all output
(ls, ps, man, describe, cat and cp to the outside); pipelines; failed system calls
and a failed `malloc`; a tick inside a call of the file system; several host files
with file systems; the blocking `p_waitpid(-1)`, `p_exit` of a process other than the
shell and `setForegroundProcess` by a program, which nothing calls.

## 6. Faults met while modelling

With a run:

* `lost_wakeup`: `p_waitpid` looks at the child and then blocks, and a tick in between
  lets the child end first. The shell stays blocked
  (`pennos/user_level_funcs.c:142`).
* `double_pid`: the pid is read from the back of the table before the pcb is
  linked; a tick in between gives it out twice (`pennos/kernel.c:160`).
* `second_write`: a write at an offset frees the chain of the file before it looks
  for the block of the offset. From the second block on it arrives at block 0,
  the last one of the table: `cat a > b` of a file longer than a block overwrites the header of
  the file system and loses the first block of `b` (`fs/file.c:439`, `:396`).

The models contain these too, and TLC has found each of them; no run is kept for them:

* a sleeper ended by ^C stays in the asleep queue, and when its time is over
  it is retired again by pid: the process that has the pid now is
  dequeued and reaped alive (`pennos/kernel.c:386`; `ReapedIsDeadOrOrphan`).
* `p_sleep` blocks the caller before it enrols it; a tick in
  between switches it out, and no tick ever counts for it
  (`pennos/user_level_funcs.c:321`; `BlockedIsEnrolled`).
* `sleep 0` is retired twice in one entry of `schedule()` and is twice in the
  zombies list (`pennos/kernel.c:379`, `:410`).
* `p_nice` of a process that is in no ready queue, for example a zombie, uses a
  NULL node (`pennos/user_level_funcs.c:30`).
* stop, continue and stop again between two looks of `p_waitpid` is no change
  (`pennos/user_level_funcs.c:131`).
* bg throws a wait status away; the job stays in the queue, its pid is given out
  again, and fg waits for a stranger (`pennos/jobcontrol.c:113`).
* a `sleep` stopped before it calls `p_sleep` is continued as BLOCKED and enrolled
  nowhere (`pennos/kernel.c:345`).
* retiring a sleeper ends the walk of `decrementTicks`, and those behind it
  lose the tick (`pennos/kernel.c:387`).
* every entry of the scheduler counts as a tick for sleepers, so a sleep ends
  early (`pennos/kernel.c:407`).
* fg, bg and jobs with a number above every job number follow a NULL pointer
  (`pennos/jobcontrol.c:48`; the step `Crash` of `JobTable`).
* fg without a number takes the stopped job nearest to the back of the queue, not the last one to stop
  (`pennos/jobcontrol.c:29`, `:39`).
* a file opened with `>` is not truncated when it is opened: `F_WRITE` is 0, and the
  branch `else if (F_WRITE)` is dead (`pennos/filedescriptor.c:159`). The first
  write does it.
* a redirection to a file that somebody writes ends PennOS: the failed `f_open` leads to
  `p_exit` of the shell (`pennos/iter.c:89`).
* cp reads from the end of its source, so that the copy has bytes nobody wrote
  (`pennos/shell.c:370`, `:385`).
* a job of several commands is waited for by its last pid once for every
  command; from the second time on the wait fails with ECHILD for ever
  (`pennos/jobcontrol.c:141`). This one is read off the code.

`Fat` and `FileDescriptors` have a name for each situation in which the code does
damage; with that name in `Situations`, TLC finds the property violated, or, where
none is named, leaves what the model describes:

| situation | what happens | violated |
|---|---|---|
| `no_room_behind` | no free block behind the last one: a block in use is taken (`fs/file.c:501`) | `ChainsWhole` |
| `append_to_empty` | the first block is not recorded (`fs/file.c:581`) | `ChainsWhole` |
| `touch_full_block` | a block is linked for no bytes, and is not an end (`fs/file.c:418`) | `ChainsWhole` |
| `block_1_taken` | an empty directory is saved as nothing, and the next file gets block 1 (`fs/file.c:598`, `:465`) | `ChainsWhole` |
| `load_unsaved` | the program ends between a write and the next `saveFat` | `ChainsWhole` |
| `load_long_directory` | further blocks of the directory are not counted (`fs/fat.c:211`) | `NeverOvercommits` |
| `mv_over_readonly` | the rename goes on although the deletion failed (`fs/file.c:334`) | `IsFiles` |
| `mv_to_itself` | the file is deleted, and its freed entry renamed (`fs/file.c:333`) | |
| `offset_in_later_block` | the freed links are followed (`fs/file.c:444`) | `WritesInPlace` (run `second_write`) |
| `offset_in_full_block` | a write into a file whose last block is full begins in a new block (`fs/file.c:448`) | |
| `offset_past_end` | a write from beyond the end fails after the chain was freed (`fs/file.c:434`) | |
| `offset_shortens` | a write inside a file makes its size the length written (`fs/file.c:579`) | |
| `link_outside` | a link leads out of the table, or to no end | |
| `left_open` | a program or the shell returns, or is killed, with a file open (`pennos/shell.c:334`, `pennos/iter.c:120`): `foo > b` for an unknown `foo`, then `cat a > b`, ends PennOS | `NoneLeftOpen` |
| `closed_behind` | the shell closes the files of a background job at once (`pennos/iter.c:160`) | `OwnFile` |
| `unlink_open` | a descriptor keeps a freed entry (`pennos/filedescriptor.c:343`) | |
| `freed_node` | a search goes on into a node that was freed (`pennos/filedescriptor.c:311`) | |
| `read_twice` | cp reads more than its buffer holds (`pennos/shell.c:385`); the lines of the run do not lead there | |

The free count also drifts down: a directory that shrinks gives its block back to
the table but not to the count (`fs/file.c:366`). And `fs/file.h:89` has
`renameFile` fail if the new name exists, where the code deletes that file. After
rm of the last file and a new mount, the file is there again, since the empty
directory was not written; `Pennfat` has this as `load_unsaved`.

## 7. Plan

Done: the kernel, the user calls, the shell with jobs of one command, the
scheduler, the queues, job numbers, the file system with its bytes, pennfat as
an implementation of `Files`, descriptors and redirections; theorems for the
structural invariants of the kernel, for what the scheduler runs and how long it lets wait, for the
quiet system, for job numbers, for the list of descriptors, for the table, the directory
and the free count under pennfat and under PennOS, for the bytes that programs write, and for
three refinements, pennfat of `Files` among them.

Next, in this order:

1. The theorems about the quiet system with ^Z, where no program spawns or sleeps:
   stopped processes in `Lives` and `Awaited`, jobs that are gone in `JobsKnown`, and
   `WaitsForTheMoving`.
2. `Pipelines`: jobs of several commands in `putJobInForeground` and
   `pollJobChanges`.
