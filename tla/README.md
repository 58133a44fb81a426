# Directory Synchronizers in TLA+

The repository holds two independent programs.

* **Remote Directory Synchronizer** (`nfs_*`): `nfs_manager` lists remote directories, queues one
  pair per file in a cyclic buffer (`sync_buffer.c`), and a pool of threads transfers the files
  between `nfs_client` servers. `nfs_console` sends it commands over a socket.
* **Real-time Directory Synchronizer** (`fss_*`): `fss_manager` watches local directories with
  inotify, turns events and commands into jobs of a queue (`job_queue.c`), and forks a `worker`
  process per job. `fss_console` talks to it over two named pipes.

This directory models the concurrent core of both. Paths below are relative to the program's
directory; line numbers are those of the sources that `PROJECT.json`, the manifest, maps.

## Inventory

### Remote

| Part | State | Operations | Interacts with | What makes it correct |
|---|---|---|---|---|
| `sync_buffer.c` | `data`, `start`, `end`, `count`, quit flag, a mutex, two condition variables | place, obtain, file_exists, cancel_dir, quit | called by the main thread and every worker | it is a FIFO; nobody sleeps for ever; quit drains; cancel removes the pairs of one name |
| `nfs_manager.c`, main thread | the connection to the console, the pair being placed | read config, add, cancel, shutdown, join | buffer, `nfs_client` (LIST), console | no file queued twice; a shutdown completes |
| `nfs_manager.c`, workers | the pair held, two sockets, bytes left | obtain, PULL, PUSH -1 / chunk / 0 | buffer, two `nfs_client`s, log | the target file equals the source; a failing transfer does not stop the pool |
| `nfs_client.c` | the files; the one connection it serves, the others wait in the backlog | LIST, PULL, PUSH -1 / chunk / 0 | one connection at a time | each request is answered in full; a pushed chunk lands once, in order |
| `nfs_console.c` | one command in flight | write a command, read to an empty line | manager | every command is answered, once |
| `socket_util.c`, `util.c` | descriptors, numbered for the whole process | connect, read, write | everyone | a number is closed once, by its owner |
| `logfile.c` | a locked descriptor | write a line | workers, main thread | - |

Hard: two condition variables signalled outside the mutex, index arithmetic modulo the size with an
`end` that starts at -1, an in-place compaction across the wrap-around, check-then-place in two
critical sections, a single-threaded server that waits for a client that waits for a worker that waits for
the server, descriptors that one thread closes twice while another is given their number, and a
file that is queued again while it is being transferred.

### Real-time

| Part | State | Operations | Interacts with | What makes it correct |
|---|---|---|---|---|
| `job_queue.c` | list, `tail`, `size` | enqueue, dequeue, dir_exists, remove_dir | `fss_manager` | it is a FIFO; removal takes one directory's jobs and only those |
| `file_monitor.c` | per source: target, `active`, `wd`, `worker_pid` | add, set_inactive, set_working, set_not_working, get_info | `fss_manager` | it agrees with the workers that run |
| `worker_management.c`, `int_queue.c` | free slots, active workers, a job and a descriptor per slot | setup, free, add/remove watch | kernel, `fss_manager` | a slot has one owner |
| `fss_manager.c` | phase of the loop, shutdown flag | dispatch, poll, scan, commands, events, reports | all of the above, console, workers | the target ends up equal to the source; every command is answered once; shutdown ends |
| `worker.c`, `file_copy` | files done and failed, error buffer, open descriptors | FULL, ADDED, MODIFIED, DELETED, report | the manager's pipe, the file systems | one report per job, which is true; a file that fails does not spoil others |
| `fss_console.c` | one command in flight | write, read a count, read that many lines | manager's pipes | it reads exactly its reply |
| `fss_manager_main.c`, `util.c` | - | start-up, SIGCHLD, read and write loops | - | - |

Hard: users change files while jobs are queued, put back, running or reported; events carry watch
descriptors that may be stale; a sync's reply is completed by a later report; the queue's counter
and its list can disagree; a worker can die or fail to start; files come and go while a directory is
read; a copy that fails leaves descriptors open; a report is read by a manager that does nothing
else meanwhile.

## Modules

| Module | What it is |
|---|---|
| `SyncRing` | the ring of `sync_buffer.c` as operators: index arithmetic, the window, the closed form of the cancel walk |
| `BoundedBuffer` | abstract specification: what `sync_buffer.h` promises, a bounded FIFO that can be closed |
| `SyncBuffer` | the buffer with its threads: one action per critical section, one per signal |
| `CancelLoop` | `sync_buffer_cancel_dir` iteration by iteration, from every ring |
| `JobQueue` | `job_queue.c` as operators on a record (nodes, size, tail) |
| `JobQueueSpec` | any sequence of its calls beside the list its header promises |
| `NfsClient` | the `nfs_client` servers and the connections to them |
| `NfsManager` | `nfs_manager` with its main thread and workers over `NfsClient` and `BoundedBuffer`, and `nfs_console` |
| `FssManager` | `fss_manager_run` with users, inotify, workers and console |
| `FssWorker` | one `worker` process with its copies and report, and `fss_manager` reading it |
| `SyncRingProof` | lemmas about the ring: shifts, windows, ranks, what a cancel keeps |
| `JobQueueProof` | lemmas: which queues the operations of `JobQueue` lead to, and what each does to an intact one |
| `SyncBufferProof`, `CancelLoopProof`, `JobQueueSpecProof`, `NfsManagerProof`, `FssManagerProof`, `FssWorkerProof` | theorems about the module each is named after |
| `MC*` | constants for TLC |

**SyncBuffer.** Each function of `sync_buffer.c` holds the mutex for one block, so one block is one
action; the program counter `place`/`obtain` means "about to take the mutex". A condition wait
returns to that point, whether signalled (`WakeOne`, `WakeAll`, `WokenMain`) or spuriously. The
signal follows the unlock and is a step of its own. `CheckExists` and `Place` are separate because
the code's are. `CancelDir` uses the closed form of the walk; `CancelLoop` shows that the walk
computes it. `Finish` stands for the whole transfer, which `NfsManager` models step by step: whatever
its outcome, the thread comes back.

**NfsClient.** A server accepts one connection at a time and serves it to the end. A PUSH carries its
whole request when it is accepted and is one step; the replies to LIST and PULL are sent item by
item (a name, a size, a block) and `write` waits while the connection holds `SockCap` of them. A
file is a sequence of blocks, each as much as the manager reads at once. A LIST reply is the names that the
directory has when it is opened, and the end: a file that is removed before `readdir` gets to it may be
skipped (`SkipRemoved`), the end never is; a file created meanwhile is not listed, one of the two things
`readdir` may do. The size of a file is an `int32_t` (`nfs_client.c:171`): `Narrowed` wraps the number of blocks
at `Width`, the blocks of 2^32 bytes, and a negative result is answered as an error. Lengths are in whole
blocks, so a size that wraps in the middle of a block is not distinguished. What the
server of a file of 4 GiB or more has still to send when the manager closes is lost or ends it, as after any
close: writing to a connection that
the manager has closed loses what is sent or ends the server by SIGPIPE, which resets every other
connection it had.

**NfsManager.** The buffer is `BoundedBuffer`, which `SyncBuffer` is shown to implement, so that a
place or an obtain is one step here. A worker's program counter is its place in `worker_thread`:
`open` (connect, write PULL), `size`, `create` (PUSH -1), `copy` (read a block), `push`, `finish`
(close, PUSH 0). Every PUSH has a connection of its own, opened, written and closed in one step,
because nothing in it waits; what this hides is that the PUSH's own descriptor exists for a moment, which another
thread then cannot get, and that a server which dies between the connect and the writes
may end `nfs_manager` itself by SIGPIPE. The source connection stays open for the whole file, and `fd[t]` is the
number in the thread's variable, `table` what that number refers to. Numbers are given out lowest
first, as the kernel does, and stay in the variable after a close: `CloseSource` and the reads act on
whatever the number means by then. That is where a failed connect leads to a second close
(`nfs_manager.c:131`), which may be another thread's connection. A failed connect also leaves its
socket open (`Leaking`). The size used uninitialised when its read fails is negative (`PullRefused`) or any value
in `0 .. MaxBlocks`; a block of unknown bytes is `Junk`. A reset makes one `read` fail, and those after it
return 0, as at the end of a stream (`SeeReset`). The size and the blank behind it are two reads
(`nfs_manager.c:56-57`), so a reset that the first of them sees leaves the worker in the second (`blank`), where
it reads nothing for ever. `Spin` is that endless `read` of 0 bytes
at `util.c:102`, of a size, a blank or a block. `LoseNames` is the main thread reading a name from a connection that has been closed
under it or has ended early: the code goes on with an uninitialised name, and nothing more is said of
that thread. `suspect` is a history variable: the pairs that met a failed connect or a changed source
or read somebody else's data, and those of which two workers had the same target file at once.

The kernel's part (accept queue, socket capacity, lowest free number, SIGPIPE, end of file and reset)
is marked external in the manifest.

**JobQueue.** `tail` is `"last"`, `"null"` or `"stray"` (a node that is freed or not reachable).
Enqueueing behind a stray tail is undefined in C, so it has both outcomes: the job is lost, or the
manager crashes. A null dereference is the queue `Crashed`, after which nothing moves.

**FssManager.** The loop has three phases: `dispatch` (lines 80-174), `poll` (177) and `scan`
(185-324); one action per dequeued job, per ready descriptor handled and per phase end. Descriptors
are handled in index order from the snapshot `poll` returned. Commands and reports are handled whole,
with everything they call. A file's content is the number of the change that wrote it; a copy of one
file is one step, so a FULL job takes one step per file, and changes come between them. A target may have any
files at the start: `Old` is the content of one that no copy has written, and a FULL job leaves it in
place when the source has no such file (`worker.c:60`). A reply is
the sequence of its lines, a positive number standing for a line with a count. The lookups by
directory and by watch descriptor are over one record per directory. `slotJob[0]` stands for
`pfds[0]` and `worker_jobs[0]`, which a setup without a free slot overwrites.

**FssWorker.** What `FssManager` takes as two steps, a copy and a report, for one job of any kind and
every source directory. A step is a system call, or those between which nobody can notice a
difference: `OpenDirs`, then per entry `NextEntry`, `OpenSource`, `OpenTarget`, one `CopyBlock` for each
`BUF_SIZE` and `EndOfFile`; `Unlink`; one step for each `write` of the report. `cur`, `linked`,
`body`, `pos` are the open source file: it is read through its name while it has one, so that a rewritten
file changes under the reader, and as it was once it is removed. `readdir` returns an entry that is
created or removed meanwhile, or not. `written` says whether `nwrite` (`util.c:45`) has a value; without
one, `EndOfFile` has both outcomes. The error returns of `file_copy` keep `fds` as it is, which is the
leak. `text` is the error buffer: `write_to_err_buf` gets a copy of the struct, so each error is
written over the one before. A line of the report is a tuple, and one in `LongNames` does not fit the
99 bytes read at `fss_manager.c:505`. `mpc` is the place in `fss_read_worker_report`. Its branches for a
report that does not follow the format are not here: no worker writes one. `KillWorker` ends the worker
at any place; a dead worker's empty pipe is never read (no `POLLIN`), and one cut short makes the manager read
end of file for ever (`ReadsEnd`). `touched` and `hit` are history: the files a user changed, and the files and
directories (`SrcDir`, `TarDir`) that a failing call was about. It is checked beside `FssManager`, not composed with it: `CopyFile` and `Report` there
are its steps without their insides.

## Runs

| Run | Instance | Result |
|---|---|---|
| `SyncBuffer` | 3 cells, 2 workers, 4 pairs of 2 names on 2 hosts, 3 names to cancel | type, no lost wakeup, clean shutdown, no duplicates, the inductive invariant; implements `BoundedBuffer`; places return, every pair leaves and only to a worker, by a cancel of its name or by the emptying of a full buffer, shutdown completes |
| `CancelLoop` | every ring of 3 cells, 5 pairs, 3 hosts | the walk is safe, equals the closed form, and reports exactly what it deletes |
| `JobQueue` | at most 4 jobs, 3 directories | FIFO until a removal meets a job behind another directory's; the counter covers the list |
| `FssMirror` | 1 directory with any target, 2 workers, 3 changes, 2 commands, the source may be removed | the target mirrors the source, exclusive workers, replies in step, every command answered, shutdown ends |
| `FssFaults` | 2 directories, 1 worker, 1 change, 3 commands including cancel, 1 fault | types, records, slots and replies with lost jobs, a failed setup or a killed worker |
| `FssWorker` | 3 files of 0 or 2 blocks, 2 of them stale in the target, 4 descriptors, 1 change, 1 fault or signal | a failed file spoils no other, the status read is true, the error count notices failures, the manager gets out of the report |
| `FssLimitTwo` | 2 directories, 2 workers, 3 changes | violated: the target of one directory stays different |
| `FssStaleWatch` | 1 directory, cancel and add | violated: an event without an owner |
| `NfsTransfer` | 2 servers, 2 workers, 2 routes each way, files of 2, 1 and 0 blocks, buffer of 2, 2 commands | nothing of a file is lost, doubled or reordered on its way; targets are exact |
| `NfsFaults` | 1 worker, 1 failed connect or changed source, 3 descriptors, 2 commands; also files whose size wraps to 0 and to a negative number | the same, types, replies in step; every obtained pair is delivered, listings end, commands are answered, shutdown completes, each up to the exemptions named below |
| `NfsOverlap` | 2 workers, 1 route, add of a directory being transferred | violated: the target differs from the source without any failure |
| `NfsListDeadlock` | 1 worker, 1 route with 4 empty files, buffer of 1 | violated: LIST never ends |

**Bounds.** Three cells are the smallest ring in which a window can wrap, have a gap compacted in
its middle and still be neither empty nor full; two workers are enough for a signal to be taken by
the wrong one. Four pairs, one more than the cells, are what makes a place wait; three of them share a
name over two hosts, so a cancel may remove none, one, two or all.
`JobQueue` needs four jobs for a kept job, a skipped one, a match and a rest. In `FssManager`
`MaxChanges` counts from 1 (the initial content), so 4 allows three changes: create, delete and
create again one file. `ReadMax` (events per read) is 2, so that three events need two reads.
`MaxCommands` and `MaxFaults` bound the person at the console and the faults. `MaxFaults` is 1: with
two failed setups slot 0 can be overwritten while it is in use; what holds then is among the
theorems (`Exclusive`, `TypeOK`). `FssFaults` has one change, a job beside the FULL ones, and one
worker, so that jobs of both directories wait in the queue when a cancel removes those of one; that two
workers stay apart under cancels too is the theorem `WorkersApart`; sequences of changes are the subject of `FssMirror`. All
bounds are guards of environment actions; the manager, the workers and the buffer are unbounded.

`NfsTransfer` has two hosts, each the source of one route and the target of the other, so that a
worker's PUSH waits behind another's PULL; `NfsFaults` has one of the routes. `SockCap` is 2, less than the
longest reply (size and two blocks, or two names and the end), so a server blocks in the middle of
one; a connection and the buffer together still hold a whole listing, because a listing that does not
fit may deadlock, which is what `NfsListDeadlock` shows with the smallest one that does not
(4 names, a connection of 1, a buffer of 1, one in the worker's hands); in the code that is
a directory whose names exceed the socket's buffers. A file has at most two blocks: one that is first,
one that is last. `MaxBlocks` is 2 as well: an uninitialised count above, equal to or below the true
one. `Width` is 6, so that a file of 3 blocks wraps to a negative size and one of 6 to
0 (`TooLong`), while those of the other disks fit; `NfsFaults` starts from both. `Backlog` is 4, as many PUSHes as the longest file needs; a worker that is ahead of the server waits
at it. `FewNumbers` gives the manager 3 descriptors, which a leaked socket, the listing's connection
and a source connection exhaust. `NfsFaults` has one worker because a double close by
one of two can cut the other's transfer, after which nothing can be promised of either; what it does
with one worker and the main thread is checked.

In `FssWorker` a file that fails leaves at most two descriptors open, so with `MaxFds` 4 the second
failure leaves none for the third file: both sides of the bound in `FailuresStayApart` happen. An
empty file is the one whose copy may be called failed, a file of two blocks the one that changes or is cut
between two reads. Three files make two failures and a success, in any order of `readdir`. The contents
of the source are arbitrary at the start, so `MaxChanges` 1 is about the one change that comes while the job
runs; `MaxFaults` 1 is one failing call or one signal.

**Why `FssMirror` has one directory.** With one directory every pass of the dispatch loop either
starts the first job or puts all of them back in turn, so their order survives. With two directories
and two workers a pass can stop in the middle (`FssLimitTwo`). Cancel is left out of `FssMirror`
because a FULL synchronization never deletes: files removed while the watch was off stay in the
target, and `Mirrored`, which allows only those that the target had at the start, does not cover them.

**Deadlock** is checked everywhere except in `NfsListDeadlock`, whose subject it is, and `FssFaults`: there a worker set up on index 0 makes the
manager call `read_line(fss_in)` when that worker reports, and it waits for a command that nobody
owes. The states in which the programs may stop (terminated, crashed, asleep in `poll` with nothing
running) are explicit stuttering actions, so any other stop is an error.

**Fairness.** `SyncBuffer`: weak fairness of the main thread's begun operation and of each worker's
step; a thread that can run does run, and a transfer ends (it may fail). Nothing is assumed of the
console or of spurious wakeups, and which sleeper a signal wakes is not fair. `FssManager`: weak
fairness of the manager, the console's reading and each worker process; users, commands and faults
owe nothing. `FssWorker`: weak fairness of the worker and of the manager; no call is
owed a failure. `NfsManager`: weak fairness of the main thread, of each worker, of each server (processes
and threads that are scheduled) and of the console's reading; the person who types, the network's
failures and the owners of source files owe nothing. A worker that spins is scheduled and makes no
progress.

**Mutated forms.** Operators under that heading in a module change one definition the way a
plausible bug would; the manifest names for each property one that makes TLC report it. Nothing else
uses them.

## Properties and the hazards they are for

* `NoLostWakeup`: signals are sent after the unlock. A queued pair always has a worker awake or a
  signal on its way, and a sleeping main thread with room always has a worker about to signal it.
* `NoDuplicates`: file_exists and place are two critical sections, safe only because one thread
  calls both.
* `Drains`: a queued pair leaves, and only by a worker's obtain or by a cancel of its own name; the third way out
  is named (`MissOnFull`, see below).
* `ShutdownDrains`, `ShutdownCompletes`: quit may come while workers sleep, hold or decide.
* `ImplementsBounded`: the indices are a FIFO. The one departure from the header is the abstract
  action `CancelMissOnFull`; with it the refinement says exactly how far the code goes.
* `WalkSafe`, `WalkIsClosedForm`: compaction in place.
* `ReportExact`: each location once, and the terminator behind the last while the array has room for one.
* `IntactIsFifo`, `SizeCovers`: head, tail and counter under all sequences of calls.
* `Converged`, `EventuallyMirrored`: the promise of the tool, over put-backs, batches of events,
  changes during copies and syncs, for every file that the source has or had while it was watched. Other files that
  the target has from before stay (`Mirrored`).
* `Exclusive`, `WorkingConsistent`, `SlotAccounting`: three records of who works, changed at
  different moments by dispatch, commands and reports. A dead worker counts as a process until its
  report is read, which never happens, so its busy slot and directory agree with that.
* `ReplyInSync`, `CommandsAnswered`, `ShutdownEnds`: replies completed long after the command.
* `FailuresStayApart`: one file of a FULL job fails (a call, an empty file, a user who removes it) and
  the others are copied all the same, as long as the descriptors that the failures leak leave room.
* `StatusTrue`: what the manager has read is compared with the two directories and with what failed, not with the
  worker's counters. SUCCESS means that no call failed and every file nobody changed meanwhile is the
  source's; PARTIAL that some file was copied and some had a reason to fail (a failed call, a change, an
  empty file); ERROR that something had such a reason, or is missing, and that no file was copied, unless a directory
  could not be opened or read on.
* `ErrorsNoticed`: the count shown by `status` grows with exactly the jobs that were no SUCCESS; by how
  much is left open.
* `JobEnds`: every way through the worker ends in a line that lets the manager out of its loop.
* `Conserved`: a file is in five places at once (landed, in the target's backlog, in the worker's
  hands, in the source connection, unsent); together they are the source, and the worker's count of
  what is left agrees, whatever the other transfers do.
* `TargetExact`: a failed connect, a changed source or a transfer of the same file at the same time
  spoils only the pair it happens to.
* `ReplyInStep`: the console is owed exactly one reply while it waits, none otherwise, although the
  same function lists for the config file and for a command.
* `Delivered`, `ListingEnds`, `CommandsAnswered`, `ShutdownCompletes` of `NfsManager`: main thread,
  workers and servers wait for each other in a ring. The exemptions are what the code does not
  promise, each an operator that says why: an unknown word and an add of an unreachable source are not answered
  (`ignored`, `nfs_manager.c:340`); a worker spins, but only on a pair that met a failure or whose
  source's server has ended (`SpinsForRest`), and if all do, nothing more may happen
  (`NoWorkerLeft`); and the names of a listing are lost, but only when its server has ended, its number was
  closed by a worker's second close, or a worker reads from it through its stale number (`Robbed`). `Delivered`
  exempts pairs that met a failure, dead servers, and files whose size cannot be announced.

The manifest's hazard list also holds those no property covers yet, each with the reason.

## What the code does against its documentation

The four violation runs show: put-backs reorder the jobs of a directory, so that its target stays
different (`FssLimitTwo`, `fss_manager.c:98`); an event of an old watch is dereferenced without an
entry (`FssStaleWatch`, `fss_manager.c:288`); a file that is queued again while it is being transferred
is pushed by two workers into one target (`NfsOverlap`, `nfs_manager.c:107`); the main thread places the
names of a listing while its server waits for it to read on, and the workers wait for the server
(`NfsListDeadlock`, `nfs_manager.c:364`).

Other departures are part of the models, in the action named. The properties that hold leave them out or
name them as an exception, and so do not catch them:

* A cancel without a match empties a full buffer (`sync_buffer.c:173`; the abstract action
  `CancelMissOnFull`, and `MissOnFull` in `Drains`), which README.md:70 and 76 know nothing of.
* The report of a cancel that fills the caller's array is terminated behind it (`sync_buffer.c:183`; `Terminate`).
  `ReportExact` neither asks for that write nor forbids it.
* Removing a directory's jobs loses those of others behind it (`job_queue.c:189`; `IntactIsFifo`
  holds only while that has not happened), later even crashing the manager (`TakeNothing` in `FssFaults`).
* A cancel of a removed directory answers twice (`fss_manager.c:247`); a run that checks
  replies removes no directory or sends no cancel.
* The errors of one job count as 1, or 2 if the line is long, however many files failed (`worker.c:243`,
  `fss_manager.c:505`); README.md:78 speaks of the number of errors. `ErrorsNoticed` asks only whether it grows.
* An empty file may be called failed (`util.c:55`; `Excused` in `StatusTrue`).
* Files that fail exhaust the descriptors of those that follow (`util.c:38`; the guard of `FailuresStayApart`).
* A FULL job whose `readdir` fails is an ERROR with "0 files copied" whatever it copied (`worker.c:89`;
  `LastEntry`). `StatusTrue` says nothing of that line.
* A FULL job never removes anything from the target (`worker.c:60`): files that the target had before
  stay, although README.md:3 has the two directories identical (`Mirrored` in `Converged`).
* A file of 2 GiB or more is refused with a wrong error or copied as a prefix (`nfs_client.c:171`; `Narrowed`); the
  properties of transfers are about files that are `Representable`.

## Proofs

Checked by TLAPS, for every value of the constants under the assumptions named.

**`SyncBufferProof`**, for every `Size > 0`, every nonempty set of workers and every
set of pairs without `NoPair` (`SizeAssumption`, `WorkersAssumption`, `NoPairAssumption`; the code
accepts a size or a worker limit of 0, see the hazards):

* `Inductive`: `Spec => []IInv`
* `TypeCorrect`: `Spec => []TypeOK`
* `WakeupsKept`: `Spec => []NoLostWakeup`
* `ShutdownIsClean`: `Spec => []ShutdownDrains`
* `NeverQueuedTwice`: `Spec => []NoDuplicates`
* `RefinesBounded`: `Spec => ImplementsBounded`

`NoLostWakeup` is not inductive alone: that the signalling worker will come back needs the program
counters (`HeldShape`, `Drained`), that a pair placed after quit cannot strand needs `QuitPhase`,
and `ShutdownDrains` needs `Joined`. `TypeOK` is not inductive alone either: `Place` writes at
`end + 1`, and that this is the first free cell is `RingShape` (`end + 1 = start + count` modulo the
size); that `Obtain` hands out a pair and not an unwritten cell is `Filled`. The argument: modulo
arithmetic is isolated in `SyncRingProof`; a cancel keeps `IInv` because the kept offsets are a
subset of the window, so the new indices have the ring's shape and cells below the new count hold
pairs that were live; then one lemma per group of actions, and a temporal step. `NoDuplicates` adds
`PendingFresh`: what `CheckExists` established of the pair in the main thread's hands stays true
until it is placed, since everyone else only takes pairs away. A cancel keeps it because it moves
each kept offset to its rank among the kept ones (`CancelCompacts`), and ranks are distinct
(`RankOnto`).

What `RefinesBounded` proves is the header's FIFO (`HeaderStep`) with one more action,
`CancelMissOnFull`: a cancel without a match on a full buffer is not a step of the header. It maps the ring to the FIFO of `BoundedBuffer` by its window (`Queue`) and has one lemma per
kind of step. A place makes the window longer by the cell at `end + 1`, which `RingShape` says is
the one behind the window; an obtain takes its first cell; a broadcast is the only close; every other
step leaves the window as it is. The cancel is the step that needs thought: `Bounded!Cancel`
describes the queue after it as the pairs that are kept, in order, and the ring has them at their ranks,
so the two sequences are equal because every rank is the rank of a kept offset (`RankOnto` again).

**`CancelLoopProof`**, for every size, pair and ring: `WalkInductive`, `WalkIsSafe`,
`WalkComputes`, `ReportInductive`, `WalkTypeCorrect`, `ReportIsExact` (all four properties of the
run). The invariant of the walk (`WInv`): the offsets not yet read hold what they held, and those
kept so far stand at their rank, which is never ahead of their own offset. That of the report
(`RInv`): its entries are the distinct locations of the pairs deleted so far, so it is never longer
than the walk is far, and the capacity test of `sync_buffer.c:162` never fails. What is proved of the terminator
is where it stands while the report is shorter than the array. Together with
`SyncBufferProof`, where a cancel is the closed form, this covers the code's loop.

**`JobQueueSpecProof`**, for every set of jobs and any sequence of calls: `CounterCovers`,
`Spec => []SizeCovers`. Each operation of `JobQueue` keeps the set `Queues(Jobs)` of records whose
counter is at least the length of the list; a removal cuts the list between the first match and
what follows it, and that such a place exists is the least or greatest element of a bounded set. `FifoWhileIntact`,
`Spec => []IntactIsFifo`: as long as every removal has met its jobs at the head of the list, the list is
what `job_queue.h` promises, `size` is its length and `tail` its last node. The invariant
is the property with the types (`Fifo`). An enqueue and a dequeue keep it directly (`EnqueueWhole`, `DequeueWhole`);
a removal that meets no job behind another's leaves a suffix of the list (`SuffixShape`), which is the
promised selection (`OthersFollow`).

**`NfsManagerProof`**, for every set of hosts, directories, workers and commands, every finite set of file
names, every content of the files, every size of buffer, backlog and connection (0 included), every set of descriptor
numbers and every bound on the faults (`ThreadsAssumption`, `LocationsAssumption`, `FilesAssumption`,
`RoomAssumption` of `NfsClient`, and the seven of `NfsManager`, which say what the constants are):

* `RepliesMatch`: `Spec => []ReplyInStep`
* `TypesInductive`: `Spec => []TInv`
* `TypeCorrect`: `Spec => []TypeOK`
* `TransfersConserve`: `Spec => []Conserved`, provided that no directory is both a source and a target
  (`SourcesApart`) and that there is at most one worker (`Sole`) or no fault and a number for every thread (`Roomy`)
* `TargetsExact`: `Spec => []TargetExact`, provided moreover that no two entries have the same target (`TargetsApart`)
  and that what the targets hold at the start can be told from copies (`TargetsMarked`)

`RepliesMatch`: `CInv` adds the types of the two pipes and that the commands waiting, the one being executed and the
replies unread are together exactly what the console waits for, unless a command was ignored; the actions
are those of the main thread, those of the console, and the rest, which touch neither.

`TypeOK` is far from inductive. That `left` is a number needs the first thing in a worker's connection to be a size
and the rest blocks, which depends on who asked for what; and a connection is not safely its thread's, because
a second close (`nfs_manager.c:131`, then 157 or the next turn's) may hit a number that was given to somebody else. The
invariant `TInv` has six parts. `ServerInv`: the contents, requests, answers and connections are what the
protocol has. `NumberInv`: a number that the table gives to a thread is the one in the thread's variable, and
the thread is at a place where it uses it; not the converse, which a double close refutes. `LinkInv`:
a request, waiting or served, whose asker is a thread is for the pair that the thread holds, the thread has his number,
nobody asks twice, and nothing is in a connection before its request is accepted (`Asking`); a file
that is being served exists; who has no connection has nothing to read, and names come only to the main
thread (`WireInv`). `BufferInv`, `WorkerInv` and `MainInv` are the threads' own parts. `TInv` was checked by TLC
before it was proved. The lemmas go by who moves: for a server, a worker, the main thread and the person outside, one
per part of the invariant that the step can disturb; `LinksHungUp` says what a close that takes somebody's
connection does to the requests.

`TransfersConserve` and `TargetsExact` are the purpose of the program. What `Conserved` says of one moment is
carried from step to step by these parts, all under `AllUp`, since a server that dies takes its connections with it.
`InInv`, `OutInv` and `RestInv` leave out the pairs in `Spoiled`: those that met a failure, and those whose source
is too long for the `int32_t` of its size (`Representable`), about which both theorems say nothing.
That a pair is spoiled never ends (`SpoiledGrows`): a source that changes makes its pairs suspect.


* `OwnInv`: no connection is reset; the number in a connected thread's variable is that thread's own connection, unless the only worker there is
  has closed it already, and then its pair is suspect.
* `InInv`, the side of the source: either the worker's request still waits and nothing has come, or what lies in the
  connection is the size, if it was not read, and then exactly the blocks of the source from the one that the worker's
  count says is next up to the one the server sent last (`Flowing`); in the phase `push` the buffer is the block before.
* `OutInv`, the side of the target: what has landed, the PUSHes in the backlog carried out, is the source as
  far as the count says (`Reaching`).
* `RestInv`: what lands in a target that nobody fills is what was there at the start, or the source.
* `ShareInv` and `PushInv`: two workers with one target file are both suspect, and every PUSH in a backlog is
  at the host of its target, so that no step of others changes what lands (`PairStep`).

`Landing` runs a recursive function over the backlog; that it exists and is unique is proved by a least number without
(`LandedSteps`, `LandedUnique`), and from these what one more PUSH, one served, and a hangup in the backlog do to it
(`LandedAppend`, `LandedPop`, `LandedSame`). Besides, the proof needs for each actor which connections its
step leaves alone (`Beside`). TLC checked the conjunction on the instances of `NfsTransfer` and `NfsFaults`, which meet the
premises, before it was proved. The premises are what the code asks for: with two workers and a failing connect, the
second close of one (`nfs_manager.c:131`, then 157) takes the other's connection, whose pair nothing has
marked: TLC finds that `Conserved` fails with one fault, two workers and a block in each of two files; a directory
that is a source and a target changes while it is read; and of two routes with one target, one may
overwrite what the other has left (`NfsOverlap`). `add` and the config file accept all of these.

**`FssManagerProof`**, for every set of directories and files, every limit (0 included), every
config without a repeated source, and every bound on the environment (`LimitAssumption`,
`ConfigAssumption`, `BoundAssumption`, `ReadAssumption`, `NoJobAssumption`):

* `WorkersApart`: `Spec => []Exclusive`
* `RecordsAgree`: `Spec => [](faults <= 1 => WorkingConsistent)`
* `SlotsAccounted`: `Spec => [](faults <= 1 => SlotAccounting)`
* `TypesHold`: `Spec => []TypeOK`
* `RepliesInStep`: `Spec => []ReplyInSync`, provided that no source is removed or no command is a cancel
  (`SingleReply`)
* `TargetsFollow`: `Spec => [](faults = 0 => Converged)`, provided that no command is a cancel (`NoCancel`) and that
  there is one directory or at most one worker (`OneAtATime`)

`Exclusive` and `TypeOK` hold with any number of failed setups and killed workers. The other two
are conditional because a setup without a free slot overwrites slot 0 (`worker_management.c:99`):
each fault loses a slot, and after two a second job can overwrite the first. The invariant is
`TInv` (types of what dispatch, scan and the workers use), `ScanInv` (an index still to be
scanned whose worker has reported is of a busy slot, although earlier indices of the same
`poll` may have changed the monitor), `ExclusiveInv` (a directory that is not working has no
worker) and, under one fault, `PoolInv`: the free, the busy and at most one lost slot are all
slots, so index 0 is used at most once (`NextSlotFree`, by cardinality). `TypeOK` needs also
`DiskInv` (contents never newer than the count of changes) and `ControlInv` (`active` is at least
the number of busy slots). A batch of events is a recursive function, `QueueOutcomes`, not a fold, so
that its values can be reasoned about: `BatchQueued` shows by a least counterexample that every
outcome of every batch is a queue of jobs.

`RepliesInStep` is about `fss_manager.h:11-13`: a line with a count announces how many lines follow,
and some of them are written much later, when a sync job is done (`fss_manager.c:281`) or the manager has
stopped. `ReplyInv` counts what is announced and not yet written: at most one job of a sync
command is queued or running at any time (`OneSync`), because the console sends the next command only when
it has read the reply, so `Due` is at most one line for it and one for a shutdown; a command is then either
unread with nothing due (`Unanswered`) or answered by a count that covers what is in the pipe and what
is due (`Answered`). The premise is the code's: a cancel of a directory that was removed answers at
`fss_manager.c:247` and again at line 254, which is listed under the hazards. `WatchInv` says that
nothing but a removal takes the watch of an active directory.

`TargetsFollow` is the purpose of the program: once no job, event or worker is left, the target of a
monitored directory has each file of its source as the source has it, and no others but those that it had at the
start (`Mirrored`), whatever they are. The invariant cannot speak of that moment; it says at any time what is
still on its way. `Chain` is the list of the jobs in the order in which they will be dispatched: those
of the queue, with the ones that this pass of the dispatch loop has put back (`Rotated`) behind the rest, and then
the jobs that the unread events will become. `MirrorInv`: a file missing in the source is missing in the target or as it
was at the start, or a worker or the chain removes it; a file of the source is copied by the chain after its last
removal in it, or the chain does not remove it and a running worker copies it, or the target has its
latest content. A FULL job and an ADDED or MODIFIED one count as copies of what the source has when
the copy happens. Around it are `Whole` (the queue loses nothing, from `JobQueueProof`), `OwnersInv` (a watch descriptor
belongs to one directory, and each event and each job is of one that is monitored), `OrderInv`
(in a pass that has put a job back all jobs are of one busy directory, so the rotation is no
reordering), `FreshInv` (only a running worker has files left) and `ReadyInv` (only a worker that has
reported is read). TLC checked the conjunction on the instances of the runs before it was proved. Both premises are
needed: `FssLimitTwo` is the counterexample with two directories and two workers, and after a
cancel a FULL synchronization leaves what was deleted while the watch was off (`worker.c:60`).

**`FssWorkerProof`**, for every set of files, every set of lengths with a positive and a greatest one,
every number of descriptors, changes and faults (`StaleAssumption`, `LengthsAssumption`,
`BoundsAssumption`):

* `TypeCorrect`: `Spec => []TypeOK`
* `ResultsTrue`: `Spec => []StatusTrue`
* `OthersCopied`: `Spec => []FailuresStayApart`
* `ErrorsCounted`: `Spec => ErrorsNoticed`, an action property

The invariant has a half for each process. `WorkerInv`: which locals have which values where (`Phases`); a
failed copy leaves at most two descriptors, so `fds <= 2 * failed` between two copies (`Descriptors`); what has been
written of a copy is what the source starts with, if nobody touched it (`Following`); in a FULL
job each file of the source is copied already, or not read yet, or the one in hand, or one
that a fault or the lack of descriptors stopped (`Progress`); a single job that gets to its report has
done its work (`SingleDone`). `CauseInv` is what makes a PARTIAL and an ERROR true: a failure is counted, or the error
path taken, only with a reason, no call has failed while none is counted (`Causes`), and a count of copied files that is
not 0, or is, tells what the target has (`Copied`). `Protocol`: nothing is written yet (`Silent`); or the first `w` lines of a report with the
result `r` are, of which the manager has read `n`, or is in the middle of an error line that was too
long for its buffer, or reads end of file for ever (`Reporting`); or it is over (`Freed`). In the last two
the result is true of the target, and stays so although the source may go on changing, because a
change is in `touched`.

Only model-checked, because the prover cannot do it: liveness, which needs fairness and ENABLED (`EventuallyMirrored`, `JobEnds`, `AllDelivered` and
the others of the runs). Every safety property of a run that is expected to pass is proved: `Converged`,
`ReplyInSync`, `WorkingConsistent`, `SlotAccounting`, `Conserved` and `TargetExact` under the premises named above. `EventsHaveOwners`, the
convergence with two directories and two workers, and the two other properties of runs that expect a violation are false.

## Not modelled

Remote: the bytes of a line or of a chunk and reads of part of one; log text; argument checks;
malformed config files (two routes with the same target among them); memory exhaustion; a server that
a user restarts; connections that overtake each other on their way to one server; the descriptor
numbers of the console's socket, the log and the servers; a console that ends without a shutdown,
which leaves the manager reading end of file for ever (`nfs_manager.c:311`).

Real-time: descriptor numbers and a failing fork, dup2 or exec (`worker_management.c:115-136`); memory
exhaustion in manager and worker; malformed config files; directories inside a source; the bytes of a
line; file names and dates; a queue overflow of inotify; a source has one target, so
that adding a cancelled source with another target is left out. In `FssManager` (not in `FssWorker`) the
copy of a file and a report are one step. `fss_manager_main.c` only starts the loop; its SIGCHLD handler
reaps.

## Plan

1. `SyncRing`, `BoundedBuffer`, `SyncBuffer`, `CancelLoop`, `JobQueue`, `FssManager`, the first
   proofs: done.
2. `NfsClient`, `NfsManager`: done.
3. `FssWorker`: done.
4. `WorkerManager`: descriptor numbers, fork and exec failures.
5. Proofs: the refinement of `BoundedBuffer` and the safety invariants of `SyncBuffer`, `CancelLoop`,
   `JobQueueSpec`, `FssManager`, `FssWorker` and `NfsManager`: done.
