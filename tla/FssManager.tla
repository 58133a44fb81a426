----------------------------- MODULE FssManager -----------------------------
(***************************************************************************)
(* fss_manager of the Real-time Directory Synchronizer: the single         *)
(* threaded loop of fss_manager_run (dispatch queued jobs, poll, handle    *)
(* the ready descriptors in index order) with everything it interacts      *)
(* with: the users who change the source directories, the kernel's inotify *)
(* queue, the worker processes that copy files and write a report into     *)
(* their pipe, and fss_console at the other end of two named pipes.        *)
(*                                                                         *)
(* A file's content is the number of the change that wrote it, 0 when it   *)
(* does not exist, and Old for a file that its target has from before.     *)
(* The program compares no contents, so that one Old stands for them all.  *)
(* A copy is atomic.  Each source has one target.  A reply to the console  *)
(* is the sequence of its lines: a positive number for a line that         *)
(* announces that many lines, 0 for a line of text.                        *)
(***************************************************************************)
EXTENDS JobQueue, SequencesExt

CONSTANTS
  Dirs, Files,
  Limit,       \* worker_limit
  ConfigDirs,  \* the source directories of the config file, in order
  Commands,    \* what the console may type: a set of [name, dir]
  Removable,   \* the source directories a user may remove
  ReadMax,     \* events that one read() of BUF_SIZE bytes returns at most
  MaxChanges, MaxCommands, MaxFaults, \* bounds on the environment
  NoJob

ASSUME LimitAssumption == Limit \in Nat
ASSUME ConfigAssumption == ConfigDirs \in Seq(Dirs) /\ Cardinality(ToSet(ConfigDirs)) = Len(ConfigDirs)
ASSUME BoundAssumption == MaxChanges \in Nat \ {0}
ASSUME ReadAssumption == ReadMax \in Nat \ {0}

Kinds == {"ADDED", "MODIFIED", "DELETED"}
Jobs == [dir : Dirs, file : Files \cup {"ALL"}, op : Kinds \cup {"FULL"}, sync : BOOLEAN]
ASSUME NoJobAssumption == NoJob \notin Jobs
Old == -1

VARIABLES
  src, tar,            \* content of every file of every source and target directory
  gone,                \* removed source directories
  changes, faults,     \* bounds
  watch, nextWd,       \* inotify: watch descriptor of each directory, 0 for none
  events,              \* inotify: events not read yet
  queue,               \* job_queue
  left,                \* jobs the dispatch loop still looks at: queue_size - s
  mon,                 \* file_monitor: an entry for each directory
  slotQ, active,       \* worker_manager: slot_queue, active_workers
  slotJob,             \* worker_manager: worker_jobs and pfds, NoJob where no worker was set up
  shutDown, pc, ready, \* fss_manager_run: the flag, the phase, indices whose revents are still to look at
  worker,              \* the process of each slot: "none", "run", "reported" or "dead", and files to copy
  conPc, conLeft, conIn, conOut, commands \* fss_console and the pipes fss_in and fss_out

disk == <<src, tar, gone, changes>>
kernel == <<watch, nextWd, events>>
workers == <<slotQ, active, slotJob, worker>>
console == <<conPc, conLeft, conIn, conOut, commands>>
vars == <<disk, faults, kernel, queue, left, mon, workers, shutDown, pc, ready, console>>

Slots == 2 .. Limit + 1
ConsoleIndex == 0
InotifyIndex == 1

FullJob(d, sync) == [dir |-> d, file |-> "ALL", op |-> "FULL", sync |-> sync]
Idle == [pc |-> "none", todo |-> {}]
Line == <<0>>
Reply(n) == <<n>> \o [i \in 1 .. n |-> 0]

Configured(d) == d \in ToSet(ConfigDirs)
WdOf(d) == IF Configured(d) THEN CHOOSE i \in DOMAIN ConfigDirs : ConfigDirs[i] = d ELSE 0

(* The state after fss_read_config_file: each directory of the file is     *)
(* watched and monitored, and a FULL job waits for it.  Nothing is asked   *)
(* of a target, which may have any files.                                  *)
Init ==
  /\ src \in [Dirs -> [Files -> {0, 1}]]
  /\ tar \in [Dirs -> [Files -> {0, Old}]]
  /\ gone = {} /\ changes = 1 /\ faults = 0
  /\ watch = [d \in Dirs |-> WdOf(d)]
  /\ nextWd = Len(ConfigDirs) + 1
  /\ events = <<>>
  /\ queue = [nodes |-> [i \in DOMAIN ConfigDirs |-> FullJob(ConfigDirs[i], FALSE)],
              size |-> Len(ConfigDirs), tail |-> IF ConfigDirs = <<>> THEN "null" ELSE "last"]
  /\ left = Len(ConfigDirs)
  /\ mon = [d \in Dirs |-> [known |-> Configured(d), active |-> Configured(d), wd |-> WdOf(d), working |-> FALSE]]
  /\ slotQ = [i \in 1 .. Limit |-> i + 1] /\ active = 0
  /\ slotJob = [i \in {ConsoleIndex} \cup Slots |-> NoJob]
  /\ shutDown = FALSE /\ pc = "dispatch" /\ ready = {}
  /\ worker = [i \in {ConsoleIndex} \cup Slots |-> Idle]
  /\ conPc = "idle" /\ conLeft = 0 /\ conIn = <<>> /\ conOut = <<>> /\ commands = 0

-----------------------------------------------------------------------------
(* Users and the kernel.  An event equal to the last unread one is merged  *)
(* into it; a directory without a watch produces none.  The IN_IGNORED     *)
(* event of a removed watch matches no mask that the manager tests and is  *)
(* left out.                                                               *)

Emit(d, kind, f) ==
  LET e == [wd |-> watch[d], op |-> kind, file |-> f]
  IN  events' = IF watch[d] = 0 \/ (events # <<>> /\ Last(events) = e) THEN events ELSE Append(events, e)

ChangeFile(d, f, kind) ==
  /\ changes < MaxChanges /\ d \notin gone
  /\ kind = "ADDED" <=> src[d][f] = 0
  /\ changes' = changes + 1
  /\ src' = [src EXCEPT ![d][f] = IF kind = "DELETED" THEN 0 ELSE changes']
  /\ Emit(d, kind, f)
  /\ UNCHANGED <<tar, gone, faults, watch, nextWd, queue, left, mon, workers, shutDown, pc, ready, console>>

\* rmdir of an emptied source directory takes its watch with it.
RemoveSource(d) ==
  /\ d \in Removable \ gone
  /\ \A f \in Files : src[d][f] = 0
  /\ gone' = gone \cup {d}
  /\ watch' = [watch EXCEPT ![d] = 0]
  /\ UNCHANGED <<src, tar, changes, faults, nextWd, events, queue, left, mon, workers, shutDown, pc, ready, console>>

-----------------------------------------------------------------------------
(* Workers (worker.c): each file is one step, then the report is written.  *)

CopyFile(s, f) ==
  /\ worker[s].pc = "run" /\ f \in worker[s].todo
  /\ LET d == slotJob[s].dir
     IN  tar' = IF slotJob[s].op = "DELETED" THEN [tar EXCEPT ![d][f] = 0]
                ELSE IF src[d][f] # 0 THEN [tar EXCEPT ![d][f] = src[d][f]] ELSE tar
  /\ worker' = [worker EXCEPT ![s].todo = @ \ {f}]
  /\ UNCHANGED <<src, gone, changes, faults, kernel, queue, left, mon, slotQ, active, slotJob, shutDown, pc, ready, console>>

Report(s) ==
  /\ worker[s].pc = "run" /\ worker[s].todo = {}
  /\ worker' = [worker EXCEPT ![s].pc = "reported"]
  /\ UNCHANGED <<disk, faults, kernel, queue, left, mon, slotQ, active, slotJob, shutDown, pc, ready, console>>

\* A worker that ends before it reports: poll returns at once for its closed pipe, but not with POLLIN,
\* so that the loop only spins.
KillWorker(s) ==
  /\ worker[s].pc = "run" /\ faults < MaxFaults
  /\ worker' = [worker EXCEPT ![s] = [pc |-> "dead", todo |-> {}]]
  /\ faults' = faults + 1
  /\ UNCHANGED <<disk, kernel, queue, left, mon, slotQ, active, slotJob, shutDown, pc, ready, console>>

-----------------------------------------------------------------------------
(* fss_console: one command at a time, then as many lines as announced.    *)

Type(c) ==
  /\ conPc = "idle" /\ commands < MaxCommands
  /\ conIn' = Append(conIn, c)
  /\ commands' = commands + 1
  /\ conPc' = IF c.name = "shutdown" THEN "lastheader" ELSE "header"
  /\ UNCHANGED <<disk, faults, kernel, queue, left, mon, workers, shutDown, pc, ready, conLeft, conOut>>

\* Where the console is once n more lines are to come.
AfterLine(n) ==
  IF n > 0 THEN IF conPc \in {"header", "lines"} THEN "lines" ELSE "lastlines"
  ELSE IF conPc \in {"header", "lines"} THEN "idle" ELSE "closed"

ConsoleReads ==
  /\ conPc \in {"header", "lines", "lastheader", "lastlines"} /\ conOut # <<>>
  /\ conLeft' = IF conPc \in {"header", "lastheader"} THEN Head(conOut) ELSE conLeft - 1
  /\ conPc' = AfterLine(conLeft')
  /\ conOut' = Tail(conOut)
  /\ UNCHANGED <<disk, faults, kernel, queue, left, mon, workers, shutDown, pc, ready, conIn, commands>>

-----------------------------------------------------------------------------
(* Mutated forms, used only to see that the properties notice them. *)

BusyNever(d) == FALSE
NotWorkingForgotten(d) == mon
FreedTwice(s) == Append(Append(slotQ, s), s)
CompletionUnsaid(job) == <<>>
CompletionAlways(job) == <<0>>
FirstOfBatch(q) == <<Head(q)>>
DrainedWhenNoneAvailable == shutDown /\ queue.size = 0 /\ active = Limit
AvailableAtLimit == Limit - active >= 0

-----------------------------------------------------------------------------
(* The dispatch loop (fss_manager.c:80-158). *)

Alive == queue # Crashed
Dispatching == pc = "dispatch" /\ Alive

\* worker_manager_available_workers
Available == Limit - active > 0

\* file_monitor_is_working
IsWorking(d) == mon[d].working

\* int_queue_dequeue answers 0, the console's index, when no slot is left.
NextSlot == IF slotQ = <<>> THEN ConsoleIndex ELSE Head(slotQ)
TakeSlot == slotQ' = IF slotQ = <<>> THEN slotQ ELSE Tail(slotQ)

Taking == Dispatching /\ left > 0 /\ Available

\* The counter promises a job that is no longer reachable: head is null.
TakeNothing ==
  /\ Taking /\ queue.nodes = <<>>
  /\ queue' = Dequeue(queue)
  /\ UNCHANGED <<disk, faults, kernel, left, mon, workers, shutDown, pc, ready, console>>

\* A job of a busy directory goes back behind the others.
PutBack ==
  /\ Taking /\ queue.nodes # <<>>
  /\ IsWorking(Head(queue.nodes).dir)
  /\ queue' \in Enqueue(Dequeue(queue), Head(queue.nodes))
  /\ left' = left - 1
  /\ UNCHANGED <<disk, faults, kernel, mon, workers, shutDown, pc, ready, console>>

\* worker_manager_setup_worker succeeds and the directory is set to working.
StartWorker ==
  /\ Taking /\ queue.nodes # <<>>
  /\ ~IsWorking(Head(queue.nodes).dir)
  /\ LET job == Head(queue.nodes)
     IN  /\ slotJob' = [slotJob EXCEPT ![NextSlot] = job]
         /\ worker' = [worker EXCEPT ![NextSlot] =
                         [pc |-> "run", todo |-> IF job.op = "FULL" THEN Files ELSE {job.file}]]
         /\ mon' = [mon EXCEPT ![job.dir].working = TRUE]
  /\ TakeSlot
  /\ active' = active + 1
  /\ queue' = Dequeue(queue)
  /\ left' = left - 1
  /\ UNCHANGED <<disk, faults, kernel, shutDown, pc, ready, console>>

\* pipe() fails after the slot was taken: the job is dropped, a sync is reported as failed.
SetupFails ==
  /\ Taking /\ queue.nodes # <<>> /\ faults < MaxFaults
  /\ ~IsWorking(Head(queue.nodes).dir)
  /\ TakeSlot
  /\ queue' = Dequeue(queue)
  /\ left' = left - 1
  /\ conOut' = IF Head(queue.nodes).sync THEN conOut \o Line ELSE conOut
  /\ faults' = faults + 1
  /\ UNCHANGED <<disk, kernel, mon, active, slotJob, worker, shutDown, pc, ready, conPc, conLeft, conIn, commands>>

\* Shutdown is over when no job is queued and no worker is active (fss_manager.c:161).
HasDrained == shutDown /\ queue.size = 0 /\ active = 0

EndDispatch ==
  /\ Dispatching /\ (left = 0 \/ ~Available)
  /\ pc' = IF HasDrained THEN "stopped" ELSE "poll"
  /\ conOut' = IF HasDrained THEN conOut \o Line ELSE conOut
  /\ UNCHANGED <<disk, faults, kernel, queue, left, mon, workers, shutDown, ready, conPc, conLeft, conIn, commands>>

-----------------------------------------------------------------------------
(* poll and the scan of the descriptors (fss_manager.c:177-324).  Index 0  *)
(* polls fss_in until a worker was set up at it.                           *)

Reporting(s) == slotJob[s] # NoJob /\ worker[s].pc = "reported"
ConsoleReady == IF slotJob[ConsoleIndex] = NoJob THEN conIn # <<>> ELSE Reporting(ConsoleIndex)
ReadyNow ==
  {s \in Slots : Reporting(s)}
    \cup {i \in {InotifyIndex} : events # <<>>} \cup {i \in {ConsoleIndex} : ConsoleReady}

Poll ==
  /\ pc = "poll" /\ ReadyNow # {}
  /\ ready' = ReadyNow
  /\ pc' = "scan"
  /\ UNCHANGED <<disk, faults, kernel, queue, left, mon, workers, shutDown, console>>

\* The scan reaches index i.
Scans(i) == pc = "scan" /\ Alive /\ ready # {} /\ i = Min(ready) /\ ready' = ready \ {i}

EndScan ==
  /\ pc = "scan" /\ Alive /\ ready = {}
  /\ pc' = "dispatch"
  /\ left' = queue.size
  /\ UNCHANGED <<disk, faults, kernel, queue, mon, workers, shutDown, ready, console>>

\* During a shutdown commands and events stay unread, and poll reports them again.
IgnoreInput ==
  /\ shutDown
  /\ \E i \in {ConsoleIndex, InotifyIndex} : Scans(i)
  /\ UNCHANGED <<disk, faults, kernel, queue, left, mon, workers, shutDown, pc, console>>

-----------------------------------------------------------------------------
(* Commands.  The command is read from fss_in whatever descriptor index 0  *)
(* polls: read_line waits for it.                                          *)

Commanded(name, d) ==
  /\ Scans(ConsoleIndex) /\ ~shutDown
  /\ conIn # <<>> /\ Head(conIn) = [name |-> name, dir |-> d]
  /\ conIn' = Tail(conIn)
  /\ UNCHANGED <<disk, faults, events, left, workers, pc, conPc, conLeft, commands>>

Answer(reply) == conOut' = conOut \o reply

\* worker_manager_add_watch: a directory that has a watch keeps it, a removed one cannot get any.
AddWatch(d) ==
  IF watch[d] # 0 THEN UNCHANGED <<watch, nextWd>>
  ELSE watch' = [watch EXCEPT ![d] = nextWd] /\ nextWd' = nextWd + 1

\* file_monitor_add
Monitor(d) == mon' = [mon EXCEPT ![d].known = TRUE, ![d].active = TRUE, ![d].wd = watch'[d]]

Untouched == UNCHANGED <<watch, nextWd, queue, mon, shutDown>>

Add(d) ==
  /\ Commanded("add", d)
  /\ IF mon[d].active \/ d \in gone
     THEN Answer(Reply(1)) /\ Untouched
     ELSE /\ AddWatch(d) /\ Monitor(d)
          /\ queue' \in Enqueue(queue, FullJob(d, FALSE))
          /\ Answer(Reply(2))
          /\ UNCHANGED shutDown

Status(d) ==
  /\ Commanded("status", d)
  /\ Answer(Reply(IF mon[d].known THEN 6 ELSE 1))
  /\ Untouched

\* inotify_rm_watch fails when the watch is gone; the cancel goes on, with a second reply.
Cancel(d) ==
  /\ Commanded("cancel", d)
  /\ IF ~mon[d].active
     THEN Answer(Reply(1)) /\ Untouched
     ELSE /\ watch' = [watch EXCEPT ![d] = 0]
          /\ mon' = [mon EXCEPT ![d].active = FALSE]
          /\ queue' = RemoveDir(queue, d)
          /\ Answer(IF watch[d] = 0 THEN Reply(1) \o Reply(1) ELSE Reply(1))
          /\ UNCHANGED <<nextWd, shutDown>>

SyncInProgress(d) == mon[d].working \/ DirExists(queue, d)

\* The second of the two announced lines comes with the worker's report.
Sync(d) ==
  /\ Commanded("sync", d)
  /\ IF ~mon[d].known \/ SyncInProgress(d)
     THEN Answer(Reply(1)) /\ Untouched
     ELSE IF ~mon[d].active /\ d \in gone
     THEN Answer(Reply(2)) /\ Untouched
     ELSE /\ IF mon[d].active THEN UNCHANGED <<watch, nextWd, mon>> ELSE AddWatch(d) /\ Monitor(d)
          /\ queue' \in Enqueue(queue, FullJob(d, TRUE))
          /\ Answer(<<2>> \o Line)
          /\ UNCHANGED shutDown

\* Three lines now, the fourth when the manager stops.
Shutdown(d) ==
  /\ Commanded("shutdown", d)
  /\ shutDown' = TRUE
  /\ Answer(<<4>> \o Line \o Line \o Line)
  /\ UNCHANGED <<watch, nextWd, queue, mon>>

-----------------------------------------------------------------------------
(* Events and reports. *)

Owners(wd) == {d \in Dirs : mon[d].known /\ mon[d].wd = wd}

\* A watch descriptor that no entry has any more is looked up and dereferenced all the same.
EventOutcomes(q, e) ==
  IF q = Crashed \/ Owners(e.wd) = {} THEN {Crashed}
  ELSE Enqueue(q, [dir |-> CHOOSE d \in Owners(e.wd) : TRUE, file |-> e.file, op |-> e.op, sync |-> FALSE])

\* The queue after every event of a batch: the outcomes of each begin where those of the one before end.
QueueOutcomes(batch) ==
  LET outcomes[n \in 0 .. Len(batch)] ==
        IF n = 0 THEN {queue} ELSE UNION {EventOutcomes(q, batch[n]) : q \in outcomes[n - 1]}
  IN  outcomes[Len(batch)]

\* The waiting events that one read returns, and those it leaves.
Batch(q) == SubSeq(q, 1, Min({Len(q), ReadMax}))
Unread(q) == SubSeq(q, ReadMax + 1, Len(q))

HandleInotify ==
  /\ Scans(InotifyIndex) /\ ~shutDown
  /\ queue' \in QueueOutcomes(Batch(events))
  /\ events' = Unread(events)
  /\ UNCHANGED <<disk, faults, watch, nextWd, left, mon, workers, shutDown, pc, console>>

\* file_monitor_set_not_working and worker_manager_free_worker
NotWorking(d) == [mon EXCEPT ![d].working = FALSE]
Freed(s) == Append(slotQ, s)

\* The line that ends the reply to sync.
Completion(job) == IF job.sync THEN Line ELSE <<>>

HandleReport(s) ==
  /\ Scans(s) /\ s \in Slots
  /\ Answer(Completion(slotJob[s]))
  /\ mon' = NotWorking(slotJob[s].dir)
  /\ slotQ' = Freed(s) /\ active' = active - 1
  /\ slotJob' = [slotJob EXCEPT ![s] = NoJob]
  /\ worker' = [worker EXCEPT ![s] = Idle]
  /\ UNCHANGED <<disk, faults, kernel, queue, left, shutDown, pc, conPc, conLeft, conIn, commands>>

-----------------------------------------------------------------------------
ManagerStep ==
  \/ TakeNothing \/ PutBack \/ StartWorker \/ EndDispatch
  \/ Poll \/ IgnoreInput \/ HandleInotify \/ EndScan
  \/ \E d \in Dirs : Add(d) \/ Status(d) \/ Cancel(d) \/ Sync(d) \/ Shutdown(d)
  \/ \E s \in Slots : HandleReport(s)

WorkerStep(s) == Report(s) \/ \E f \in Files : CopyFile(s, f)

\* The manager has returned, has died, or sleeps (or spins) in poll with no worker that could wake it.
Asleep == pc = "poll" /\ ReadyNow = {} /\ \A s \in DOMAIN worker : worker[s].pc # "run"
Over == (pc = "stopped" \/ ~Alive \/ Asleep) /\ UNCHANGED vars

Next ==
  \/ ManagerStep \/ SetupFails
  \/ \E s \in {ConsoleIndex} \cup Slots : WorkerStep(s) \/ KillWorker(s)
  \/ \E d \in Dirs, f \in Files, kind \in Kinds : ChangeFile(d, f, kind)
  \/ \E d \in Dirs : RemoveSource(d)
  \/ \E c \in Commands : Type(c)
  \/ ConsoleReads
  \/ Over

Spec == Init /\ [][Next]_vars

(* The kernel schedules the manager, the console and every worker process; *)
(* users and the person at the console act when they please, and faults    *)
(* when they happen.                                                       *)
Fairness ==
  /\ WF_vars(ManagerStep) /\ WF_vars(ConsoleReads)
  /\ \A s \in Slots : WF_vars(WorkerStep(s))
FairSpec == Spec /\ Fairness

-----------------------------------------------------------------------------
(* Properties. *)

TypeOK ==
  /\ src \in [Dirs -> [Files -> 0 .. MaxChanges]] /\ tar \in [Dirs -> [Files -> {Old} \cup 0 .. MaxChanges]]
  /\ gone \subseteq Removable
  /\ queue.size \in Nat /\ left \in Nat
  /\ \A d \in Dirs : mon[d].active => mon[d].known
  /\ active \in 0 .. Limit /\ ToSet(slotQ) \subseteq Slots
  /\ DOMAIN slotJob = {ConsoleIndex} \cup Slots
  /\ pc \in {"dispatch", "poll", "scan", "stopped"}
  /\ ready \subseteq {ConsoleIndex, InotifyIndex} \cup Slots
  /\ conPc \in {"idle", "header", "lines", "lastheader", "lastlines", "closed"}

Busy == {s \in DOMAIN slotJob : slotJob[s] # NoJob}

\* Two workers never copy into the same target at once (fss_manager.c:96-106): the entry's worker_pid
\* is read when a job is dispatched and reset when its report is read, with the copying in between.
Exclusive == \A s, t \in Busy : s # t => slotJob[s].dir # slotJob[t].dir

\* The three records of who is working agree in every state: the monitor's worker_pid, the jobs in
\* worker_jobs, and the processes; a manager that has stopped leaves none of them behind.
WorkingConsistent ==
  /\ \A d \in Dirs : mon[d].working <=> \E s \in Busy : slotJob[s].dir = d
  /\ \A s \in DOMAIN slotJob : s \in Busy <=> worker[s].pc # "none"
  /\ pc = "stopped" => Busy = {} /\ queue.nodes = <<>>

\* A slot is never given out twice, also after a failed setup that loses one; without such a failure
\* every slot is free once or busy (worker_management.c:99-106, 164-183).
SlotAccounting ==
  /\ IsInjective(slotQ) /\ ToSet(slotQ) \cap Busy = {}
  /\ active = Cardinality(Busy)
  /\ faults = 0 => ToSet(slotQ) = Slots \ Busy

Quiet(d) ==
  /\ Alive /\ ~mon[d].working
  /\ ~DirExists(queue, d)
  /\ \A i \in DOMAIN events : events[i].wd # mon[d].wd

\* The target has the source's version of every file of the source, and beside those only files that it had at
\* the start: a FULL job copies and never removes any (worker.c:60-151).
Mirrored(d) == \A f \in Files : tar[d][f] = src[d][f] \/ (src[d][f] = 0 /\ tar[d][f] = Old)

\* README.md:3 "the target directory remains identical to the source directory", as far as the files go that the
\* source has or had: once nothing is left to do for an active directory, its target mirrors its source, whatever
\* the changes, the batches of events and the order in which jobs were put back and dispatched.
Converged == \A d \in Dirs : mon[d].active /\ Quiet(d) => Mirrored(d)

\* The same as something that happens: after the last change the target comes to mirror the source and goes on
\* to, unless a shutdown came first, after which events are not read any more.
EventuallyMirrored == \A d \in Dirs : <>[](shutDown \/ Mirrored(d))

\* fss_manager.h:11-13: the console finds the number of lines where it expects it and text everywhere else, so
\* a reply is never taken for part of another one.
ReplyInSync ==
  conOut # <<>> =>
    /\ conPc \in {"header", "lastheader"} => Head(conOut) > 0
    /\ conPc \in {"lines", "lastlines"} => Head(conOut) = 0
    /\ conPc \in {"idle", "closed"} => FALSE

\* README.md:47 "executed only after the previous one has fully finished": every command is answered in full.
CommandsAnswered == (conPc \in {"header", "lines"}) ~> (conPc = "idle")

\* README.md:85: after a shutdown command the workers finish, and manager and console both end.
ShutdownEnds == shutDown ~> (pc = "stopped" /\ conPc = "closed")

-----------------------------------------------------------------------------
(* What a comment says and the code does not do. *)

\* fss_manager.c:282 "Find file with watch wd": the lookup of an event's watch finds an entry.
EventsHaveOwners == [][HandleInotify => Alive']_vars
=============================================================================
