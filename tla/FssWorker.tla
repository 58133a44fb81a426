----------------------------- MODULE FssWorker ------------------------------
(***************************************************************************)
(* A worker process of the Real-time Directory Synchronizer (worker.c,     *)
(* file_copy in util.c) system call by system call, the report it writes   *)
(* into its pipe, and fss_manager reading that report line by line         *)
(* (fss_read_worker_report), while users go on changing the source.        *)
(* FssManager takes a copy and a report as one step each; this module is   *)
(* what happens inside them, for one job of any kind on any source.        *)
(*                                                                         *)
(* A directory is a function from the names that exist to contents.  A     *)
(* content is a sequence of blocks of BUF_SIZE, and a block is the number  *)
(* of the change that wrote it: 0 for what the source has at the start, -1 *)
(* for what the target has.  A line of a report is a tuple.                *)
(***************************************************************************)
EXTENDS SequencesExt

CONSTANTS
  Files,
  SrcDir, TarDir,   \* what an error line names when a directory cannot be read
  NoName,           \* the error buffer before the first error
  LongNames,        \* names that make an error line longer than the 99 bytes of fss_manager's error[]
  Stale,            \* files that the target directory has before the job
  Lengths,          \* how many blocks a file may have
  MaxFds,           \* descriptors a worker may have open at once for files
  MaxChanges, MaxFaults  \* bounds on the environment

ASSUME StaleAssumption == Stale \subseteq Files
\* There is a longest file, and it is not empty.
ASSUME LengthsAssumption ==
  Lengths \subseteq Nat /\ \E m \in Lengths : m > 0 /\ \A n \in Lengths : n <= m
\* A worker may open the two files of a copy.
ASSUME BoundsAssumption == MaxFds \in Nat \ {0, 1} /\ MaxChanges \in Nat

VARIABLES
  src, tar,                        \* source and target directory
  job, pc,                         \* the job and the worker's place in main
  unread,                          \* entries that readdir may still return
  cur, body, linked, pos, written, \* file_copy: the file, what its descriptor reads, whether nwrite was assigned
  fds,                             \* open descriptors of files
  text,                            \* error_buffer: the name in its line
  done, failed,                    \* files_processed, files_failed
  pipe,                            \* lines written and not yet read
  mpc, status, count, errors,      \* fss_manager: where it reads, status, error_count, and what is added to the entry's
  touched, hit, killed,            \* history of the job: files changed, files and directories met by a fault, a killed worker
  changes, faults                  \* bounds

copying == <<cur, body, linked, pos, written>>
counters == <<done, failed>>
manager == <<mpc, status, count, errors>>
history == <<touched, hit, killed>>
bounds == <<changes, faults>>
vars == <<src, tar, job, pc, unread, copying, fds, text, counters, pipe, manager, history, bounds>>

Names == Files \cup {SrcDir, TarDir}
Copies == {"ADDED", "MODIFIED"}
Jobs == [op : {"FULL"}, file : {SrcDir}] \cup [op : Copies \cup {"DELETED"}, file : Files]
Contents(version) == {[i \in 1 .. n |-> version] : n \in Lengths}
Directories(blocks) == UNION {[S -> blocks] : S \in SUBSET Files}

\* The directory with the file f holding c, and without the file f.
With(dir, f, c) == [g \in DOMAIN dir \cup {f} |-> IF g = f THEN c ELSE dir[g]]
Without(dir, f) == Restrict(dir, DOMAIN dir \ {f})

\* The worker was forked and executed with a job and with a pipe of its own (worker.c:60, 156, 201).
StartOf(op) == CASE op = "FULL" -> "opendir" [] op \in Copies -> "source" [] OTHER -> "unlink"

Init ==
  /\ src \in Directories(Contents(0)) /\ tar = [f \in Stale |-> <<-1>>]
  /\ job \in Jobs /\ pc = StartOf(job.op) /\ cur = job.file
  /\ unread = {} /\ body = <<>> /\ linked = FALSE /\ pos = 0 /\ written = FALSE
  /\ fds = 0 /\ text = NoName /\ done = 0 /\ failed = 0
  /\ pipe = <<>> /\ mpc = "poll" /\ status = "none" /\ count = 0 /\ errors = 0
  /\ touched = {} /\ hit = {} /\ killed = FALSE
  /\ changes = 0 /\ faults = 0

-----------------------------------------------------------------------------
(* Mutated forms, used only to see that the properties notice them. *)

KeptOpen(n) == n
ClosedTwice(n) == n - 4
SuccessIfAny == IF done > 0 \/ failed = 0 THEN "SUCCESS" ELSE "ERROR"
FirstUncounted == 0
NoTrailer == <<>>

-----------------------------------------------------------------------------
(* Users change the source while the job goes on.  An open file that is    *)
(* removed is still read to its end; one that is rewritten changes under   *)
(* the reader.  readdir may or may not return an entry that is created or  *)
(* removed while it reads.                                                 *)

Listing == job.op = "FULL" /\ pc \in {"next", "source", "target", "copy"}

Changed(f) == pc # "freed" /\ changes < MaxChanges /\ changes' = changes + 1 /\ touched' = touched \cup {f}

WriteSource(f) ==
  /\ Changed(f)
  /\ \E c \in Contents(changes') : src' = With(src, f, c)
  /\ unread' \in IF Listing /\ f \notin DOMAIN src THEN {unread, unread \cup {f}} ELSE {unread}
  /\ UNCHANGED <<tar, job, pc, copying, fds, text, counters, pipe, manager, hit, killed, faults>>

RemoveSource(f) ==
  /\ Changed(f) /\ f \in DOMAIN src
  /\ src' = Without(src, f)
  /\ unread' \in {unread, unread \ {f}}
  /\ IF linked /\ cur = f THEN linked' = FALSE /\ body' = src[f] ELSE UNCHANGED <<linked, body>>
  /\ UNCHANGED <<tar, job, pc, cur, pos, written, fds, text, counters, pipe, manager, hit, killed, faults>>

-----------------------------------------------------------------------------
(* The worker's main. *)

\* A system call fails that has no reason to.
Fault == faults < MaxFaults /\ faults' = faults + 1
NoFault == UNCHANGED faults

(* write_to_err_buf: the buffer is a copy of the caller's, so that the     *)
(* next error starts where this one did.                                   *)
Noted(name) == text' = name

\* Every error but that of one file of several ends in report_status_error.
GiveUp(name) ==
  /\ Noted(name) /\ pc' = "error"
  /\ UNCHANGED counters

OpenDirs ==
  /\ pc = "opendir"
  /\ \/ /\ unread' = DOMAIN src /\ pc' = "next"
        /\ NoFault /\ UNCHANGED <<text, counters>>
        /\ UNCHANGED hit
     \/ /\ Fault /\ UNCHANGED unread
        /\ \E dir \in {SrcDir, TarDir} : GiveUp(dir) /\ hit' = hit \cup {dir}
  /\ UNCHANGED <<src, tar, job, copying, fds, pipe, manager, touched, killed, changes>>

NextEntry ==
  /\ pc = "next"
  /\ \E f \in unread : cur' = f /\ unread' = unread \ {f}
  /\ pc' = "source"
  /\ UNCHANGED <<src, tar, job, body, linked, pos, written, fds, text, counters, pipe, manager, history, bounds>>

LastEntry ==
  /\ pc = "next"
  /\ \/ unread = {} /\ pc' = "report" /\ NoFault /\ UNCHANGED <<text, counters, hit>>
     \/ Fault /\ GiveUp(SrcDir) /\ hit' = hit \cup {SrcDir}
  /\ UNCHANGED <<src, tar, job, unread, copying, fds, pipe, manager, touched, killed, changes>>

-----------------------------------------------------------------------------
(* file_copy (util.c:27-64).  None of its error returns closes anything.   *)

\* The locals of file_copy are gone.
LeavesCopy == linked' = FALSE /\ body' = <<>> /\ pos' = 0 /\ written' = FALSE

\* In a FULL job the next file follows, alone it ends the worker (worker.c:120-150, 178-199).
CopyFails ==
  /\ LeavesCopy
  /\ IF job.op = "FULL"
     THEN Noted(cur) /\ failed' = failed + 1 /\ pc' = "next" /\ UNCHANGED done
     ELSE GiveUp(cur)

\* A failure that is the system's, not the worker's.
Hit == Fault /\ hit' = hit \cup {cur}
Missed == NoFault /\ UNCHANGED hit

OpenSource ==
  /\ pc = "source"
  /\ \/ /\ cur \in DOMAIN src /\ fds < MaxFds
        /\ fds' = fds + 1 /\ linked' = TRUE /\ pc' = "target"
        /\ Missed /\ UNCHANGED <<body, pos, written, text, counters>>
     \/ /\ CopyFails /\ UNCHANGED fds
        /\ IF cur \notin DOMAIN src \/ fds >= MaxFds THEN Missed ELSE Hit
  /\ UNCHANGED <<src, tar, job, unread, cur, pipe, manager, touched, killed, changes>>

OpenTarget ==
  /\ pc = "target"
  /\ \/ /\ fds < MaxFds
        /\ tar' = With(tar, cur, <<>>)
        /\ fds' = fds + 1 /\ pc' = "copy"
        /\ Missed /\ UNCHANGED <<linked, body, pos, written, text, counters>>
     \/ /\ CopyFails /\ UNCHANGED <<tar, fds>>
        /\ IF fds >= MaxFds THEN Missed ELSE Hit
  /\ UNCHANGED <<src, job, unread, cur, pipe, manager, touched, killed, changes>>

Reading == IF linked THEN src[cur] ELSE body

\* A read or a write may fail; what was written stays in the target.
CopyBlock ==
  /\ pc = "copy"
  /\ \/ /\ pos < Len(Reading)
        /\ tar' = [tar EXCEPT ![cur] = Append(@, Reading[pos + 1])]
        /\ pos' = pos + 1 /\ written' = TRUE
        /\ Missed /\ UNCHANGED <<linked, body, pc, text, counters>>
     \/ CopyFails /\ Hit /\ UNCHANGED tar
  /\ UNCHANGED <<src, job, unread, cur, fds, pipe, manager, touched, killed, changes>>

Closed(n) == n - 2

\* At the end of the file nwrite is tested, also when nothing was written and it has no value.
EndOfFile ==
  /\ pc = "copy" /\ pos >= Len(Reading)
  /\ \/ /\ LeavesCopy /\ fds' = Closed(fds) /\ done' = done + 1
        /\ pc' = IF job.op = "FULL" THEN "next" ELSE "report"
        /\ UNCHANGED <<failed, text>>
     \/ ~written /\ CopyFails /\ UNCHANGED fds
  /\ UNCHANGED <<src, tar, job, unread, cur, pipe, manager, history, bounds>>

Unlink ==
  /\ pc = "unlink"
  /\ \/ /\ cur \in DOMAIN tar
        /\ tar' = Without(tar, cur)
        /\ done' = done + 1 /\ pc' = "report"
        /\ Missed /\ UNCHANGED <<failed, text>>
     \/ /\ GiveUp(cur) /\ UNCHANGED tar
        /\ IF cur \notin DOMAIN tar THEN Missed ELSE Hit
  /\ UNCHANGED <<src, job, unread, copying, fds, pipe, manager, touched, killed, changes>>

-----------------------------------------------------------------------------
(* The report: one write when all went well, else the lines up to ERRORS,  *)
(* the contents of the error buffer, and the last line.                    *)

Outcome == IF failed = 0 THEN "SUCCESS" ELSE IF done = 0 THEN "ERROR" ELSE "PARTIAL"
Header(result) == <<<<"EXEC_REPORT_START">>, <<"STATUS", result>>, <<"DETAILS">>>>
Trailer == <<<<"EXEC_REPORT_END">>>>

Writes(lines) ==
  /\ pipe' = pipe \o lines
  /\ UNCHANGED <<src, tar, job, unread, copying, fds, text, counters, manager, history, bounds>>

ReportSuccess == pc = "report" /\ Outcome = "SUCCESS" /\ Writes(Header("SUCCESS") \o Trailer) /\ pc' = "exited"

ReportErrors ==
  /\ pc = "error" \/ (pc = "report" /\ Outcome # "SUCCESS")
  /\ Writes(Header(IF pc = "error" THEN "ERROR" ELSE Outcome) \o <<<<"ERRORS">>>>)
  /\ pc' = "message"

WriteErrors == pc = "message" /\ Writes(<<<<"FILE", text>>>>) /\ pc' = "trailer"
EndReport == pc = "trailer" /\ Writes(Trailer) /\ pc' = "exited"

KillWorker ==
  /\ pc \notin {"exited", "freed"} /\ Fault
  /\ pc' = "exited" /\ killed' = TRUE
  /\ UNCHANGED <<src, tar, job, unread, copying, fds, text, counters, pipe, manager, touched, hit, changes>>

-----------------------------------------------------------------------------
(* fss_read_worker_report.  The manager does nothing else until it has the *)
(* last line.  At the end of a pipe that was cut short read_line leaves    *)
(* its buffer as it is.                                                    *)

\* read_line answers with a line; poll has seen the first one.
GetsLine == pipe # <<>> /\ pipe' = Tail(pipe)
Manages == UNCHANGED <<src, tar, job, unread, copying, fds, text, counters, history, bounds>>

ReadStart == mpc = "poll" /\ GetsLine /\ mpc' = "status" /\ Manages /\ UNCHANGED <<pc, status, count, errors>>

ReadStatus ==
  /\ mpc = "status" /\ GetsLine
  /\ status' = Head(pipe)[2] /\ mpc' = "details"
  /\ Manages /\ UNCHANGED <<pc, count, errors>>

ReadDetails == mpc = "details" /\ GetsLine /\ mpc' = "next" /\ Manages /\ UNCHANGED <<pc, status, count, errors>>

\* file_monitor_set_not_working and worker_manager_free_worker (fss_manager.c:319-322)
Handle(n) ==
  /\ errors' = n
  /\ mpc' = "poll" /\ pc' = "freed"

ReadNext ==
  /\ mpc = "next" /\ GetsLine
  /\ IF Head(pipe) = <<"ERRORS">> THEN mpc' = "error" /\ UNCHANGED <<pc, errors>> ELSE Handle(0)
  /\ Manages /\ UNCHANGED <<status, count>>

FirstCounted == 1

\* A line that does not fit error[100] leaves its rest to be read as one more line.
ReadError ==
  /\ mpc = "error" /\ pipe # <<>>
  /\ pipe' = IF Head(pipe)[2] \in LongNames THEN <<<<"REST">>>> \o Tail(pipe) ELSE Tail(pipe)
  /\ count' = FirstCounted /\ mpc' = "more"
  /\ Manages /\ UNCHANGED <<pc, status, errors>>

ReadMore ==
  /\ mpc = "more" /\ GetsLine
  /\ IF Head(pipe) = <<"EXEC_REPORT_END">>
     THEN Handle(count) /\ UNCHANGED count
     ELSE count' = count + 1 /\ UNCHANGED <<pc, mpc, errors>>
  /\ Manages /\ UNCHANGED status

\* Without the last line the loop of fss_manager.c:510 goes on for ever, counting errors.
ReadsEnd ==
  /\ mpc \in {"error", "more"} /\ pipe = <<>> /\ pc = "exited"
  /\ mpc' = "spins"
  /\ Manages /\ UNCHANGED <<pipe, pc, status, count, errors>>

-----------------------------------------------------------------------------
WorkerStep ==
  \/ OpenDirs \/ NextEntry \/ LastEntry
  \/ OpenSource \/ OpenTarget \/ CopyBlock \/ EndOfFile \/ Unlink
  \/ ReportSuccess \/ ReportErrors \/ WriteErrors \/ EndReport

ManagerStep == ReadStart \/ ReadStatus \/ ReadDetails \/ ReadNext \/ ReadError \/ ReadMore \/ ReadsEnd

\* The job is over, a dead worker's pipe is never read (it has no POLLIN), or the manager counts for ever.
Over ==
  /\ \/ pc = "freed"
     \/ pc = "exited" /\ killed /\ pipe = <<>> /\ mpc \in {"poll", "spins"}
  /\ UNCHANGED vars

Next ==
  \/ WorkerStep \/ ManagerStep \/ KillWorker \/ Over
  \/ \E f \in Files : WriteSource(f) \/ RemoveSource(f)

Spec == Init /\ [][Next]_vars

\* Both processes are scheduled, and no fault is owed: a step of the worker may always be the one that succeeds.
FairSpec == Spec /\ WF_vars(WorkerStep) /\ WF_vars(ManagerStep)

-----------------------------------------------------------------------------
(* Properties. *)

TypeOK ==
  /\ \A dir \in {src, tar} : DOMAIN dir \subseteq Files /\ Range(dir) \subseteq BoundedSeq(-1 .. MaxChanges, Max(Lengths))
  /\ job \in Jobs /\ cur \in Names /\ text \in Names \cup {NoName}
  /\ fds \in 0 .. MaxFds /\ pos \in 0 .. Max(Lengths)
  /\ unread \subseteq Files /\ (linked => cur \in DOMAIN src)
  /\ pc \in {"opendir", "next", "source", "target", "copy", "unlink", "report", "error", "message", "trailer", "exited", "freed"}
  /\ mpc \in {"poll", "status", "details", "next", "error", "more", "spins"}
  /\ status \in {"none", "SUCCESS", "PARTIAL", "ERROR"} /\ count \in 0 .. 2

\* The files a job is to bring over.
Scope == CASE job.op = "FULL" -> DOMAIN src [] job.op \in Copies -> {job.file} \cap DOMAIN src [] OTHER -> {}
Same(f) == f \in DOMAIN tar /\ tar[f] = src[f]

\* worker.c:117-151: a file that cannot be copied does not keep the others from being copied.  Each failed
\* copy leaves up to two descriptors open (util.c:37-57), so this holds as long as they leave room for two more.
FailuresStayApart ==
  pc = "report" /\ job.op = "FULL" /\ 2 * failed + 2 <= MaxFds
    => \A f \in Scope \ (touched \cup hit) : Same(f)

\* What SUCCESS promises: the job's files are over, or the deleted file is gone.
Brought ==
  IF job.op = "DELETED" THEN job.file \notin DOMAIN tar ELSE \A f \in Scope \ touched : Same(f)

\* What can make a job fail: a call that failed, a change under its hands, an empty file, which is taken for a
\* failed one when nwrite happens to be negative (util.c:55), and a file that is not there.
Excused(f) == f \in hit \cup touched \/ (f \in DOMAIN src /\ src[f] = <<>>)
Missing == job.file \notin DOMAIN (IF job.op = "DELETED" THEN tar ELSE src)

\* The target has a file of this job's; and it has none, but empty ones and those of a call that failed.
SomeCopied == \E f \in DOMAIN tar : f \notin touched => f \in DOMAIN src /\ Same(f)
NoneCopied == \A f \in Scope \ (touched \cup hit) : Same(f) => src[f] = <<>>

\* The result r is true of the two directories and of what happened to the job.
Truthful(r) ==
  /\ r = "SUCCESS" => hit = {} /\ Brought
  /\ r = "PARTIAL" => job.op = "FULL" /\ SomeCopied /\ \E f \in Files : Excused(f)
  /\ r = "ERROR" => (job.op # "FULL" /\ Missing) \/ \E f \in Names : Excused(f)
  /\ r = "ERROR" /\ job.op = "FULL" /\ hit \cap {SrcDir, TarDir} = {} => NoneCopied

\* README.md:128: what the manager reads as the result, after the worker may have gone, is what has happened.
\* SUCCESS: no call failed, and no file that nobody changed meanwhile is behind its source.  PARTIAL: a file was
\* copied and one had a reason to fail.  ERROR: something had a reason to fail, and no file was copied, unless a
\* directory could not be opened or read on: then some may have been, and "0 files copied" (worker.c:89, 275) is
\* not true; nothing is said of that line.
StatusTrue == Truthful(status)

\* README.md:78: the entry's error count grows with every job that is not a SUCCESS and with no other, although
\* the errors of one job overwrite each other (worker.c:243).  How many it adds is left open: README.md:78 has
\* the number of errors, the code adds 1, or 2 when a line is too long for error[] (fss_manager.c:505).
ErrorsNoticed == [][pc' = "freed" /\ pc # "freed" => (errors' > errors <=> status # "SUCCESS")]_vars

\* The manager, which waits inside fss_read_worker_report, gets out again, and the slot is freed for
\* the next job, unless the worker was killed.
JobEnds == <>(pc = "freed" \/ killed)
=============================================================================
