----------------------------- MODULE NfsManager -----------------------------
(***************************************************************************)
(* nfs_manager with its threads, the nfs_client servers and nfs_console.   *)
(* The main thread lists the directories of the config file, then executes *)
(* the console's commands; the workers pull each queued file from its      *)
(* source and push it, block by block and each block over a connection of  *)
(* its own, to its target.  The synchronization buffer is the bounded FIFO *)
(* that SyncBuffer implements.                                             *)
(*                                                                         *)
(* A thread keeps the number of its source connection, and numbers are     *)
(* shared by all threads of the process: the lowest free one is given out. *)
(* A target connection is opened, written and closed in one step, since    *)
(* none of that waits.                                                     *)
(***************************************************************************)
EXTENDS NfsClient

CONSTANTS
  Size,        \* of the synchronization buffer
  Entries,     \* what may be added: [src, tar]
  Config,      \* the lines of the config file, a sequence of entries
  Blocks,      \* what a block of a file may hold at the start
  Disks,       \* contents of the directories to start from
  Commands,    \* what the person at the console may type: [name, arg]
  FdNumbers,   \* the descriptors of the manager, a range of numbers
  MaxBlocks,   \* the greatest size an uninitialised variable is given
  MaxCommands, \* bound on commands
  MaxFaults,   \* bound on failing connects and on source files cut short or removed
  Free, Leaked, NoPair, Junk, Old

ASSUME EntriesAssumption == Entries \subseteq [src : Locations, tar : Locations] /\ Config \in Seq(Entries)
ASSUME DisksAssumption == Disks \subseteq [Locations -> [Files -> {Absent} \cup Seq(Blocks)]]
ASSUME AbsentAssumption == Absent \notin Seq(Blocks \cup {Junk})
ASSUME CommandsAssumption == \A c \in Commands : c.name = "add" => c.arg \in Entries
ASSUME NumbersAssumption == FdNumbers \subseteq Nat /\ {Free, Leaked} \cap Threads = {} /\ Free # Leaked
ASSUME BoundsAssumption == Size \in Nat /\ MaxBlocks \in Nat /\ MaxFaults \in Nat

Pairs == {[file |-> f, src |-> e.src, tar |-> e.tar] : f \in Files, e \in Entries}
ASSUME NoPairAssumption == NoPair \notin Pairs

Dirs == {l.dir : l \in Locations}

VARIABLES
  queue, closed,             \* the buffer and its quit flag
  workerPc, held, left, buf, \* each worker: its pair, the blocks to go, the block just read
  fd, table,                 \* each thread's src_sock; what a number refers to
  mainPc, config, listing, pending, \* the main thread: lines not yet read, the entry and the file at hand
  conPc, conIn, conOut,      \* the console, its command, complete replies it has not read
  ignored,                   \* history: a command was left without a reply
  commands, faults,          \* counters of the bounds
  suspect                    \* history: pairs that met a failure, or whose target two workers had at once

buffer == <<queue, closed>>
workers == <<workerPc, held, left, buf>>
fds == <<fd, table>>
main == <<mainPc, config, listing, pending>>
console == <<conPc, conIn, conOut, ignored, commands>>
bounds == <<faults, suspect>>
vars == <<servers, buffer, workers, fds, main, console, bounds>>

Buffer == INSTANCE BoundedBuffer

NoEntry == [src |-> Free, tar |-> Free]

Init ==
  /\ disk \in Disks
  /\ ClientInit
  /\ Buffer!Init
  /\ workerPc = [w \in Workers |-> "obtain"]
  /\ held = [w \in Workers |-> NoPair]
  /\ left = [w \in Workers |-> 0]
  /\ buf = [w \in Workers |-> Junk]
  /\ fd = [t \in Threads |-> 0]
  /\ table = [n \in FdNumbers |-> Free]
  /\ mainPc = "idle" /\ config = Config /\ listing = NoEntry /\ pending = NoPair
  /\ conPc = "idle" /\ conIn = <<>> /\ conOut = 0 /\ ignored = FALSE
  /\ commands = 0 /\ faults = 0 /\ suspect = {}

-----------------------------------------------------------------------------
(* Mutated forms, used only to see that the properties notice them. *)

ClosingNothing(tb, n) == tb
AfterPushShort(n) == IF n <= 1 THEN "finish" ELSE "copy"
AfterPushPast(n) == IF n < 0 THEN "finish" ELSE "copy"
AnswersNever == UNCHANGED conOut

-----------------------------------------------------------------------------
(* Descriptors and connections (socket_util.c).  A connect that fails      *)
(* leaves its socket open for ever.                                        *)

FreeNumbers(tb) == {n \in FdNumbers : tb[n] = Free}
Lowest(tb) == Min(FreeNumbers(tb))
Opening(tb, t) == [tb EXCEPT ![Lowest(tb)] = t]
Leaking(tb) == IF FreeNumbers(tb) = {} THEN tb ELSE [tb EXCEPT ![Lowest(tb)] = Leaked]
Closing(tb, n) == [tb EXCEPT ![n] = Free]

Reaches(h, tb) == up[h] /\ FreeNumbers(tb) # {} /\ Len(accept[h]) < Backlog

\* The server is not there, no descriptor is left, or the network or a full backlog times out.
Refused(h, tb) ==
  \/ ~up[h] /\ UNCHANGED faults
  \/ FreeNumbers(tb) = {} /\ UNCHANGED faults
  \/ up[h] /\ faults < MaxFaults /\ faults' = faults + 1

\* The servers' view of the close of the connection that belongs to t.
HungUp(r, t) == IF r.to = t THEN [r EXCEPT !.to = Gone] ELSE r
BacklogAfterClose(t) == [h \in Hosts |-> [i \in DOMAIN accept[h] |-> HungUp(accept[h][i], t)]]
ServingAfterClose(t) == [h \in Hosts |-> HungUp(serving[h], t)]
WireAfterClose(t) == IF t \in Threads THEN [wire EXCEPT ![t] = NoData] ELSE wire

\* The connection that the number in t's src_sock refers to by now: another thread's, or none.
Stream(t) == table[fd[t]]
Readable(t) == Stream(t) \in Threads /\ wire[Stream(t)].data # <<>>
Drained(t) == Stream(t) \in Threads /\ wire[Stream(t)].data = <<>>
WasReset(t) == Drained(t) /\ wire[Stream(t)].ended = "reset"
ReadFails(t) == Stream(t) \notin Threads \/ WasReset(t)
ReadsNothing(t) == Drained(t) /\ wire[Stream(t)].ended = "eof"
Received(t) == Head(wire[Stream(t)].data)
Take(t) == wire' = [wire EXCEPT ![Stream(t)].data = Tail(@)]

\* A reset fails one read; the reads after it return 0, as at the end of a stream.
SeeReset(t) == wire' = IF WasReset(t) THEN [wire EXCEPT ![Stream(t)].ended = "eof"] ELSE wire

Request(h, r) == accept' = [accept EXCEPT ![h] = Append(@, r)]
PushTo(w, op) == [op |-> op, to |-> Gone, loc |-> held[w].tar, file |-> held[w].file, block |-> buf[w]]

-----------------------------------------------------------------------------
(* A worker thread (worker_thread). *)

Goes(w, from, to) == workerPc[w] = from /\ workerPc' = [workerPc EXCEPT ![w] = to]

SameTarget(p, q) == p.tar = q.tar /\ p.file = q.file
Conflicting(p) == {q \in Pairs : SameTarget(p, q)}
Working == {held[w] : w \in Workers} \ {NoPair}

MayExit(w) == queue = <<>> /\ closed

Exit(w) ==
  /\ Goes(w, "obtain", "exit") /\ MayExit(w)
  /\ UNCHANGED <<servers, buffer, held, left, buf, fds, main, console, bounds>>

Obtain(w) ==
  /\ Goes(w, "obtain", "open")
  /\ Buffer!Get
  /\ held' = [held EXCEPT ![w] = Head(queue)]
  /\ suspect' = IF Working \cap Conflicting(Head(queue)) = {} THEN suspect ELSE suspect \cup Conflicting(Head(queue))
  /\ UNCHANGED <<servers, left, buf, fds, main, console, faults>>

\* Connect to the source and send PULL.
OpenSource(w) ==
  /\ Goes(w, "open", "size")
  /\ Reaches(held[w].src.host, table)
  /\ fd' = [fd EXCEPT ![w] = Lowest(table)]
  /\ table' = Opening(table, w)
  /\ Request(held[w].src.host, [op |-> "PULL", to |-> w, loc |-> held[w].src, file |-> held[w].file])
  /\ UNCHANGED <<disk, up, serving, wire, buffer, held, left, buf, main, console, bounds>>

Abandon(w, from) ==
  /\ Goes(w, from, "obtain")
  /\ held' = [held EXCEPT ![w] = NoPair]
  /\ UNCHANGED <<left, buf>>

SourceUnreachable(w) ==
  /\ Abandon(w, "open")
  /\ Refused(held[w].src.host, table)
  /\ table' = Leaking(table)
  /\ suspect' = suspect \cup {held[w]}
  /\ UNCHANGED <<servers, buffer, fd, main, console>>

\* close(src_sock): whatever the number refers to by now.
CloseSource(w) ==
  /\ accept' = BacklogAfterClose(Stream(w))
  /\ serving' = ServingAfterClose(Stream(w))
  /\ wire' = WireAfterClose(Stream(w))

\* The read of the size fails with the reset; that of the blank after it is another read.
ReadReset(w) ==
  /\ Goes(w, "size", "blank")
  /\ WasReset(w) /\ SeeReset(w)
  /\ UNCHANGED <<disk, up, accept, serving, buffer, held, left, buf, fds, main, console, bounds>>

(* No size can be read, or the number refers to another thread's           *)
(* connection by now, or the size was not read before the blank: what      *)
(* network_file_size holds is arbitrary.                                   *)
Unsized(w) ==
  \/ Readable(w) /\ (workerPc[w] = "blank" \/ Received(w).kind # "size")
  \/ Stream(w) \notin Threads
  \/ workerPc[w] = "blank" /\ WasReset(w)
SkipOne(w) == IF Readable(w) THEN Take(w) ELSE SeeReset(w)

ReadSize(w) ==
  /\ workerPc[w] \in {"size", "blank"} /\ workerPc' = [workerPc EXCEPT ![w] = "create"]
  /\ \/ /\ workerPc[w] = "size" /\ Readable(w) /\ Received(w).kind = "size" /\ Received(w).val >= 0
        /\ left' = [left EXCEPT ![w] = Received(w).val]
        /\ Take(w) /\ UNCHANGED suspect
     \/ /\ Unsized(w)
        /\ \E n \in 0 .. MaxBlocks : left' = [left EXCEPT ![w] = n]
        /\ SkipOne(w) /\ suspect' = suspect \cup {held[w]}
  /\ UNCHANGED <<disk, up, accept, serving, buffer, held, buf, fds, main, console, faults>>

\* A negative size: the error is logged and the pair dropped.
PullRefused(w) ==
  /\ workerPc[w] \in {"size", "blank"} /\ Abandon(w, workerPc[w])
  /\ \/ workerPc[w] = "size" /\ Readable(w) /\ Received(w).kind = "size" /\ Received(w).val < 0
     \/ Unsized(w)
  /\ CloseSource(w)
  /\ table' = Closing(table, fd[w])
  /\ suspect' = suspect \cup {held[w]}
  /\ UNCHANGED <<disk, up, buffer, fd, main, console, faults>>

AfterPush(n) == IF n = 0 THEN "finish" ELSE "copy"

\* Each PUSH is logged, and the message is put together in the buffer that held the block.
Create(w) ==
  /\ Goes(w, "create", AfterPush(left[w]))
  /\ Reaches(held[w].tar.host, table)
  /\ Request(held[w].tar.host, PushTo(w, "PUSH -1"))
  /\ buf' = [buf EXCEPT ![w] = Junk]
  /\ UNCHANGED <<disk, up, serving, wire, buffer, held, left, fds, main, console, bounds>>

TargetUnreachable(w) ==
  /\ Abandon(w, "create")
  /\ Refused(held[w].tar.host, table)
  /\ CloseSource(w)
  /\ table' = Closing(Leaking(table), fd[w])
  /\ suspect' = suspect \cup {held[w]}
  /\ UNCHANGED <<disk, up, buffer, fd, main, console>>

\* When nothing can be read the buffer stays as it was; nobody looks at the result of read_bytes.
ReadBlock(w) ==
  /\ Goes(w, "copy", "push")
  /\ \/ /\ Readable(w) /\ Received(w).kind = "block"
        /\ buf' = [buf EXCEPT ![w] = Received(w).val]
        /\ Take(w)
     \/ ReadFails(w) /\ SeeReset(w) /\ UNCHANGED buf
  /\ UNCHANGED <<disk, up, accept, serving, buffer, held, left, fds, main, console, bounds>>

\* The number refers to a LIST reply by now: its names do not fill a block, and the read goes on.
Swallow(w) ==
  /\ workerPc[w] = "copy"
  /\ Readable(w) /\ Received(w).kind # "block"
  /\ buf' = [buf EXCEPT ![w] = Junk]
  /\ Take(w)
  /\ UNCHANGED <<disk, up, accept, serving, buffer, workerPc, held, left, fds, main, console, bounds>>

PushBlock(w) ==
  /\ Goes(w, "push", AfterPush(left[w] - 1))
  /\ Reaches(held[w].tar.host, table)
  /\ Request(held[w].tar.host, PushTo(w, "PUSH n"))
  /\ left' = [left EXCEPT ![w] = @ - 1]
  /\ buf' = [buf EXCEPT ![w] = Junk]
  /\ UNCHANGED <<disk, up, serving, wire, buffer, held, fds, main, console, bounds>>

\* The source is closed, and the loop goes on with the same count.
PushFails(w) ==
  /\ Goes(w, "push", "copy")
  /\ Refused(held[w].tar.host, table)
  /\ CloseSource(w)
  /\ table' = Closing(Leaking(table), fd[w])
  /\ suspect' = suspect \cup {held[w]}
  /\ UNCHANGED <<disk, up, buffer, held, left, buf, fd, main, console>>

\* The source is closed (once more, perhaps), and the last PUSH sent or not.
Finish(w) ==
  /\ Abandon(w, "finish")
  /\ LET after == Closing(table, fd[w])
         h == held[w].tar.host
         waiting == BacklogAfterClose(Stream(w))
     IN  \/ /\ Reaches(h, after)
            /\ accept' = [waiting EXCEPT ![h] = Append(@, PushTo(w, "PUSH 0"))]
            /\ table' = after
            /\ UNCHANGED faults
         \/ /\ Refused(h, after)
            /\ accept' = waiting
            /\ table' = Leaking(after)
  /\ serving' = ServingAfterClose(Stream(w))
  /\ wire' = WireAfterClose(Stream(w))
  /\ UNCHANGED <<disk, up, buffer, fd, main, console, suspect>>

\* read returns 0 for ever at the end of a stream that is shorter than expected (util.c:102).
Spins(w) == workerPc[w] \in {"size", "blank", "copy"} /\ ReadsNothing(w)
Spin(w) ==
  /\ Spins(w)
  /\ UNCHANGED vars

WorkerStep(w) ==
  \/ Exit(w) \/ Obtain(w) \/ OpenSource(w) \/ SourceUnreachable(w)
  \/ ReadReset(w) \/ ReadSize(w) \/ PullRefused(w) \/ Create(w) \/ TargetUnreachable(w)
  \/ ReadBlock(w) \/ Swallow(w) \/ PushBlock(w) \/ PushFails(w) \/ Finish(w)

-----------------------------------------------------------------------------
(* The main thread (nfs_read_config_file, nfs_connect_to_console).  Only a *)
(* listing that a command asked for is answered.                           *)

FromConsole == config = <<>>
MainGoes(from, to) == mainPc = from /\ mainPc' = to
Answers == conOut' = IF FromConsole THEN conOut + 1 ELSE conOut
EndListing ==
  /\ mainPc' = "idle" /\ listing' = NoEntry
  /\ config' = IF FromConsole THEN config ELSE Tail(config)

\* The buffer's check: same file of the same source, whatever the target.
FileExists(p) == \E q \in ToSet(queue) : q.file = p.file /\ q.src = p.src

ReadConfigLine ==
  /\ MainGoes("idle", "open") /\ config # <<>>
  /\ listing' = Head(config)
  /\ UNCHANGED <<servers, buffer, workers, fds, config, pending, console, bounds>>

Commanded(name) ==
  /\ mainPc = "idle" /\ config = <<>>
  /\ conIn # <<>> /\ Head(conIn).name = name
  /\ conIn' = Tail(conIn)
  /\ UNCHANGED <<servers, workers, fds, config, pending, conPc, commands, bounds>>

Add ==
  /\ Commanded("add")
  /\ mainPc' = "open" /\ listing' = Head(conIn).arg
  /\ UNCHANGED <<buffer, conOut, ignored>>

\* sync_buffer_cancel_dir as SyncBuffer implements it, a full buffer without a match included.
Cancel ==
  /\ Commanded("cancel")
  /\ LET dir == Head(conIn).arg
     IN  IF Len(queue) = Size /\ ~Buffer!Holds(dir) THEN Buffer!CancelMissOnFull(dir) ELSE Buffer!Cancel(dir)
  /\ Answers
  /\ UNCHANGED <<mainPc, listing, ignored>>

\* The reply to shutdown ends with the line that follows the join.
Shutdown ==
  /\ Commanded("shutdown")
  /\ Buffer!Close
  /\ mainPc' = "join"
  /\ UNCHANGED <<listing, conOut, ignored>>

\* Any other word goes round the loop without a reply.
Unknown ==
  /\ Commanded("other")
  /\ ignored' = TRUE
  /\ UNCHANGED <<buffer, mainPc, listing, conOut>>

OpenList ==
  /\ MainGoes("open", "names")
  /\ Reaches(listing.src.host, table)
  /\ fd' = [fd EXCEPT ![Main] = Lowest(table)]
  /\ table' = Opening(table, Main)
  /\ Request(listing.src.host, [op |-> "LIST", to |-> Main, loc |-> listing.src])
  /\ UNCHANGED <<disk, up, serving, wire, buffer, workers, config, listing, pending, console, bounds>>

ListUnreachable ==
  /\ mainPc = "open" /\ EndListing
  /\ Refused(listing.src.host, table)
  /\ table' = Leaking(table)
  /\ ignored' = (ignored \/ FromConsole)
  /\ UNCHANGED <<servers, buffer, workers, fd, pending, conPc, conIn, conOut, commands, suspect>>

NextName == Received(Main).val
ReadsName == mainPc = "names" /\ Readable(Main) /\ Received(Main).kind = "name"

\* A file that is queued already is only reported.
SkipQueued ==
  /\ ReadsName /\ NextName # Dot
  /\ FileExists([file |-> NextName, src |-> listing.src])
  /\ Take(Main)
  /\ UNCHANGED <<disk, up, accept, serving, buffer, workers, fds, main, console, bounds>>

ReadName ==
  /\ ReadsName /\ NextName # Dot
  /\ ~FileExists([file |-> NextName, src |-> listing.src])
  /\ MainGoes("names", "place")
  /\ pending' = [file |-> NextName, src |-> listing.src, tar |-> listing.tar]
  /\ Take(Main)
  /\ UNCHANGED <<disk, up, accept, serving, buffer, workers, fds, config, listing, console, bounds>>

\* sync_buffer_place, which waits for room.
Place ==
  /\ MainGoes("place", "names")
  /\ Buffer!Put(pending)
  /\ pending' = NoPair
  /\ UNCHANGED <<servers, workers, fds, config, listing, console, bounds>>

ReadDot ==
  /\ ReadsName /\ NextName = Dot
  /\ EndListing
  /\ Answers
  /\ accept' = BacklogAfterClose(Main)
  /\ serving' = ServingAfterClose(Main)
  /\ wire' = WireAfterClose(Main)
  /\ table' = Closing(table, fd[Main])
  /\ UNCHANGED <<disk, up, buffer, workers, fd, pending, conPc, conIn, ignored, commands, bounds>>

(* The name cannot be read, or is not one: pair.file is uninitialised or   *)
(* shortened again and again.  Nothing more is said of the main thread.    *)
LoseNames ==
  /\ MainGoes("names", "lost")
  /\ ReadFails(Main) \/ ReadsNothing(Main) \/ (Readable(Main) /\ Received(Main).kind # "name")
  /\ SeeReset(Main)
  /\ UNCHANGED <<disk, up, accept, serving, buffer, workers, fds, config, listing, pending, console, bounds>>

\* nfs_join_worker_thread_pool, then the last lines.
Join ==
  /\ MainGoes("join", "done")
  /\ \A w \in Workers : workerPc[w] = "exit"
  /\ Answers
  /\ UNCHANGED <<servers, buffer, workers, fds, config, listing, pending, conPc, conIn, ignored, commands, bounds>>

MainStep ==
  \/ ReadConfigLine \/ Add \/ Cancel \/ Shutdown \/ Unknown
  \/ OpenList \/ ListUnreachable \/ SkipQueued \/ ReadName \/ Place \/ ReadDot \/ LoseNames
  \/ Join

-----------------------------------------------------------------------------
(* nfs_console: a command, then its reply up to the empty line.            *)

Type(c) ==
  /\ conPc = "idle" /\ commands < MaxCommands
  /\ conIn' = Append(conIn, c)
  /\ conPc' = IF c.name = "shutdown" THEN "last" ELSE "reply"
  /\ commands' = commands + 1
  /\ UNCHANGED <<servers, buffer, workers, fds, main, conOut, ignored, bounds>>

ReadReply ==
  /\ conPc \in {"reply", "last"} /\ conOut > 0
  /\ conOut' = conOut - 1
  /\ conPc' = IF conPc = "reply" THEN "idle" ELSE "closed"
  /\ UNCHANGED <<servers, buffer, workers, fds, main, conIn, ignored, commands, bounds>>

-----------------------------------------------------------------------------
(* The owner of a source file cuts it short or removes it.  One that a     *)
(* server has open stays readable, so that its removal changes nothing yet.*)
ChangeSource(l, f) ==
  /\ faults < MaxFaults
  /\ l \in {e.src : e \in Entries} /\ disk[l][f] # Absent
  /\ \/ disk[l][f] # <<>> /\ disk' = [disk EXCEPT ![l][f] = Front(@)]
     \/ /\ \A h \in Hosts : serving[h].op = "PULL" => <<serving[h].loc, serving[h].file>> # <<l, f>>
        /\ disk' = [disk EXCEPT ![l][f] = Absent]
  /\ faults' = faults + 1
  /\ suspect' = suspect \cup {p \in Pairs : p.src = l /\ p.file = f}
  /\ UNCHANGED <<up, accept, serving, wire, buffer, workers, fds, main, console>>

(* Nothing is left to do: the console owes no command or has closed, or    *)
(* waits for a reply that was never written.                               *)
ServersIdle == \A h \in Hosts : accept[h] = <<>> /\ serving[h] = Closed
WorkersIdle == \A w \in Workers : workerPc[w] = "exit" \/ (workerPc[w] = "obtain" /\ queue = <<>> /\ ~closed)
MainIdle == mainPc \in {"done", "lost"} \/ (mainPc = "idle" /\ config = <<>> /\ conIn = <<>>)
Rest ==
  /\ ServersIdle /\ WorkersIdle /\ MainIdle
  /\ conPc \in {"idle", "closed"} \/ ignored \/ mainPc = "lost"
  /\ UNCHANGED vars

Next ==
  \/ MainStep
  \/ \E w \in Workers : WorkerStep(w) \/ Spin(w)
  \/ \E h \in Hosts : ClientStep(h) /\ UNCHANGED <<buffer, workers, fds, main, console, bounds>>
  \/ \E c \in Commands : Type(c)
  \/ ReadReply
  \/ \E l \in Locations, f \in Files : ChangeSource(l, f)
  \/ Rest

Spec == Init /\ [][Next]_vars

(* Every thread and every server is scheduled, and the console reads what  *)
(* it is sent.  Nobody has to type, and no fault has to happen.            *)
Fairness ==
  /\ WF_vars(MainStep) /\ WF_vars(ReadReply)
  /\ \A w \in Workers : WF_vars(WorkerStep(w))
  /\ \A h \in Hosts : WF_vars(ClientStep(h) /\ UNCHANGED <<buffer, workers, fds, main, console, bounds>>)
FairSpec == Spec /\ Fairness

-----------------------------------------------------------------------------
(* Every variable keeps its range: the buffer its size, a connection the    *)
(* room write leaves it, a thread at most one connection, a number one use. *)
TypeOK ==
  /\ disk \in [Locations -> [Files -> {Absent} \cup Seq(Blocks \cup {Junk})]]
  /\ up \in [Hosts -> BOOLEAN]
  /\ \A h \in Hosts : Len(accept[h]) <= Backlog /\ (~up[h] => accept[h] = <<>> /\ serving[h] = Closed)
  /\ \A t \in Threads : wire[t].ended \in {"no", "eof", "reset"} /\ Len(wire[t].data) <= SockCap + 1
  /\ Len(queue) <= Size /\ ToSet(queue) \subseteq Pairs /\ closed \in BOOLEAN
  /\ workerPc \in [Workers -> {"obtain", "open", "size", "blank", "create", "copy", "push", "finish", "exit"}]
  /\ \A w \in Workers : IF workerPc[w] \in {"obtain", "exit"} THEN held[w] = NoPair ELSE held[w] \in Pairs
  /\ left \in [Workers -> Nat]
  /\ fd \in [Threads -> FdNumbers \cup {0}]
  /\ table \in [FdNumbers -> Threads \cup {Free, Leaked}]
  /\ \A m, n \in FdNumbers : table[m] = table[n] /\ table[m] \in Threads => m = n
  /\ mainPc \in {"idle", "open", "names", "place", "join", "done", "lost"}
  /\ (pending = NoPair) = (mainPc # "place")
  /\ conPc \in {"idle", "reply", "last", "closed"} /\ suspect \subseteq Pairs

-----------------------------------------------------------------------------
(* What a pair's transfer has on its way. *)

Pushes(r, p) == r.op \in {"PUSH -1", "PUSH n"} /\ r.loc = p.tar /\ r.file = p.file

\* What content will be when the requests that wait for p's target have been served.
Landed(content, waiting, p) ==
  LET landed[n \in 0 .. Len(waiting)] ==
        IF n = 0 THEN content
        ELSE IF Pushes(waiting[n], p) THEN Pushed(landed[n - 1], waiting[n]) ELSE landed[n - 1]
  IN  landed[Len(waiting)]
Landing(p) == Landed(disk[p.tar][p.file], accept[p.tar.host], p)
Arrived(w) == [i \in DOMAIN wire[w].data |-> wire[w].data[i].val]
Unsent(w) == LET s == serving[held[w].src.host]
             IN  IF s.to = w THEN SubSeq(disk[s.loc][s.file], s.at + 1, Len(disk[s.loc][s.file])) ELSE <<>>
Source(p) == disk[p.src][p.file]

\* The size of the source fits in the int32_t that announces it.
Representable(p) == Source(p) = Absent \/ Len(Source(p)) < Width \div 2

(* Nothing of a file is lost, doubled or reordered on its way: what has    *)
(* landed or waits in the target's backlog, the block in the worker's      *)
(* hands, what lies in its connection and what the source's server has yet *)
(* to send are together the source file, and the worker counts what it has *)
(* not pushed.  That is said of a source of less than 2 GiB: the size of a *)
(* longer one is announced wrongly, and only a part of it, or none, is     *)
(* copied.                                                                 *)
AllUp == \A h \in Hosts : up[h]
Sound(w) == held[w] \notin suspect \cup {NoPair} /\ AllUp /\ Representable(held[w])
Conserved ==
  \A w \in Workers :
    Sound(w) =>
      CASE workerPc[w] = "create" -> /\ Arrived(w) \o Unsent(w) = Source(held[w])
                                     /\ left[w] = Len(Source(held[w]))
        [] workerPc[w] = "copy"   -> /\ Landing(held[w]) \o Arrived(w) \o Unsent(w) = Source(held[w])
                                     /\ left[w] = Len(Arrived(w) \o Unsent(w))
        [] workerPc[w] = "push"   -> Landing(held[w]) \o <<buf[w]>> \o Arrived(w) \o Unsent(w) = Source(held[w])
        [] workerPc[w] = "finish" -> Landing(held[w]) = Source(held[w])
        [] OTHER -> TRUE

(* A target file that no transfer is working on is its source or was never *)
(* touched, as long as its own transfers met no failure and no other one   *)
(* had the same target at the same time: what befalls other files, and the *)
(* order in which PUSHes of many files arrive, does not matter to it.  The *)
(* source is one whose size can be announced, as above.                    *)
Settled(p) ==
  /\ \A w \in Workers : held[w] # NoPair => ~SameTarget(held[w], p)
  /\ \A i \in DOMAIN accept[p.tar.host] : ~Pushes(accept[p.tar.host][i], p)
Untouched(p) == disk[p.tar][p.file] = Absent \/ Contains(disk[p.tar][p.file], Old)
TargetExact ==
  \A p \in Pairs :
    Settled(p) /\ p \notin suspect /\ AllUp /\ Representable(p) => Untouched(p) \/ disk[p.tar][p.file] = Source(p)

(* What README.md:3 says of the tool, where nothing has failed: the files  *)
(* of a source are copied to the target.                                   *)
CopiesExactly ==
  \A p \in Pairs : Settled(p) /\ faults = 0 => Untouched(p) \/ disk[p.tar][p.file] = Source(p)

(* The console is owed exactly one thing while it waits: its command is    *)
(* unread, or being executed, or the reply is complete; otherwise nothing. *)
(* A second reply, or one for a listing of the config file, would be read  *)
(* as the answer to the next command.                                      *)
Executing == IF FromConsole /\ mainPc \in {"open", "names", "place", "lost", "join"} THEN 1 ELSE 0
ReplyInStep ==
  ~ignored =>
    IF conPc \in {"reply", "last"} THEN Len(conIn) + Executing + conOut = 1 ELSE Len(conIn) + Executing + conOut = 0

(* A pair that a worker has obtained reaches its target, unless it has     *)
(* become suspect, a server has ended or its size cannot be announced.     *)
Delivered ==
  \A p \in Pairs :
    (\E w \in Workers : held[w] = p) ~> (disk[p.tar][p.file] = Source(p) \/ p \in suspect \/ ~AllUp \/ ~Representable(p))

(* A worker that spins waits for the rest of a file that met a failure, or *)
(* for the answer of a server that has ended, and does nothing else.       *)
SpinsForRest(w) == Spins(w) /\ (held[w] \in suspect \/ ~up[held[w].src.host])
NoWorkerLeft == \A w \in Workers : SpinsForRest(w)

(* The main thread reads no names when the server that lists them has      *)
(* ended, when the number of its connection was closed by a worker that    *)
(* closed its own twice, and when such a worker reads them from it.        *)
Robbed ==
  \/ ~up[listing.src.host]
  \/ table[fd[Main]] # Main
  \/ \E w \in Workers : workerPc[w] \notin {"obtain", "open", "exit"} /\ fd[w] = fd[Main]
NamesLost == mainPc = "lost" /\ Robbed

(* A listing that was begun ends: the main thread, the workers and the     *)
(* server do not wait for each other for ever.  It does not end when its   *)
(* names are lost, for one of the causes of Robbed, and need not when      *)
(* every worker spins: the buffer may be full then.                        *)
ListingEnds == (mainPc = "names") ~> (mainPc = "idle" \/ NamesLost \/ NoWorkerLeft)

(* Every command is answered, but an unknown word, an add or sync whose    *)
(* source is unreachable (both ignored), one whose names are lost, and one *)
(* that comes when every worker spins.                                     *)
CommandsAnswered == (conPc = "reply") ~> (conPc = "idle" \/ ignored \/ NamesLost \/ NoWorkerLeft)

(* A shutdown completes: every worker finishes what is queued, or one      *)
(* spins on a pair that met a failure or whose server has ended.           *)
ShutdownCompletes == (mainPc = "join") ~> (mainPc = "done" \/ \E w \in Workers : SpinsForRest(w))
=============================================================================
