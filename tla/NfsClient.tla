------------------------------ MODULE NfsClient ------------------------------
(***************************************************************************)
(* The nfs_client servers (nfs_client.c), one per host, with the           *)
(* connections that nfs_manager opens to them.  A server accepts one       *)
(* connection at a time and executes its single command to the end before  *)
(* it accepts the next; meanwhile the others wait in the backlog, request  *)
(* and data already written.  PUSH is never answered.                      *)
(*                                                                         *)
(* A file is a sequence of blocks, each as much as the manager reads at    *)
(* once (its BUF_SIZE); Width of them are 2^32 bytes.  A thread of the     *)
(* manager has at most one connection that answers, so the thread names    *)
(* it.                                                                     *)
(***************************************************************************)
EXTENDS Integers, Sequences, FiniteSets, SequencesExt

CONSTANTS
  Hosts,         \* the servers; a host stands for host:port
  Locations,     \* directories: [dir, host]
  Files,         \* names of files
  Workers, Main, \* the threads of nfs_manager
  SockCap,       \* how many names or blocks a connection holds before write blocks
  Backlog,       \* how many connections wait to be accepted (SOMAXCONN)
  Width,         \* how many blocks an int32_t wraps around after
  Absent,        \* the content of a file that does not exist
  Dot,           \* the line that ends a LIST reply
  Gone           \* the other end of a connection that the manager has closed

Threads == Workers \cup {Main}

ASSUME ThreadsAssumption == Main \notin Workers /\ Gone \notin Threads
ASSUME LocationsAssumption == \A l \in Locations : l.host \in Hosts
ASSUME FilesAssumption == IsFiniteSet(Files) /\ Dot \notin Files
ASSUME WidthAssumption == Width \in Nat \ {0}
ASSUME RoomAssumption == SockCap \in Nat /\ Backlog \in Nat

VARIABLES
  disk,    \* the files of each directory
  up,      \* up[h]: the server of h runs
  accept,  \* accept[h]: its backlog
  serving, \* serving[h]: the connection it works on, and how much it has sent
  wire     \* wire[t]: what thread t has not read yet, and whether more can come

servers == <<disk, up, accept, serving, wire>>

Closed == [op |-> "none", to |-> Gone, at |-> 0]
NoData == [data |-> <<>>, ended |-> "no"]

ClientInit ==
  /\ up = [h \in Hosts |-> TRUE]
  /\ accept = [h \in Hosts |-> <<>>]
  /\ serving = [h \in Hosts |-> Closed]
  /\ wire = [t \in Threads |-> NoData]

Item(kind, val) == [kind |-> kind, val |-> val]

\* The files of a directory, in the order of readdir.
Named(loc) == SetToSeq({f \in Files : disk[loc][f] # Absent})

-----------------------------------------------------------------------------
(* Mutated forms, used only to see that the properties notice them. *)

PushedWithoutTruncate(content, r) ==
  IF r.op = "PUSH n" /\ content # Absent THEN Append(content, r.block)
  ELSE IF r.op = "PUSH -1" /\ content = Absent THEN <<>> ELSE content
ListedWithoutEnd(loc) == Named(loc)

-----------------------------------------------------------------------------
(* What the commands do. *)

\* command_push: -1 creates or truncates, any other size appends to an existing file.
Pushed(content, r) ==
  CASE r.op = "PUSH -1" -> <<>>
    [] r.op = "PUSH n" /\ content # Absent -> Append(content, r.block)
    [] OTHER -> content

\* The lines of a LIST reply: the names the directory has when it is opened, and the end.
Listed(loc) == Append(Named(loc), Dot)

\* The size as int32_t (nfs_client.c:171, nfs_manager.c:59).
Narrowed(n) == LET low == n % Width IN IF low < Width \div 2 THEN low ELSE low - Width

\* The items that the command being executed has to send, and the next one.
Answer(s) ==
  IF s.op = "LIST" THEN [i \in DOMAIN s.names |-> Item("name", s.names[i])]
  ELSE IF s.op = "PULL" THEN [i \in 1 .. Len(disk[s.loc][s.file]) |-> Item("block", disk[s.loc][s.file][i])]
  ELSE <<>>
HasMore(s) == s.at < Len(Answer(s))
HasRoom(t) == Len(wire[t].data) < SockCap

Send(t, item) == wire' = [wire EXCEPT ![t].data = Append(@, item)]
End(t) == IF t = Gone THEN UNCHANGED wire ELSE wire' = [wire EXCEPT ![t].ended = "eof"]

-----------------------------------------------------------------------------
(* The server of host h. *)

Accepts(h, ops) ==
  /\ up[h] /\ serving[h] = Closed
  /\ accept[h] # <<>> /\ Head(accept[h]).op \in ops
  /\ accept' = [accept EXCEPT ![h] = Tail(@)]

\* The whole of a PUSH is in the socket when it is accepted; what cannot be opened is lost.
ServePush(h) ==
  /\ Accepts(h, {"PUSH -1", "PUSH n", "PUSH 0"})
  /\ LET r == Head(accept[h])
     IN  disk' = [disk EXCEPT ![r.loc][r.file] = Pushed(@, r)]
  /\ UNCHANGED <<up, serving, wire>>

ServeList(h) ==
  /\ Accepts(h, {"LIST"})
  /\ LET r == Head(accept[h])
     IN  serving' = [serving EXCEPT ![h] = [op |-> "LIST", to |-> r.to, loc |-> r.loc, names |-> Listed(r.loc), at |-> 0]]
  /\ UNCHANGED <<disk, up, wire>>

\* The size comes first; -1 and a message when there is no such file, or its size does not fit.
ServePull(h) ==
  /\ Accepts(h, {"PULL"})
  /\ LET r == Head(accept[h])
         content == disk[r.loc][r.file]
     IN  IF content = Absent \/ Narrowed(Len(content)) < 0
         THEN /\ wire' = IF r.to = Gone THEN wire
                         ELSE [wire EXCEPT ![r.to] = [data |-> <<Item("size", -1)>>, ended |-> "eof"]]
              /\ UNCHANGED serving
         ELSE /\ IF r.to = Gone THEN UNCHANGED wire ELSE Send(r.to, Item("size", Narrowed(Len(content))))
              /\ serving' = [serving EXCEPT ![h] =
                               [op |-> "PULL", to |-> r.to, loc |-> r.loc, file |-> r.file, at |-> 0]]
  /\ UNCHANGED <<disk, up>>

\* write blocks while the connection is full.
SendNext(h) ==
  /\ up[h] /\ HasMore(serving[h])
  /\ serving[h].to # Gone /\ HasRoom(serving[h].to)
  /\ Send(serving[h].to, Answer(serving[h])[serving[h].at + 1])
  /\ serving' = [serving EXCEPT ![h].at = @ + 1]
  /\ UNCHANGED <<disk, up, accept>>

\* readdir need not return a file that has been removed since the directory was opened.
SkipRemoved(h) ==
  /\ up[h] /\ serving[h].op = "LIST" /\ HasMore(serving[h])
  /\ LET s == serving[h]
     IN  s.names[s.at + 1] # Dot /\ disk[s.loc][s.names[s.at + 1]] = Absent
  /\ serving' = [serving EXCEPT ![h].at = @ + 1]
  /\ UNCHANGED <<disk, up, accept, wire>>

\* After the last item, or at the end of a file that has become shorter, the connection is closed.
CloseConnection(h) ==
  /\ up[h] /\ serving[h] # Closed /\ ~HasMore(serving[h])
  /\ End(serving[h].to)
  /\ serving' = [serving EXCEPT ![h] = Closed]
  /\ UNCHANGED <<disk, up, accept>>

Awaited(h) == {r.to : r \in ToSet(accept[h]) \cup {serving[h]}} \ {Gone}

(* A write to a connection that the manager has closed: what is sent is    *)
(* lost, and once the kernel knows, SIGPIPE ends the server and resets     *)
(* every connection it has.                                                *)
SendNowhere(h) ==
  /\ up[h] /\ HasMore(serving[h]) /\ serving[h].to = Gone
  /\ serving' = [serving EXCEPT ![h].at = @ + 1]
  /\ UNCHANGED <<disk, up, accept, wire>>
BrokenPipe(h) ==
  /\ up[h] /\ HasMore(serving[h]) /\ serving[h].to = Gone
  /\ up' = [up EXCEPT ![h] = FALSE]
  /\ accept' = [accept EXCEPT ![h] = <<>>]
  /\ serving' = [serving EXCEPT ![h] = Closed]
  /\ wire' = [t \in Threads |-> IF t \in Awaited(h) THEN [wire[t] EXCEPT !.ended = "reset"] ELSE wire[t]]
  /\ UNCHANGED disk

ClientStep(h) ==
  \/ ServePush(h) \/ ServeList(h) \/ ServePull(h)
  \/ SendNext(h) \/ SkipRemoved(h) \/ CloseConnection(h)
  \/ SendNowhere(h) \/ BrokenPipe(h)
=============================================================================
