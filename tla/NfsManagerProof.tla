-------------------------- MODULE NfsManagerProof --------------------------
(***************************************************************************)
(* Proofs about NfsManager, for every set of hosts, workers, files and     *)
(* commands, every size of the buffer and every number of faults: the      *)
(* console and the manager never get out of step; every variable keeps     *)
(* its type, whatever double closes and overlapping pairs do; and, where   *)
(* neither of these is possible, what arrives in a target is the source.   *)
(***************************************************************************)
EXTENDS NfsManager, FiniteSetTheorems, FunctionTheorems, SequenceTheorems, WellFoundedInduction, TLAPS

owed == IF conPc \in {"reply", "last"} THEN 1 ELSE 0

(* ReplyInStep with the types that let its terms be added up.              *)
CInv ==
  /\ conIn \in Seq(Commands)
  /\ conOut \in Nat
  /\ ignored \in BOOLEAN
  /\ ~ignored => Len(conIn) + Executing + conOut = owed

LEMMA InitInStep == Init => CInv
<1> SUFFICES ASSUME Init PROVE CInv
  OBVIOUS
<1>1. conIn = <<>> /\ conOut = 0 /\ ignored = FALSE /\ conPc = "idle" /\ mainPc = "idle"
  BY DEF Init
<1>2. Executing = 0 /\ owed = 0
  BY <1>1 DEF Executing, owed
<1>3. <<>> \in Seq(Commands) /\ Len(<<>>) = 0 /\ 0 \in Nat /\ FALSE \in BOOLEAN
  OBVIOUS
<1>4. conIn \in Seq(Commands) /\ Len(conIn) = 0 /\ conOut \in Nat /\ ignored \in BOOLEAN
  BY <1>1, <1>3
<1> QED
  BY <1>1, <1>2, <1>4 DEF CInv

(* What is executed stays the same as long as neither the main thread nor  *)
(* the console moves.                                                      *)
LEMMA OthersKeep ==
  ASSUME CInv, UNCHANGED <<main, console>>
  PROVE  CInv'
<1>1. UNCHANGED <<conIn, conOut, ignored, conPc, mainPc, config>>
  BY DEF main, console
<1>2. owed' = owed /\ Executing' = Executing
  BY <1>1 DEF owed, Executing, FromConsole
<1> QED
  BY <1>1, <1>2 DEF CInv

(* The main thread moves on within what it executes.                       *)
LEMMA ListingKeeps ==
  ASSUME CInv, UNCHANGED <<config, console>>,
         (mainPc \in {"open", "names", "place", "lost", "join"}) = (mainPc' \in {"open", "names", "place", "lost", "join"})
  PROVE  CInv'
<1>1. UNCHANGED <<conIn, conOut, ignored, conPc, config>>
  BY DEF console
<1>2. owed' = owed /\ Executing' = Executing
  BY <1>1 DEF owed, Executing, FromConsole
<1> QED
  BY <1>1, <1>2 DEF CInv

LEMMA CommandTaken ==
  ASSUME CInv, NEW name, Commanded(name)
  PROVE  /\ conIn' \in Seq(Commands) /\ Len(conIn') = Len(conIn) - 1
         /\ Executing = 0 /\ config = <<>> /\ config' = <<>> /\ owed' = owed
<1>1. conIn \in Seq(Commands) /\ conIn # <<>> /\ conIn' = Tail(conIn) /\ UNCHANGED <<config, conPc>>
  BY DEF CInv, Commanded
<1>2. conIn' \in Seq(Commands) /\ Len(conIn') = Len(conIn) - 1
  BY <1>1
<1> QED
  BY <1>1, <1>2 DEF Commanded, Executing, owed

(* A line of the config file that ends a listing owes nobody a reply, and  *)
(* the last one of a command's listing is the reply.                       *)
LEMMA ListingEnded ==
  ASSUME CInv, EndListing, mainPc \in {"open", "names"}, UNCHANGED conPc
  PROVE  /\ Executing' = 0 /\ owed' = owed
         /\ Executing = IF FromConsole THEN 1 ELSE 0
  BY DEF EndListing, Executing, owed

LEMMA MainKeeps ==
  ASSUME CInv, MainStep
  PROVE  CInv'
<1>0. conIn \in Seq(Commands) /\ conOut \in Nat /\ ignored \in BOOLEAN /\ Len(conIn) \in Nat
  BY DEF CInv
<1>1. CASE ReadConfigLine
  <2>1. config # <<>> /\ UNCHANGED <<config, conIn, conOut, ignored, conPc>>
    BY <1>1 DEF ReadConfigLine, console
  <2>2. Executing = 0 /\ Executing' = 0 /\ owed' = owed
    BY <2>1 DEF Executing, FromConsole, owed
  <2> QED
    BY <2>1, <2>2 DEF CInv
<1>2. CASE Add
  <2>1. Commanded("add") /\ mainPc' = "open" /\ UNCHANGED <<conOut, ignored>>
    BY <1>2 DEF Add
  <2>2. Executing' = 1
    BY <2>1, CommandTaken DEF Executing, FromConsole
  <2> QED
    BY <1>0, <2>1, <2>2, CommandTaken DEF CInv
<1>3. CASE Cancel
  <2>1. Commanded("cancel") /\ Answers /\ mainPc = "idle" /\ UNCHANGED <<mainPc, ignored>>
    BY <1>3 DEF Cancel, Commanded
  <2>2. Executing' = 0 /\ conOut' = conOut + 1
    BY <2>1, CommandTaken DEF Executing, FromConsole, Answers
  <2> QED
    BY <1>0, <2>1, <2>2, CommandTaken DEF CInv
<1>4. CASE Shutdown
  <2>1. Commanded("shutdown") /\ mainPc' = "join" /\ UNCHANGED <<conOut, ignored>>
    BY <1>4 DEF Shutdown
  <2>2. Executing' = 1
    BY <2>1, CommandTaken DEF Executing, FromConsole
  <2> QED
    BY <1>0, <2>1, <2>2, CommandTaken DEF CInv
<1>5. CASE Unknown
  <2>1. Commanded("other") /\ ignored' = TRUE /\ UNCHANGED conOut
    BY <1>5 DEF Unknown
  <2> QED
    BY <1>0, <2>1, CommandTaken DEF CInv
<1>6. CASE OpenList
  <2>1. mainPc = "open" /\ mainPc' = "names" /\ UNCHANGED <<config, console>>
    BY <1>6 DEF OpenList, MainGoes
  <2> QED
    BY <2>1, ListingKeeps
<1>7. CASE ListUnreachable
  <2>1. /\ mainPc = "open" /\ EndListing /\ ignored' = (ignored \/ FromConsole)
        /\ UNCHANGED <<conPc, conIn, conOut>>
    BY <1>7 DEF ListUnreachable
  <2>2. CASE FromConsole
    <3>1. ignored' = TRUE
      BY <2>1, <2>2
    <3> QED
      BY <1>0, <2>1, <3>1 DEF CInv
  <2>3. CASE ~FromConsole
    <3>1. ignored' = ignored
      BY <1>0, <2>1, <2>3
    <3> QED
      BY <1>0, <2>1, <2>3, <3>1, ListingEnded DEF CInv
  <2> QED
    BY <2>2, <2>3
<1>8. CASE SkipQueued
  BY <1>8, OthersKeep DEF SkipQueued
<1>9. CASE ReadName
  <2>1. mainPc = "names" /\ mainPc' = "place" /\ UNCHANGED <<config, console>>
    BY <1>9 DEF ReadName, MainGoes
  <2> QED
    BY <2>1, ListingKeeps
<1>10. CASE Place
  <2>1. mainPc = "place" /\ mainPc' = "names" /\ UNCHANGED <<config, console>>
    BY <1>10 DEF Place, MainGoes
  <2> QED
    BY <2>1, ListingKeeps
<1>11. CASE ReadDot
  <2>1. mainPc = "names" /\ EndListing /\ Answers /\ UNCHANGED <<conPc, conIn, ignored>>
    BY <1>11 DEF ReadDot, ReadsName
  <2>2. conOut' = conOut + Executing /\ Executing' = 0 /\ owed' = owed /\ Executing \in Nat
    BY <1>0, <2>1, ListingEnded DEF Answers
  <2> QED
    BY <1>0, <2>1, <2>2 DEF CInv
<1>12. CASE LoseNames
  <2>1. mainPc = "names" /\ mainPc' = "lost" /\ UNCHANGED <<config, console>>
    BY <1>12 DEF LoseNames, MainGoes
  <2> QED
    BY <2>1, ListingKeeps
<1>13. CASE Join
  <2>1. mainPc = "join" /\ mainPc' = "done" /\ Answers /\ UNCHANGED <<config, conPc, conIn, ignored>>
    BY <1>13 DEF Join, MainGoes
  <2>2. conOut' = conOut + Executing /\ Executing' = 0 /\ owed' = owed /\ Executing \in Nat
    BY <1>0, <2>1 DEF Answers, Executing, FromConsole, owed
  <2> QED
    BY <1>0, <2>1, <2>2 DEF CInv
<1> QED
  BY <1>1, <1>2, <1>3, <1>4, <1>5, <1>6, <1>7, <1>8, <1>9, <1>10, <1>11, <1>12, <1>13 DEF MainStep

LEMMA ConsoleKeeps ==
  ASSUME CInv, (\E c \in Commands : Type(c)) \/ ReadReply
  PROVE  CInv'
<1>0. conIn \in Seq(Commands) /\ conOut \in Nat /\ Len(conIn) \in Nat /\ Executing \in Nat
  BY DEF CInv, Executing
<1>1. ASSUME NEW c \in Commands, Type(c) PROVE CInv'
  <2>1. /\ conPc = "idle" /\ conPc' \in {"reply", "last"} /\ conIn' = Append(conIn, c)
        /\ UNCHANGED <<main, conOut, ignored>>
    BY <1>1 DEF Type
  <2>2. conIn' \in Seq(Commands) /\ Len(conIn') = Len(conIn) + 1
    BY <1>0, <2>1
  <2>3. Executing' = Executing /\ owed = 0 /\ owed' = 1
    BY <2>1 DEF Executing, FromConsole, main, owed
  <2> QED
    BY <1>0, <2>1, <2>2, <2>3 DEF CInv
<1>2. CASE ReadReply
  <2>1. /\ conPc \in {"reply", "last"} /\ conPc' \in {"idle", "closed"}
        /\ conOut > 0 /\ conOut' = conOut - 1 /\ UNCHANGED <<main, conIn, ignored>>
    BY <1>2 DEF ReadReply
  <2>2. Executing' = Executing /\ owed = 1 /\ owed' = 0
    BY <2>1 DEF Executing, FromConsole, main, owed
  <2> QED
    BY <1>0, <2>1, <2>2 DEF CInv
<1> QED
  BY <1>1, <1>2

LEMMA WorkerKeeps ==
  ASSUME NEW w \in Workers, WorkerStep(w) \/ Spin(w)
  PROVE  UNCHANGED <<main, console>>
<1>1. CASE Exit(w)              BY <1>1 DEF Exit
<1>2. CASE Obtain(w)            BY <1>2 DEF Obtain
<1>3. CASE OpenSource(w)        BY <1>3 DEF OpenSource
<1>4. CASE SourceUnreachable(w) BY <1>4 DEF SourceUnreachable
<1>5. CASE ReadSize(w)          BY <1>5 DEF ReadSize
<1>6. CASE PullRefused(w)       BY <1>6 DEF PullRefused
<1>7. CASE Create(w)            BY <1>7 DEF Create
<1>8. CASE TargetUnreachable(w) BY <1>8 DEF TargetUnreachable
<1>9. CASE ReadBlock(w)         BY <1>9 DEF ReadBlock
<1>10. CASE Swallow(w)          BY <1>10 DEF Swallow
<1>11. CASE PushBlock(w)        BY <1>11 DEF PushBlock
<1>12. CASE PushFails(w)        BY <1>12 DEF PushFails
<1>13. CASE Finish(w)           BY <1>13 DEF Finish
<1>14. CASE Spin(w)             BY <1>14 DEF Spin, vars
<1>15. CASE ReadReset(w)        BY <1>15 DEF ReadReset
<1> QED
  BY <1>1, <1>2, <1>3, <1>4, <1>5, <1>6, <1>7, <1>8, <1>9, <1>10, <1>11, <1>12, <1>13, <1>14, <1>15 DEF WorkerStep

(* However many listings fail, workers stop and servers end: a command is  *)
(* answered once or is one of the two that never are, so that the console  *)
(* never takes a reply for that to another command                         *)
(* (nfs_manager.c:340-349, 384-436, nfs_console.c:86-112).                 *)
THEOREM RepliesMatch == Spec => []ReplyInStep
<1>1. Init => CInv
  BY InitInStep
<1>2. CInv /\ [Next]_vars => CInv'
  <2> SUFFICES ASSUME CInv, [Next]_vars PROVE CInv'
    OBVIOUS
  <2>1. CASE MainStep
    BY <2>1, MainKeeps
  <2>2. ASSUME NEW w \in Workers, WorkerStep(w) \/ Spin(w) PROVE CInv'
    BY <2>2, WorkerKeeps, OthersKeep
  <2>3. ASSUME UNCHANGED <<main, console>> PROVE CInv'
    BY <2>3, OthersKeep
  <2>4. CASE (\E c \in Commands : Type(c)) \/ ReadReply
    BY <2>4, ConsoleKeeps
  <2>5. ASSUME NEW l \in Locations, NEW f \in Files, ChangeSource(l, f) PROVE CInv'
    BY <2>3, <2>5 DEF ChangeSource
  <2>6. CASE Rest \/ UNCHANGED vars
    BY <2>3, <2>6 DEF Rest, vars
  <2> QED
    BY <2>1, <2>2, <2>3, <2>4, <2>5, <2>6 DEF Next
<1>3. CInv => ReplyInStep
  BY DEF CInv, ReplyInStep, owed
<1> QED
  BY <1>1, <1>2, <1>3, PTL DEF Spec

Ring == INSTANCE SyncRingProof WITH Size <- 1, Pairs <- {}, NoPair <- 0

-----------------------------------------------------------------------------
(* Types.  What goes over the connections, and what the threads keep.      *)
Stored == Blocks \cup {Junk}
Contents == {Absent} \cup Seq(Stored)
Ends == Threads \cup {Gone}
Pulls == [op : {"PULL"}, to : Ends, loc : Locations, file : Files]
Lists == [op : {"LIST"}, to : Ends, loc : Locations]
PushRequests == [op : {"PUSH -1", "PUSH n", "PUSH 0"}, to : {Gone}, loc : Locations, file : Files, block : Stored]
Requests == Pulls \cup Lists \cup PushRequests
PullsServed == [op : {"PULL"}, to : Ends, loc : Locations, file : Files, at : Nat]
ListsServed == [op : {"LIST"}, to : Ends, loc : Locations, names : Seq(Files \cup {Dot}), at : Nat]
Servings == {Closed} \cup PullsServed \cup ListsServed
Items == [kind : {"name"}, val : Files \cup {Dot}] \cup [kind : {"size"}, val : Int] \cup [kind : {"block"}, val : Stored]
Wires == [data : Seq(Items), ended : {"no", "eof", "reset"}]

ServerInv ==
  /\ disk \in [Locations -> [Files -> Contents]] /\ up \in [Hosts -> BOOLEAN]
  /\ accept \in [Hosts -> Seq(Requests)] /\ serving \in [Hosts -> Servings]
  /\ \A h \in Hosts : Len(accept[h]) <= Backlog /\ (~up[h] => accept[h] = <<>> /\ serving[h] = Closed)
  /\ wire \in [Threads -> Wires]
  /\ \A t \in Threads : Len(wire[t].data) <= SockCap + 1

BufferInv == queue \in Seq(Pairs) /\ Len(queue) <= Size /\ closed \in BOOLEAN

WorkerInv ==
  /\ workerPc \in [Workers -> {"obtain", "open", "size", "blank", "create", "copy", "push", "finish", "exit"}]
  /\ held \in [Workers -> Pairs \cup {NoPair}]
  /\ \A w \in Workers : held[w] = NoPair <=> workerPc[w] \in {"obtain", "exit"}
  /\ left \in [Workers -> Nat] /\ buf \in [Workers -> Stored]
  /\ \A w \in Workers : workerPc[w] \in {"copy", "push"} => left[w] > 0

MainInv ==
  /\ mainPc \in {"idle", "open", "names", "place", "join", "done", "lost"}
  /\ config \in Seq(Entries)
  /\ mainPc \in {"open", "names", "place", "lost"} => listing \in Entries
  /\ IF mainPc = "place" THEN pending \in Pairs ELSE pending = NoPair
  /\ conIn \in Seq(Commands) /\ conPc \in {"idle", "reply", "last", "closed"}
  /\ suspect \subseteq Pairs /\ faults \in Nat

(* A number that stands for a thread's connection is the one in its        *)
(* variable: whoever closes his number closes his connection, or somebody  *)
(* else has done so.                                                       *)
Connected(t) ==
  IF t = Main THEN mainPc \in {"names", "place", "lost"}
  ELSE workerPc[t] \in {"size", "blank", "create", "copy", "push", "finish"}
Has(t) == \E n \in FdNumbers : table[n] = t
NumberInv ==
  /\ fd \in [Threads -> FdNumbers \cup {0}] /\ table \in [FdNumbers -> Threads \cup {Free, Leaked}]
  /\ \A t \in Threads : Connected(t) => fd[t] \in FdNumbers
  /\ \A n \in FdNumbers : table[n] \in Threads => fd[table[n]] = n /\ Connected(table[n])

(* Whose request waits at a server, or is served (the request 0), has the   *)
(* connection; nobody has two requests, and nothing has been sent before   *)
(* his is accepted.                                                        *)
Line(h, i) == IF i = 0 THEN serving[h] ELSE accept[h][i]
Asks(r, t) == IF t = Main THEN r.op = "LIST" ELSE r.op = "PULL" /\ r.loc = held[t].src /\ r.file = held[t].file
Asking ==
  /\ \A h \in Hosts : \A i \in 0 .. Len(accept[h]) :
       LET r == Line(h, i)
       IN  r.to \in Threads => Has(r.to) /\ Asks(r, r.to) /\ r.loc.host = h /\ (i # 0 => wire[r.to] = NoData)
  /\ \A h, k \in Hosts : \A i \in 0 .. Len(accept[h]), j \in 0 .. Len(accept[k]) :
       Line(h, i).to = Line(k, j).to /\ Line(h, i).to \in Threads => h = k /\ i = j
WireInv ==
  /\ \A h \in Hosts : serving[h].op = "PULL" => disk[serving[h].loc][serving[h].file] # Absent
  /\ \A t \in Threads : ~Has(t) => wire[t] = NoData
  /\ \A t \in Threads : \A i \in DOMAIN wire[t].data : (wire[t].data[i].kind = "name") = (t = Main)
LinkInv == Asking /\ WireInv

TInv == ServerInv /\ BufferInv /\ WorkerInv /\ MainInv /\ NumberInv /\ LinkInv

LEMMA LeastBelow ==
  ASSUME NEW K, K \subseteq Nat, K # {}
  PROVE  \E m \in K : \A k \in K : m <= k
<1>1. PICK m \in K : \A k \in K : ~ (<<k, m>> \in OpToRel(<, Nat))
  BY NatLessThanWellFounded, WFMin
<1>2. \A k \in K : m <= k
  <2> TAKE k \in K
  <2>1. k \in Nat /\ m \in Nat
    OBVIOUS
  <2>2. ~ (k < m)
    BY <1>1, <2>1 DEF OpToRel
  <2> QED
    BY <2>1, <2>2
<1> QED
  BY <1>2

LEMMA LowestFree ==
  ASSUME NEW tb, FreeNumbers(tb) # {}
  PROVE  Lowest(tb) \in FdNumbers /\ tb[Lowest(tb)] = Free
<1>1. FreeNumbers(tb) \subseteq Nat
  BY NumbersAssumption DEF FreeNumbers
<1>2. PICK m \in FreeNumbers(tb) : \A k \in FreeNumbers(tb) : m <= k
  BY <1>1, LeastBelow
<1>3. Lowest(tb) \in FreeNumbers(tb)
  BY <1>2 DEF Lowest, Min
<1> QED
  BY <1>3 DEF FreeNumbers

(* A request whose connection the manager closes keeps all but its answer. *)
LEMMA HungUpRequest ==
  ASSUME NEW r \in Requests, NEW x
  PROVE  /\ HungUp(r, x) \in Requests
         /\ HungUp(r, x).op = r.op /\ HungUp(r, x).loc = r.loc
         /\ HungUp(r, x).to = IF r.to = x THEN Gone ELSE r.to
         /\ r.op # "LIST" => HungUp(r, x).file = r.file
         /\ r \in PushRequests => HungUp(r, x) = r
<1>1. CASE r \in Pulls
  BY <1>1 DEF HungUp, Pulls, PushRequests, Requests, Ends
<1>2. CASE r \in Lists
  BY <1>2 DEF HungUp, Lists, PushRequests, Requests, Ends
<1>3. CASE r \in PushRequests
  <2>1. r.to = Gone /\ r.to \in Ends
    BY <1>3 DEF PushRequests, Ends
  <2>2. HungUp(r, x) = r
    BY <1>3, <2>1 DEF HungUp, PushRequests
  <2> QED
    BY <1>3, <2>1, <2>2
<1> QED
  BY <1>1, <1>2, <1>3 DEF Requests

LEMMA HungUpServing ==
  ASSUME NEW s \in Servings, NEW x
  PROVE  /\ HungUp(s, x) \in Servings
         /\ HungUp(s, x).op = s.op /\ HungUp(s, x).at = s.at
         /\ HungUp(s, x).to = IF s.to = x THEN Gone ELSE s.to
         /\ s.op # "none" => HungUp(s, x).loc = s.loc
         /\ s.op = "PULL" => HungUp(s, x).file = s.file
         /\ s = Closed => HungUp(s, x) = Closed
<1>1. CASE s \in PullsServed
  BY <1>1 DEF HungUp, PullsServed, Servings, Ends, Closed
<1>2. CASE s \in ListsServed
  BY <1>2 DEF HungUp, ListsServed, Servings, Ends, Closed
<1>3. CASE s = Closed
  BY <1>3 DEF HungUp, Closed, Servings
<1> QED
  BY <1>1, <1>2, <1>3 DEF Servings

(* What the fields of a request, of a served one and of an item are.       *)
LEMMA RequestFields ==
  ASSUME NEW r \in Requests
  PROVE  /\ r.to \in Ends /\ r.loc \in Locations
         /\ r.op \in {"PULL", "LIST", "PUSH -1", "PUSH n", "PUSH 0"}
         /\ r.op # "LIST" => r.file \in Files
         /\ r.op = "PULL" => r \in Pulls
         /\ r.op = "LIST" => r \in Lists
         /\ r.op \in {"PUSH -1", "PUSH n", "PUSH 0"} => r \in PushRequests /\ r.to = Gone /\ r.block \in Stored
BY DEF Requests, Pulls, Lists, PushRequests, Ends

LEMMA ServingFields ==
  ASSUME NEW s \in Servings
  PROVE  /\ s.to \in Ends /\ s.at \in Nat
         /\ s.op \in {"PULL", "LIST", "none"}
         /\ s.op = "PULL" => s \in PullsServed /\ s.loc \in Locations /\ s.file \in Files
         /\ s.op = "LIST" => s \in ListsServed /\ s.loc \in Locations /\ s.names \in Seq(Files \cup {Dot})
         /\ s.op = "none" => s = Closed
         /\ s = Closed => s.op = "none" /\ s.to = Gone
BY DEF Servings, PullsServed, ListsServed, Closed, Ends

LEMMA ItemFields ==
  ASSUME NEW i \in Items
  PROVE  /\ i.kind \in {"name", "size", "block"}
         /\ i.kind = "name" => i.val \in Files \cup {Dot}
         /\ i.kind = "size" => i.val \in Int
         /\ i.kind = "block" => i.val \in Stored
BY DEF Items

LEMMA ItemTypes ==
  /\ \A f \in Files \cup {Dot} : Item("name", f) \in Items
  /\ \A n \in Int : Item("size", n) \in Items
  /\ \A b \in Stored : Item("block", b) \in Items
BY DEF Item, Items

LEMMA NoDataType == NoData \in Wires /\ NoData.data = <<>> /\ NoData.ended = "no" /\ Len(NoData.data) = 0
<1>1. <<>> \in Seq(Items) /\ Len(<<>>) = 0
  OBVIOUS
<1> QED
  BY <1>1 DEF NoData, Wires

(* The names of a LIST reply.                                              *)
LEMMA ListedType ==
  ASSUME NEW l \in Locations
  PROVE  Listed(l) \in Seq(Files \cup {Dot})
<1> DEFINE S == {f \in Files : disk[l][f] # Absent}
           n == Cardinality(S)
<1>1. IsFiniteSet(S)
  BY FilesAssumption, FS_Subset
<1>2. n \in Nat /\ ExistsBijection(1 .. n, S)
  BY <1>1, FS_CardinalityType
<1>3. PICK g : g \in Bijection(1 .. n, S)
  BY <1>2 DEF ExistsBijection
<1>4. g \in [1 .. n -> S] /\ IsInjective(g)
  BY <1>3 DEF Bijection, Injection, IsInjective
<1>5. SetToSeq(S) \in [1 .. n -> S]
  BY <1>4 DEF SetToSeq
<1>6. SetToSeq(S) \in Seq(Files \cup {Dot})
  <2>1. PICK q : q = SetToSeq(S)
    OBVIOUS
  <2>2. q \in [1 .. n -> Files \cup {Dot}]
    BY <1>5, <2>1
  <2> HIDE DEF n
  <2>3. q \in Seq(Files \cup {Dot})
    BY <1>2, <2>2
  <2> QED
    BY <2>1, <2>3
<1> QED
  BY <1>6 DEF Listed, Named

-----------------------------------------------------------------------------
(* What the manager does to the connections.                               *)
HangsUp(x) == accept' = BacklogAfterClose(x) /\ serving' = ServingAfterClose(x) /\ wire' = WireAfterClose(x)

LEMMA AppendedRequest ==
  ASSUME NEW q \in Seq(Requests), NEW r \in Requests
  PROVE  /\ Append(q, r) \in Seq(Requests) /\ Len(Append(q, r)) = Len(q) + 1
         /\ DOMAIN Append(q, r) = 1 .. Len(q) + 1
         /\ \A i \in 1 .. Len(q) : Append(q, r)[i] = q[i]
         /\ Append(q, r)[Len(q) + 1] = r
OBVIOUS

LEMMA HangUpShape ==
  ASSUME ServerInv, NEW x
  PROVE  /\ BacklogAfterClose(x) \in [Hosts -> Seq(Requests)]
         /\ \A h \in Hosts : /\ Len(BacklogAfterClose(x)[h]) = Len(accept[h])
                             /\ DOMAIN BacklogAfterClose(x)[h] = DOMAIN accept[h]
                             /\ \A i \in DOMAIN accept[h] : BacklogAfterClose(x)[h][i] = HungUp(accept[h][i], x)
         /\ ServingAfterClose(x) \in [Hosts -> Servings]
         /\ \A h \in Hosts : ServingAfterClose(x)[h] = HungUp(serving[h], x)
         /\ WireAfterClose(x) \in [Threads -> Wires]
         /\ \A t \in Threads : WireAfterClose(x)[t] = IF t = x THEN NoData ELSE wire[t]
<1>1. ASSUME NEW h \in Hosts
      PROVE  /\ BacklogAfterClose(x)[h] \in Seq(Requests)
             /\ Len(BacklogAfterClose(x)[h]) = Len(accept[h])
             /\ DOMAIN BacklogAfterClose(x)[h] = DOMAIN accept[h]
             /\ \A i \in DOMAIN accept[h] : BacklogAfterClose(x)[h][i] = HungUp(accept[h][i], x)
  <2>1. PICK q : q = accept[h]
    OBVIOUS
  <2>2. q \in Seq(Requests)
    BY <2>1 DEF ServerInv
  <2>3. PICK n \in Nat : n = Len(q) /\ DOMAIN q = 1 .. n
    BY <2>2
  <2>4. \A i \in 1 .. n : HungUp(q[i], x) \in Requests
    <3> TAKE i \in 1 .. n
    <3>1. q[i] \in Requests
      BY <2>2, <2>3
    <3> QED
      BY <3>1, HungUpRequest
  <2>5. PICK s : s = [i \in 1 .. n |-> HungUp(q[i], x)]
    OBVIOUS
  <2>6. s \in [1 .. n -> Requests]
    BY <2>4, <2>5
  <2>7. s \in Seq(Requests) /\ Len(s) = n /\ DOMAIN s = 1 .. n
    BY <2>6
  <2>8. BacklogAfterClose(x)[h] = s
    BY <2>1, <2>3, <2>5 DEF BacklogAfterClose
  <2> QED
    BY <2>1, <2>3, <2>5, <2>7, <2>8
<1>2. BacklogAfterClose(x) \in [Hosts -> Seq(Requests)]
  BY <1>1 DEF BacklogAfterClose
<1>3. \A h \in Hosts : HungUp(serving[h], x) \in Servings
  BY HungUpServing DEF ServerInv
<1>4. ServingAfterClose(x) \in [Hosts -> Servings] /\ \A h \in Hosts : ServingAfterClose(x)[h] = HungUp(serving[h], x)
  BY <1>3 DEF ServingAfterClose
<1>5. /\ WireAfterClose(x) \in [Threads -> Wires]
      /\ \A t \in Threads : WireAfterClose(x)[t] = IF t = x THEN NoData ELSE wire[t]
  BY NoDataType DEF WireAfterClose, ServerInv
<1> QED
  BY <1>1, <1>2, <1>4, <1>5

LEMMA RequestTypes ==
  ASSUME ServerInv, NEW h \in Hosts, NEW r \in Requests, NEW tb, Reaches(h, tb), Request(h, r), UNCHANGED <<disk, up, serving, wire>>
  PROVE  ServerInv'
<1>1. up[h] /\ Len(accept[h]) < Backlog /\ accept[h] \in Seq(Requests)
  BY DEF Reaches, ServerInv
<1>2. \A k \in Hosts : accept'[k] = IF k = h THEN Append(accept[h], r) ELSE accept[k]
  BY DEF Request, ServerInv
<1>3. accept' \in [Hosts -> Seq(Requests)]
  BY <1>1, AppendedRequest DEF Request, ServerInv
<1>4. Len(accept'[h]) <= Backlog
  <2>1. Len(accept[h]) \in Nat /\ Backlog \in Nat
    BY <1>1, RoomAssumption
  <2>2. Len(accept'[h]) = Len(accept[h]) + 1
    <3>1. accept'[h] = Append(accept[h], r)
      BY <1>2
    <3> QED
      BY <1>1, <3>1, AppendedRequest
  <2> QED
    BY <1>1, <2>1, <2>2
<1> QED
  BY <1>1, <1>2, <1>3, <1>4 DEF ServerInv

LEMMA HangUpTypes ==
  ASSUME ServerInv, NEW x, HangsUp(x), UNCHANGED <<disk, up>>
  PROVE  ServerInv'
<1>1. accept' \in [Hosts -> Seq(Requests)] /\ serving' \in [Hosts -> Servings] /\ wire' \in [Threads -> Wires]
  BY HangUpShape DEF HangsUp
<1>2. \A h \in Hosts : Len(accept'[h]) = Len(accept[h])
  BY HangUpShape DEF HangsUp
<1>3. ASSUME NEW h \in Hosts, ~up'[h] PROVE accept'[h] = <<>> /\ serving'[h] = Closed
  <2>1. accept[h] = <<>> /\ serving[h] = Closed
    BY <1>3 DEF ServerInv
  <2>2. Len(accept'[h]) = 0 /\ accept'[h] \in Seq(Requests)
    BY <1>1, <1>2, <2>1
  <2>3. serving'[h] = HungUp(serving[h], x) /\ serving[h] \in Servings
    BY HangUpShape DEF HangsUp, ServerInv
  <2> QED
    BY <2>1, <2>2, <2>3, HungUpServing
<1>4. ASSUME NEW t \in Threads PROVE Len(wire'[t].data) <= SockCap + 1
  <2>1. wire'[t] = NoData \/ wire'[t] = wire[t]
    BY HangUpShape DEF HangsUp
  <2>2. 0 <= SockCap + 1
    BY RoomAssumption
  <2> QED
    BY <2>1, <2>2, NoDataType DEF ServerInv
<1> QED
  BY <1>1, <1>2, <1>3, <1>4 DEF ServerInv

LEMMA HangUpRequestTypes ==
  ASSUME ServerInv, NEW x, NEW h \in Hosts, NEW r \in Requests, up[h], Len(accept[h]) < Backlog,
         accept' = [BacklogAfterClose(x) EXCEPT ![h] = Append(@, r)],
         serving' = ServingAfterClose(x), wire' = WireAfterClose(x), UNCHANGED <<disk, up>>
  PROVE  ServerInv'
<1>1. PICK b : b = BacklogAfterClose(x)
  OBVIOUS
<1>2. b \in [Hosts -> Seq(Requests)] /\ \A k \in Hosts : Len(b[k]) = Len(accept[k])
  BY <1>1, HangUpShape
<1>3. Append(b[h], r) \in Seq(Requests) /\ Len(Append(b[h], r)) = Len(accept[h]) + 1
  BY <1>2, AppendedRequest
<1>4. accept' = [b EXCEPT ![h] = Append(b[h], r)]
  BY <1>1, <1>2
<1>5. accept' \in [Hosts -> Seq(Requests)]
  BY <1>2, <1>3, <1>4
<1>6. \A k \in Hosts : accept'[k] = IF k = h THEN Append(b[h], r) ELSE b[k]
  BY <1>2, <1>4
<1>7. \A k \in Hosts : Len(accept'[k]) <= Backlog
  <2> TAKE k \in Hosts
  <2>1. Len(accept[k]) \in Nat /\ Len(accept[k]) <= Backlog /\ Len(accept[h]) \in Nat
    BY DEF ServerInv
  <2>2. Len(accept'[k]) = IF k = h THEN Len(accept[h]) + 1 ELSE Len(accept[k])
    BY <1>2, <1>3, <1>6
  <2> QED
    BY <2>1, <2>2, RoomAssumption
<1>8. serving' \in [Hosts -> Servings] /\ wire' \in [Threads -> Wires]
  BY HangUpShape
<1>9. ASSUME NEW k \in Hosts, ~up'[k] PROVE accept'[k] = <<>> /\ serving'[k] = Closed
  <2>1. accept[k] = <<>> /\ serving[k] = Closed /\ k # h
    BY <1>9 DEF ServerInv
  <2>2. Len(b[k]) = 0 /\ b[k] \in Seq(Requests) /\ accept'[k] = b[k]
    BY <1>2, <1>6, <2>1
  <2>3. serving'[k] = HungUp(serving[k], x) /\ serving[k] \in Servings
    BY HangUpShape DEF ServerInv
  <2> QED
    BY <2>1, <2>2, <2>3, HungUpServing
<1>10. ASSUME NEW t \in Threads PROVE Len(wire'[t].data) <= SockCap + 1
  <2>1. wire'[t] = NoData \/ wire'[t] = wire[t]
    BY HangUpShape
  <2>2. 0 <= SockCap + 1
    BY RoomAssumption
  <2> QED
    BY <2>1, <2>2, NoDataType DEF ServerInv
<1> QED
  BY <1>5, <1>7, <1>8, <1>9, <1>10 DEF ServerInv

(* A thread reads what comes next on the connection of s.                  *)
LEMMA TakeShape ==
  ASSUME ServerInv, NEW t, Readable(t), Take(t)
  PROVE  \E s \in Threads :
           /\ s = Stream(t) /\ wire[s].data # <<>> /\ wire[s].data \in Seq(Items)
           /\ wire'[s] = [data |-> Tail(wire[s].data), ended |-> wire[s].ended]
           /\ \A u \in Threads : u # s => wire'[u] = wire[u]
           /\ wire' \in [Threads -> Wires]
<1>1. PICK s \in Threads : s = Stream(t) /\ wire[s].data # <<>>
  BY DEF Readable
<1>2. wire[s] \in Wires /\ wire[s].data \in Seq(Items) /\ wire[s] = [data |-> wire[s].data, ended |-> wire[s].ended]
  BY DEF ServerInv, Wires
<1>3. PICK d : d = Tail(wire[s].data)
  OBVIOUS
<1>4. d \in Seq(Items)
  BY <1>1, <1>2, <1>3
<1>5. wire' = [wire EXCEPT ![s] = [data |-> d, ended |-> wire[s].ended]]
  <2>1. wire' = [wire EXCEPT ![s].data = d]
    BY <1>1, <1>3 DEF Take
  <2>2. [wire[s] EXCEPT !.data = d] = [data |-> d, ended |-> wire[s].ended]
    BY <1>2
  <2> QED
    BY <2>1, <2>2
<1>6. [data |-> d, ended |-> wire[s].ended] \in Wires
  BY <1>2, <1>4 DEF Wires
<1> QED
  BY <1>1, <1>2, <1>3, <1>4, <1>5, <1>6 DEF ServerInv

LEMMA TakeTypes ==
  ASSUME ServerInv, NEW t, Readable(t), Take(t), UNCHANGED <<disk, up, accept, serving>>
  PROVE  ServerInv'
<1>1. PICK s \in Threads :
        /\ wire[s].data # <<>> /\ wire[s].data \in Seq(Items)
        /\ wire'[s] = [data |-> Tail(wire[s].data), ended |-> wire[s].ended]
        /\ \A u \in Threads : u # s => wire'[u] = wire[u]
        /\ wire' \in [Threads -> Wires]
  BY TakeShape
<1>2. Len(wire'[s].data) <= SockCap + 1
  <2>1. wire'[s].data = Tail(wire[s].data) /\ Len(wire[s].data) <= SockCap + 1
    BY <1>1 DEF ServerInv
  <2>2. Len(wire'[s].data) = Len(wire[s].data) - 1 /\ Len(wire[s].data) \in Nat /\ SockCap \in Nat
    BY <1>1, <2>1, RoomAssumption
  <2> QED
    BY <2>1, <2>2
<1> QED
  BY <1>1, <1>2 DEF ServerInv

(* What a read that finds the connection reset leaves behind.              *)
LEMMA ResetShape ==
  ASSUME ServerInv, NEW t, SeeReset(t), wire' # wire
  PROVE  \E s \in Threads :
           /\ s = Stream(t) /\ WasReset(t) /\ wire[s] = [data |-> <<>>, ended |-> "reset"]
           /\ wire'[s] = [data |-> <<>>, ended |-> "eof"]
           /\ \A u \in Threads : u # s => wire'[u] = wire[u]
           /\ wire' \in [Threads -> Wires]
<1>1. WasReset(t) /\ wire' = [wire EXCEPT ![Stream(t)].ended = "eof"]
  BY DEF SeeReset
<1>2. PICK s \in Threads : s = Stream(t) /\ wire[s].data = <<>> /\ wire[s].ended = "reset"
  BY <1>1 DEF WasReset, Drained
<1>3. wire[s] \in Wires /\ wire[s] = [data |-> <<>>, ended |-> "reset"]
  BY <1>2 DEF ServerInv, Wires
<1>4. wire' = [wire EXCEPT ![s] = [data |-> <<>>, ended |-> "eof"]]
  <2>1. wire' = [wire EXCEPT ![s].ended = "eof"]
    BY <1>1, <1>2
  <2>2. [wire[s] EXCEPT !.ended = "eof"] = [data |-> <<>>, ended |-> "eof"]
    BY <1>3
  <2> QED
    BY <2>1, <2>2
<1>5. [data |-> <<>>, ended |-> "eof"] \in Wires
  <2>1. <<>> \in Seq(Items)
    OBVIOUS
  <2> QED
    BY <2>1 DEF Wires
<1> QED
  BY <1>1, <1>2, <1>3, <1>4, <1>5 DEF ServerInv

LEMMA ResetTypes ==
  ASSUME ServerInv, NEW t, SeeReset(t), UNCHANGED <<disk, up, accept, serving>>
  PROVE  ServerInv'
<1>1. CASE UNCHANGED wire
  BY <1>1 DEF ServerInv
<1>2. CASE wire' # wire
  <2>1. PICK s \in Threads :
          /\ wire'[s] = [data |-> <<>>, ended |-> "eof"]
          /\ \A u \in Threads : u # s => wire'[u] = wire[u]
          /\ wire' \in [Threads -> Wires]
    BY <1>2, ResetShape
  <2>2. Len(wire'[s].data) <= SockCap + 1
    <3>1. Len(<<>>) = 0
      OBVIOUS
    <3> QED
      BY <2>1, <3>1, RoomAssumption
  <2> QED
    BY <2>1, <2>2 DEF ServerInv
<1> QED
  BY <1>1, <1>2

-----------------------------------------------------------------------------
(* What the servers do.                                                    *)
LEMMA PoppedRequest ==
  ASSUME NEW q \in Seq(Requests), q # <<>>
  PROVE  /\ Head(q) \in Requests /\ Head(q) = q[1] /\ Len(q) \in Nat \ {0}
         /\ Tail(q) \in Seq(Requests) /\ Len(Tail(q)) = Len(q) - 1
         /\ \A i \in 1 .. Len(q) - 1 : Tail(q)[i] = q[i + 1]
OBVIOUS

LEMMA AcceptsShape ==
  ASSUME ServerInv, NEW h \in Hosts, NEW ops, Accepts(h, ops)
  PROVE  /\ up[h] /\ serving[h] = Closed /\ accept[h] # <<>>
         /\ Head(accept[h]) \in Requests /\ Head(accept[h]).op \in ops /\ Head(accept[h]) = accept[h][1]
         /\ accept' \in [Hosts -> Seq(Requests)]
         /\ \A k \in Hosts : k # h => accept'[k] = accept[k]
         /\ Len(accept[h]) \in Nat \ {0} /\ Len(accept'[h]) = Len(accept[h]) - 1
         /\ \A i \in 1 .. Len(accept[h]) - 1 : accept'[h][i] = accept[h][i + 1]
         /\ \A k \in Hosts : Len(accept'[k]) <= Backlog
<1>1. PICK q \in Seq(Requests) : q = accept[h] /\ q # <<>>
  BY DEF Accepts, ServerInv
<1>2. accept' = [accept EXCEPT ![h] = Tail(q)]
  BY <1>1 DEF Accepts
<1>3. Tail(q) \in Seq(Requests) /\ Len(Tail(q)) = Len(q) - 1 /\ \A i \in 1 .. Len(q) - 1 : Tail(q)[i] = q[i + 1]
  BY <1>1, PoppedRequest
<1>4. accept' \in [Hosts -> Seq(Requests)] /\ accept'[h] = Tail(q) /\ \A k \in Hosts : k # h => accept'[k] = accept[k]
  BY <1>2, <1>3 DEF ServerInv
<1>5. Len(q) \in Nat \ {0} /\ Len(q) <= Backlog /\ Backlog \in Nat
  BY <1>1, PoppedRequest, RoomAssumption DEF ServerInv
<1>6. \A k \in Hosts : Len(accept'[k]) <= Backlog
  <2> TAKE k \in Hosts
  <2>1. CASE k = h
    <3>1. Len(accept'[k]) = Len(q) - 1
      BY <1>3, <1>4, <2>1
    <3> QED
      BY <1>5, <3>1
  <2>2. CASE k # h
    BY <1>4, <2>2 DEF ServerInv
  <2> QED
    BY <2>1, <2>2
<1> QED
  BY <1>1, <1>3, <1>4, <1>5, <1>6, PoppedRequest DEF Accepts

LEMMA PushedContent ==
  ASSUME NEW c \in Contents, NEW r \in PushRequests
  PROVE  /\ Pushed(c, r) \in Contents
         /\ c # Absent => Pushed(c, r) # Absent
<1>1. r.op \in {"PUSH -1", "PUSH n", "PUSH 0"} /\ r.block \in Stored
  BY DEF PushRequests
<1>2. <<>> \in Seq(Stored) /\ Absent \notin Seq(Stored)
  BY AbsentAssumption DEF Stored
<1>3. c \in Seq(Stored) => Append(c, r.block) \in Seq(Stored)
  <2>1. PICK b \in Stored : b = r.block
    BY <1>1
  <2>2. c \in Seq(Stored) => Append(c, b) \in Seq(Stored)
    OBVIOUS
  <2> QED
    BY <2>1, <2>2
<1>4. CASE r.op = "PUSH -1"
  BY <1>2, <1>4 DEF Pushed, Contents
<1>5. CASE r.op = "PUSH n"
  BY <1>2, <1>3, <1>5 DEF Pushed, Contents
<1>6. CASE r.op = "PUSH 0"
  BY <1>6 DEF Pushed
<1> QED
  BY <1>1, <1>4, <1>5, <1>6

LEMMA ServePushShape ==
  ASSUME ServerInv, NEW h \in Hosts, ServePush(h)
  PROVE  \E r \in PushRequests :
           /\ r = accept[h][1] /\ Accepts(h, {"PUSH -1", "PUSH n", "PUSH 0"})
           /\ disk' \in [Locations -> [Files -> Contents]]
           /\ \A l \in Locations, f \in Files :
                disk'[l][f] = IF l = r.loc /\ f = r.file THEN Pushed(disk[l][f], r) ELSE disk[l][f]
           /\ \A l \in Locations, f \in Files : disk[l][f] # Absent => disk'[l][f] # Absent
           /\ UNCHANGED <<up, serving, wire>>
<1>1. Accepts(h, {"PUSH -1", "PUSH n", "PUSH 0"}) /\ UNCHANGED <<up, serving, wire>>
  BY DEF ServePush
<1>2. PICK r \in PushRequests : r = Head(accept[h]) /\ r = accept[h][1]
  <2>1. /\ Head(accept[h]) \in Requests /\ Head(accept[h]) = accept[h][1]
        /\ Head(accept[h]).op \in {"PUSH -1", "PUSH n", "PUSH 0"}
    BY <1>1, AcceptsShape
  <2>2. Head(accept[h]) \in PushRequests
    BY <2>1, RequestFields
  <2> QED
    BY <2>1, <2>2
<1>3. r.loc \in Locations /\ r.file \in Files
  BY DEF PushRequests
<1>4. disk' = [disk EXCEPT ![r.loc][r.file] = Pushed(@, r)]
  BY <1>2 DEF ServePush
<1>5. \A l \in Locations, f \in Files : disk[l][f] \in Contents /\ Pushed(disk[l][f], r) \in Contents
  BY PushedContent DEF ServerInv
<1>6. /\ disk' \in [Locations -> [Files -> Contents]]
      /\ \A l \in Locations, f \in Files :
           disk'[l][f] = IF l = r.loc /\ f = r.file THEN Pushed(disk[l][f], r) ELSE disk[l][f]
  BY <1>3, <1>4, <1>5 DEF ServerInv
<1>7. \A l \in Locations, f \in Files : disk[l][f] # Absent => disk'[l][f] # Absent
  BY <1>5, <1>6, PushedContent
<1> QED
  BY <1>1, <1>2, <1>6, <1>7

(* The next item of an answer, and what it does to the connection.         *)
LEMMA AnswerType ==
  ASSUME ServerInv, WireInv, NEW h \in Hosts, HasMore(serving[h])
  PROVE  /\ serving[h].op \in {"LIST", "PULL"} /\ Answer(serving[h])[serving[h].at + 1] \in Items
         /\ Answer(serving[h])[serving[h].at + 1].kind = IF serving[h].op = "LIST" THEN "name" ELSE "block"
<1>1. PICK s \in Servings : s = serving[h]
  BY DEF ServerInv
<1>2. s.at \in Nat /\ s.at < Len(Answer(s))
  BY <1>1, ServingFields DEF HasMore
<1>3. CASE s.op = "LIST"
  <2>1. PICK q \in Seq(Files \cup {Dot}) : q = s.names
    BY <1>3, ServingFields
  <2>2. PICK n \in Nat : n = Len(q) /\ DOMAIN q = 1 .. n
    BY <2>1
  <2>3. Answer(s) = [i \in 1 .. n |-> Item("name", q[i])]
    BY <1>3, <2>1, <2>2 DEF Answer
  <2>4. \A i \in 1 .. n : q[i] \in Files \cup {Dot}
    BY <2>1, <2>2
  <2>5. Answer(s) \in [1 .. n -> Items]
    BY <2>3, <2>4, ItemTypes
  <2>6. Len(Answer(s)) = n
    BY <2>2, <2>5
  <2>7. s.at + 1 \in 1 .. n
    BY <1>2, <2>2, <2>6
  <2>8. Answer(s)[s.at + 1] \in Items /\ Answer(s)[s.at + 1].kind = "name"
    BY <2>3, <2>5, <2>7 DEF Item
  <2> QED
    BY <1>1, <1>3, <2>8
<1>4. CASE s.op = "PULL"
  <2>1. PICK q \in Seq(Stored) : q = disk[s.loc][s.file]
    <3>1. s.loc \in Locations /\ s.file \in Files
      BY <1>4, ServingFields
    <3>2. disk[s.loc][s.file] \in Contents /\ disk[s.loc][s.file] # Absent
      BY <1>1, <1>4, <3>1 DEF ServerInv, WireInv
    <3> QED
      BY <3>2 DEF Contents
  <2>2. PICK n \in Nat : n = Len(q) /\ DOMAIN q = 1 .. n
    BY <2>1
  <2>3. Answer(s) = [i \in 1 .. n |-> Item("block", q[i])]
    BY <1>4, <2>1, <2>2 DEF Answer
  <2>4. \A i \in 1 .. n : q[i] \in Stored
    BY <2>1, <2>2
  <2>5. Answer(s) \in [1 .. n -> Items]
    BY <2>3, <2>4, ItemTypes
  <2>6. Len(Answer(s)) = n
    BY <2>2, <2>5
  <2>7. s.at + 1 \in 1 .. n
    BY <1>2, <2>2, <2>6
  <2>8. Answer(s)[s.at + 1] \in Items /\ Answer(s)[s.at + 1].kind = "block"
    BY <2>3, <2>5, <2>7 DEF Item
  <2> QED
    BY <1>1, <1>4, <2>8
<1>5. CASE s.op = "none"
  <2>1. Answer(s) = <<>>
    BY <1>5 DEF Answer
  <2>2. Len(Answer(s)) = 0
    BY <2>1
  <2> QED
    BY <1>2, <2>2
<1> QED
  BY <1>1, <1>3, <1>4, <1>5, ServingFields

LEMMA SendShape ==
  ASSUME ServerInv, NEW t \in Threads, NEW item \in Items, Send(t, item)
  PROVE  /\ wire[t].data \in Seq(Items) /\ wire' \in [Threads -> Wires]
         /\ wire'[t] = [data |-> Append(wire[t].data, item), ended |-> wire[t].ended]
         /\ wire'[t].data = Append(wire[t].data, item) /\ wire'[t].ended = wire[t].ended
         /\ \A u \in Threads : u # t => wire'[u] = wire[u]
         /\ Len(wire[t].data) \in Nat /\ Len(wire'[t].data) = Len(wire[t].data) + 1
         /\ \A i \in 1 .. Len(wire[t].data) : wire'[t].data[i] = wire[t].data[i]
         /\ wire'[t].data[Len(wire[t].data) + 1] = item
<1>1. wire[t] \in Wires /\ wire[t].data \in Seq(Items) /\ wire[t] = [data |-> wire[t].data, ended |-> wire[t].ended]
  BY DEF ServerInv, Wires
<1>2. PICK d : d = wire[t].data
  OBVIOUS
<1>3. PICK e : e = Append(d, item)
  OBVIOUS
<1>4. /\ e \in Seq(Items) /\ Len(d) \in Nat /\ Len(e) = Len(d) + 1 /\ e[Len(d) + 1] = item
      /\ \A i \in 1 .. Len(d) : e[i] = d[i]
  BY <1>1, <1>2, <1>3
<1>5. wire' = [wire EXCEPT ![t] = [data |-> e, ended |-> wire[t].ended]]
  <2>1. wire' = [wire EXCEPT ![t].data = e]
    BY <1>2, <1>3 DEF Send
  <2>2. [wire[t] EXCEPT !.data = e] = [data |-> e, ended |-> wire[t].ended]
    BY <1>1
  <2> QED
    BY <2>1, <2>2
<1>6. [data |-> e, ended |-> wire[t].ended] \in Wires
  BY <1>1, <1>4 DEF Wires
<1>7. wire' \in [Threads -> Wires] /\ wire'[t].data = e /\ \A u \in Threads : u # t => wire'[u] = wire[u]
  BY <1>5, <1>6 DEF ServerInv
<1>8. wire'[t] = [data |-> e, ended |-> wire[t].ended] /\ wire'[t].ended = wire[t].ended
  BY <1>5 DEF ServerInv
<1> QED
  BY <1>1, <1>2, <1>3, <1>4, <1>7, <1>8

(* A server takes up a request: what it then serves.                       *)
LEMMA TakenUp ==
  ASSUME NEW r \in Requests, r.op \in {"PULL", "LIST"}
  PROVE  /\ r.op = "PULL" => [op |-> "PULL", to |-> r.to, loc |-> r.loc, file |-> r.file, at |-> 0] \in Servings
         /\ r.op = "LIST" => [op |-> "LIST", to |-> r.to, loc |-> r.loc, names |-> Listed(r.loc), at |-> 0] \in Servings
<1>1. r.to \in Ends /\ r.loc \in Locations /\ (r.op = "PULL" => r.file \in Files)
  BY RequestFields
<1>2. r.op = "PULL" => [op |-> "PULL", to |-> r.to, loc |-> r.loc, file |-> r.file, at |-> 0] \in PullsServed
  BY <1>1 DEF PullsServed
<1>3. r.op = "LIST" => [op |-> "LIST", to |-> r.to, loc |-> r.loc, names |-> Listed(r.loc), at |-> 0] \in ListsServed
  <2>1. PICK q \in Seq(Files \cup {Dot}) : q = Listed(r.loc)
    BY <1>1, ListedType
  <2> QED
    BY <1>1, <2>1 DEF ListsServed
<1> QED
  BY <1>2, <1>3 DEF Servings

LEMMA ServeListShape ==
  ASSUME ServerInv, NEW h \in Hosts, ServeList(h)
  PROVE  \E r \in Requests, s \in Servings :
           /\ r = accept[h][1] /\ r.op = "LIST" /\ Accepts(h, {"LIST"})
           /\ s.op = "LIST" /\ s.to = r.to /\ s.loc = r.loc
           /\ serving' \in [Hosts -> Servings] /\ serving'[h] = s
           /\ \A k \in Hosts : k # h => serving'[k] = serving[k]
           /\ UNCHANGED <<disk, up, wire>>
<1>1. Accepts(h, {"LIST"}) /\ UNCHANGED <<disk, up, wire>>
  BY DEF ServeList
<1>2. PICK r \in Requests : r = Head(accept[h]) /\ r = accept[h][1] /\ r.op = "LIST"
  BY <1>1, AcceptsShape
<1>3. PICK s : s = [op |-> "LIST", to |-> r.to, loc |-> r.loc, names |-> Listed(r.loc), at |-> 0]
  OBVIOUS
<1>4. s \in Servings /\ s.op = "LIST" /\ s.to = r.to /\ s.loc = r.loc
  BY <1>2, <1>3, TakenUp
<1>5. serving' = [serving EXCEPT ![h] = s]
  BY <1>2, <1>3 DEF ServeList
<1> QED
  BY <1>1, <1>2, <1>4, <1>5 DEF ServerInv

\* The file that is asked for does not exist, or its size is announced as a negative number.
Unserved(h) ==
  LET content == disk[Head(accept[h]).loc][Head(accept[h]).file] IN content = Absent \/ Narrowed(Len(content)) < 0

\* A size that fits is announced as it is.
LEMMA NarrowedSize ==
  ASSUME NEW n \in Nat
  PROVE  Narrowed(n) \in Int /\ (n < Width \div 2 => Narrowed(n) = n)
<1>1. Width \in Nat \ {0}
  BY WidthAssumption
<1>2. n % Width \in 0 .. Width - 1
  BY <1>1
<1>3. ASSUME n < Width \div 2 PROVE n % Width = n
  <2>1. n < Width
    BY <1>1, <1>3
  <2> QED
    BY <1>1, <2>1
<1> QED
  BY <1>1, <1>2, <1>3 DEF Narrowed

\* The file is served: its size is sent, if anybody is there to read it.
LEMMA ServePullShape ==
  ASSUME ServerInv, NEW h \in Hosts, ServePull(h), ~Unserved(h)
  PROVE  \E r \in Requests, s \in Servings, n \in Nat :
           /\ r = accept[h][1] /\ r.op = "PULL" /\ Accepts(h, {"PULL"})
           /\ s = [op |-> "PULL", to |-> r.to, loc |-> r.loc, file |-> r.file, at |-> 0]
           /\ disk[r.loc][r.file] \in Seq(Stored) /\ disk[r.loc][r.file] # Absent /\ n = Narrowed(Len(disk[r.loc][r.file]))
           /\ serving' \in [Hosts -> Servings] /\ serving'[h] = s
           /\ \A k \in Hosts : k # h => serving'[k] = serving[k]
           /\ IF r.to = Gone THEN UNCHANGED wire ELSE r.to \in Threads /\ Send(r.to, Item("size", n))
           /\ UNCHANGED <<disk, up>>
<1>1. Accepts(h, {"PULL"}) /\ UNCHANGED <<disk, up>>
  BY DEF ServePull
<1>2. PICK r \in Requests : r = Head(accept[h]) /\ r = accept[h][1] /\ r.op = "PULL"
  BY <1>1, AcceptsShape
<1>3. r.to \in Ends /\ r.loc \in Locations /\ r.file \in Files
  BY <1>2, RequestFields
<1>4. PICK c \in Seq(Stored) : c = disk[r.loc][r.file] /\ c # Absent
  <2>1. disk[r.loc][r.file] \in Contents
    BY <1>3 DEF ServerInv
  <2> QED
    BY <1>2, <2>1 DEF Contents, Unserved
<1>5. PICK s \in Servings : s = [op |-> "PULL", to |-> r.to, loc |-> r.loc, file |-> r.file, at |-> 0]
  BY <1>2, TakenUp
<1>6. /\ IF r.to = Gone THEN UNCHANGED wire ELSE Send(r.to, Item("size", Narrowed(Len(c))))
      /\ serving' = [serving EXCEPT ![h] = s]
  BY <1>2, <1>4, <1>5 DEF ServePull, Unserved
<1>7. serving' \in [Hosts -> Servings] /\ serving'[h] = s /\ \A k \in Hosts : k # h => serving'[k] = serving[k]
  BY <1>6 DEF ServerInv
<1>8. Narrowed(Len(c)) \in Nat
  <2>1. Len(c) \in Nat
    BY <1>4
  <2>2. ~(Narrowed(Len(c)) < 0)
    BY <1>2, <1>4 DEF Unserved
  <2> QED
    BY <2>1, <2>2, NarrowedSize
<1> QED
  BY <1>1, <1>2, <1>3, <1>4, <1>5, <1>6, <1>7, <1>8 DEF Ends

\* There is no such file, or it is too long.
LEMMA PullFailsShape ==
  ASSUME ServerInv, NEW h \in Hosts, ServePull(h), Unserved(h)
  PROVE  \E r \in Requests, e \in Wires :
           /\ r = accept[h][1] /\ r.op = "PULL" /\ Accepts(h, {"PULL"})
           /\ r.to \in Ends /\ e.data = <<Item("size", -1)>> /\ e.ended = "eof"
           /\ wire' \in [Threads -> Wires]
           /\ \A t \in Threads : wire'[t] = IF t = r.to THEN e ELSE wire[t]
           /\ UNCHANGED <<disk, up, serving>>
<1>1. Accepts(h, {"PULL"}) /\ UNCHANGED <<disk, up>>
  BY DEF ServePull
<1>2. PICK r \in Requests : r = Head(accept[h]) /\ r = accept[h][1] /\ r.op = "PULL"
  BY <1>1, AcceptsShape
<1>3. r.to \in Ends
  BY RequestFields
<1>4. PICK e : e = [data |-> <<Item("size", -1)>>, ended |-> "eof"]
  OBVIOUS
<1>5. e \in Wires /\ e.data = <<Item("size", -1)>> /\ e.ended = "eof"
  <2>1. Item("size", -1) \in Items
    BY ItemTypes
  <2>2. <<Item("size", -1)>> \in Seq(Items)
    BY <2>1
  <2> QED
    BY <1>4, <2>2 DEF Wires
<1>6. UNCHANGED serving /\ wire' = IF r.to = Gone THEN wire ELSE [wire EXCEPT ![r.to] = e]
  BY <1>2, <1>4 DEF ServePull, Unserved
<1>7. wire' \in [Threads -> Wires] /\ \A t \in Threads : wire'[t] = IF t = r.to THEN e ELSE wire[t]
  BY <1>3, <1>5, <1>6, ThreadsAssumption DEF ServerInv, Ends
<1> QED
  BY <1>1, <1>2, <1>3, <1>5, <1>6, <1>7

LEMMA SendNextShape ==
  ASSUME ServerInv, WireInv, NEW h \in Hosts, SendNext(h)
  PROVE  \E t \in Threads, item \in Items, s \in Servings :
           /\ up[h] /\ t = serving[h].to /\ Send(t, item) /\ Len(wire[t].data) < SockCap
           /\ serving[h].op \in {"LIST", "PULL"} /\ item.kind = IF serving[h].op = "LIST" THEN "name" ELSE "block"
           /\ s = [serving[h] EXCEPT !.at = serving[h].at + 1]
           /\ s.op = serving[h].op /\ s.to = t /\ s.loc = serving[h].loc /\ s.at = serving[h].at + 1
           /\ s.op = "PULL" => s.file = serving[h].file
           /\ serving' \in [Hosts -> Servings] /\ serving'[h] = s
           /\ \A k \in Hosts : k # h => serving'[k] = serving[k]
           /\ UNCHANGED <<disk, up, accept>>
<1>1. /\ up[h] /\ HasMore(serving[h]) /\ serving[h].to # Gone /\ HasRoom(serving[h].to)
      /\ Send(serving[h].to, Answer(serving[h])[serving[h].at + 1]) /\ UNCHANGED <<disk, up, accept>>
  BY DEF SendNext
<1>2. PICK r \in Servings : r = serving[h]
  BY DEF ServerInv
<1>3. r.to \in Threads /\ r.at \in Nat
  BY <1>1, <1>2, ServingFields DEF Ends
<1>4. PICK item \in Items : item = Answer(r)[r.at + 1] /\ r.op \in {"LIST", "PULL"} /\ item.kind = IF r.op = "LIST" THEN "name" ELSE "block"
  BY <1>1, <1>2, AnswerType
<1>5. PICK s : s = [r EXCEPT !.at = r.at + 1]
  OBVIOUS
<1>6. s \in Servings /\ s.op = r.op /\ s.to = r.to /\ s.loc = r.loc /\ s.at = r.at + 1 /\ (s.op = "PULL" => s.file = r.file)
  <2>1. CASE r.op = "PULL"
    <3>1. r \in PullsServed
      BY <2>1, ServingFields
    <3> QED
      BY <1>3, <1>5, <3>1 DEF PullsServed, Servings
  <2>2. CASE r.op = "LIST"
    <3>1. r \in ListsServed
      BY <2>2, ServingFields
    <3> QED
      BY <1>3, <1>5, <2>2, <3>1 DEF ListsServed, Servings
  <2> QED
    BY <1>4, <2>1, <2>2
<1>7. serving' = [serving EXCEPT ![h] = s]
  BY <1>2, <1>5 DEF SendNext, ServerInv
<1>8. serving' \in [Hosts -> Servings] /\ serving'[h] = s /\ \A k \in Hosts : k # h => serving'[k] = serving[k]
  BY <1>6, <1>7 DEF ServerInv
<1>9. Send(r.to, item) /\ Len(wire[r.to].data) < SockCap
  BY <1>1, <1>2, <1>4 DEF HasRoom
<1> QED
  BY <1>1, <1>2, <1>3, <1>4, <1>5, <1>6, <1>8, <1>9

LEMMA CloseShape ==
  ASSUME ServerInv, NEW h \in Hosts, CloseConnection(h)
  PROVE  \E t \in Ends :
           /\ up[h] /\ t = serving[h].to /\ ~HasMore(serving[h]) /\ serving[h] # Closed
           /\ wire' \in [Threads -> Wires]
           /\ \A u \in Threads : wire'[u].data = wire[u].data
           /\ \A u \in Threads : u # t => wire'[u] = wire[u]
           /\ \A u \in Threads : u = t => wire'[u].ended = "eof"
           /\ serving' \in [Hosts -> Servings] /\ serving'[h] = Closed
           /\ \A k \in Hosts : k # h => serving'[k] = serving[k]
           /\ UNCHANGED <<disk, up, accept>>
<1>1. up[h] /\ ~HasMore(serving[h]) /\ serving[h] # Closed /\ End(serving[h].to) /\ UNCHANGED <<disk, up, accept>>
  BY DEF CloseConnection
<1>2. PICK t \in Ends : t = serving[h].to
  BY ServingFields DEF ServerInv
<1>3. serving' = [serving EXCEPT ![h] = Closed] /\ Closed \in Servings
  BY DEF CloseConnection, Servings
<1>4. serving' \in [Hosts -> Servings] /\ serving'[h] = Closed /\ \A k \in Hosts : k # h => serving'[k] = serving[k]
  BY <1>3 DEF ServerInv
<1>5. CASE t = Gone
  <2>1. UNCHANGED wire /\ t \notin Threads
    BY <1>1, <1>2, <1>5, ThreadsAssumption DEF End
  <2> QED
    BY <1>1, <1>2, <1>4, <2>1 DEF ServerInv
<1>6. CASE t # Gone
  <2>1. t \in Threads /\ wire' = [wire EXCEPT ![t].ended = "eof"]
    BY <1>1, <1>2, <1>6 DEF End, Ends
  <2>2. PICK e : e = [wire[t] EXCEPT !.ended = "eof"]
    OBVIOUS
  <2>3. e \in Wires /\ e.data = wire[t].data /\ e.ended = "eof"
    BY <2>1, <2>2 DEF ServerInv, Wires
  <2>4. wire' = [wire EXCEPT ![t] = e]
    BY <2>1, <2>2
  <2>5. wire' \in [Threads -> Wires] /\ wire'[t] = e /\ \A u \in Threads : u # t => wire'[u] = wire[u]
    BY <2>1, <2>3, <2>4 DEF ServerInv
  <2> QED
    BY <1>1, <1>2, <1>4, <2>1, <2>3, <2>5
<1> QED
  BY <1>5, <1>6

LEMMA SendNowhereShape ==
  ASSUME ServerInv, WireInv, NEW h \in Hosts, SendNowhere(h)
  PROVE  \E s \in Servings :
           /\ up[h] /\ s.op = serving[h].op /\ s.to = Gone /\ serving[h].to = Gone
           /\ s.op = "PULL" => s.loc = serving[h].loc /\ s.file = serving[h].file
           /\ serving' \in [Hosts -> Servings] /\ serving'[h] = s
           /\ \A k \in Hosts : k # h => serving'[k] = serving[k]
           /\ UNCHANGED <<disk, up, accept, wire>>
<1>1. up[h] /\ HasMore(serving[h]) /\ serving[h].to = Gone /\ UNCHANGED <<disk, up, accept, wire>>
  BY DEF SendNowhere
<1>2. PICK r \in Servings : r = serving[h] /\ r.op \in {"LIST", "PULL"}
  BY <1>1, AnswerType DEF ServerInv
<1>3. PICK s : s = [r EXCEPT !.at = r.at + 1]
  OBVIOUS
<1>4. s \in Servings /\ s.op = r.op /\ s.to = r.to /\ (s.op = "PULL" => s.loc = r.loc /\ s.file = r.file)
  <2>1. CASE r.op = "PULL"
    <3>1. r \in PullsServed
      BY <2>1, ServingFields
    <3> QED
      BY <1>3, <3>1 DEF PullsServed, Servings
  <2>2. CASE r.op = "LIST"
    <3>1. r \in ListsServed
      BY <2>2, ServingFields
    <3> QED
      BY <1>3, <2>2, <3>1 DEF ListsServed, Servings
  <2> QED
    BY <1>2, <2>1, <2>2
<1>5. serving' = [serving EXCEPT ![h] = s]
  BY <1>2, <1>3 DEF SendNowhere, ServerInv
<1>6. serving' \in [Hosts -> Servings] /\ serving'[h] = s /\ \A k \in Hosts : k # h => serving'[k] = serving[k]
  BY <1>4, <1>5 DEF ServerInv
<1> QED
  BY <1>1, <1>2, <1>4, <1>6

LEMMA SkipRemovedShape ==
  ASSUME ServerInv, NEW h \in Hosts, SkipRemoved(h)
  PROVE  \E s \in Servings :
           /\ up[h] /\ s.op = "LIST" /\ serving[h].op = "LIST" /\ s.to = serving[h].to /\ s.loc = serving[h].loc
           /\ serving' \in [Hosts -> Servings] /\ serving'[h] = s
           /\ \A k \in Hosts : k # h => serving'[k] = serving[k]
           /\ UNCHANGED <<disk, up, accept, wire>>
<1>1. up[h] /\ serving[h].op = "LIST" /\ UNCHANGED <<disk, up, accept, wire>>
  BY DEF SkipRemoved
<1>2. PICK r \in ListsServed : r = serving[h]
  BY <1>1, ServingFields DEF ServerInv
<1>3. PICK s : s = [r EXCEPT !.at = r.at + 1]
  OBVIOUS
<1>4. s \in Servings /\ s.op = "LIST" /\ s.to = r.to /\ s.loc = r.loc
  BY <1>3 DEF ListsServed, Servings
<1>5. serving' = [serving EXCEPT ![h] = s]
  BY <1>2, <1>3 DEF SkipRemoved, ServerInv
<1>6. serving' \in [Hosts -> Servings] /\ serving'[h] = s /\ \A k \in Hosts : k # h => serving'[k] = serving[k]
  BY <1>4, <1>5 DEF ServerInv
<1> QED
  BY <1>1, <1>2, <1>4, <1>6

LEMMA BrokenShape ==
  ASSUME ServerInv, NEW h \in Hosts, BrokenPipe(h)
  PROVE  /\ up \in [Hosts -> BOOLEAN] /\ up' = [up EXCEPT ![h] = FALSE]
         /\ accept' \in [Hosts -> Seq(Requests)] /\ accept'[h] = <<>>
         /\ \A k \in Hosts : k # h => accept'[k] = accept[k]
         /\ serving' \in [Hosts -> Servings] /\ serving'[h] = Closed
         /\ \A k \in Hosts : k # h => serving'[k] = serving[k]
         /\ wire' \in [Threads -> Wires]
         /\ \A t \in Threads : wire'[t].data = wire[t].data /\ (t \notin Awaited(h) => wire'[t] = wire[t])
         /\ \A t \in Awaited(h) : \E i \in 0 .. Len(accept[h]) : Line(h, i).to = t
         /\ UNCHANGED disk
<1>1. /\ up' = [up EXCEPT ![h] = FALSE] /\ accept' = [accept EXCEPT ![h] = <<>>] /\ serving' = [serving EXCEPT ![h] = Closed]
      /\ wire' = [t \in Threads |-> IF t \in Awaited(h) THEN [wire[t] EXCEPT !.ended = "reset"] ELSE wire[t]]
      /\ UNCHANGED disk
  BY DEF BrokenPipe
<1>2. Closed \in Servings /\ <<>> \in Seq(Requests)
  BY DEF Servings
<1>3. /\ accept' \in [Hosts -> Seq(Requests)] /\ accept'[h] = <<>> /\ \A k \in Hosts : k # h => accept'[k] = accept[k]
      /\ serving' \in [Hosts -> Servings] /\ serving'[h] = Closed /\ \A k \in Hosts : k # h => serving'[k] = serving[k]
  BY <1>1, <1>2 DEF ServerInv
<1>4. ASSUME NEW t \in Threads PROVE [wire[t] EXCEPT !.ended = "reset"] \in Wires /\ [wire[t] EXCEPT !.ended = "reset"].data = wire[t].data
  BY DEF ServerInv, Wires
<1>5. /\ wire' \in [Threads -> Wires]
      /\ \A t \in Threads : wire'[t].data = wire[t].data /\ (t \notin Awaited(h) => wire'[t] = wire[t])
  BY <1>1, <1>4 DEF ServerInv
<1>6. ASSUME NEW t \in Awaited(h) PROVE \E i \in 0 .. Len(accept[h]) : Line(h, i).to = t
  <2>1. PICK r \in ToSet(accept[h]) \cup {serving[h]} : t = r.to
    BY <1>6 DEF Awaited
  <2>2. PICK q \in Seq(Requests) : q = accept[h]
    BY DEF ServerInv
  <2>3. Len(q) \in Nat /\ DOMAIN q = 1 .. Len(q)
    BY <2>2
  <2>4. CASE r = serving[h]
    <3>1. 0 \in 0 .. Len(accept[h]) /\ Line(h, 0) = serving[h]
      BY <2>2, <2>3 DEF Line
    <3> QED
      BY <2>1, <2>4, <3>1
  <2>5. CASE r \in ToSet(accept[h])
    <3>1. PICK i \in DOMAIN q : r = q[i]
      BY <2>2, <2>5 DEF ToSet
    <3>2. i \in 0 .. Len(accept[h]) /\ i # 0
      BY <2>2, <2>3, <3>1
    <3>3. Line(h, i) = r
      BY <2>2, <3>1, <3>2 DEF Line
    <3> QED
      BY <2>1, <3>2, <3>3
  <2> QED
    BY <2>1, <2>4, <2>5
<1> QED
  BY <1>1, <1>3, <1>5, <1>6 DEF ServerInv

LEMMA ClientTypes ==
  ASSUME ServerInv, WireInv, Asking, NEW h \in Hosts, ClientStep(h)
  PROVE  ServerInv'
<1>0. SockCap \in Nat /\ \A k \in Hosts : Len(accept[k]) <= Backlog
  BY RoomAssumption DEF ServerInv
<1>1. CASE ServePush(h)
  <2>1. PICK r \in PushRequests :
          /\ Accepts(h, {"PUSH -1", "PUSH n", "PUSH 0"}) /\ disk' \in [Locations -> [Files -> Contents]]
          /\ UNCHANGED <<up, serving, wire>>
    BY <1>1, ServePushShape
  <2> QED
    BY <2>1, AcceptsShape DEF ServerInv
<1>2. CASE ServeList(h)
  <2>1. /\ Accepts(h, {"LIST"}) /\ serving' \in [Hosts -> Servings]
        /\ \A k \in Hosts : k # h => serving'[k] = serving[k]
        /\ UNCHANGED <<disk, up, wire>>
    BY <1>2, ServeListShape
  <2> QED
    BY <2>1, AcceptsShape DEF ServerInv
<1>3. CASE ServePull(h) /\ ~Unserved(h)
  <2>1. PICK r \in Requests, s \in Servings, n \in Nat :
          /\ r = accept[h][1] /\ Accepts(h, {"PULL"}) /\ serving' \in [Hosts -> Servings]
          /\ \A k \in Hosts : k # h => serving'[k] = serving[k]
          /\ IF r.to = Gone THEN UNCHANGED wire ELSE r.to \in Threads /\ Send(r.to, Item("size", n))
          /\ UNCHANGED <<disk, up>>
    BY <1>3, ServePullShape
  <2>2. wire' \in [Threads -> Wires] /\ \A t \in Threads : Len(wire'[t].data) <= SockCap + 1
    <3>1. CASE r.to = Gone
      BY <2>1, <3>1 DEF ServerInv
    <3>2. CASE r.to # Gone
      <4>1. PICK t \in Threads, item \in Items : t = r.to /\ Send(t, item)
        BY <2>1, <3>2, ItemTypes
      <4>2. wire[t] = NoData
        <5>1. Len(accept[h]) \in Nat \ {0}
          BY <2>1, AcceptsShape
        <5>2. 1 \in 0 .. Len(accept[h]) /\ Line(h, 1) = r
          BY <2>1, <5>1 DEF Line
        <5> QED
          BY <4>1, <5>2 DEF Asking
      <4>3. /\ wire' \in [Threads -> Wires] /\ \A u \in Threads : u # t => wire'[u] = wire[u]
            /\ Len(wire'[t].data) = Len(wire[t].data) + 1
        BY <4>1, SendShape
      <4>4. Len(wire'[t].data) <= SockCap + 1
        BY <1>0, <4>2, <4>3, NoDataType
      <4> QED
        BY <4>3, <4>4 DEF ServerInv
    <3> QED
      BY <3>1, <3>2
  <2> QED
    BY <2>1, <2>2, AcceptsShape DEF ServerInv
<1>4. CASE ServePull(h) /\ Unserved(h)
  <2>1. PICK r \in Requests, e \in Wires :
          /\ Accepts(h, {"PULL"}) /\ e.data = <<Item("size", -1)>> /\ wire' \in [Threads -> Wires]
          /\ \A t \in Threads : wire'[t] = IF t = r.to THEN e ELSE wire[t]
          /\ UNCHANGED <<disk, up, serving>>
    BY <1>4, PullFailsShape
  <2>2. Len(e.data) = 1
    BY <2>1
  <2>3. ASSUME NEW t \in Threads PROVE Len(wire'[t].data) <= SockCap + 1
    <3>1. wire'[t] = e \/ wire'[t] = wire[t]
      BY <2>1
    <3>2. Len(wire[t].data) <= SockCap + 1
      BY DEF ServerInv
    <3>3. Len(e.data) <= SockCap + 1
      BY <1>0, <2>2
    <3> QED
      BY <3>1, <3>2, <3>3
  <2> QED
    BY <2>1, <2>3, AcceptsShape DEF ServerInv
<1>5. CASE SendNext(h)
  <2>1. PICK t \in Threads, item \in Items, s \in Servings :
          /\ up[h] /\ Send(t, item) /\ Len(wire[t].data) < SockCap /\ serving' \in [Hosts -> Servings]
          /\ \A k \in Hosts : k # h => serving'[k] = serving[k]
          /\ UNCHANGED <<disk, up, accept>>
    BY <1>5, SendNextShape
  <2>2. /\ wire' \in [Threads -> Wires] /\ Len(wire[t].data) \in Nat /\ Len(wire'[t].data) = Len(wire[t].data) + 1
        /\ \A u \in Threads : u # t => wire'[u] = wire[u]
    BY <2>1, SendShape
  <2>3. Len(wire'[t].data) <= SockCap + 1
    BY <1>0, <2>1, <2>2
  <2> QED
    BY <2>1, <2>2, <2>3 DEF ServerInv
<1>6. CASE CloseConnection(h)
  <2>1. PICK t \in Ends :
          /\ up[h] /\ wire' \in [Threads -> Wires] /\ \A u \in Threads : wire'[u].data = wire[u].data
          /\ serving' \in [Hosts -> Servings] /\ \A k \in Hosts : k # h => serving'[k] = serving[k]
          /\ UNCHANGED <<disk, up, accept>>
    BY <1>6, CloseShape
  <2> QED
    BY <2>1 DEF ServerInv
<1>7. CASE SendNowhere(h)
  <2>1. /\ up[h] /\ serving' \in [Hosts -> Servings] /\ \A k \in Hosts : k # h => serving'[k] = serving[k]
        /\ UNCHANGED <<disk, up, accept, wire>>
    BY <1>7, SendNowhereShape
  <2> QED
    BY <2>1 DEF ServerInv
<1>8. CASE BrokenPipe(h)
  <2>1. /\ accept' \in [Hosts -> Seq(Requests)] /\ accept'[h] = <<>>
        /\ \A k \in Hosts : k # h => accept'[k] = accept[k]
        /\ serving' \in [Hosts -> Servings] /\ serving'[h] = Closed
        /\ \A k \in Hosts : k # h => serving'[k] = serving[k]
        /\ wire' \in [Threads -> Wires] /\ \A t \in Threads : wire'[t].data = wire[t].data
        /\ UNCHANGED disk
    BY <1>8, BrokenShape
  <2>2. up' \in [Hosts -> BOOLEAN] /\ up'[h] = FALSE /\ \A k \in Hosts : k # h => up'[k] = up[k]
    BY <1>8, BrokenShape
  <2>3. Len(accept'[h]) <= Backlog
    BY <2>1, RoomAssumption
  <2> QED
    BY <2>1, <2>2, <2>3 DEF ServerInv
<1>9. CASE SkipRemoved(h)
  <2>1. /\ up[h] /\ serving' \in [Hosts -> Servings] /\ \A k \in Hosts : k # h => serving'[k] = serving[k]
        /\ UNCHANGED <<disk, up, accept, wire>>
    BY <1>9, SkipRemovedShape
  <2> QED
    BY <2>1 DEF ServerInv
<1> QED
  BY <1>1, <1>2, <1>3, <1>4, <1>5, <1>6, <1>7, <1>8, <1>9 DEF ClientStep

-----------------------------------------------------------------------------
(* Requests and connections.  Those a step leaves were there before, each  *)
(* at its server: in the same place, or one further on.                    *)
LEMMA LinesKept ==
  ASSUME Asking, NEW s \in [Hosts -> {0, 1}],
         \A k \in Hosts : Len(accept[k]) \in Nat /\ Len(accept'[k]) \in Nat,
         \A k \in Hosts : \A j \in 0 .. Len(accept'[k]) : \A t \in Threads :
           Line(k, j)'.to = t =>
             /\ j + s[k] <= Len(accept[k])
             /\ Line(k, j + s[k]).to = t /\ Line(k, j)'.op = Line(k, j + s[k]).op
             /\ Line(k, j)'.loc = Line(k, j + s[k]).loc
             /\ Line(k, j)'.op = "PULL" => Line(k, j)'.file = Line(k, j + s[k]).file
             /\ Has(t) => Has(t)' /\ (t \in Workers => held'[t] = held[t])
             /\ j # 0 => wire'[t] = NoData \/ wire'[t] = wire[t]
  PROVE  Asking'
<1>1. ASSUME NEW k \in Hosts, NEW j \in 0 .. Len(accept'[k]), NEW r, r = Line(k, j)', r.to \in Threads
      PROVE  /\ Has(r.to)' /\ Asks(r, r.to)' /\ r.loc.host = k
             /\ j # 0 => wire'[r.to] = NoData
  <2>1. PICK i \in 0 .. Len(accept[k]) : i = j + s[k] /\ (j # 0 => i # 0)
    BY <1>1
  <2>2. PICK t \in Threads : t = r.to /\ t = Line(k, i).to
    BY <1>1, <2>1
  <2>3. /\ r.op = Line(k, i).op /\ r.loc = Line(k, i).loc
        /\ r.op = "PULL" => r.file = Line(k, i).file
        /\ Has(t) => Has(t)'
        /\ t \in Workers /\ Has(t) => held'[t] = held[t]
        /\ j # 0 => wire'[t] = NoData \/ wire'[t] = wire[t]
    BY <1>1, <2>1, <2>2
  <2>4. Has(t) /\ Asks(Line(k, i), t) /\ Line(k, i).loc.host = k /\ (i # 0 => wire[t] = NoData)
    BY <2>2 DEF Asking
  <2>5. Asks(r, t)'
    BY <2>2, <2>3, <2>4 DEF Asks, Threads
  <2> QED
    BY <2>1, <2>2, <2>3, <2>4, <2>5
<1>2. ASSUME NEW k \in Hosts, NEW l \in Hosts, NEW i \in 0 .. Len(accept'[k]), NEW j \in 0 .. Len(accept'[l]),
             Line(k, i)'.to = Line(l, j)'.to, Line(k, i)'.to \in Threads
      PROVE  k = l /\ i = j
  <2>1. PICK a \in 0 .. Len(accept[k]) : a = i + s[k] /\ Line(k, a).to = Line(k, i)'.to
    BY <1>2
  <2>2. PICK b \in 0 .. Len(accept[l]) : b = j + s[l] /\ Line(l, b).to = Line(l, j)'.to
    BY <1>2
  <2>3. k = l /\ a = b
    BY <1>2, <2>1, <2>2 DEF Asking
  <2> QED
    BY <2>1, <2>2, <2>3
<1> QED
  BY <1>1, <1>2 DEF Asking

LEMMA PoppedLines ==
  ASSUME ServerInv, ServerInv', Asking, NEW h \in Hosts, NEW ops, Accepts(h, ops), UNCHANGED <<held, table>>,
         NEW r, r = accept[h][1],
         \A k \in Hosts : k # h => serving'[k] = serving[k],
         \/ serving'[h] = Closed
         \/ serving'[h].to = r.to /\ serving'[h].op = r.op /\ serving'[h].loc = r.loc /\ (r.op = "PULL" => serving'[h].file = r.file),
         \A t \in Threads : wire'[t] = wire[t] \/ t = r.to
  PROVE  Asking'
<1> DEFINE s == [k \in Hosts |-> IF k = h THEN 1 ELSE 0]
<1>1. /\ serving[h] = Closed /\ Len(accept[h]) \in Nat \ {0} /\ Len(accept'[h]) = Len(accept[h]) - 1
      /\ \A i \in 1 .. Len(accept[h]) - 1 : accept'[h][i] = accept[h][i + 1]
      /\ \A k \in Hosts : k # h => accept'[k] = accept[k]
  BY AcceptsShape
<1>2. \A k \in Hosts : Len(accept[k]) \in Nat /\ Len(accept'[k]) \in Nat
  BY DEF ServerInv
<1>3. s \in [Hosts -> {0, 1}]
  OBVIOUS
<1>4. ASSUME NEW k \in Hosts, NEW j \in 0 .. Len(accept'[k]), NEW t \in Threads, Line(k, j)'.to = t
      PROVE  /\ j + s[k] <= Len(accept[k])
             /\ Line(k, j + s[k]).to = t /\ Line(k, j)'.op = Line(k, j + s[k]).op
             /\ Line(k, j)'.loc = Line(k, j + s[k]).loc
             /\ Line(k, j)'.op = "PULL" => Line(k, j)'.file = Line(k, j + s[k]).file
             /\ Has(t) => Has(t)' /\ (t \in Workers => held'[t] = held[t])
             /\ j # 0 => wire'[t] = NoData \/ wire'[t] = wire[t]
  <2>1. Has(t) => Has(t)' /\ (t \in Workers => held'[t] = held[t])
    BY DEF Has
  <2>2. CASE k # h
    <3>1. s[k] = 0 /\ Line(k, j)' = Line(k, j) /\ Len(accept'[k]) = Len(accept[k])
      BY <1>1, <2>2 DEF Line
    <3>2. j + s[k] = j /\ j <= Len(accept[k])
      BY <1>2, <3>1
    <3>3. j # 0 => t # r.to
      <4>1. Line(h, 1) = r /\ 1 \in 0 .. Len(accept[h]) /\ Line(k, j).to = t
        BY <1>1, <1>4, <3>1 DEF Line
      <4> QED
        BY <1>2, <2>2, <3>2, <4>1 DEF Asking
    <3> QED
      BY <1>4, <2>1, <3>1, <3>2, <3>3
  <2>3. CASE k = h /\ j = 0
    <3>1. Line(k, j)' = serving'[h] /\ serving'[h].to = t
      BY <1>4, <2>3 DEF Line
    <3>2. serving'[h] # Closed
      BY <3>1, ThreadsAssumption DEF Closed
    <3>3. s[k] = 1 /\ j + s[k] = 1 /\ Line(k, 1) = r /\ 1 <= Len(accept[k])
      BY <1>1, <2>3 DEF Line
    <3> QED
      BY <2>1, <2>3, <3>1, <3>2, <3>3
  <2>4. CASE k = h /\ j # 0
    <3>1. s[k] = 1 /\ j \in 1 .. Len(accept[h]) - 1
      BY <1>1, <1>4, <2>4
    <3>2. j + 1 \in 1 .. Len(accept[h]) /\ j + 1 # 0 /\ j + 1 # 1
      BY <1>1, <3>1
    <3>3. Line(k, j)' = Line(k, j + 1)
      BY <1>1, <2>4, <3>1, <3>2 DEF Line
    <3>4. t # r.to
      <4>1. Line(h, 1) = r /\ 1 \in 0 .. Len(accept[h]) /\ Line(h, j + 1).to = t /\ j + 1 \in 0 .. Len(accept[h])
        BY <1>1, <1>4, <2>4, <3>2, <3>3 DEF Line
      <4> QED
        BY <3>2, <4>1 DEF Asking
    <3> QED
      BY <1>1, <1>4, <2>1, <2>4, <3>1, <3>2, <3>3, <3>4
  <2> QED
    BY <2>2, <2>3, <2>4
<1> HIDE DEF s
<1> QED
  BY <1>2, <1>3, <1>4, LinesKept

\* The requests stay where they are; a server may have closed the connection it worked on.
LEMMA LinesStay ==
  ASSUME ServerInv, ServerInv', Asking, NEW h \in Hosts, UNCHANGED <<held, table>>,
         \A k \in Hosts : k # h => accept'[k] = accept[k] /\ serving'[k] = serving[k],
         accept'[h] = accept[h] \/ accept'[h] = <<>>,
         \/ serving'[h].to = Gone
         \/ /\ serving'[h].to = serving[h].to /\ serving'[h].op = serving[h].op /\ serving'[h].loc = serving[h].loc
            /\ serving[h].op = "PULL" => serving'[h].file = serving[h].file,
         \A t \in Threads : \/ wire'[t] = wire[t] \/ t = serving[h].to
                            \/ accept'[h] = <<>> /\ \E i \in 0 .. Len(accept[h]) : Line(h, i).to = t
  PROVE  Asking'
<1> DEFINE s == [k \in Hosts |-> 0]
<1>1. \A k \in Hosts : Len(accept[k]) \in Nat /\ Len(accept'[k]) \in Nat
  BY DEF ServerInv
<1>2. s \in [Hosts -> {0, 1}]
  OBVIOUS
<1>3. ASSUME NEW k \in Hosts, NEW j \in 0 .. Len(accept'[k]), NEW t \in Threads, Line(k, j)'.to = t
      PROVE  /\ j + s[k] <= Len(accept[k])
             /\ Line(k, j + s[k]).to = t /\ Line(k, j)'.op = Line(k, j + s[k]).op
             /\ Line(k, j)'.loc = Line(k, j + s[k]).loc
             /\ Line(k, j)'.op = "PULL" => Line(k, j)'.file = Line(k, j + s[k]).file
             /\ Has(t) => Has(t)' /\ (t \in Workers => held'[t] = held[t])
             /\ j # 0 => wire'[t] = NoData \/ wire'[t] = wire[t]
  <2>1. Has(t) => Has(t)' /\ (t \in Workers => held'[t] = held[t])
    BY DEF Has
  <2>2. j + s[k] = j /\ j <= Len(accept[k])
    <3>1. Len(accept'[k]) = Len(accept[k]) \/ Len(accept'[k]) = 0
      <4>1. accept'[k] = accept[k] \/ accept'[k] = <<>>
        OBVIOUS
      <4> QED
        BY <4>1
    <3> QED
      BY <1>1, <3>1
  <2>3. /\ Line(k, j).to = t /\ Line(k, j)'.op = Line(k, j).op /\ Line(k, j)'.loc = Line(k, j).loc
        /\ Line(k, j)'.op = "PULL" => Line(k, j)'.file = Line(k, j).file
    <3>1. CASE k = h /\ j = 0
      BY <1>3, <3>1, ThreadsAssumption DEF Line
    <3>2. CASE k = h /\ j # 0
      <4>1. accept'[h] = accept[h]
        BY <1>3, <3>2
      <4> QED
        BY <1>3, <3>2, <4>1 DEF Line
    <3>3. CASE k # h
      BY <1>3, <3>3 DEF Line
    <3> QED
      BY <3>1, <3>2, <3>3
  <2>4. ASSUME j # 0 PROVE wire'[t] = wire[t]
    <3>1. j \in 0 .. Len(accept[k]) /\ 0 \in 0 .. Len(accept[h]) /\ Line(h, 0) = serving[h]
      BY <1>1, <2>2 DEF Line
    <3>2. t # serving[h].to
      BY <2>3, <2>4, <3>1 DEF Asking
    <3>3. ASSUME accept'[h] = <<>>, NEW i \in 0 .. Len(accept[h]), Line(h, i).to = t PROVE FALSE
      <4>1. k = h
        BY <2>3, <3>1, <3>3 DEF Asking
      <4> QED
        BY <1>3, <2>4, <3>3, <4>1
    <3> QED
      BY <3>2, <3>3
  <2> QED
    BY <2>1, <2>2, <2>3, <2>4
<1> HIDE DEF s
<1> QED
  BY <1>1, <1>2, <1>3, LinesKept

LEMMA WiresKept ==
  ASSUME WireInv, UNCHANGED table,
         \A h \in Hosts : serving'[h].op = "PULL" => disk'[serving'[h].loc][serving'[h].file] # Absent,
         \A t \in Threads : \/ wire'[t] = wire[t]
                            \/ Has(t) /\ \A i \in DOMAIN wire'[t].data : (wire'[t].data[i].kind = "name") = (t = Main)
  PROVE  WireInv'
<1>1. \A t \in Threads : Has(t)' <=> Has(t)
  BY DEF Has
<1> QED
  BY <1>1 DEF WireInv

LEMMA ClientLinks ==
  ASSUME ServerInv, LinkInv, NEW h \in Hosts, ClientStep(h), UNCHANGED <<held, table>>
  PROVE  LinkInv'
<1>1. Asking /\ WireInv /\ ServerInv'
  BY ClientTypes DEF LinkInv
<1>2. \A k \in Hosts : Len(accept[k]) \in Nat
  BY DEF ServerInv
<1>3. Line(h, 0) = serving[h] /\ 0 \in 0 .. Len(accept[h])
  BY <1>2 DEF Line
<1>4. \A i \in 0 .. Len(accept[h]) : Line(h, i).to \in Threads => Has(Line(h, i).to) /\ Asks(Line(h, i), Line(h, i).to)
  BY <1>1 DEF Asking
<1>5. ASSUME NEW r, r = accept[h][1], accept[h] # <<>>, r.to \in Threads PROVE Has(r.to) /\ Asks(r, r.to) /\ wire[r.to] = NoData
  <2>1. 1 \in 0 .. Len(accept[h])
    BY <1>2, <1>5 DEF ServerInv
  <2>2. Line(h, 1) = r
    BY <1>5 DEF Line
  <2> QED
    BY <1>1, <1>5, <2>1, <2>2 DEF Asking
<1>6. \A k \in Hosts : serving[k].op = "PULL" => disk[serving[k].loc][serving[k].file] # Absent
  BY <1>1 DEF WireInv
<1>7. Closed.op = "none" /\ Closed.to = Gone
  BY DEF Closed
<1>8. CASE ServePush(h)
  <2>1. PICK r \in PushRequests :
          /\ r = accept[h][1] /\ Accepts(h, {"PUSH -1", "PUSH n", "PUSH 0"})
          /\ \A l \in Locations, f \in Files : disk[l][f] # Absent => disk'[l][f] # Absent
          /\ UNCHANGED <<up, serving, wire>>
    BY <1>8, ServePushShape
  <2>2. serving[h] = Closed
    BY <2>1, AcceptsShape
  <2>3. Asking'
    BY <1>1, <2>1, <2>2, PoppedLines
  <2>4. \A k \in Hosts : serving'[k].op = "PULL" => disk'[serving'[k].loc][serving'[k].file] # Absent
    BY <1>6, <2>1, ServingFields DEF ServerInv
  <2> QED
    BY <1>1, <2>1, <2>3, <2>4, WiresKept DEF LinkInv
<1>9. CASE ServeList(h)
  <2>1. PICK r \in Requests, s \in Servings :
          /\ r = accept[h][1] /\ Accepts(h, {"LIST"})
          /\ s.op = "LIST" /\ r.op = "LIST" /\ s.to = r.to /\ s.loc = r.loc
          /\ serving'[h] = s
          /\ \A k \in Hosts : k # h => serving'[k] = serving[k]
          /\ UNCHANGED <<disk, up, wire>>
    BY <1>9, ServeListShape
  <2>2. Asking'
    BY <1>1, <2>1, PoppedLines
  <2>3. \A k \in Hosts : serving'[k].op = "PULL" => disk'[serving'[k].loc][serving'[k].file] # Absent
    BY <1>6, <2>1
  <2> QED
    BY <1>1, <2>1, <2>2, <2>3, WiresKept DEF LinkInv
<1>10. CASE ServePull(h) /\ ~Unserved(h)
  <2>1. PICK r \in Requests, s \in Servings, n \in Nat :
          /\ r = accept[h][1] /\ r.op = "PULL" /\ Accepts(h, {"PULL"})
          /\ s = [op |-> "PULL", to |-> r.to, loc |-> r.loc, file |-> r.file, at |-> 0]
          /\ disk[r.loc][r.file] # Absent
          /\ serving'[h] = s
          /\ \A k \in Hosts : k # h => serving'[k] = serving[k]
          /\ IF r.to = Gone THEN UNCHANGED wire ELSE r.to \in Threads /\ Send(r.to, Item("size", n))
          /\ UNCHANGED <<disk, up>>
    BY <1>10, ServePullShape
  <2>2. s.op = "PULL" /\ s.to = r.to /\ s.loc = r.loc /\ s.file = r.file /\ accept[h] # <<>>
    BY <2>1, AcceptsShape
  <2>3. \A t \in Threads : wire'[t] = wire[t] \/ t = r.to
    <3>1. PICK item \in Items : item = Item("size", n)
      BY ItemTypes
    <3>2. UNCHANGED wire \/ (r.to \in Threads /\ Send(r.to, item))
      BY <2>1, <3>1
    <3> QED
      BY <3>2, SendShape
  <2>4. Asking'
    BY <1>1, <2>1, <2>2, <2>3, PoppedLines
  <2>5. \A k \in Hosts : serving'[k].op = "PULL" => disk'[serving'[k].loc][serving'[k].file] # Absent
    BY <1>6, <2>1, <2>2
  <2>6. ASSUME NEW t \in Threads, t = r.to
        PROVE  Has(t) /\ \A i \in DOMAIN wire'[t].data : (wire'[t].data[i].kind = "name") = (t = Main)
    <3>1. Has(t) /\ Asks(r, t) /\ wire[t] = NoData
      BY <1>5, <2>1, <2>2, <2>6
    <3>2. t # Main
      BY <2>1, <3>1 DEF Asks
    <3>3. PICK item \in Items : item.kind = "size" /\ Send(t, item)
      BY <2>1, <2>6, ItemTypes, ThreadsAssumption DEF Item
    <3>4. wire[t].data = <<>>
      BY <3>1, NoDataType
    <3>5. wire'[t].data = <<item>>
      <4>1. wire'[t].data = Append(wire[t].data, item)
        BY <3>3, SendShape
      <4> QED
        BY <3>4, <4>1
    <3> QED
      BY <3>1, <3>2, <3>3, <3>5
  <2> QED
    BY <1>1, <2>3, <2>4, <2>5, <2>6, WiresKept DEF LinkInv
<1>11. CASE ServePull(h) /\ Unserved(h)
  <2>1. PICK r \in Requests, e \in Wires :
          /\ r = accept[h][1] /\ r.op = "PULL" /\ Accepts(h, {"PULL"})
          /\ r.to \in Ends /\ e.data = <<Item("size", -1)>>
          /\ \A t \in Threads : wire'[t] = IF t = r.to THEN e ELSE wire[t]
          /\ UNCHANGED <<disk, up, serving>>
    BY <1>11, PullFailsShape
  <2>2. serving[h] = Closed /\ accept[h] # <<>>
    BY <2>1, AcceptsShape
  <2>3. Asking'
    BY <1>1, <2>1, <2>2, PoppedLines
  <2>4. ASSUME NEW t \in Threads, t = r.to
        PROVE  Has(t) /\ \A i \in DOMAIN wire'[t].data : (wire'[t].data[i].kind = "name") = (t = Main)
    <3>1. Has(t) /\ Asks(r, t)
      BY <1>5, <2>1, <2>2, <2>4
    <3>2. t # Main
      BY <2>1, <3>1 DEF Asks
    <3>3. wire'[t].data = <<Item("size", -1)>> /\ Item("size", -1).kind = "size"
      BY <2>1, <2>4 DEF Item
    <3> QED
      BY <3>1, <3>2, <3>3
  <2>5. \A t \in Threads : wire'[t] = wire[t] \/ t = r.to
    BY <2>1
  <2> QED
    BY <1>1, <1>6, <2>1, <2>3, <2>4, <2>5, WiresKept DEF LinkInv
<1>12. CASE SendNext(h)
  <2>1. PICK t \in Threads, item \in Items, s \in Servings :
          /\ t = serving[h].to /\ Send(t, item)
          /\ serving[h].op \in {"LIST", "PULL"} /\ item.kind = IF serving[h].op = "LIST" THEN "name" ELSE "block"
          /\ s.op = serving[h].op /\ s.to = t /\ s.loc = serving[h].loc
          /\ s.op = "PULL" => s.file = serving[h].file
          /\ serving'[h] = s
          /\ \A k \in Hosts : k # h => serving'[k] = serving[k]
          /\ UNCHANGED <<disk, up, accept>>
    BY <1>1, <1>12, SendNextShape
  <2>2. \A u \in Threads : wire'[u] = wire[u] \/ u = t
    BY <2>1, SendShape
  <2>3. Asking'
    BY <1>1, <2>1, <2>2, LinesStay
  <2>4. \A k \in Hosts : serving'[k].op = "PULL" => disk'[serving'[k].loc][serving'[k].file] # Absent
    BY <1>6, <2>1
  <2>5. Has(t) /\ Asks(serving[h], t)
    BY <1>3, <1>4, <2>1
  <2>6. (item.kind = "name") = (t = Main)
    BY <2>1, <2>5 DEF Asks
  <2>7. \A i \in DOMAIN wire'[t].data : (wire'[t].data[i].kind = "name") = (t = Main)
    <3>1. /\ wire[t].data \in Seq(Items) /\ wire'[t].data = Append(wire[t].data, item)
          /\ \A i \in 1 .. Len(wire[t].data) : wire'[t].data[i] = wire[t].data[i]
          /\ wire'[t].data[Len(wire[t].data) + 1] = item
      BY <2>1, SendShape
    <3>2. PICK d \in Seq(Items) : d = wire[t].data
      BY <3>1
    <3>3. DOMAIN wire'[t].data = 1 .. Len(d) + 1 /\ DOMAIN d = 1 .. Len(d) /\ Len(d) \in Nat
      BY <3>1, <3>2
    <3>4. \A i \in 1 .. Len(d) : (d[i].kind = "name") = (t = Main)
      BY <1>1, <3>2, <3>3 DEF WireInv
    <3> TAKE i \in DOMAIN wire'[t].data
    <3>5. i \in 1 .. Len(d) \/ i = Len(d) + 1
      BY <3>3
    <3> QED
      BY <2>6, <3>1, <3>2, <3>4, <3>5
  <2> QED
    BY <1>1, <2>2, <2>3, <2>4, <2>5, <2>7, WiresKept DEF LinkInv
<1>13. CASE CloseConnection(h)
  <2>1. PICK t \in Ends :
          /\ t = serving[h].to
          /\ \A u \in Threads : wire'[u].data = wire[u].data
          /\ \A u \in Threads : u # t => wire'[u] = wire[u]
          /\ serving'[h] = Closed
          /\ \A k \in Hosts : k # h => serving'[k] = serving[k]
          /\ UNCHANGED <<disk, up, accept>>
    BY <1>13, CloseShape
  <2>2. Asking'
    BY <1>1, <1>7, <2>1, LinesStay
  <2>3. \A k \in Hosts : serving'[k].op = "PULL" => disk'[serving'[k].loc][serving'[k].file] # Absent
    BY <1>6, <1>7, <2>1
  <2>4. ASSUME NEW u \in Threads, u = t
        PROVE  Has(u) /\ \A i \in DOMAIN wire'[u].data : (wire'[u].data[i].kind = "name") = (u = Main)
    BY <1>1, <1>3, <1>4, <2>1, <2>4 DEF WireInv
  <2>5. \A u \in Threads : wire'[u] = wire[u] \/ u = t
    BY <2>1
  <2> QED
    BY <1>1, <2>2, <2>3, <2>4, <2>5, WiresKept DEF LinkInv
<1>14. CASE SendNowhere(h)
  <2>1. PICK s \in Servings :
          /\ s.op = serving[h].op /\ s.to = Gone
          /\ s.op = "PULL" => s.loc = serving[h].loc /\ s.file = serving[h].file
          /\ serving'[h] = s
          /\ \A k \in Hosts : k # h => serving'[k] = serving[k]
          /\ UNCHANGED <<disk, up, accept, wire>>
    BY <1>1, <1>14, SendNowhereShape
  <2>2. Asking'
    BY <1>1, <2>1, LinesStay
  <2>3. \A k \in Hosts : serving'[k].op = "PULL" => disk'[serving'[k].loc][serving'[k].file] # Absent
    BY <1>6, <2>1
  <2> QED
    BY <1>1, <2>1, <2>2, <2>3, WiresKept DEF LinkInv
<1>15. CASE BrokenPipe(h)
  <2>1. /\ accept'[h] = <<>>
        /\ \A k \in Hosts : k # h => accept'[k] = accept[k] /\ serving'[k] = serving[k]
        /\ serving'[h] = Closed
        /\ \A t \in Threads : wire'[t].data = wire[t].data /\ (t \notin Awaited(h) => wire'[t] = wire[t])
        /\ \A t \in Awaited(h) : \E i \in 0 .. Len(accept[h]) : Line(h, i).to = t
        /\ UNCHANGED disk
    BY <1>15, BrokenShape
  <2>2. Asking'
    BY <1>1, <1>7, <2>1, LinesStay
  <2>3. \A k \in Hosts : serving'[k].op = "PULL" => disk'[serving'[k].loc][serving'[k].file] # Absent
    BY <1>6, <1>7, <2>1
  <2>4. ASSUME NEW u \in Threads, wire'[u] # wire[u]
        PROVE  Has(u) /\ \A i \in DOMAIN wire'[u].data : (wire'[u].data[i].kind = "name") = (u = Main)
    <3>1. PICK i \in 0 .. Len(accept[h]) : Line(h, i).to = u
      BY <2>1, <2>4
    <3> QED
      BY <1>1, <1>4, <2>1, <3>1 DEF WireInv
  <2> QED
    BY <1>1, <2>2, <2>3, <2>4, WiresKept DEF LinkInv
<1>16. CASE SkipRemoved(h)
  <2>1. PICK s \in Servings :
          /\ s.op = "LIST" /\ serving[h].op = "LIST" /\ s.to = serving[h].to /\ s.loc = serving[h].loc
          /\ serving'[h] = s
          /\ \A k \in Hosts : k # h => serving'[k] = serving[k]
          /\ UNCHANGED <<disk, up, accept, wire>>
    BY <1>1, <1>16, SkipRemovedShape
  <2>2. Asking'
    BY <1>1, <2>1, LinesStay
  <2>3. \A k \in Hosts : serving'[k].op = "PULL" => disk'[serving'[k].loc][serving'[k].file] # Absent
    BY <1>6, <2>1
  <2> QED
    BY <1>1, <2>1, <2>2, <2>3, WiresKept DEF LinkInv
<1> QED
  BY <1>8, <1>9, <1>10, <1>11, <1>12, <1>13, <1>14, <1>15, <1>16 DEF ClientStep

-----------------------------------------------------------------------------
(* What the steps of the manager do to the requests and connections.       *)

LEMMA LinesAllStay ==
  ASSUME ServerInv, Asking, UNCHANGED <<accept, serving, wire>>,
         \A t \in Threads : Has(t)' <=> Has(t),
         \A w \in Workers : Has(w) => held'[w] = held[w]
  PROVE  Asking'
<1> DEFINE s == [k \in Hosts |-> 0]
<1>1. s \in [Hosts -> {0, 1}]
  OBVIOUS
<1>2. \A k \in Hosts : Len(accept[k]) \in Nat /\ Len(accept'[k]) \in Nat
  BY DEF ServerInv
<1>3. \A k \in Hosts : \A j \in 0 .. Len(accept'[k]) : j + s[k] = j /\ j <= Len(accept[k]) /\ Line(k, j)' = Line(k, j)
  BY <1>2 DEF Line
<1> HIDE DEF s
<1> QED
  BY <1>1, <1>2, <1>3, LinesKept

LEMMA LinksSame ==
  ASSUME ServerInv, LinkInv, UNCHANGED servers,
         \A t \in Threads : Has(t)' <=> Has(t),
         \A w \in Workers : Has(w) => held'[w] = held[w]
  PROVE  LinkInv'
<1>1. UNCHANGED <<disk, up, accept, serving, wire>>
  BY DEF servers
<1>2. Asking'
  BY <1>1, LinesAllStay DEF LinkInv
<1>3. WireInv'
  BY <1>1 DEF LinkInv, WireInv
<1> QED
  BY <1>2, <1>3 DEF LinkInv

LEMMA LinksTaken ==
  ASSUME ServerInv, LinkInv, NEW t, Readable(t), Take(t), UNCHANGED <<disk, up, accept, serving, held>>,
         \A u \in Threads : Has(u)' <=> Has(u)
  PROVE  LinkInv'
<1> DEFINE s == [k \in Hosts |-> 0]
<1>1. PICK x \in Threads :
        /\ wire[x].data # <<>> /\ wire[x].data \in Seq(Items)
        /\ wire'[x] = [data |-> Tail(wire[x].data), ended |-> wire[x].ended]
        /\ \A u \in Threads : u # x => wire'[u] = wire[u]
  BY TakeShape
<1>2. \A k \in Hosts : Len(accept[k]) \in Nat /\ Len(accept'[k]) \in Nat
  BY DEF ServerInv
<1>3. Asking /\ WireInv /\ s \in [Hosts -> {0, 1}] /\ wire[x] # NoData
  BY <1>1, NoDataType DEF LinkInv
<1>4. \A k \in Hosts : \A j \in 0 .. Len(accept'[k]) :
        j + s[k] = j /\ j <= Len(accept[k]) /\ Line(k, j)' = Line(k, j) /\ (j # 0 => Line(k, j).to # x)
  BY <1>2, <1>3 DEF Line, Asking
<1>5. Asking'
  <2> HIDE DEF s
  <2> QED
    BY <1>1, <1>2, <1>3, <1>4, LinesKept
<1>6. \A i \in DOMAIN wire'[x].data : (wire'[x].data[i].kind = "name") = (x = Main)
  <2>1. PICK d \in Seq(Items) : d = wire[x].data /\ d # <<>> /\ wire'[x].data = Tail(d)
    BY <1>1
  <2>2. \A i \in DOMAIN Tail(d) : i + 1 \in DOMAIN d /\ Tail(d)[i] = d[i + 1]
    BY <2>1
  <2> QED
    BY <1>3, <2>1, <2>2 DEF WireInv
<1>7. Has(x)
  BY <1>3 DEF WireInv
<1>8. ASSUME NEW u \in Threads
      PROVE  /\ ~Has(u)' => wire'[u] = NoData
             /\ \A i \in DOMAIN wire'[u].data : (wire'[u].data[i].kind = "name") = (u = Main)
  <2>1. CASE u = x
    BY <1>6, <1>7, <2>1
  <2>2. CASE u # x
    BY <1>1, <1>3, <2>2 DEF WireInv
  <2> QED
    BY <2>1, <2>2
<1>9. WireInv'
  BY <1>3, <1>8 DEF WireInv
<1> QED
  BY <1>5, <1>9 DEF LinkInv

LEMMA LinksReset ==
  ASSUME ServerInv, LinkInv, NEW t, SeeReset(t), wire' # wire, UNCHANGED <<disk, up, accept, serving, held>>,
         \A u \in Threads : Has(u)' <=> Has(u)
  PROVE  LinkInv'
<1> DEFINE s == [k \in Hosts |-> 0]
<1>1. PICK x \in Threads :
        /\ wire[x].ended = "reset" /\ wire'[x] = [data |-> <<>>, ended |-> "eof"]
        /\ \A u \in Threads : u # x => wire'[u] = wire[u]
  BY ResetShape
<1>2. \A k \in Hosts : Len(accept[k]) \in Nat /\ Len(accept'[k]) \in Nat
  BY DEF ServerInv
<1>3. Asking /\ WireInv /\ s \in [Hosts -> {0, 1}] /\ wire[x] # NoData
  BY <1>1, NoDataType DEF LinkInv
<1>4. \A k \in Hosts : \A j \in 0 .. Len(accept'[k]) :
        j + s[k] = j /\ j <= Len(accept[k]) /\ Line(k, j)' = Line(k, j) /\ (j # 0 => Line(k, j).to # x)
  BY <1>2, <1>3 DEF Line, Asking
<1>5. Asking'
  <2> HIDE DEF s
  <2> QED
    BY <1>1, <1>2, <1>3, <1>4, LinesKept
<1>6. DOMAIN wire'[x].data = {}
  <2>1. DOMAIN <<>> = {}
    OBVIOUS
  <2> QED
    BY <1>1, <2>1
<1>7. Has(x)
  BY <1>3 DEF WireInv
<1>8. ASSUME NEW u \in Threads
      PROVE  /\ ~Has(u)' => wire'[u] = NoData
             /\ \A i \in DOMAIN wire'[u].data : (wire'[u].data[i].kind = "name") = (u = Main)
  <2>1. CASE u = x
    BY <1>6, <1>7, <2>1
  <2>2. CASE u # x
    BY <1>1, <1>3, <2>2 DEF WireInv
  <2> QED
    BY <2>1, <2>2
<1>9. WireInv'
  BY <1>3, <1>8 DEF WireInv
<1> QED
  BY <1>5, <1>9 DEF LinkInv

\* What a read does to the streams.
ReadsFrom(t) == UNCHANGED wire \/ (Readable(t) /\ Take(t)) \/ SeeReset(t)

LEMMA LinksRead ==
  ASSUME ServerInv, LinkInv, NEW t, ReadsFrom(t), UNCHANGED <<disk, up, accept, serving, held>>,
         \A u \in Threads : Has(u)' <=> Has(u)
  PROVE  ServerInv' /\ LinkInv'
<1>1. CASE UNCHANGED wire
  BY <1>1, LinksSame DEF servers, ServerInv
<1>2. CASE Readable(t) /\ Take(t)
  BY <1>2, TakeTypes, LinksTaken
<1>3. CASE SeeReset(t) /\ wire' # wire
  BY <1>3, ResetTypes, LinksReset
<1> QED
  BY <1>1, <1>2, <1>3 DEF ReadsFrom

\* x's connection is closed, and perhaps a request added that nobody waits for.
LEMMA LinksHungUp ==
  ASSUME ServerInv, ServerInv', LinkInv, NEW x,
         \A k \in Hosts : /\ \A i \in 1 .. Len(accept[k]) : accept'[k][i] = HungUp(accept[k][i], x)
                          /\ \A i \in 1 .. Len(accept'[k]) : i > Len(accept[k]) => accept'[k][i].to = Gone,
         serving' = ServingAfterClose(x), wire' = WireAfterClose(x), UNCHANGED <<disk, up>>,
         \A u \in Threads : Has(u)' <=> (Has(u) /\ u # x),
         \A w \in Workers : Has(w) /\ w # x => held'[w] = held[w]
  PROVE  LinkInv'
<1> DEFINE s == [k \in Hosts |-> 0]
<1>1. \A k \in Hosts : Len(accept[k]) \in Nat /\ Len(accept'[k]) \in Nat
  BY DEF ServerInv
<1>2. Asking /\ WireInv /\ s \in [Hosts -> {0, 1}] /\ Gone \notin Threads
  BY ThreadsAssumption DEF LinkInv
<1>3. \A k \in Hosts : serving'[k] = HungUp(serving[k], x) /\ serving[k] \in Servings
  BY HangUpShape DEF ServerInv
<1>4. \A u \in Threads : wire'[u] = IF u = x THEN NoData ELSE wire[u]
  BY HangUpShape
<1>5. ASSUME NEW k \in Hosts, NEW j \in 0 .. Len(accept'[k]), NEW t \in Threads, Line(k, j)'.to = t
      PROVE  /\ j + s[k] <= Len(accept[k])
             /\ Line(k, j + s[k]).to = t /\ Line(k, j)'.op = Line(k, j + s[k]).op
             /\ Line(k, j)'.loc = Line(k, j + s[k]).loc
             /\ Line(k, j)'.op = "PULL" => Line(k, j)'.file = Line(k, j + s[k]).file
             /\ Has(t) => Has(t)' /\ (t \in Workers => held'[t] = held[t])
             /\ j # 0 => wire'[t] = NoData \/ wire'[t] = wire[t]
  <2>1. j + s[k] = j
    OBVIOUS
  <2>2. CASE j = 0
    <3>1. Line(k, j)' = HungUp(serving[k], x) /\ Line(k, j) = serving[k] /\ serving[k] \in Servings
      BY <1>3, <2>2 DEF Line
    <3>2. HungUp(serving[k], x).to = t
      BY <1>5, <3>1
    <3>3. /\ serving[k].to = t /\ t # x /\ serving[k].op # "none"
          /\ HungUp(serving[k], x).op = serving[k].op /\ HungUp(serving[k], x).loc = serving[k].loc
          /\ serving[k].op = "PULL" => HungUp(serving[k], x).file = serving[k].file
      BY <1>2, <3>1, <3>2, HungUpServing, ServingFields
    <3> QED
      BY <1>1, <2>1, <2>2, <3>1, <3>3
  <2>3. CASE j # 0
    <3>1. j <= Len(accept[k])
      <4>1. accept'[k][j].to = t /\ j \in 1 .. Len(accept'[k])
        BY <1>5, <2>3 DEF Line
      <4> QED
        BY <1>1, <1>2, <4>1
    <3>2. j \in 1 .. Len(accept[k]) /\ accept[k][j] \in Requests
      BY <1>1, <2>3, <3>1 DEF ServerInv
    <3>3. PICK r \in Requests : r = accept[k][j] /\ Line(k, j)' = HungUp(r, x) /\ Line(k, j) = r
      BY <2>3, <3>2 DEF Line
    <3>4. HungUp(r, x).to = t
      BY <1>5, <3>3
    <3>5. /\ r.to = t /\ t # x /\ HungUp(r, x).op = r.op /\ HungUp(r, x).loc = r.loc
          /\ r.op = "PULL" => HungUp(r, x).file = r.file
      BY <1>2, <3>4, HungUpRequest
    <3> QED
      BY <1>4, <2>1, <3>1, <3>3, <3>5
  <2> QED
    BY <2>2, <2>3
<1>6. Asking'
  <2> HIDE DEF s
  <2> QED
    BY <1>1, <1>2, <1>5, LinesKept
<1>7. \A k \in Hosts : serving'[k].op = "PULL" => disk'[serving'[k].loc][serving'[k].file] # Absent
  <2> TAKE k \in Hosts
  <2>1. serving'[k].op = serving[k].op /\ (serving[k].op = "PULL" => serving'[k].loc = serving[k].loc /\ serving'[k].file = serving[k].file)
    BY <1>3, HungUpServing
  <2> QED
    BY <1>2, <2>1 DEF WireInv
<1>8. ASSUME NEW u \in Threads
      PROVE  /\ ~Has(u)' => wire'[u] = NoData
             /\ \A i \in DOMAIN wire'[u].data : (wire'[u].data[i].kind = "name") = (u = Main)
  <2>1. CASE wire'[u] = NoData
    <3>1. wire'[u].data = <<>>
      BY <2>1, NoDataType
    <3> QED
      BY <2>1, <3>1
  <2>2. CASE u # x /\ wire'[u] = wire[u]
    BY <1>2, <2>2 DEF WireInv
  <2> QED
    BY <1>4, <2>1, <2>2
<1>9. WireInv'
  BY <1>7, <1>8 DEF WireInv
<1> QED
  BY <1>6, <1>9 DEF LinkInv

\* A request is written: by nobody who waits for an answer, or over a new connection.
LEMMA LinksRequested ==
  ASSUME ServerInv, LinkInv, NEW h \in Hosts, NEW r \in Requests, Request(h, r), UNCHANGED <<disk, up, serving, wire>>,
         r.to \in Threads => ~Has(r.to) /\ Has(r.to)' /\ Asks(r, r.to)' /\ r.loc.host = h,
         \A u \in Threads : Has(u)' <=> (Has(u) \/ u = r.to), UNCHANGED held
  PROVE  LinkInv'
<1>1. Asking /\ WireInv
  BY DEF LinkInv
<1>2. PICK q \in Seq(Requests), n \in Nat : q = accept[h] /\ n = Len(q)
  BY DEF ServerInv
<1>3. PICK p \in Seq(Requests) :
        /\ accept'[h] = p /\ \A k \in Hosts : k # h => accept'[k] = accept[k]
        /\ Len(p) = n + 1 /\ p[n + 1] = r /\ \A i \in 1 .. n : p[i] = q[i]
  <2>1. PICK p : p = Append(q, r)
    OBVIOUS
  <2>2. p \in Seq(Requests) /\ Len(p) = n + 1 /\ p[n + 1] = r /\ \A i \in 1 .. n : p[i] = q[i]
    BY <1>2, <2>1, AppendedRequest
  <2>3. accept' = [accept EXCEPT ![h] = p]
    BY <1>2, <2>1 DEF Request
  <2> QED
    BY <2>2, <2>3 DEF ServerInv
<1>4. ASSUME NEW k \in Hosts, NEW j \in 0 .. Len(accept'[k]), k # h \/ j # n + 1
      PROVE  j \in 0 .. Len(accept[k]) /\ Line(k, j)' = Line(k, j)
  <2>1. CASE k # h
    BY <1>3, <2>1 DEF Line
  <2>2. CASE k = h
    <3>1. j \in 0 .. n + 1 /\ j # n + 1
      BY <1>3, <1>4, <2>2
    <3>2. j \in 0 .. n
      BY <3>1
    <3>3. j # 0 => accept'[h][j] = q[j]
      BY <1>3, <3>2
    <3> QED
      BY <1>2, <2>2, <3>2, <3>3 DEF Line
  <2> QED
    BY <2>1, <2>2
<1>5. Line(h, n + 1)' = r
  <2>1. n + 1 # 0
    OBVIOUS
  <2> QED
    BY <1>3, <2>1 DEF Line
<1>6. ASSUME NEW k \in Hosts, NEW j \in 0 .. Len(accept[k]), Line(k, j).to \in Threads
      PROVE  /\ Has(Line(k, j).to) /\ Line(k, j).to # r.to
  BY <1>1, <1>6 DEF Asking
<1>7. ASSUME NEW k \in Hosts, NEW j \in 0 .. Len(accept'[k]), NEW a, a = Line(k, j)', a.to \in Threads
      PROVE  Has(a.to)' /\ Asks(a, a.to)' /\ a.loc.host = k /\ (j # 0 => wire'[a.to] = NoData)
  <2>1. CASE k = h /\ j = n + 1
    <3>1. a = r
      BY <1>5, <1>7, <2>1
    <3> QED
      BY <1>1, <1>7, <2>1, <3>1 DEF WireInv
  <2>2. CASE ~(k = h /\ j = n + 1)
    <3>1. j \in 0 .. Len(accept[k]) /\ a = Line(k, j)
      BY <1>4, <1>7, <2>2
    <3>2. Has(a.to) /\ Asks(a, a.to) /\ a.loc.host = k /\ (j # 0 => wire[a.to] = NoData)
      BY <1>1, <1>7, <3>1 DEF Asking
    <3>3. Asks(a, a.to)'
      BY <3>2 DEF Asks
    <3> QED
      BY <1>7, <3>2, <3>3
  <2> QED
    BY <2>1, <2>2
<1>8. ASSUME NEW k \in Hosts, NEW l \in Hosts, NEW i \in 0 .. Len(accept'[k]), NEW j \in 0 .. Len(accept'[l]),
             Line(k, i)'.to = Line(l, j)'.to, Line(k, i)'.to \in Threads
      PROVE  k = l /\ i = j
  <2>1. CASE (k = h /\ i = n + 1) /\ (l = h /\ j = n + 1)
    BY <2>1
  <2>2. CASE (k = h /\ i = n + 1) /\ ~(l = h /\ j = n + 1)
    BY <1>4, <1>5, <1>6, <1>8, <2>2
  <2>3. CASE ~(k = h /\ i = n + 1) /\ (l = h /\ j = n + 1)
    BY <1>4, <1>5, <1>6, <1>8, <2>3
  <2>4. CASE ~(k = h /\ i = n + 1) /\ ~(l = h /\ j = n + 1)
    <3>1. /\ i \in 0 .. Len(accept[k]) /\ Line(k, i)' = Line(k, i)
          /\ j \in 0 .. Len(accept[l]) /\ Line(l, j)' = Line(l, j)
      BY <1>4, <2>4
    <3> QED
      BY <1>1, <1>8, <3>1 DEF Asking
  <2> QED
    BY <2>1, <2>2, <2>3, <2>4
<1>9. Asking'
  BY <1>7, <1>8 DEF Asking
<1>10. WireInv'
  BY <1>1 DEF WireInv
<1> QED
  BY <1>9, <1>10 DEF LinkInv

-----------------------------------------------------------------------------
(* Numbers.                                                                *)
Tables == [FdNumbers -> Threads \cup {Free, Leaked}]

LEMMA TableLeaking ==
  ASSUME NEW tb \in Tables
  PROVE  /\ Leaking(tb) \in Tables
         /\ \A n \in FdNumbers : \A t \in Threads : Leaking(tb)[n] = t <=> tb[n] = t
<1>1. CASE FreeNumbers(tb) = {}
  BY <1>1 DEF Leaking
<1>2. CASE FreeNumbers(tb) # {}
  <2>1. PICK k \in FdNumbers : k = Lowest(tb) /\ tb[k] = Free
    BY <1>2, LowestFree
  <2>2. Leaking(tb) = [tb EXCEPT ![k] = Leaked]
    BY <1>2, <2>1 DEF Leaking
  <2> QED
    BY <2>1, <2>2, NumbersAssumption DEF Tables
<1> QED
  BY <1>1, <1>2

LEMMA TableClosing ==
  ASSUME NEW tb \in Tables, NEW k \in FdNumbers
  PROVE  /\ Closing(tb, k) \in Tables
         /\ \A n \in FdNumbers : \A t \in Threads : Closing(tb, k)[n] = t <=> tb[n] = t /\ n # k
BY NumbersAssumption DEF Tables, Closing

LEMMA TableOpening ==
  ASSUME NEW tb \in Tables, FreeNumbers(tb) # {}, NEW u \in Threads
  PROVE  /\ Opening(tb, u) \in Tables /\ Lowest(tb) \in FdNumbers
         /\ \A n \in FdNumbers : \A t \in Threads : Opening(tb, u)[n] = t <=> tb[n] = t \/ (n = Lowest(tb) /\ t = u)
<1>1. PICK k \in FdNumbers : k = Lowest(tb) /\ tb[k] = Free
  BY LowestFree
<1>2. Opening(tb, u) = [tb EXCEPT ![k] = u]
  BY <1>1 DEF Opening
<1> QED
  BY <1>1, <1>2, NumbersAssumption DEF Tables

LEMMA NumbersSame ==
  ASSUME NumberInv, UNCHANGED fd, table' \in Tables,
         \A n \in FdNumbers : \A t \in Threads : table'[n] = t <=> table[n] = t,
         \A t \in Threads : Connected(t)' <=> Connected(t)
  PROVE  NumberInv' /\ \A t \in Threads : Has(t)' <=> Has(t)
<1>1. \A t \in Threads : Has(t)' <=> Has(t)
  BY DEF Has
<1>2. NumberInv'
  BY DEF NumberInv, Tables
<1> QED
  BY <1>1, <1>2

LEMMA NumbersClosed ==
  ASSUME NumberInv, UNCHANGED fd, NEW w \in Threads, Connected(w), table' \in Tables,
         \A n \in FdNumbers : \A t \in Threads : table'[n] = t <=> table[n] = t /\ n # fd[w],
         \A t \in Threads : t # w => (Connected(t)' <=> Connected(t))
  PROVE  NumberInv' /\ \A t \in Threads : Has(t)' <=> Has(t) /\ t # Stream(w)
<1>1. fd[w] \in FdNumbers /\ Stream(w) = table[fd[w]]
  BY DEF NumberInv, Stream
<1>2. ASSUME NEW t \in Threads PROVE Has(t)' <=> Has(t) /\ t # Stream(w)
  <2>1. \A n \in FdNumbers : table[n] = t => fd[t] = n
    BY DEF NumberInv
  <2> QED
    BY <1>1, <2>1 DEF Has
<1>3. ASSUME NEW n \in FdNumbers, table'[n] \in Threads PROVE fd[table'[n]] = n /\ table'[n] # w /\ Connected(table'[n])
  BY <1>3 DEF NumberInv
<1>4. \A t \in Threads : Connected(t)' => fd[t] \in FdNumbers
  BY <1>1 DEF NumberInv
<1>5. \A n \in FdNumbers : table'[n] \in Threads => fd'[table'[n]] = n /\ \A t \in Threads : t = table'[n] => Connected(t)'
  BY <1>3
<1>6. NumberInv'
  BY <1>4, <1>5 DEF NumberInv, Tables
<1> QED
  BY <1>2, <1>6

LEMMA NumbersOpened ==
  ASSUME NumberInv, NEW w \in Threads, ~Connected(w), Connected(w)', FreeNumbers(table) # {},
         fd' = [fd EXCEPT ![w] = Lowest(table)], table' = Opening(table, w),
         \A t \in Threads : t # w => (Connected(t)' <=> Connected(t))
  PROVE  NumberInv' /\ ~Has(w) /\ Has(w)' /\ \A t \in Threads : Has(t)' <=> Has(t) \/ t = w
<1>1. PICK k \in FdNumbers : k = Lowest(table) /\ table[k] = Free
  BY LowestFree
<1>2. /\ table' \in Tables
      /\ \A n \in FdNumbers : \A t \in Threads : table'[n] = t <=> table[n] = t \/ (n = k /\ t = w)
  BY <1>1, TableOpening DEF NumberInv, Tables
<1>3. fd' \in [Threads -> FdNumbers \cup {0}] /\ fd'[w] = k /\ \A t \in Threads : t # w => fd'[t] = fd[t]
  BY <1>1 DEF NumberInv
<1>4. \A n \in FdNumbers : table[n] # w
  BY DEF NumberInv
<1>5. \A t \in Threads : Connected(t)' => fd'[t] \in FdNumbers
  BY <1>1, <1>3 DEF NumberInv
<1>6. ASSUME NEW n \in FdNumbers, NEW t \in Threads, table'[n] = t PROVE fd'[t] = n /\ Connected(t)'
  <2>1. CASE t = w
    BY <1>2, <1>3, <1>4, <1>6, <2>1
  <2>2. CASE t # w
    BY <1>2, <1>3, <1>6, <2>2 DEF NumberInv
  <2> QED
    BY <2>1, <2>2
<1>7. NumberInv'
  BY <1>2, <1>3, <1>5, <1>6 DEF NumberInv, Tables
<1>8. ~Has(w) /\ \A t \in Threads : Has(t)' <=> Has(t) \/ t = w
  BY <1>1, <1>2, <1>4 DEF Has
<1> QED
  BY <1>7, <1>8

-----------------------------------------------------------------------------
(* Pairs, and what the workers keep.                                       *)

LEMMA PairFields ==
  ASSUME NEW p \in Pairs
  PROVE  p.file \in Files /\ p.src \in Locations /\ p.tar \in Locations /\ p.src.host \in Hosts /\ p.tar.host \in Hosts
BY EntriesAssumption, LocationsAssumption DEF Pairs

LEMMA HeldPair ==
  ASSUME WorkerInv, NEW w \in Workers, workerPc[w] \notin {"obtain", "exit"}
  PROVE  held[w] \in Pairs /\ held[w] # NoPair
BY NoPairAssumption DEF WorkerInv

LEMMA RefusedFaults ==
  ASSUME MainInv, NEW h, NEW tb, Refused(h, tb)
  PROVE  faults' \in Nat
<1>1. faults \in Nat
  BY DEF MainInv
<1>2. faults' = faults \/ faults' = faults + 1
  BY DEF Refused
<1> QED
  BY <1>1, <1>2

Phases == {"obtain", "open", "size", "blank", "create", "copy", "push", "finish", "exit"}

LEMMA Going ==
  ASSUME WorkerInv, NEW w \in Workers, NEW from, NEW to \in Phases, Goes(w, from, to)
  PROVE  /\ workerPc[w] = from /\ workerPc' \in [Workers -> Phases] /\ workerPc'[w] = to
         /\ \A v \in Workers : v # w => workerPc'[v] = workerPc[v]
BY DEF Goes, WorkerInv, Phases

\* A worker's step changes whether he has a connection, and nobody else's.
LEMMA GoingConnected ==
  ASSUME WorkerInv, NEW w \in Workers, NEW from, NEW to \in Phases, Goes(w, from, to), UNCHANGED mainPc
  PROVE  /\ \A t \in Threads : t # w => (Connected(t)' <=> Connected(t))
         /\ Connected(w) <=> from \in {"size", "blank", "create", "copy", "push", "finish"}
         /\ Connected(w)' <=> to \in {"size", "blank", "create", "copy", "push", "finish"}
<1>1. w # Main /\ Main \notin Workers
  BY ThreadsAssumption
<1> QED
  BY <1>1, Going DEF Connected, Threads

LEMMA AbandonTypes ==
  ASSUME WorkerInv, NEW w \in Workers, NEW from, Abandon(w, from), from \notin {"obtain", "exit"}
  PROVE  /\ WorkerInv' /\ Goes(w, from, "obtain") /\ held[w] \in Pairs
         /\ \A v \in Workers : v # w => held'[v] = held[v]
<1>1. Goes(w, from, "obtain") /\ UNCHANGED <<left, buf>> /\ held' = [held EXCEPT ![w] = NoPair]
  BY DEF Abandon
<1>2. /\ workerPc[w] = from /\ workerPc' \in [Workers -> Phases] /\ workerPc'[w] = "obtain"
      /\ \A v \in Workers : v # w => workerPc'[v] = workerPc[v]
  BY <1>1, Going DEF Phases
<1>3. held' \in [Workers -> Pairs \cup {NoPair}] /\ held'[w] = NoPair /\ \A v \in Workers : v # w => held'[v] = held[v]
  BY <1>1 DEF WorkerInv
<1> QED
  BY <1>1, <1>2, <1>3, HeldPair DEF WorkerInv, Phases

\* A step in the middle of a transfer.
LEMMA TransferTypes ==
  ASSUME WorkerInv, NEW w \in Workers, NEW from \in Phases \ {"obtain", "exit"}, NEW to \in Phases \ {"obtain", "exit"},
         Goes(w, from, to), UNCHANGED held, left' \in [Workers -> Nat], buf' \in [Workers -> Stored],
         \A v \in Workers : v # w => left'[v] = left[v], to \in {"copy", "push"} => left'[w] > 0
  PROVE  WorkerInv'
<1>1. /\ workerPc[w] = from /\ workerPc' \in [Workers -> Phases] /\ workerPc'[w] = to
      /\ \A v \in Workers : v # w => workerPc'[v] = workerPc[v]
  BY Going
<1> QED
  BY <1>1 DEF WorkerInv, Phases

-----------------------------------------------------------------------------
(* The steps of a worker.                                                  *)

LEMMA MainSame ==
  ASSUME MainInv, UNCHANGED <<main, console>>, suspect' \subseteq Pairs, faults' \in Nat
  PROVE  MainInv' /\ UNCHANGED mainPc
BY DEF MainInv, main, console

LEMMA BufferSame ==
  ASSUME BufferInv, UNCHANGED buffer
  PROVE  BufferInv'
BY DEF BufferInv, buffer

LEMMA ServersSame ==
  ASSUME ServerInv, UNCHANGED servers
  PROVE  ServerInv'
BY DEF ServerInv, servers

LEMMA ExitStep ==
  ASSUME TInv, NEW w \in Workers, Exit(w)
  PROVE  TInv'
<1>1. Goes(w, "obtain", "exit") /\ UNCHANGED <<servers, buffer, held, left, buf, fds, main, console, bounds>>
  BY DEF Exit
<1>2. ServerInv /\ BufferInv /\ WorkerInv /\ MainInv /\ NumberInv /\ LinkInv
  BY DEF TInv
<1>3. /\ workerPc[w] = "obtain" /\ workerPc' \in [Workers -> Phases] /\ workerPc'[w] = "exit"
      /\ \A v \in Workers : v # w => workerPc'[v] = workerPc[v]
  BY <1>1, <1>2, Going DEF Phases
<1>4. WorkerInv'
  BY <1>1, <1>2, <1>3 DEF WorkerInv, Phases
<1>5. MainInv' /\ UNCHANGED mainPc
  BY <1>1, <1>2, MainSame DEF bounds, MainInv
<1>6. \A t \in Threads : Connected(t)' <=> Connected(t)
  BY <1>1, <1>2, <1>5, GoingConnected DEF Phases
<1>7. NumberInv' /\ \A t \in Threads : Has(t)' <=> Has(t)
  BY <1>1, <1>2, <1>6, NumbersSame DEF fds, NumberInv, Tables
<1>8. LinkInv'
  BY <1>1, <1>2, <1>7, LinksSame
<1> QED
  BY <1>1, <1>2, <1>4, <1>5, <1>7, <1>8, ServersSame, BufferSame DEF TInv

LEMMA ObtainStep ==
  ASSUME TInv, NEW w \in Workers, Obtain(w)
  PROVE  TInv'
<1>1. /\ Goes(w, "obtain", "open") /\ queue # <<>> /\ queue' = Tail(queue) /\ UNCHANGED closed
      /\ held' = [held EXCEPT ![w] = Head(queue)]
      /\ suspect' = IF Working \cap Conflicting(Head(queue)) = {} THEN suspect ELSE suspect \cup Conflicting(Head(queue))
      /\ UNCHANGED <<servers, left, buf, fds, main, console, faults>>
  BY DEF Obtain, Buffer!Get
<1>2. ServerInv /\ BufferInv /\ WorkerInv /\ MainInv /\ NumberInv /\ LinkInv
  BY DEF TInv
<1>3. PICK q \in Seq(Pairs) : q = queue /\ q # <<>> /\ Len(q) <= Size
  BY <1>1, <1>2 DEF BufferInv
<1>4. Tail(q) \in Seq(Pairs) /\ Len(Tail(q)) <= Size /\ Head(q) \in Pairs
  <2>1. Tail(q) \in Seq(Pairs) /\ Len(Tail(q)) = Len(q) - 1 /\ Head(q) \in Pairs /\ Len(q) \in Nat
    BY <1>3
  <2> QED
    BY <1>3, <2>1, BoundsAssumption
<1>5. BufferInv'
  BY <1>1, <1>2, <1>3, <1>4 DEF BufferInv
<1>6. /\ workerPc[w] = "obtain" /\ workerPc' \in [Workers -> Phases] /\ workerPc'[w] = "open"
      /\ \A v \in Workers : v # w => workerPc'[v] = workerPc[v]
  BY <1>1, <1>2, Going DEF Phases
<1>7. held' \in [Workers -> Pairs \cup {NoPair}] /\ held'[w] \in Pairs /\ \A v \in Workers : v # w => held'[v] = held[v]
  BY <1>1, <1>2, <1>3, <1>4 DEF WorkerInv
<1>8. WorkerInv'
  BY <1>1, <1>2, <1>6, <1>7, NoPairAssumption DEF WorkerInv, Phases
<1>9. MainInv' /\ UNCHANGED mainPc
  BY <1>1, <1>2, MainSame DEF Conflicting, MainInv
<1>10. \A t \in Threads : Connected(t)' <=> Connected(t)
  BY <1>1, <1>2, <1>9, GoingConnected DEF Phases
<1>11. NumberInv' /\ \A t \in Threads : Has(t)' <=> Has(t)
  BY <1>1, <1>2, <1>10, NumbersSame DEF fds, NumberInv, Tables
<1>12. ~Has(w)
  <2>1. ~Connected(w)
    BY <1>6, ThreadsAssumption DEF Connected
  <2> QED
    BY <1>2, <2>1 DEF Has, NumberInv, Threads
<1>13. LinkInv'
  BY <1>1, <1>2, <1>7, <1>11, <1>12, LinksSame
<1> QED
  BY <1>1, <1>2, <1>5, <1>8, <1>9, <1>11, <1>13, ServersSame DEF TInv

LEMMA OpenSourceStep ==
  ASSUME TInv, NEW w \in Workers, OpenSource(w)
  PROVE  TInv'
<1>1. /\ Goes(w, "open", "size") /\ Reaches(held[w].src.host, table)
      /\ fd' = [fd EXCEPT ![w] = Lowest(table)] /\ table' = Opening(table, w)
      /\ UNCHANGED <<disk, up, serving, wire, buffer, held, left, buf, main, console, bounds>>
  BY DEF OpenSource
<1>2. ServerInv /\ BufferInv /\ WorkerInv /\ MainInv /\ NumberInv /\ LinkInv
  BY DEF TInv
<1>3. workerPc[w] = "open"
  BY <1>1 DEF Goes
<1>4. held[w] \in Pairs
  BY <1>2, <1>3, HeldPair
<1>5. PICK r \in Requests :
        /\ r.op = "PULL" /\ r.to = w /\ r.loc = held[w].src /\ r.file = held[w].file
        /\ Request(held[w].src.host, r)
  <2>1. PICK r : r = [op |-> "PULL", to |-> w, loc |-> held[w].src, file |-> held[w].file]
    OBVIOUS
  <2>2. r \in Pulls
    BY <1>4, <2>1, PairFields DEF Pulls, Ends, Threads
  <2> QED
    BY <2>1, <2>2 DEF OpenSource, Requests
<1>6. held[w].src.host \in Hosts /\ w # Main /\ w \in Threads
  BY <1>4, PairFields, ThreadsAssumption DEF Threads
<1>7. ServerInv'
  BY <1>1, <1>2, <1>5, <1>6, RequestTypes
<1>8. WorkerInv'
  BY <1>1, <1>2, TransferTypes DEF Phases, WorkerInv
<1>9. MainInv' /\ UNCHANGED mainPc
  BY <1>1, <1>2, MainSame DEF bounds, MainInv
<1>10. /\ \A t \in Threads : t # w => (Connected(t)' <=> Connected(t))
       /\ ~Connected(w) /\ Connected(w)'
  BY <1>1, <1>2, <1>9, GoingConnected DEF Phases
<1>11. NumberInv' /\ ~Has(w) /\ Has(w)' /\ \A t \in Threads : Has(t)' <=> Has(t) \/ t = w
  <2>1. FreeNumbers(table) # {}
    BY <1>1 DEF Reaches
  <2> QED
    BY <1>1, <1>2, <1>6, <1>10, <2>1, NumbersOpened
<1>12. Asks(r, w)'
  BY <1>1, <1>5, <1>6 DEF Asks
<1>13. LinkInv'
  BY <1>1, <1>2, <1>5, <1>6, <1>11, <1>12, LinksRequested
<1> QED
  BY <1>1, <1>2, <1>7, <1>8, <1>9, <1>11, <1>13, BufferSame DEF TInv

LEMMA SourceUnreachableStep ==
  ASSUME TInv, NEW w \in Workers, SourceUnreachable(w)
  PROVE  TInv'
<1>1. /\ Abandon(w, "open") /\ Refused(held[w].src.host, table)
      /\ table' = Leaking(table) /\ suspect' = suspect \cup {held[w]}
      /\ UNCHANGED <<servers, buffer, fd, main, console>>
  BY DEF SourceUnreachable
<1>2. ServerInv /\ BufferInv /\ WorkerInv /\ MainInv /\ NumberInv /\ LinkInv
  BY DEF TInv
<1>3. /\ WorkerInv' /\ Goes(w, "open", "obtain") /\ held[w] \in Pairs
      /\ \A v \in Workers : v # w => held'[v] = held[v]
  BY <1>1, <1>2, AbandonTypes
<1>4. MainInv' /\ UNCHANGED mainPc
  BY <1>1, <1>2, <1>3, MainSame, RefusedFaults DEF MainInv
<1>5. (\A t \in Threads : Connected(t)' <=> Connected(t)) /\ ~Connected(w)
  BY <1>2, <1>3, <1>4, GoingConnected DEF Phases
<1>6. NumberInv' /\ \A t \in Threads : Has(t)' <=> Has(t)
  BY <1>1, <1>2, <1>5, TableLeaking, NumbersSame DEF NumberInv, Tables
<1>7. ~Has(w)
  BY <1>2, <1>5 DEF Has, NumberInv, Threads
<1>8. LinkInv'
  BY <1>1, <1>2, <1>3, <1>6, <1>7, LinksSame
<1> QED
  BY <1>1, <1>2, <1>3, <1>4, <1>6, <1>8, ServersSame, BufferSame DEF TInv

\* The number in src_sock is closed: whoever's connection it stands for.
LEMMA SourceClosed ==
  ASSUME ServerInv, LinkInv, NumberInv, NEW w \in Threads, Connected(w), CloseSource(w), UNCHANGED <<disk, up, fd>>,
         table' \in Tables,
         \A n \in FdNumbers : \A t \in Threads : table'[n] = t <=> table[n] = t /\ n # fd[w],
         \A t \in Threads : t # w => (Connected(t)' <=> Connected(t)),
         \A v \in Workers : v # w => held'[v] = held[v]
  PROVE  ServerInv' /\ LinkInv' /\ NumberInv'
<1>1. HangsUp(Stream(w))
  BY DEF CloseSource, HangsUp
<1>2. ServerInv'
  BY <1>1, HangUpTypes
<1>3. NumberInv' /\ \A t \in Threads : Has(t)' <=> Has(t) /\ t # Stream(w)
  BY <1>1, NumbersClosed
<1>4. Has(w) => w = Stream(w)
  BY <1>1 DEF Has, NumberInv, Stream
<1>5. PICK x : x = Stream(w)
  OBVIOUS
<1>6. \A k \in Hosts : /\ \A i \in 1 .. Len(accept[k]) : accept'[k][i] = HungUp(accept[k][i], x)
                       /\ \A i \in 1 .. Len(accept'[k]) : i > Len(accept[k]) => accept'[k][i].to = Gone
  <2> TAKE k \in Hosts
  <2>1. /\ accept' = BacklogAfterClose(x) /\ Len(accept'[k]) = Len(accept[k])
        /\ \A i \in DOMAIN accept[k] : accept'[k][i] = HungUp(accept[k][i], x)
    BY <1>1, <1>5, HangUpShape DEF HangsUp
  <2>2. DOMAIN accept[k] = 1 .. Len(accept[k]) /\ Len(accept[k]) \in Nat
    BY DEF ServerInv
  <2> QED
    BY <2>1, <2>2
<1>7. serving' = ServingAfterClose(x) /\ wire' = WireAfterClose(x)
  BY <1>1, <1>5 DEF HangsUp
<1>8. LinkInv'
  BY <1>2, <1>3, <1>4, <1>5, <1>6, <1>7, LinksHungUp
<1> QED
  BY <1>2, <1>3, <1>8

LEMMA PushRequestType ==
  ASSUME WorkerInv, NEW w \in Workers, workerPc[w] \notin {"obtain", "exit"}, NEW op \in {"PUSH -1", "PUSH n", "PUSH 0"}
  PROVE  PushTo(w, op) \in PushRequests /\ PushTo(w, op) \in Requests /\ PushTo(w, op).to = Gone
<1>1. held[w].tar \in Locations /\ held[w].file \in Files /\ buf[w] \in Stored
  BY HeldPair, PairFields DEF WorkerInv
<1> QED
  BY <1>1 DEF PushTo, PushRequests, Requests

LEMMA ReadResetStep ==
  ASSUME TInv, NEW w \in Workers, ReadReset(w)
  PROVE  TInv'
<1>1. /\ Goes(w, "size", "blank") /\ ReadsFrom(w)
      /\ UNCHANGED <<disk, up, accept, serving, buffer, held, left, buf, fds, main, console, bounds>>
  BY DEF ReadReset, ReadsFrom
<1>2. ServerInv /\ BufferInv /\ WorkerInv /\ MainInv /\ NumberInv /\ LinkInv
  BY DEF TInv
<1>3. WorkerInv'
  BY <1>1, <1>2, TransferTypes DEF Phases, WorkerInv
<1>4. MainInv' /\ UNCHANGED mainPc
  BY <1>1, <1>2, MainSame DEF MainInv, bounds
<1>5. \A t \in Threads : Connected(t)' <=> Connected(t)
  BY <1>1, <1>2, <1>4, GoingConnected DEF Phases
<1>6. NumberInv' /\ \A t \in Threads : Has(t)' <=> Has(t)
  BY <1>1, <1>2, <1>5, NumbersSame DEF fds, NumberInv, Tables
<1>7. ServerInv' /\ LinkInv'
  BY <1>1, <1>2, <1>6, LinksRead
<1> QED
  BY <1>1, <1>2, <1>3, <1>4, <1>6, <1>7, BufferSame DEF TInv

LEMMA ReadSizeStep ==
  ASSUME TInv, NEW w \in Workers, ReadSize(w)
  PROVE  TInv'
<1>1. /\ workerPc[w] \in {"size", "blank"} /\ Goes(w, workerPc[w], "create")
      /\ UNCHANGED <<disk, up, accept, serving, buffer, held, buf, fds, main, console, faults>>
  BY DEF ReadSize, Goes
<1>2. ServerInv /\ BufferInv /\ WorkerInv /\ MainInv /\ NumberInv /\ LinkInv
  BY DEF TInv
<1>3. held[w] \in Pairs /\ w \in Threads
  BY <1>1, <1>2, HeldPair DEF Threads
<1>4. suspect' \subseteq Pairs
  BY <1>2, <1>3 DEF ReadSize, MainInv
<1>5. PICK n \in Nat : left' = [left EXCEPT ![w] = n] /\ ReadsFrom(w)
  <2>1. CASE /\ Readable(w) /\ Received(w).kind = "size" /\ Received(w).val >= 0
             /\ left' = [left EXCEPT ![w] = Received(w).val] /\ Take(w)
    <3>1. PICK s \in Threads : s = Stream(w) /\ wire[s].data # <<>> /\ wire[s].data \in Seq(Items)
      BY <1>2, <2>1, TakeShape
    <3>2. PICK i \in Items : i = Received(w)
      BY <3>1 DEF Received
    <3>3. i.val \in Nat
      <4>1. i.val \in Int /\ i.val >= 0
        BY <2>1, <3>2, ItemFields
      <4> QED
        BY <4>1
    <3> QED
      BY <2>1, <3>2, <3>3 DEF ReadsFrom
  <2>2. CASE SkipOne(w) /\ \E n \in 0 .. MaxBlocks : left' = [left EXCEPT ![w] = n]
    <3>1. PICK n \in 0 .. MaxBlocks : left' = [left EXCEPT ![w] = n]
      BY <2>2
    <3>2. n \in Nat
      BY BoundsAssumption
    <3>3. ReadsFrom(w)
      BY <2>2 DEF SkipOne, ReadsFrom
    <3> QED
      BY <3>1, <3>2, <3>3
  <2> QED
    BY <2>1, <2>2 DEF ReadSize
<1>6. left' \in [Workers -> Nat] /\ \A v \in Workers : v # w => left'[v] = left[v]
  BY <1>2, <1>5 DEF WorkerInv
<1>7. WorkerInv'
  BY <1>1, <1>2, <1>6, TransferTypes DEF Phases, WorkerInv
<1>8. MainInv' /\ UNCHANGED mainPc
  BY <1>1, <1>2, <1>4, MainSame DEF MainInv
<1>9. \A t \in Threads : Connected(t)' <=> Connected(t)
  BY <1>1, <1>2, <1>8, GoingConnected DEF Phases
<1>10. NumberInv' /\ \A t \in Threads : Has(t)' <=> Has(t)
  BY <1>1, <1>2, <1>9, NumbersSame DEF fds, NumberInv, Tables
<1>11. ServerInv' /\ LinkInv'
  BY <1>1, <1>2, <1>5, <1>10, LinksRead
<1> QED
  BY <1>1, <1>2, <1>7, <1>8, <1>10, <1>11, BufferSame DEF TInv

LEMMA PullRefusedStep ==
  ASSUME TInv, NEW w \in Workers, PullRefused(w)
  PROVE  TInv'
<1>1. /\ workerPc[w] \in {"size", "blank"} /\ Abandon(w, workerPc[w])
      /\ CloseSource(w) /\ table' = Closing(table, fd[w])
      /\ suspect' = suspect \cup {held[w]}
      /\ UNCHANGED <<disk, up, buffer, fd, main, console, faults>>
  BY DEF PullRefused
<1>2. ServerInv /\ BufferInv /\ WorkerInv /\ MainInv /\ NumberInv /\ LinkInv
  BY DEF TInv
<1>3. /\ WorkerInv' /\ Goes(w, workerPc[w], "obtain") /\ held[w] \in Pairs
      /\ \A v \in Workers : v # w => held'[v] = held[v]
  BY <1>1, <1>2, AbandonTypes
<1>4. MainInv' /\ UNCHANGED mainPc
  BY <1>1, <1>2, <1>3, MainSame DEF MainInv
<1>5. (\A t \in Threads : t # w => (Connected(t)' <=> Connected(t))) /\ Connected(w)
  BY <1>1, <1>2, <1>3, <1>4, GoingConnected DEF Phases
<1>6. ServerInv' /\ LinkInv' /\ NumberInv'
  <2>1. fd[w] \in FdNumbers /\ table \in Tables
    BY <1>2, <1>5 DEF NumberInv, Tables, Threads
  <2> QED
    BY <1>1, <1>2, <1>3, <1>5, <2>1, TableClosing, SourceClosed DEF Threads
<1> QED
  BY <1>1, <1>2, <1>3, <1>4, <1>6, BufferSame DEF TInv

LEMMA CreateStep ==
  ASSUME TInv, NEW w \in Workers, Create(w)
  PROVE  TInv'
<1>1. /\ Goes(w, "create", AfterPush(left[w])) /\ Reaches(held[w].tar.host, table)
      /\ Request(held[w].tar.host, PushTo(w, "PUSH -1")) /\ buf' = [buf EXCEPT ![w] = Junk]
      /\ UNCHANGED <<disk, up, serving, wire, buffer, held, left, fds, main, console, bounds>>
  BY DEF Create
<1>2. ServerInv /\ BufferInv /\ WorkerInv /\ MainInv /\ NumberInv /\ LinkInv
  BY DEF TInv
<1>3. workerPc[w] = "create" /\ held[w].tar.host \in Hosts
  BY <1>1, <1>2, HeldPair, PairFields DEF Goes
<1>4. PICK r \in Requests : r.to = Gone /\ Request(held[w].tar.host, r)
  BY <1>1, <1>2, <1>3, PushRequestType
<1>5. ServerInv'
  BY <1>1, <1>2, <1>3, <1>4, RequestTypes
<1>6. /\ left[w] \in Nat /\ AfterPush(left[w]) \in {"copy", "finish"} /\ (AfterPush(left[w]) = "copy" => left[w] > 0)
      /\ buf' \in [Workers -> Stored]
  <2>1. PICK n \in Nat : n = left[w]
    BY <1>2 DEF WorkerInv
  <2>2. AfterPush(n) \in {"copy", "finish"} /\ (AfterPush(n) = "copy" => n > 0)
    BY DEF AfterPush
  <2>3. buf' \in [Workers -> Stored]
    BY <1>1, <1>2 DEF WorkerInv, Stored
  <2> QED
    BY <2>1, <2>2, <2>3
<1>7. WorkerInv'
  BY <1>1, <1>2, <1>6, TransferTypes DEF Phases, WorkerInv
<1>8. MainInv' /\ UNCHANGED mainPc
  BY <1>1, <1>2, MainSame DEF bounds, MainInv
<1>9. \A t \in Threads : Connected(t)' <=> Connected(t)
  BY <1>1, <1>2, <1>6, <1>8, GoingConnected DEF Phases
<1>10. NumberInv' /\ \A t \in Threads : Has(t)' <=> Has(t)
  BY <1>1, <1>2, <1>9, NumbersSame DEF fds, NumberInv, Tables
<1>11. LinkInv'
  BY <1>1, <1>2, <1>3, <1>4, <1>10, ThreadsAssumption, LinksRequested
<1> QED
  BY <1>1, <1>2, <1>5, <1>7, <1>8, <1>10, <1>11, BufferSame DEF TInv

LEMMA TargetUnreachableStep ==
  ASSUME TInv, NEW w \in Workers, TargetUnreachable(w)
  PROVE  TInv'
<1>1. /\ Abandon(w, "create") /\ Refused(held[w].tar.host, table) /\ CloseSource(w)
      /\ table' = Closing(Leaking(table), fd[w]) /\ suspect' = suspect \cup {held[w]}
      /\ UNCHANGED <<disk, up, buffer, fd, main, console>>
  BY DEF TargetUnreachable
<1>2. ServerInv /\ BufferInv /\ WorkerInv /\ MainInv /\ NumberInv /\ LinkInv
  BY DEF TInv
<1>3. /\ WorkerInv' /\ Goes(w, "create", "obtain") /\ held[w] \in Pairs
      /\ \A v \in Workers : v # w => held'[v] = held[v]
  BY <1>1, <1>2, AbandonTypes
<1>4. MainInv' /\ UNCHANGED mainPc
  BY <1>1, <1>2, <1>3, MainSame, RefusedFaults DEF MainInv
<1>5. (\A t \in Threads : t # w => (Connected(t)' <=> Connected(t))) /\ Connected(w)
  BY <1>2, <1>3, <1>4, GoingConnected DEF Phases
<1>6. ServerInv' /\ LinkInv' /\ NumberInv'
  <2>1. fd[w] \in FdNumbers /\ table \in Tables
    BY <1>2, <1>5 DEF NumberInv, Tables, Threads
  <2>2. PICK tb \in Tables : tb = Leaking(table) /\ \A n \in FdNumbers : \A t \in Threads : tb[n] = t <=> table[n] = t
    BY <2>1, TableLeaking
  <2>3. /\ table' \in Tables
        /\ \A n \in FdNumbers : \A t \in Threads : table'[n] = t <=> table[n] = t /\ n # fd[w]
    BY <1>1, <2>1, <2>2, TableClosing
  <2> QED
    BY <1>1, <1>2, <1>3, <1>5, <2>3, SourceClosed DEF Threads
<1> QED
  BY <1>1, <1>2, <1>3, <1>4, <1>6, BufferSame DEF TInv

LEMMA ReadBlockStep ==
  ASSUME TInv, NEW w \in Workers, ReadBlock(w) \/ Swallow(w)
  PROVE  TInv'
<1>1. UNCHANGED <<disk, up, accept, serving, buffer, held, left, fds, main, console, bounds>>
  BY DEF ReadBlock, Swallow
<1>2. ServerInv /\ BufferInv /\ WorkerInv /\ MainInv /\ NumberInv /\ LinkInv
  BY DEF TInv
<1>3. workerPc[w] = "copy" /\ (Goes(w, "copy", "push") \/ UNCHANGED workerPc)
  BY DEF ReadBlock, Swallow, Goes
<1>4. PICK b \in Stored : (UNCHANGED buf \/ buf' = [buf EXCEPT ![w] = b]) /\ ReadsFrom(w)
  <2>1. CASE /\ Readable(w) /\ Received(w).kind = "block"
             /\ buf' = [buf EXCEPT ![w] = Received(w).val] /\ Take(w)
    <3>1. PICK s \in Threads : s = Stream(w) /\ wire[s].data # <<>> /\ wire[s].data \in Seq(Items)
      BY <1>2, <2>1, TakeShape
    <3>2. PICK i \in Items : i = Received(w)
      BY <3>1 DEF Received
    <3>3. i.val \in Stored
      BY <2>1, <3>2, ItemFields
    <3> QED
      BY <2>1, <3>2, <3>3 DEF ReadsFrom
  <2>2. CASE SeeReset(w) /\ UNCHANGED buf
    BY <1>2, <2>2 DEF WorkerInv, ReadsFrom
  <2>3. CASE Readable(w) /\ Take(w) /\ buf' = [buf EXCEPT ![w] = Junk]
    BY <2>3 DEF Stored, ReadsFrom
  <2> QED
    BY <2>1, <2>2, <2>3 DEF ReadBlock, Swallow
<1>5. buf' \in [Workers -> Stored] /\ left[w] > 0
  BY <1>2, <1>3, <1>4 DEF WorkerInv
<1>6. WorkerInv'
  <2>1. CASE Goes(w, "copy", "push")
    BY <1>1, <1>2, <1>5, <2>1, TransferTypes DEF Phases, WorkerInv
  <2>2. CASE UNCHANGED workerPc
    BY <1>1, <1>2, <1>5, <2>2 DEF WorkerInv
  <2> QED
    BY <1>3, <2>1, <2>2
<1>7. MainInv' /\ UNCHANGED mainPc
  BY <1>1, <1>2, MainSame DEF bounds, MainInv
<1>8. \A t \in Threads : Connected(t)' <=> Connected(t)
  <2>1. CASE Goes(w, "copy", "push")
    BY <1>2, <1>7, <2>1, GoingConnected DEF Phases
  <2>2. CASE UNCHANGED workerPc
    BY <1>7, <2>2 DEF Connected
  <2> QED
    BY <1>3, <2>1, <2>2
<1>9. NumberInv' /\ \A t \in Threads : Has(t)' <=> Has(t)
  BY <1>1, <1>2, <1>8, NumbersSame DEF fds, NumberInv, Tables
<1>10. ServerInv' /\ LinkInv'
  BY <1>1, <1>2, <1>4, <1>9, LinksRead
<1> QED
  BY <1>1, <1>2, <1>6, <1>7, <1>9, <1>10, BufferSame DEF TInv

LEMMA PushBlockStep ==
  ASSUME TInv, NEW w \in Workers, PushBlock(w)
  PROVE  TInv'
<1>1. /\ Goes(w, "push", AfterPush(left[w] - 1)) /\ Reaches(held[w].tar.host, table)
      /\ Request(held[w].tar.host, PushTo(w, "PUSH n"))
      /\ left' = [left EXCEPT ![w] = left[w] - 1] /\ buf' = [buf EXCEPT ![w] = Junk]
      /\ UNCHANGED <<disk, up, serving, wire, buffer, held, fds, main, console, bounds>>
  BY DEF PushBlock, TInv, WorkerInv
<1>2. ServerInv /\ BufferInv /\ WorkerInv /\ MainInv /\ NumberInv /\ LinkInv
  BY DEF TInv
<1>3. workerPc[w] = "push" /\ held[w].tar.host \in Hosts
  BY <1>1, <1>2, HeldPair, PairFields DEF Goes
<1>4. PICK r \in Requests : r.to = Gone /\ Request(held[w].tar.host, r)
  BY <1>1, <1>2, <1>3, PushRequestType
<1>5. ServerInv'
  BY <1>1, <1>2, <1>3, <1>4, RequestTypes
<1>6. PICK n \in Nat : n = left[w] - 1 /\ AfterPush(n) \in {"copy", "finish"} /\ (AfterPush(n) = "copy" => n > 0)
  <2>1. left[w] \in Nat /\ left[w] > 0
    BY <1>2, <1>3 DEF WorkerInv
  <2> QED
    BY <2>1 DEF AfterPush
<1>7. /\ left' \in [Workers -> Nat] /\ left'[w] = n /\ (\A v \in Workers : v # w => left'[v] = left[v])
      /\ buf' \in [Workers -> Stored]
  BY <1>1, <1>2, <1>6 DEF WorkerInv, Stored
<1>8. WorkerInv'
  BY <1>1, <1>2, <1>6, <1>7, TransferTypes DEF Phases
<1>9. MainInv' /\ UNCHANGED mainPc
  BY <1>1, <1>2, MainSame DEF bounds, MainInv
<1>10. \A t \in Threads : Connected(t)' <=> Connected(t)
  BY <1>1, <1>2, <1>6, <1>9, GoingConnected DEF Phases
<1>11. NumberInv' /\ \A t \in Threads : Has(t)' <=> Has(t)
  BY <1>1, <1>2, <1>10, NumbersSame DEF fds, NumberInv, Tables
<1>12. LinkInv'
  BY <1>1, <1>2, <1>3, <1>4, <1>11, ThreadsAssumption, LinksRequested
<1> QED
  BY <1>1, <1>2, <1>5, <1>8, <1>9, <1>11, <1>12, BufferSame DEF TInv

LEMMA PushFailsStep ==
  ASSUME TInv, NEW w \in Workers, PushFails(w)
  PROVE  TInv'
<1>1. /\ Goes(w, "push", "copy") /\ Refused(held[w].tar.host, table) /\ CloseSource(w)
      /\ table' = Closing(Leaking(table), fd[w]) /\ suspect' = suspect \cup {held[w]}
      /\ UNCHANGED <<disk, up, buffer, held, left, buf, fd, main, console>>
  BY DEF PushFails
<1>2. ServerInv /\ BufferInv /\ WorkerInv /\ MainInv /\ NumberInv /\ LinkInv
  BY DEF TInv
<1>3. workerPc[w] = "push" /\ held[w] \in Pairs /\ left[w] > 0
  BY <1>1, <1>2, HeldPair DEF Goes, WorkerInv
<1>4. WorkerInv'
  BY <1>1, <1>2, <1>3, TransferTypes DEF Phases, WorkerInv
<1>5. MainInv' /\ UNCHANGED mainPc
  BY <1>1, <1>2, <1>3, MainSame, RefusedFaults DEF MainInv
<1>6. (\A t \in Threads : t # w => (Connected(t)' <=> Connected(t))) /\ Connected(w)
  BY <1>1, <1>2, <1>5, GoingConnected DEF Phases
<1>7. ServerInv' /\ LinkInv' /\ NumberInv'
  <2>1. fd[w] \in FdNumbers /\ table \in Tables
    BY <1>2, <1>6 DEF NumberInv, Tables, Threads
  <2>2. PICK tb \in Tables : tb = Leaking(table) /\ \A n \in FdNumbers : \A t \in Threads : tb[n] = t <=> table[n] = t
    BY <2>1, TableLeaking
  <2>3. /\ table' \in Tables
        /\ \A n \in FdNumbers : \A t \in Threads : table'[n] = t <=> table[n] = t /\ n # fd[w]
    BY <1>1, <2>1, <2>2, TableClosing
  <2> QED
    BY <1>1, <1>2, <1>6, <2>3, SourceClosed DEF Threads
<1> QED
  BY <1>1, <1>2, <1>4, <1>5, <1>7, BufferSame DEF TInv

LEMMA FinishStep ==
  ASSUME TInv, NEW w \in Workers, Finish(w)
  PROVE  TInv'
<1> DEFINE after == Closing(table, fd[w])
           h == held[w].tar.host
           x == Stream(w)
           waiting == BacklogAfterClose(x)
           r == PushTo(w, "PUSH 0")
<1>1. /\ Abandon(w, "finish") /\ serving' = ServingAfterClose(x) /\ wire' = WireAfterClose(x)
      /\ UNCHANGED <<disk, up, buffer, fd, main, console, suspect>>
      /\ \/ /\ Reaches(h, after) /\ accept' = [waiting EXCEPT ![h] = Append(@, r)]
            /\ table' = after /\ UNCHANGED faults
         \/ Refused(h, after) /\ accept' = waiting /\ table' = Leaking(after)
  BY DEF Finish
<1>2. ServerInv /\ BufferInv /\ WorkerInv /\ MainInv /\ NumberInv /\ LinkInv
  BY DEF TInv
<1>3. /\ WorkerInv' /\ Goes(w, "finish", "obtain") /\ held[w] \in Pairs
      /\ \A v \in Workers : v # w => held'[v] = held[v]
  BY <1>1, <1>2, AbandonTypes
<1>4. MainInv' /\ UNCHANGED mainPc
  <2>1. faults' \in Nat
    BY <1>1, <1>2, RefusedFaults DEF MainInv
  <2> QED
    BY <1>1, <1>2, <2>1, MainSame DEF MainInv
<1>5. (\A t \in Threads : t # w => (Connected(t)' <=> Connected(t))) /\ Connected(w) /\ w \in Threads
  BY <1>2, <1>3, <1>4, GoingConnected DEF Phases, Threads
<1>6. /\ table' \in Tables
      /\ \A n \in FdNumbers : \A t \in Threads : table'[n] = t <=> table[n] = t /\ n # fd[w]
  <2>1. fd[w] \in FdNumbers /\ table \in Tables
    BY <1>2, <1>5 DEF NumberInv, Tables
  <2>2. PICK tb \in Tables : tb = after /\ \A n \in FdNumbers : \A t \in Threads : tb[n] = t <=> table[n] = t /\ n # fd[w]
    BY <2>1, TableClosing
  <2>3. table' = tb \/ table' = Leaking(tb)
    BY <1>1, <2>2
  <2> QED
    BY <2>2, <2>3, TableLeaking
<1>7. NumberInv' /\ \A t \in Threads : Has(t)' <=> Has(t) /\ t # x
  BY <1>1, <1>2, <1>5, <1>6, NumbersClosed
<1>8. Has(w) => w = x
  BY <1>2, <1>5 DEF Has, NumberInv, Stream
<1>9. r \in Requests /\ r.to = Gone /\ h \in Hosts
  <2>1. workerPc[w] = "finish"
    BY <1>3 DEF Goes
  <2> QED
    BY <1>2, <1>3, <2>1, PushRequestType, PairFields
<1>10. waiting \in [Hosts -> Seq(Requests)] /\ \A k \in Hosts : /\ Len(waiting[k]) = Len(accept[k]) /\ Len(accept[k]) \in Nat
                            /\ \A i \in 1 .. Len(accept[k]) : waiting[k][i] = HungUp(accept[k][i], x)
  <2>1. \A k \in Hosts : DOMAIN accept[k] = 1 .. Len(accept[k]) /\ Len(accept[k]) \in Nat
    BY <1>2 DEF ServerInv
  <2> QED
    BY <1>2, <2>1, HangUpShape
<1> HIDE DEF after, h, x, waiting, r
<1>11. ServerInv' /\ \A k \in Hosts :
         /\ \A i \in 1 .. Len(accept[k]) : accept'[k][i] = HungUp(accept[k][i], x)
         /\ \A i \in 1 .. Len(accept'[k]) : i > Len(accept[k]) => accept'[k][i].to = Gone
  <2>1. CASE Refused(h, after) /\ accept' = waiting
    <3>1. ServerInv'
      BY <1>1, <1>2, <2>1, HangUpTypes DEF waiting, HangsUp
    <3> QED
      BY <1>10, <2>1, <3>1
  <2>2. CASE Reaches(h, after) /\ accept' = [waiting EXCEPT ![h] = Append(@, r)]
    <3>1. ServerInv'
      BY <1>1, <1>2, <1>9, <2>2, HangUpRequestTypes DEF waiting, Reaches
    <3>2. PICK q \in Seq(Requests) : q = waiting[h]
      BY <1>9, <1>10
    <3>3. PICK p : p = Append(q, r)
      OBVIOUS
    <3>4. accept'[h] = p /\ \A k \in Hosts : k # h => accept'[k] = waiting[k]
      BY <1>9, <1>10, <2>2, <3>2, <3>3
    <3>5. Len(p) = Len(q) + 1 /\ p[Len(q) + 1] = r /\ \A i \in 1 .. Len(q) : p[i] = q[i]
      BY <1>9, <3>2, <3>3, AppendedRequest
    <3>6. ASSUME NEW k \in Hosts
          PROVE  /\ \A i \in 1 .. Len(accept[k]) : accept'[k][i] = HungUp(accept[k][i], x)
                 /\ \A i \in 1 .. Len(accept'[k]) : i > Len(accept[k]) => accept'[k][i].to = Gone
      <4>1. CASE k = h
        <5>1. Len(q) = Len(accept[k]) /\ Len(q) \in Nat
          BY <1>10, <3>2, <4>1
        <5>2. \A i \in 1 .. Len(accept[k]) : accept'[k][i] = HungUp(accept[k][i], x)
          BY <1>10, <3>2, <3>4, <3>5, <4>1, <5>1
        <5>3. \A i \in 1 .. Len(p) : i > Len(q) => i = Len(q) + 1
          BY <3>5, <5>1
        <5> QED
          BY <1>9, <3>4, <3>5, <4>1, <5>1, <5>2, <5>3
      <4>2. CASE k # h
        <5>1. accept'[k] = waiting[k] /\ Len(waiting[k]) = Len(accept[k]) /\ Len(accept[k]) \in Nat
          BY <1>10, <3>4, <4>2
        <5>2. \A i \in 1 .. Len(accept'[k]) : ~(i > Len(accept[k]))
          BY <5>1
        <5> QED
          BY <1>10, <5>1, <5>2
      <4> QED
        BY <4>1, <4>2
    <3> QED
      BY <3>1, <3>6
  <2> QED
    BY <1>1, <2>1, <2>2
<1>12. LinkInv'
  BY <1>1, <1>2, <1>3, <1>7, <1>8, <1>11, LinksHungUp
<1> QED
  BY <1>1, <1>2, <1>3, <1>4, <1>7, <1>11, <1>12, BufferSame DEF TInv

-----------------------------------------------------------------------------
(* The steps of the main thread.                                           *)

\* The pairs that a cancel keeps: each has its place.
LEMMA OthersType ==
  ASSUME BufferInv, NEW dir
  PROVE  Buffer!Others(dir) \in Seq(Pairs) /\ Len(Buffer!Others(dir)) <= Size
<1> DEFINE K == Buffer!KeptAt(dir)
           k == Cardinality(K)
           at(n) == CHOOSE i \in K : Buffer!Cardinality({j \in K : j < i}) = n - 1
<1>1. PICK q \in Seq(Pairs), m \in Nat : q = queue /\ m = Len(q) /\ m <= Size
  BY DEF BufferInv
<1>2. K \subseteq 0 .. m - 1
  BY <1>1 DEF Buffer!KeptAt
<1> HIDE DEF K
<1>3. k \in Nat /\ k <= m
  <2>1. IsFiniteSet(0 .. m - 1) /\ Cardinality(0 .. m - 1) = m
    <3>1. PICK last \in Int : last = m - 1
      BY <1>1
    <3>2. IsFiniteSet(0 .. last) /\ Cardinality(0 .. last) = IF 0 > last THEN 0 ELSE last - 0 + 1
      BY FS_Interval
    <3> QED
      BY <1>1, <3>1, <3>2
  <2>2. IsFiniteSet(K) /\ Cardinality(K) <= Cardinality(0 .. m - 1)
    <3>1. K \in SUBSET (0 .. m - 1)
      BY <1>2
    <3> QED
      BY <2>1, <3>1, FS_Subset
  <2> QED
    BY <2>1, <2>2, FS_CardinalityType
<1>4. \A S : Buffer!Cardinality(S) = Cardinality(S)
  BY DEF Buffer!Cardinality, Cardinality
<1>5. \A r \in 0 .. k - 1 : \E i \in K : Cardinality({j \in K : j < i}) = r
  <2>1. 1 \in Nat \ {0} /\ 0 \notin {} /\ m \in Nat
    BY <1>1
  <2>2. \A r \in 0 .. Ring!Cardinality(K) - 1 : \E i \in K : Ring!Rank(i, K) = r
    BY <1>2, <2>1, Ring!RankOnto, Zenon
  <2>3. \A S : Ring!Cardinality(S) = Cardinality(S)
    BY DEF Ring!Cardinality, Cardinality
  <2> QED
    BY <2>2, <2>3 DEF Ring!Rank
<1>6. ASSUME NEW n \in 1 .. k PROVE q[1 + at(n)] \in Pairs
  <2>1. n - 1 \in 0 .. k - 1
    BY <1>3
  <2>2. PICK i \in K : Buffer!Cardinality({j \in K : j < i}) = n - 1
    BY <1>4, <1>5, <2>1
  <2>3. PICK a \in K : a = at(n)
    BY <2>2
  <2> HIDE DEF at
  <2>4. 1 + a \in 1 .. m
    BY <1>1, <1>2
  <2>5. q[1 + a] \in Pairs
    BY <1>1, <2>4
  <2> QED
    BY <2>3, <2>5
<1>7. PICK s : s = Buffer!Others(dir)
  OBVIOUS
<1>8. s = [n \in 1 .. k |-> q[1 + at(n)]]
  BY <1>1, <1>4, <1>7 DEF Buffer!Others, K
<1> HIDE DEF at, k
<1>9. s \in [1 .. k -> Pairs]
  BY <1>6, <1>8
<1>10. s \in Seq(Pairs) /\ Len(s) = k
  BY <1>3, <1>9
<1> QED
  BY <1>1, <1>3, <1>7, <1>10, BoundsAssumption

(* The main thread neither opens nor closes a connection.                  *)
LEMMA MainMoves ==
  ASSUME TInv, UNCHANGED <<servers, workers, fds>>, Connected(Main)' <=> Connected(Main)
  PROVE  ServerInv' /\ WorkerInv' /\ NumberInv' /\ LinkInv'
<1>1. ServerInv /\ WorkerInv /\ NumberInv /\ LinkInv
  BY DEF TInv
<1>2. UNCHANGED <<workerPc, held, left, buf, fd, table>>
  BY DEF workers, fds
<1>3. \A t \in Threads : Connected(t)' <=> Connected(t)
  BY <1>2 DEF Connected
<1>4. NumberInv' /\ \A t \in Threads : Has(t)' <=> Has(t)
  BY <1>1, <1>2, <1>3, NumbersSame DEF NumberInv, Tables
<1>5. LinkInv'
  BY <1>1, <1>2, <1>4, LinksSame
<1>6. WorkerInv'
  BY <1>1, <1>2 DEF WorkerInv
<1> QED
  BY <1>1, <1>4, <1>5, <1>6, ServersSame

LEMMA ConfigTail ==
  ASSUME MainInv, config # <<>>
  PROVE  Head(config) \in Entries /\ Tail(config) \in Seq(Entries)
<1>1. PICK q \in Seq(Entries) : q = config /\ q # <<>>
  BY DEF MainInv
<1> QED
  BY <1>1

LEMMA TakenCommand ==
  ASSUME MainInv, NEW name, Commanded(name)
  PROVE  /\ conIn' \in Seq(Commands) /\ Head(conIn) \in Commands /\ Head(conIn).name = name /\ mainPc = "idle"
         /\ UNCHANGED <<servers, workers, fds, config, pending, conPc, commands, faults, suspect>>
<1>1. PICK q \in Seq(Commands) : q = conIn /\ q # <<>>
  BY DEF MainInv, Commanded
<1>2. Tail(q) \in Seq(Commands) /\ Head(q) \in Commands
  BY <1>1
<1> QED
  BY <1>1, <1>2 DEF Commanded, bounds

LEMMA ListEndTypes ==
  ASSUME MainInv, EndListing, mainPc \in {"open", "names"}, UNCHANGED <<pending, conPc, conIn>>, suspect' \subseteq Pairs, faults' \in Nat
  PROVE  MainInv'
<1>1. config' \in Seq(Entries)
  <2>1. CASE FromConsole
    BY <2>1 DEF EndListing, MainInv
  <2>2. CASE ~FromConsole
    BY <2>2, ConfigTail DEF EndListing, FromConsole
  <2> QED
    BY <2>1, <2>2
<1>2. mainPc' = "idle" /\ pending = NoPair
  BY DEF EndListing, MainInv
<1> QED
  BY <1>1, <1>2 DEF MainInv

LEMMA CommandSteps ==
  ASSUME TInv, ReadConfigLine \/ Add \/ Cancel \/ Shutdown \/ Unknown \/ LoseNames \/ Join
  PROVE  TInv'
<1>0. ServerInv /\ BufferInv /\ WorkerInv /\ MainInv /\ NumberInv /\ LinkInv
  BY DEF TInv
<1>1. CASE ReadConfigLine
  <2>1. /\ mainPc = "idle" /\ mainPc' = "open" /\ config # <<>> /\ listing' = Head(config)
        /\ UNCHANGED <<servers, buffer, workers, fds, config, pending, console, bounds>>
    BY <1>1 DEF ReadConfigLine, MainGoes
  <2>2. MainInv'
    BY <1>0, <2>1, ConfigTail DEF MainInv, console, bounds
  <2>3. Connected(Main)' <=> Connected(Main)
    BY <2>1 DEF Connected
  <2> QED
    BY <1>0, <2>1, <2>2, <2>3, MainMoves, BufferSame DEF TInv
<1>2. CASE Add
  <2>1. Commanded("add") /\ mainPc' = "open" /\ listing' = Head(conIn).arg /\ UNCHANGED <<buffer, conOut, ignored>>
    BY <1>2 DEF Add
  <2>2. /\ conIn' \in Seq(Commands) /\ Head(conIn) \in Commands /\ Head(conIn).name = "add" /\ mainPc = "idle"
        /\ UNCHANGED <<servers, workers, fds, config, pending, conPc, commands, faults, suspect>>
    BY <1>0, <2>1, TakenCommand
  <2>3. MainInv'
    BY <1>0, <2>1, <2>2, CommandsAssumption DEF MainInv
  <2>4. Connected(Main)' <=> Connected(Main)
    BY <2>1, <2>2 DEF Connected
  <2> QED
    BY <1>0, <2>1, <2>2, <2>3, <2>4, MainMoves, BufferSame DEF TInv
<1>3. CASE Cancel
  <2>1. PICK dir : /\ Commanded("cancel") /\ (Buffer!CancelMissOnFull(dir) \/ Buffer!Cancel(dir))
                   /\ UNCHANGED <<mainPc, listing, ignored>>
    BY <1>3 DEF Cancel
  <2>2. /\ conIn' \in Seq(Commands) /\ mainPc = "idle"
        /\ UNCHANGED <<servers, workers, fds, config, pending, conPc, commands, faults, suspect>>
    BY <1>0, <2>1, TakenCommand
  <2>3. MainInv'
    BY <1>0, <2>1, <2>2 DEF MainInv
  <2>4. Connected(Main)' <=> Connected(Main)
    BY <2>1 DEF Connected
  <2>5. BufferInv'
    <3>1. CASE queue' = <<>> /\ UNCHANGED closed
      <4>1. <<>> \in Seq(Pairs) /\ Len(<<>>) = 0
        OBVIOUS
      <4> QED
        BY <1>0, <3>1, <4>1, BoundsAssumption DEF BufferInv
    <3>2. CASE queue' = Buffer!Others(dir) /\ UNCHANGED closed
      BY <1>0, <3>2, OthersType DEF BufferInv
    <3> QED
      BY <2>1, <3>1, <3>2 DEF Buffer!CancelMissOnFull, Buffer!Cancel
  <2> QED
    BY <1>0, <2>2, <2>3, <2>4, <2>5, MainMoves DEF TInv
<1>4. CASE Shutdown
  <2>1. Commanded("shutdown") /\ closed' = TRUE /\ UNCHANGED queue /\ mainPc' = "join" /\ UNCHANGED <<listing, conOut, ignored>>
    BY <1>4 DEF Shutdown, Buffer!Close
  <2>2. /\ conIn' \in Seq(Commands) /\ mainPc = "idle"
        /\ UNCHANGED <<servers, workers, fds, config, pending, conPc, commands, faults, suspect>>
    BY <1>0, <2>1, TakenCommand
  <2>3. MainInv' /\ BufferInv'
    BY <1>0, <2>1, <2>2 DEF MainInv, BufferInv
  <2>4. Connected(Main)' <=> Connected(Main)
    BY <2>1, <2>2 DEF Connected
  <2> QED
    BY <1>0, <2>1, <2>2, <2>3, <2>4, MainMoves DEF TInv
<1>5. CASE Unknown
  <2>1. Commanded("other") /\ UNCHANGED <<buffer, mainPc, listing, conOut>>
    BY <1>5 DEF Unknown
  <2>2. /\ conIn' \in Seq(Commands) /\ mainPc = "idle"
        /\ UNCHANGED <<servers, workers, fds, config, pending, conPc, commands, faults, suspect>>
    BY <1>0, <2>1, TakenCommand
  <2>3. MainInv'
    BY <1>0, <2>1, <2>2 DEF MainInv
  <2>4. Connected(Main)' <=> Connected(Main)
    BY <2>1 DEF Connected
  <2> QED
    BY <1>0, <2>1, <2>2, <2>3, <2>4, MainMoves, BufferSame DEF TInv
<1>6. CASE LoseNames
  <2>1. /\ mainPc = "names" /\ mainPc' = "lost" /\ ReadsFrom(Main)
        /\ UNCHANGED <<disk, up, accept, serving, buffer, workers, fds, config, listing, pending, console, bounds>>
    BY <1>6 DEF LoseNames, MainGoes, ReadsFrom
  <2>2. MainInv'
    BY <1>0, <2>1 DEF MainInv, console, bounds
  <2>3. \A t \in Threads : Connected(t)' <=> Connected(t)
    BY <2>1 DEF Connected, workers
  <2>4. NumberInv' /\ \A t \in Threads : Has(t)' <=> Has(t)
    BY <1>0, <2>1, <2>3, NumbersSame DEF fds, NumberInv, Tables
  <2>5. ServerInv' /\ LinkInv'
    BY <1>0, <2>1, <2>4, LinksRead DEF workers
  <2>6. WorkerInv'
    BY <1>0, <2>1 DEF WorkerInv, workers
  <2> QED
    BY <1>0, <2>1, <2>2, <2>4, <2>5, <2>6, BufferSame DEF TInv
<1>7. CASE Join
  <2>1. /\ mainPc = "join" /\ mainPc' = "done"
        /\ UNCHANGED <<servers, buffer, workers, fds, config, listing, pending, conPc, conIn, ignored, commands, bounds>>
    BY <1>7 DEF Join, MainGoes
  <2>2. MainInv'
    BY <1>0, <2>1 DEF MainInv, bounds
  <2>3. Connected(Main)' <=> Connected(Main)
    BY <2>1 DEF Connected
  <2> QED
    BY <1>0, <2>1, <2>2, <2>3, MainMoves, BufferSame DEF TInv
<1> QED
  BY <1>1, <1>2, <1>3, <1>4, <1>5, <1>6, <1>7

LEMMA OpenListStep ==
  ASSUME TInv, OpenList
  PROVE  TInv'
<1>1. /\ mainPc = "open" /\ mainPc' = "names" /\ Reaches(listing.src.host, table)
      /\ fd' = [fd EXCEPT ![Main] = Lowest(table)] /\ table' = Opening(table, Main)
      /\ UNCHANGED <<disk, up, serving, wire, buffer, workers, config, listing, pending, console, bounds>>
  BY DEF OpenList, MainGoes
<1>2. ServerInv /\ BufferInv /\ WorkerInv /\ MainInv /\ NumberInv /\ LinkInv
  BY DEF TInv
<1>3. listing.src \in Locations /\ listing.src.host \in Hosts /\ Main \in Threads
  BY <1>1, <1>2, EntriesAssumption, LocationsAssumption DEF MainInv, Threads
<1>4. PICK r \in Requests :
        r.op = "LIST" /\ r.to = Main /\ r.loc = listing.src /\ Request(listing.src.host, r)
  <2>1. PICK r : r = [op |-> "LIST", to |-> Main, loc |-> listing.src]
    OBVIOUS
  <2>2. r \in Lists
    BY <1>3, <2>1 DEF Lists, Ends
  <2> QED
    BY <2>1, <2>2 DEF OpenList, Requests
<1>5. ServerInv'
  BY <1>1, <1>2, <1>3, <1>4, RequestTypes
<1>6. UNCHANGED <<workerPc, held, left, buf>>
  BY <1>1 DEF workers
<1>7. WorkerInv'
  BY <1>2, <1>6 DEF WorkerInv
<1>8. MainInv'
  BY <1>1, <1>2 DEF MainInv, console, bounds
<1>9. ~Connected(Main) /\ Connected(Main)' /\ \A t \in Threads : t # Main => (Connected(t)' <=> Connected(t))
  BY <1>1, <1>6 DEF Connected
<1>10. NumberInv' /\ ~Has(Main) /\ Has(Main)' /\ \A t \in Threads : Has(t)' <=> Has(t) \/ t = Main
  <2>1. FreeNumbers(table) # {}
    BY <1>1 DEF Reaches
  <2> QED
    BY <1>1, <1>2, <1>3, <1>9, <2>1, NumbersOpened
<1>11. Asks(r, Main)'
  BY <1>4 DEF Asks
<1>12. LinkInv'
  BY <1>1, <1>2, <1>3, <1>4, <1>6, <1>10, <1>11, LinksRequested
<1> QED
  BY <1>1, <1>2, <1>5, <1>7, <1>8, <1>10, <1>12, BufferSame DEF TInv

LEMMA ListUnreachableStep ==
  ASSUME TInv, ListUnreachable
  PROVE  TInv'
<1>1. /\ mainPc = "open" /\ EndListing /\ Refused(listing.src.host, table) /\ table' = Leaking(table)
      /\ UNCHANGED <<servers, buffer, workers, fd, pending, conPc, conIn, conOut, commands, suspect>>
  BY DEF ListUnreachable
<1>2. ServerInv /\ BufferInv /\ WorkerInv /\ MainInv /\ NumberInv /\ LinkInv
  BY DEF TInv
<1>3. MainInv'
  BY <1>1, <1>2, RefusedFaults, ListEndTypes DEF MainInv
<1>4. UNCHANGED <<workerPc, held, left, buf>>
  BY <1>1 DEF workers
<1>5. WorkerInv'
  BY <1>2, <1>4 DEF WorkerInv
<1>6. \A t \in Threads : Connected(t)' <=> Connected(t)
  BY <1>1, <1>4 DEF Connected, EndListing
<1>7. NumberInv' /\ \A t \in Threads : Has(t)' <=> Has(t)
  BY <1>1, <1>2, <1>6, TableLeaking, NumbersSame DEF NumberInv, Tables
<1>8. LinkInv'
  BY <1>1, <1>2, <1>4, <1>7, LinksSame
<1> QED
  BY <1>1, <1>2, <1>3, <1>5, <1>7, <1>8, ServersSame, BufferSame DEF TInv

\* What the main thread reads as a name comes from its own connection.
LEMMA NameRead ==
  ASSUME TInv, ReadsName
  PROVE  mainPc = "names" /\ Readable(Main) /\ Stream(Main) = Main /\ NextName \in Files \cup {Dot}
<1>1. PICK s \in Threads : s = Stream(Main) /\ wire[s].data # <<>>
  BY DEF ReadsName, Readable
<1>2. PICK d \in Seq(Items) : d = wire[s].data
  BY DEF TInv, ServerInv, Wires
<1>3. 1 \in DOMAIN d /\ Head(d) = d[1] /\ d[1] \in Items
  BY <1>1, <1>2
<1>4. PICK i \in Items : i = Received(Main) /\ i = wire[s].data[1] /\ i.kind = "name"
  BY <1>1, <1>2, <1>3 DEF Received, ReadsName
<1>5. s = Main
  BY <1>2, <1>3, <1>4 DEF TInv, LinkInv, WireInv
<1>6. i.val \in Files \cup {Dot}
  BY <1>4, ItemFields
<1> QED
  BY <1>1, <1>4, <1>5, <1>6 DEF ReadsName, NextName

LEMMA NameSteps ==
  ASSUME TInv, SkipQueued \/ ReadName
  PROVE  TInv'
<1>1. /\ ReadsName /\ NextName # Dot /\ Take(Main)
      /\ UNCHANGED <<disk, up, accept, serving, buffer, workers, fds, config, listing, console, bounds>>
      /\ \/ UNCHANGED <<mainPc, pending>>
         \/ mainPc' = "place" /\ pending' = [file |-> NextName, src |-> listing.src, tar |-> listing.tar]
  BY DEF SkipQueued, ReadName, MainGoes, main
<1>2. ServerInv /\ BufferInv /\ WorkerInv /\ MainInv /\ NumberInv /\ LinkInv
  BY DEF TInv
<1>3. mainPc = "names" /\ Readable(Main) /\ NextName \in Files
  BY <1>1, NameRead
<1>4. MainInv'
  <2>1. CASE UNCHANGED <<mainPc, pending>>
    BY <1>1, <1>2, <2>1 DEF MainInv, console, bounds
  <2>2. CASE mainPc' = "place" /\ pending' = [file |-> NextName, src |-> listing.src, tar |-> listing.tar]
    <3>1. pending' \in Pairs
      BY <1>2, <1>3, <2>2 DEF MainInv, Pairs
    <3> QED
      BY <1>1, <1>2, <1>3, <2>2, <3>1 DEF MainInv, console, bounds
  <2> QED
    BY <1>1, <2>1, <2>2
<1>5. UNCHANGED <<workerPc, held, left, buf>>
  BY <1>1 DEF workers
<1>6. WorkerInv'
  BY <1>2, <1>5 DEF WorkerInv
<1>7. \A t \in Threads : Connected(t)' <=> Connected(t)
  BY <1>1, <1>3, <1>5 DEF Connected
<1>8. NumberInv' /\ \A t \in Threads : Has(t)' <=> Has(t)
  BY <1>1, <1>2, <1>7, NumbersSame DEF fds, NumberInv, Tables
<1>9. ServerInv' /\ LinkInv'
  BY <1>1, <1>2, <1>3, <1>5, <1>8, TakeTypes, LinksTaken
<1> QED
  BY <1>1, <1>2, <1>4, <1>6, <1>8, <1>9, BufferSame DEF TInv

LEMMA PlaceStep ==
  ASSUME TInv, Place
  PROVE  TInv'
<1>1. /\ mainPc = "place" /\ mainPc' = "names" /\ pending' = NoPair
      /\ Len(queue) < Size /\ queue' = Append(queue, pending) /\ UNCHANGED closed
      /\ UNCHANGED <<servers, workers, fds, config, listing, console, bounds>>
  BY DEF Place, MainGoes, Buffer!Put
<1>2. ServerInv /\ BufferInv /\ WorkerInv /\ MainInv /\ NumberInv /\ LinkInv
  BY DEF TInv
<1>3. MainInv'
  BY <1>1, <1>2 DEF MainInv, console, bounds
<1>4. BufferInv'
  <2>1. PICK q \in Seq(Pairs), p \in Pairs : q = queue /\ p = pending /\ Len(q) < Size
    BY <1>1, <1>2 DEF BufferInv, MainInv
  <2>2. Append(q, p) \in Seq(Pairs) /\ Len(Append(q, p)) = Len(q) + 1 /\ Len(q) \in Nat
    OBVIOUS
  <2>3. Len(Append(q, p)) <= Size
    BY <2>1, <2>2, BoundsAssumption
  <2> QED
    BY <1>1, <1>2, <2>1, <2>2, <2>3 DEF BufferInv
<1>5. Connected(Main)' <=> Connected(Main)
  BY <1>1 DEF Connected
<1> QED
  BY <1>1, <1>3, <1>4, <1>5, MainMoves DEF TInv

LEMMA ReadDotStep ==
  ASSUME TInv, ReadDot
  PROVE  TInv'
<1>1. /\ ReadsName /\ EndListing /\ table' = Closing(table, fd[Main])
      /\ accept' = BacklogAfterClose(Main) /\ serving' = ServingAfterClose(Main) /\ wire' = WireAfterClose(Main)
      /\ UNCHANGED <<disk, up, buffer, workers, fd, pending, conPc, conIn, ignored, commands, bounds>>
  BY DEF ReadDot
<1>2. ServerInv /\ BufferInv /\ WorkerInv /\ MainInv /\ NumberInv /\ LinkInv
  BY DEF TInv
<1>3. mainPc = "names" /\ Stream(Main) = Main
  BY <1>1, NameRead
<1>4. MainInv'
  BY <1>1, <1>2, <1>3, ListEndTypes DEF MainInv, bounds
<1>5. UNCHANGED <<workerPc, held, left, buf>>
  BY <1>1 DEF workers
<1>6. WorkerInv'
  BY <1>2, <1>5 DEF WorkerInv
<1>7. Connected(Main) /\ Main \in Threads /\ \A t \in Threads : t # Main => (Connected(t)' <=> Connected(t))
  BY <1>3, <1>5 DEF Connected, Threads
<1>8. CloseSource(Main)
  BY <1>1, <1>3 DEF CloseSource
<1>9. ServerInv' /\ LinkInv' /\ NumberInv'
  <2>1. fd[Main] \in FdNumbers /\ table \in Tables
    BY <1>2, <1>7 DEF NumberInv, Tables
  <2> QED
    BY <1>1, <1>2, <1>5, <1>7, <1>8, <2>1, TableClosing, SourceClosed
<1> QED
  BY <1>1, <1>2, <1>4, <1>6, <1>9, BufferSame DEF TInv

-----------------------------------------------------------------------------
(* The servers, the console and the owner of the source files.             *)

LEMMA ClientKeepsTypes ==
  ASSUME TInv, NEW h \in Hosts, ClientStep(h), UNCHANGED <<buffer, workers, fds, main, console, bounds>>
  PROVE  TInv'
<1>1. ServerInv /\ BufferInv /\ WorkerInv /\ MainInv /\ NumberInv /\ LinkInv
  BY DEF TInv
<1>2. UNCHANGED <<workerPc, held, left, buf, fd, table>>
  BY DEF workers, fds
<1>3. ServerInv' /\ LinkInv'
  BY <1>1, <1>2, ClientTypes, ClientLinks DEF LinkInv
<1>4. MainInv' /\ UNCHANGED mainPc
  BY <1>1, MainSame DEF bounds, MainInv
<1>5. WorkerInv'
  BY <1>1, <1>2 DEF WorkerInv
<1>6. \A t \in Threads : Connected(t)' <=> Connected(t)
  BY <1>2, <1>4 DEF Connected
<1>7. NumberInv'
  BY <1>1, <1>2, <1>6, NumbersSame DEF NumberInv, Tables
<1> QED
  BY <1>1, <1>3, <1>4, <1>5, <1>7, BufferSame DEF TInv

LEMMA ConsoleKeepsTypes ==
  ASSUME TInv, ReadReply \/ (\E c \in Commands : Type(c))
  PROVE  TInv'
<1>1. ServerInv /\ BufferInv /\ WorkerInv /\ MainInv /\ NumberInv /\ LinkInv
  BY DEF TInv
<1>2. /\ UNCHANGED <<servers, buffer, workers, fds, main, ignored, bounds>>
      /\ conPc' \in {"idle", "reply", "last", "closed"} /\ conIn' \in Seq(Commands)
  <2>1. CASE ReadReply
    BY <1>1, <2>1 DEF ReadReply, MainInv
  <2>2. ASSUME NEW c \in Commands, Type(c)
        PROVE  /\ UNCHANGED <<servers, buffer, workers, fds, main, ignored, bounds>>
               /\ conPc' \in {"idle", "reply", "last", "closed"} /\ conIn' \in Seq(Commands)
    <3>1. conIn \in Seq(Commands) /\ conIn' = Append(conIn, c)
      BY <1>1, <2>2 DEF Type, MainInv
    <3> QED
      BY <2>2, <3>1 DEF Type
  <2> QED
    BY <2>1, <2>2
<1>3. UNCHANGED <<mainPc, config, listing, pending, faults, suspect>>
  BY <1>2 DEF main, bounds
<1>4. MainInv'
  BY <1>1, <1>2, <1>3 DEF MainInv
<1>5. Connected(Main)' <=> Connected(Main)
  BY <1>3 DEF Connected
<1> QED
  BY <1>1, <1>2, <1>4, <1>5, MainMoves, BufferSame DEF TInv

LEMMA SourceKeepsTypes ==
  ASSUME TInv, NEW l \in Locations, NEW f \in Files, ChangeSource(l, f)
  PROVE  TInv'
<1>1. ServerInv /\ BufferInv /\ WorkerInv /\ MainInv /\ NumberInv /\ LinkInv
  BY DEF TInv
<1>2. /\ disk[l][f] # Absent /\ faults' = faults + 1
      /\ suspect' = suspect \cup {p \in Pairs : p.src = l /\ p.file = f}
      /\ UNCHANGED <<up, accept, serving, wire, buffer, workers, fds, main, console>>
  BY DEF ChangeSource
<1>3. PICK c \in Contents :
        /\ disk' = [disk EXCEPT ![l][f] = c]
        /\ c = Absent => \A h \in Hosts : serving[h].op = "PULL" => <<serving[h].loc, serving[h].file>> # <<l, f>>
  <2>1. CASE disk[l][f] # <<>> /\ disk' = [disk EXCEPT ![l][f] = Front(@)]
    <3>1. PICK q \in Seq(Stored) : q = disk[l][f] /\ q # <<>>
      BY <1>1, <1>2, <2>1 DEF ServerInv, Contents
    <3>2. Front(q) \in Seq(Stored)
      <4>1. PICK n \in Nat : n = Len(q) - 1 /\ \A i \in 1 .. n : q[i] \in Stored
        <5>1. Len(q) \in Nat \ {0} /\ \A i \in 1 .. Len(q) : q[i] \in Stored
          BY <3>1
        <5>2. Len(q) - 1 \in Nat /\ \A i \in 1 .. Len(q) - 1 : i \in 1 .. Len(q)
          BY <5>1
        <5> QED
          BY <5>1, <5>2
      <4>2. PICK s : s = [i \in 1 .. n |-> q[i]]
        OBVIOUS
      <4>3. s \in Seq(Stored)
        BY <4>1, <4>2
      <4>4. Front(q) = s
        BY <4>1, <4>2 DEF Front
      <4> QED
        BY <4>3, <4>4
    <3>3. Front(q) # Absent
      BY <3>2, AbsentAssumption DEF Stored
    <3>4. disk' = [disk EXCEPT ![l][f] = Front(q)]
      BY <2>1, <3>1
    <3> QED
      BY <3>2, <3>3, <3>4 DEF Contents
  <2>2. CASE /\ \A h \in Hosts : serving[h].op = "PULL" => <<serving[h].loc, serving[h].file>> # <<l, f>>
             /\ disk' = [disk EXCEPT ![l][f] = Absent]
    BY <2>2 DEF Contents
  <2> QED
    BY <2>1, <2>2 DEF ChangeSource
<1>4. /\ disk' \in [Locations -> [Files -> Contents]]
      /\ \A k \in Locations, g \in Files : disk'[k][g] = IF k = l /\ g = f THEN c ELSE disk[k][g]
  BY <1>1, <1>3 DEF ServerInv
<1>5. ServerInv'
  BY <1>1, <1>2, <1>4 DEF ServerInv
<1>6. \A h \in Hosts : serving'[h].op = "PULL" => disk'[serving'[h].loc][serving'[h].file] # Absent
  <2> TAKE h \in Hosts
  <2>1. PICK s \in Servings : s = serving[h] /\ s = serving'[h]
    BY <1>1, <1>2 DEF ServerInv
  <2>2. s.op = "PULL" => s.loc \in Locations /\ s.file \in Files /\ disk[s.loc][s.file] # Absent
    BY <1>1, <2>1, ServingFields DEF LinkInv, WireInv
  <2>3. s.op = "PULL" /\ s.loc = l /\ s.file = f => c # Absent
    BY <1>3, <2>1
  <2>4. s.op = "PULL" => disk'[s.loc][s.file] # Absent
    BY <1>4, <2>2, <2>3
  <2> QED
    BY <2>1, <2>4
<1>7. UNCHANGED <<workerPc, held, left, buf, fd, table>>
  BY <1>2 DEF workers, fds
<1>8. MainInv' /\ UNCHANGED mainPc
  <2>1. faults' \in Nat /\ suspect' \subseteq Pairs
    BY <1>1, <1>2 DEF MainInv
  <2> QED
    BY <1>1, <1>2, <2>1, MainSame
<1>9. WorkerInv'
  BY <1>1, <1>7 DEF WorkerInv
<1>10. \A t \in Threads : Connected(t)' <=> Connected(t)
  BY <1>7, <1>8 DEF Connected
<1>11. NumberInv' /\ \A t \in Threads : Has(t)' <=> Has(t)
  BY <1>1, <1>7, <1>10, NumbersSame DEF NumberInv, Tables
<1>12. WireInv'
  BY <1>1, <1>2, <1>6, <1>7, WiresKept DEF LinkInv
<1>13. Asking'
  BY <1>1, <1>2, <1>7, <1>11, LinesAllStay DEF LinkInv
<1> QED
  BY <1>1, <1>2, <1>5, <1>8, <1>9, <1>11, <1>12, <1>13, BufferSame DEF TInv, LinkInv

-----------------------------------------------------------------------------
LEMMA InitTypes == Init => TInv
<1> SUFFICES ASSUME Init PROVE TInv
  OBVIOUS
<1>1. /\ disk \in Disks /\ up = [h \in Hosts |-> TRUE] /\ accept = [h \in Hosts |-> <<>>]
      /\ serving = [h \in Hosts |-> Closed] /\ wire = [t \in Threads |-> NoData]
      /\ queue = <<>> /\ closed = FALSE
      /\ workerPc = [w \in Workers |-> "obtain"] /\ held = [w \in Workers |-> NoPair]
      /\ left = [w \in Workers |-> 0] /\ buf = [w \in Workers |-> Junk]
      /\ fd = [t \in Threads |-> 0] /\ table = [n \in FdNumbers |-> Free]
      /\ mainPc = "idle" /\ config = Config /\ pending = NoPair
      /\ conPc = "idle" /\ conIn = <<>> /\ faults = 0 /\ suspect = {}
  BY DEF Init, ClientInit, Buffer!Init
<1>2. \A S : <<>> \in Seq(S) /\ Len(<<>>) = 0
  OBVIOUS
<1>3. ServerInv
  <2>1. disk \in [Locations -> [Files -> Contents]]
    <3>1. Seq(Blocks) \subseteq Seq(Stored)
      BY DEF Stored
    <3> QED
      BY <1>1, <3>1, DisksAssumption DEF Contents
  <2>2. Closed \in Servings /\ <<>> \in Seq(Requests)
    BY <1>2 DEF Servings
  <2>3. Len(<<>>) <= Backlog /\ 0 <= SockCap + 1
    BY <1>2, RoomAssumption
  <2> QED
    BY <1>1, <2>1, <2>2, <2>3, NoDataType DEF ServerInv
<1>4. BufferInv
  <2>1. Len(<<>>) <= Size
    BY <1>2, BoundsAssumption
  <2> QED
    BY <1>1, <1>2, <2>1 DEF BufferInv
<1>5. WorkerInv
  BY <1>1 DEF WorkerInv, Stored
<1>6. MainInv
  BY <1>1, <1>2, EntriesAssumption DEF MainInv
<1>7. NumberInv
  BY <1>1, NumbersAssumption DEF NumberInv, Connected, Threads
<1>8. \A h \in Hosts : \A i \in 0 .. Len(accept[h]) : Line(h, i).to \notin Threads
  <2> TAKE h \in Hosts
  <2> TAKE i \in 0 .. Len(accept[h])
  <2>1. i = 0
    BY <1>1, <1>2
  <2> QED
    BY <1>1, <2>1, ThreadsAssumption DEF Line, Closed
<1>9. Asking
  BY <1>8 DEF Asking
<1>10. WireInv
  BY <1>1, NoDataType DEF WireInv, Closed
<1> QED
  BY <1>3, <1>4, <1>5, <1>6, <1>7, <1>9, <1>10 DEF TInv, LinkInv

LEMMA StutterTypes == TInv /\ UNCHANGED vars => TInv'
<1> SUFFICES ASSUME TInv, UNCHANGED vars PROVE TInv'
  OBVIOUS
<1>1. UNCHANGED <<servers, buffer, workers, fds, main, console, bounds>>
  BY DEF vars
<1>2. Connected(Main)' <=> Connected(Main)
  BY <1>1 DEF Connected, main
<1>3. MainInv'
  BY <1>1, MainSame DEF TInv, MainInv, bounds
<1> QED
  BY <1>1, <1>2, <1>3, MainMoves, BufferSame DEF TInv

(* The inductive invariant behind TypeOK: what a request, an answer and a  *)
(* connection may be depends on who waits for which answer.  A double      *)
(* close (nfs_manager.c:131, 157) may close a connection of somebody else, *)
(* so a number is a thread's only as long as the table says so             *)
(* (NumberInv); then nobody else's answer goes over it (LinkInv), which is *)
(* what bounds the size in an answer, and with it what is left to copy.    *)
THEOREM TypesInductive == Spec => []TInv
<1>1. TInv /\ [Next]_vars => TInv'
  <2> SUFFICES ASSUME TInv, [Next]_vars PROVE TInv'
    OBVIOUS
  <2>1. CASE MainStep
    BY <2>1, CommandSteps, OpenListStep, ListUnreachableStep, NameSteps, PlaceStep, ReadDotStep DEF MainStep
  <2>2. ASSUME NEW w \in Workers, WorkerStep(w) PROVE TInv'
    BY <2>2, ExitStep, ObtainStep, OpenSourceStep, SourceUnreachableStep, ReadResetStep, ReadSizeStep, PullRefusedStep, CreateStep,
       TargetUnreachableStep, ReadBlockStep, PushBlockStep, PushFailsStep, FinishStep DEF WorkerStep
  <2>3. ASSUME NEW h \in Hosts, ClientStep(h), UNCHANGED <<buffer, workers, fds, main, console, bounds>> PROVE TInv'
    BY <2>3, ClientKeepsTypes
  <2>4. CASE ReadReply \/ \E c \in Commands : Type(c)
    BY <2>4, ConsoleKeepsTypes
  <2>5. ASSUME NEW l \in Locations, NEW f \in Files, ChangeSource(l, f) PROVE TInv'
    BY <2>5, SourceKeepsTypes
  <2>6. CASE UNCHANGED vars \/ Rest \/ \E w \in Workers : Spin(w)
    BY <2>6, StutterTypes DEF Rest, Spin
  <2> QED
    BY <2>1, <2>2, <2>3, <2>4, <2>5, <2>6 DEF Next
<1> QED
  BY <1>1, InitTypes, PTL DEF Spec

LEMMA TypesImply == TInv => TypeOK
<1> SUFFICES ASSUME TInv PROVE TypeOK
  OBVIOUS
<1>1. ServerInv /\ BufferInv /\ WorkerInv /\ MainInv /\ NumberInv
  BY DEF TInv
<1>2. ToSet(queue) \subseteq Pairs
  <2>1. PICK q \in Seq(Pairs) : q = queue
    BY <1>1 DEF BufferInv
  <2> QED
    BY <2>1 DEF ToSet
<1>3. \A t \in Threads : wire[t].ended \in {"no", "eof", "reset"}
  BY <1>1 DEF ServerInv, Wires
<1>4. \A m, n \in FdNumbers : table[m] = table[n] /\ table[m] \in Threads => m = n
  BY <1>1 DEF NumberInv
<1>5. (pending = NoPair) = (mainPc # "place")
  BY <1>1, NoPairAssumption DEF MainInv
<1>6. \A w \in Workers : IF workerPc[w] \in {"obtain", "exit"} THEN held[w] = NoPair ELSE held[w] \in Pairs
  BY <1>1 DEF WorkerInv
<1> QED
  BY <1>1, <1>2, <1>3, <1>4, <1>5, <1>6 DEF TypeOK, ServerInv, BufferInv, WorkerInv, MainInv, NumberInv, Contents, Stored

(* Every variable keeps its type: the buffer within its size, one number   *)
(* per connection, a pair in the hands of every busy worker, and nothing   *)
(* but blocks in files (nfs_manager.c:60-170, nfs_client.c:47-275).        *)
THEOREM TypeCorrect == Spec => []TypeOK
BY TypesInductive, TypesImply, PTL

-----------------------------------------------------------------------------
(* Contents.  What the theorems about them suppose of the configuration:   *)
(* no directory is both a source and a target; for TargetExact also that   *)
(* none is the target of two, and that what targets hold at the start can  *)
(* be told from what is copied.                                            *)
SourcesApart == \A d, e \in Entries : d.src # e.tar
TargetsApart == \A d, e \in Entries : d.tar = e.tar => d = e
Marked(content) == content = Absent \/ Contains(content, Old)
TargetsMarked == \A d \in Disks, e \in Entries, f \in Files : Marked(d[e.tar][f])

(* Nobody closes a connection that is another worker's: there is none, or  *)
(* nothing fails, so that nobody closes twice.                             *)
Sole == \A v, w \in Workers : v = w
Roomy == MaxFaults = 0 /\ IsFiniteSet(Workers) /\ IsFiniteSet(FdNumbers) /\ Cardinality(FdNumbers) > Cardinality(Threads)

(* While every server runs, the number a thread keeps is its connection's, *)
(* but where a single worker has closed that already and is suspect.       *)
OwnInv ==
  AllUp =>
    /\ \A t \in Threads : wire[t].ended # "reset"
    /\ \A w \in Workers : Connected(w) => table[fd[w]] = w \/ (Sole /\ held[w] \in suspect)
    /\ Sole \/ \A n \in FdNumbers : table[n] # Leaked

(* Two workers with one target are both suspect, and a PUSH goes to the    *)
(* host of a target.                                                       *)
ShareInv ==
  \A v, w \in Workers :
    v # w /\ held[v] # NoPair /\ held[w] # NoPair /\ SameTarget(held[v], held[w]) => held[v] \in suspect
PushInv ==
  \A h \in Hosts : \A i \in DOMAIN accept[h] :
    accept[h][i].op \in {"PUSH -1", "PUSH n"} =>
      accept[h][i].loc.host = h /\ \E e \in Entries : accept[h][i].loc = e.tar

(* What comes from the source.  The connection holds, behind the size or   *)
(* once that is read, the blocks that follow those taken out of it, up to  *)
(* the one sent last.  S is the source, n what is to go, b the block read. *)
Comes(data, S, sent, skip, base) ==
  /\ base + Len(data) = skip + sent /\ sent <= Len(S)
  /\ \A i \in 1 .. sent - base : data[skip + i] = Item("block", S[base + i])
Base(pc, n, S) == Len(S) - n + (IF pc = "push" THEN 1 ELSE 0)
Flowing(pc, n, b, data, S, sent) ==
  /\ pc = "size" =>
       /\ data # <<>> /\ data[1].kind = "size"
       /\ data[1].val >= 0 => S # Absent /\ data[1].val = Len(S) /\ Comes(data, S, sent, 1, 0)
  /\ pc \in {"create", "copy", "push"} =>
       S # Absent /\ n <= Len(S) /\ Comes(data, S, sent, 0, Base(pc, n, S))
  /\ pc = "create" => n = Len(S)
  /\ pc = "push" => b = S[Base(pc, n, S)]

\* Nothing is said of a pair that met a failure, or whose size cannot be announced.
Spoiled == suspect \cup {p \in Pairs : ~Representable(p)}

AsksOf(v, h) == \E i \in DOMAIN accept[h] : accept[h][i].to = v
Waiting(w) == AsksOf(w, held[w].src.host)
Sent(w) == LET s == serving[held[w].src.host] IN IF s.to = w THEN s.at ELSE Len(Source(held[w]))
InFlow(w) ==
  IF Waiting(w) THEN workerPc[w] = "size"
  ELSE Flowing(workerPc[w], left[w], buf[w], wire[w].data, Source(held[w]), Sent(w))
InInv == AllUp => \A w \in Workers : Connected(w) /\ held[w] \notin Spoiled => InFlow(w)

(* What goes to the target: landed is the source as far as it is pushed,   *)
(* and a target that nobody fills is as it was or is its source.           *)
Reaching(pc, n, S, landed) ==
  /\ pc \in {"copy", "push"} => landed = SubSeq(S, 1, Len(S) - n)
  /\ pc = "finish" => S # Absent /\ landed = S
OutFlow(w) == Reaching(workerPc[w], left[w], Source(held[w]), Landing(held[w]))
OutInv == AllUp => \A w \in Workers : Connected(w) /\ held[w] \notin Spoiled => OutFlow(w)
Filling(w) == workerPc[w] \in {"copy", "push", "finish"}
RestInv ==
  AllUp => \A p \in Pairs \ Spoiled :
    (\A w \in Workers : held[w] = p => ~Filling(w)) => Marked(Landing(p)) \/ Landing(p) = Source(p)

-----------------------------------------------------------------------------
(* What Landed computes: the requests one after the other.  That the       *)
(* recursive function exists, and that it is the only one, by the least    *)
(* number of requests without.                                             *)
Then(content, r, p) == IF Pushes(r, p) THEN Pushed(content, r) ELSE content
Runs(g, c, q, p) == g[0] = c /\ \A n \in 1 .. Len(q) : g[n] = Then(g[n - 1], q[n], p)

LEMMA LandedSteps ==
  ASSUME NEW c, NEW q, Len(q) \in Nat, NEW p
  PROVE  \E g : Runs(g, c, q, p) /\ Landed(c, q, p) = g[Len(q)]
<1> DEFINE N == Len(q)
           step(n, x) == IF Pushes(q[n], p) THEN Pushed(x, q[n]) ELSE x
           value(g, n) == IF n = 0 THEN c ELSE IF Pushes(q[n], p) THEN Pushed(g[n - 1], q[n]) ELSE g[n - 1]
           follows(g, m) == g = [n \in 0 .. m |-> value(g, n)]
           landed == CHOOSE g : follows(g, N)
           stuck == {m \in 0 .. N : \A g : ~follows(g, m)}
<1>1. N \in Nat
  OBVIOUS
<1>2. Landed(c, q, p) = landed[N]
  BY DEF Landed
<1>3. \A g, n : n # 0 => value(g, n) = step(n, g[n - 1])
  OBVIOUS
<1>4. \A g : value(g, 0) = c
  OBVIOUS
<1> HIDE DEF N, step, value
<1>5. stuck = {}
  <2> SUFFICES ASSUME stuck # {} PROVE FALSE
    OBVIOUS
  <2>1. PICK m \in stuck : \A k \in stuck : m <= k
    <3>1. stuck \subseteq Nat
      BY <1>1
    <3> HIDE DEF stuck
    <3> QED
      BY <3>1, LeastBelow
  <2>2. CASE m = 0
    <3>1. follows([n \in 0 .. m |-> c], m)
      BY <1>4, <2>2
    <3> QED
      BY <3>1
  <2>3. CASE m # 0
    <3>1. m \in 1 .. N /\ m - 1 \in 0 .. N /\ m - 1 \notin stuck
      <4>1. m \in 0 .. N
        OBVIOUS
      <4>2. m \in 1 .. N /\ m - 1 \in 0 .. N /\ ~(m <= m - 1)
        BY <1>1, <2>3, <4>1
      <4> HIDE DEF stuck
      <4> QED
        BY <2>1, <4>2
    <3>2. PICK g : follows(g, m - 1)
      BY <3>1
    <3> DEFINE h == [n \in 0 .. m |-> IF n = m THEN step(m, g[m - 1]) ELSE g[n]]
    <3>3. \A n \in 0 .. m : h[n] = value(h, n)
      <4> TAKE n \in 0 .. m
      <4>1. CASE n = m
        <5>1. h[m - 1] = g[m - 1] /\ h[m] = step(m, g[m - 1])
          BY <3>1
        <5> QED
          BY <1>3, <2>3, <4>1, <5>1
      <4>2. CASE n # m
        <5>1. n \in 0 .. m - 1 /\ h[n] = g[n]
          BY <3>1, <4>2
        <5>2. g[n] = value(g, n)
          BY <3>2, <5>1
        <5>3. n # 0 => h[n - 1] = g[n - 1]
          BY <3>1, <5>1
        <5>4. value(h, n) = value(g, n)
          BY <1>3, <1>4, <5>3
        <5> QED
          BY <5>1, <5>2, <5>4
      <4> QED
        BY <4>1, <4>2
    <3>4. follows(h, m)
      BY <3>3
    <3> QED
      BY <3>4
  <2> QED
    BY <2>2, <2>3
<1>6. follows(landed, N)
  <2>1. N \in 0 .. N
    BY <1>1
  <2>2. \E g : follows(g, N)
    <3> HIDE DEF follows
    <3>1. N \notin stuck
      BY <1>5
    <3> QED
      BY <2>1, <3>1
  <2> HIDE DEF follows
  <2> QED
    BY <2>2
<1>7. \A n \in 0 .. N : landed[n] = value(landed, n)
  BY <1>6
<1> HIDE DEF landed
<1>8. landed[0] = c
  BY <1>1, <1>4, <1>7
<1>9. \A n \in 1 .. N : landed[n] = step(n, landed[n - 1])
  BY <1>1, <1>3, <1>7
<1>10. \A n \in 1 .. N : landed[n] = Then(landed[n - 1], q[n], p)
  BY <1>9 DEF Then, step
<1> QED
  BY <1>2, <1>8, <1>10 DEF N, Runs

LEMMA LandedUnique ==
  ASSUME NEW c, NEW q, Len(q) \in Nat, NEW p, NEW h, Runs(h, c, q, p)
  PROVE  Landed(c, q, p) = h[Len(q)]
<1>1. PICK g : Runs(g, c, q, p) /\ Landed(c, q, p) = g[Len(q)]
  BY LandedSteps
<1> DEFINE wrong == {n \in 0 .. Len(q) : g[n] # h[n]}
<1>2. wrong = {}
  <2> SUFFICES ASSUME wrong # {} PROVE FALSE
    OBVIOUS
  <2>1. PICK m \in wrong : \A k \in wrong : m <= k
    <3>1. wrong \subseteq Nat
      OBVIOUS
    <3> HIDE DEF wrong
    <3> QED
      BY <3>1, LeastBelow
  <2>2. m \in 0 .. Len(q) /\ g[m] # h[m]
    OBVIOUS
  <2>3. m \in 1 .. Len(q) /\ m - 1 \in 0 .. Len(q) /\ ~(m <= m - 1)
    BY <1>1, <2>2 DEF Runs
  <2>4. g[m - 1] = h[m - 1]
    BY <2>1, <2>3
  <2> QED
    BY <1>1, <2>2, <2>3, <2>4 DEF Runs
<1> QED
  BY <1>1, <1>2

LEMMA LandedAppend ==
  ASSUME NEW c, NEW q \in Seq(Requests), NEW r \in Requests, NEW p
  PROVE  Landed(c, Append(q, r), p) = Then(Landed(c, q, p), r, p)
<1> DEFINE m == Len(q) + 1
<1>1. Len(q) \in Nat /\ m \in Nat /\ m = Len(q) + 1
  OBVIOUS
<1>2. /\ Len(Append(q, r)) = m
      /\ \A i \in 1 .. Len(q) : Append(q, r)[i] = q[i]
      /\ Append(q, r)[m] = r
  BY AppendedRequest
<1>3. PICK g : Runs(g, c, q, p) /\ Landed(c, q, p) = g[Len(q)]
  BY <1>1, LandedSteps
<1> HIDE DEF m
<1> DEFINE h == [n \in 0 .. m |-> IF n = m THEN Then(g[Len(q)], r, p) ELSE g[n]]
<1>4. h[m] = Then(g[Len(q)], r, p) /\ \A n \in 0 .. Len(q) : h[n] = g[n]
  BY <1>1
<1> HIDE DEF h
<1>5. ASSUME NEW n \in 1 .. m PROVE h[n] = Then(h[n - 1], Append(q, r)[n], p)
  <2>1. CASE n = m
    <3>1. n - 1 = Len(q) /\ Len(q) \in 0 .. Len(q)
      BY <1>1, <2>1
    <3> QED
      BY <1>2, <1>4, <2>1, <3>1
  <2>2. CASE n # m
    <3>1. n \in 1 .. Len(q) /\ n \in 0 .. Len(q) /\ n - 1 \in 0 .. Len(q)
      BY <1>1, <2>2
    <3> QED
      BY <1>2, <1>3, <1>4, <3>1 DEF Runs
  <2> QED
    BY <2>1, <2>2
<1>6. h[0] = c
  BY <1>1, <1>3, <1>4 DEF Runs
<1>7. PICK a : a = Append(q, r)
  OBVIOUS
<1>8. Runs(h, c, a, p) /\ Len(a) \in Nat
  BY <1>1, <1>2, <1>5, <1>6, <1>7 DEF Runs
<1>9. Landed(c, a, p) = h[Len(a)]
  BY <1>8, LandedUnique
<1>10. Landed(c, a, p) = Then(g[Len(q)], r, p)
  BY <1>2, <1>4, <1>7, <1>9
<1> QED
  BY <1>3, <1>7, <1>10

LEMMA LandedPop ==
  ASSUME NEW c, NEW q \in Seq(Requests), q # <<>>, NEW p
  PROVE  Landed(c, q, p) = Landed(Then(c, q[1], p), Tail(q), p)
<1> DEFINE m == Len(q) - 1
<1>1. Len(q) \in Nat \ {0} /\ m \in Nat /\ m = Len(q) - 1 /\ m + 1 = Len(q)
  OBVIOUS
<1>2. Len(Tail(q)) = m /\ \A i \in 1 .. m : Tail(q)[i] = q[i + 1]
  BY PoppedRequest
<1>3. PICK g : Runs(g, c, q, p) /\ Landed(c, q, p) = g[Len(q)]
  BY <1>1, LandedSteps
<1> HIDE DEF m
<1> DEFINE h == [n \in 0 .. m |-> g[n + 1]]
<1>4. \A n \in 0 .. m : h[n] = g[n + 1]
  OBVIOUS
<1> HIDE DEF h
<1>5. ASSUME NEW n \in 1 .. m PROVE h[n] = Then(h[n - 1], Tail(q)[n], p)
  <2>1. n \in 0 .. m /\ n - 1 \in 0 .. m /\ n + 1 \in 1 .. Len(q) /\ (n + 1) - 1 = n /\ (n - 1) + 1 = n
    BY <1>1
  <2>2. h[n] = g[n + 1] /\ h[n - 1] = g[n]
    BY <1>4, <2>1
  <2>3. g[n + 1] = Then(g[n], q[n + 1], p)
    BY <1>3, <2>1 DEF Runs
  <2> QED
    BY <1>2, <2>2, <2>3
<1>6. h[0] = Then(c, q[1], p)
  <2>1. 0 \in 0 .. m /\ 1 \in 1 .. Len(q) /\ 0 + 1 = 1 /\ 1 - 1 = 0
    BY <1>1
  <2>2. g[1] = Then(g[0], q[1], p) /\ g[0] = c
    BY <1>3, <2>1 DEF Runs
  <2> QED
    BY <1>4, <2>1, <2>2
<1>7. Runs(h, Then(c, q[1], p), Tail(q), p) /\ Len(Tail(q)) \in Nat
  BY <1>1, <1>2, <1>5, <1>6 DEF Runs
<1>8. Landed(Then(c, q[1], p), Tail(q), p) = h[m]
  BY <1>2, <1>7, LandedUnique
<1>9. h[m] = g[Len(q)]
  BY <1>1, <1>4
<1> QED
  BY <1>3, <1>8, <1>9

LEMMA LandedSame ==
  ASSUME NEW c, NEW q, NEW r, Len(q) \in Nat, Len(r) = Len(q), NEW p,
         \A n \in 1 .. Len(q) : \A x : Then(x, r[n], p) = Then(x, q[n], p)
  PROVE  Landed(c, r, p) = Landed(c, q, p)
<1>1. PICK g : Runs(g, c, q, p) /\ Landed(c, q, p) = g[Len(q)]
  BY LandedSteps
<1>2. Runs(g, c, r, p)
  BY <1>1 DEF Runs
<1> QED
  BY <1>1, <1>2, LandedUnique

LEMMA LandedNone ==
  ASSUME NEW c, NEW q, Len(q) \in Nat, NEW p, \A n \in 1 .. Len(q) : ~Pushes(q[n], p)
  PROVE  Landed(c, q, p) = c
<1> DEFINE h == [n \in 0 .. Len(q) |-> c]
<1>1. \A n \in 0 .. Len(q) : h[n] = c
  OBVIOUS
<1> HIDE DEF h
<1>2. \A n \in 1 .. Len(q) : n \in 0 .. Len(q) /\ n - 1 \in 0 .. Len(q)
  OBVIOUS
<1>3. h[0] = c /\ h[Len(q)] = c /\ \A n \in 1 .. Len(q) : h[n] = c /\ h[n - 1] = c
  BY <1>1, <1>2
<1>4. Runs(h, c, q, p)
  BY <1>3 DEF Runs, Then
<1> QED
  BY <1>3, <1>4, LandedUnique

LEMMA HungUpThen ==
  ASSUME NEW r \in Requests, NEW x, NEW p
  PROVE  \A c : Then(c, HungUp(r, x), p) = Then(c, r, p)
<1>1. CASE r \in PushRequests
  BY <1>1, HungUpRequest
<1>2. CASE r \notin PushRequests
  <2>1. r.op \in {"PULL", "LIST"} /\ HungUp(r, x).op = r.op
    BY <1>2, RequestFields, HungUpRequest
  <2> QED
    BY <2>1 DEF Then, Pushes
<1> QED
  BY <1>1, <1>2

-----------------------------------------------------------------------------
(* What a step that touches the connection of x only leaves to the others. *)
Beside(x) ==
  /\ UNCHANGED <<disk, up>>
  /\ \A v \in Threads : v # x =>
       wire'[v] = wire[v] /\ \A h \in Hosts : (serving'[h].to = v <=> serving[h].to = v) /\ (AsksOf(v, h)' <=> AsksOf(v, h))
  /\ \A h \in Hosts : serving'[h].at = serving[h].at
  /\ \A v \in Threads : wire'[v].ended \in {wire[v].ended, "no", "eof"}

LEMMA BesideSame ==
  ASSUME NEW x, UNCHANGED servers
  PROVE  Beside(x)
BY DEF servers, Beside, AsksOf

LEMMA BesideAsked ==
  ASSUME ServerInv, NEW h \in Hosts, NEW r \in Requests, Request(h, r), UNCHANGED <<disk, up, serving, wire>>,
         NEW x, r.to \in Threads => r.to = x
  PROVE  Beside(x)
<1>1. PICK q \in Seq(Requests) : q = accept[h]
  BY DEF ServerInv
<1>2. accept' = [accept EXCEPT ![h] = Append(q, r)]
  BY <1>1 DEF Request
<1>3. accept'[h] = Append(q, r) /\ \A k \in Hosts : k # h => accept'[k] = accept[k]
  BY <1>2 DEF ServerInv
<1>4. /\ DOMAIN Append(q, r) = 1 .. Len(q) + 1 /\ Len(q) \in Nat /\ DOMAIN q = 1 .. Len(q)
      /\ \A i \in 1 .. Len(q) : Append(q, r)[i] = q[i]
      /\ Append(q, r)[Len(q) + 1] = r
  BY AppendedRequest
<1>5. ASSUME NEW v \in Threads, v # x, NEW k \in Hosts PROVE AsksOf(v, k)' <=> AsksOf(v, k)
  <2>1. CASE k # h
    BY <1>3, <2>1 DEF AsksOf
  <2>2. CASE k = h
    <3>1. r.to # v
      BY <1>5
    <3>2. (\E i \in DOMAIN Append(q, r) : Append(q, r)[i].to = v) <=> (\E i \in DOMAIN q : q[i].to = v)
      BY <1>4, <3>1
    <3> QED
      BY <1>1, <1>3, <2>2, <3>2 DEF AsksOf
  <2> QED
    BY <2>1, <2>2
<1> QED
  BY <1>5 DEF Beside

LEMMA BesideTaken ==
  ASSUME ServerInv, NEW t, Readable(t), Take(t), UNCHANGED <<disk, up, accept, serving>>
  PROVE  Beside(Stream(t)) /\ Stream(t) \in Threads
<1>1. PICK s \in Threads :
           /\ s = Stream(t) /\ wire'[s] = [data |-> Tail(wire[s].data), ended |-> wire[s].ended]
           /\ \A u \in Threads : u # s => wire'[u] = wire[u]
  BY TakeShape
<1>2. \A u \in Threads : wire'[u].ended = wire[u].ended
  BY <1>1
<1> QED
  BY <1>1, <1>2 DEF Beside, AsksOf

LEMMA BesideReset ==
  ASSUME ServerInv, NEW t, SeeReset(t), UNCHANGED <<disk, up, accept, serving>>
  PROVE  Beside(Stream(t))
<1>1. CASE UNCHANGED wire
  BY <1>1, BesideSame DEF servers
<1>2. CASE wire' # wire
  <2>1. PICK s \in Threads :
             /\ s = Stream(t) /\ wire'[s] = [data |-> <<>>, ended |-> "eof"]
             /\ \A u \in Threads : u # s => wire'[u] = wire[u]
    BY <1>2, ResetShape
  <2>2. \A u \in Threads : wire'[u].ended \in {wire[u].ended, "no", "eof"}
    BY <2>1
  <2> QED
    BY <2>1, <2>2 DEF Beside, AsksOf
<1> QED
  BY <1>1, <1>2

(* A close, and perhaps the empty PUSH that follows it.                    *)
Dropped(x) ==
  /\ \A k \in Hosts :
       \/ accept'[k] = BacklogAfterClose(x)[k]
       \/ \E r \in PushRequests : r.op = "PUSH 0" /\ accept'[k] = Append(BacklogAfterClose(x)[k], r)
  /\ serving' = ServingAfterClose(x) /\ wire' = WireAfterClose(x) /\ UNCHANGED <<disk, up>>

LEMMA DroppedBacklog ==
  ASSUME ServerInv, NEW x, Dropped(x), NEW k \in Hosts
  PROVE  \E q \in Seq(Requests) :
           /\ Len(q) = Len(accept[k]) /\ Len(q) \in Nat /\ DOMAIN q = 1 .. Len(q) /\ DOMAIN accept[k] = 1 .. Len(q)
           /\ \A i \in 1 .. Len(q) : q[i] = HungUp(accept[k][i], x) /\ accept[k][i] \in Requests
           /\ accept'[k] = q \/ \E r \in PushRequests : r.op = "PUSH 0" /\ r.to = Gone /\ accept'[k] = Append(q, r)
<1>1. PICK q \in Seq(Requests) : q = BacklogAfterClose(x)[k]
  BY HangUpShape
<1>2. /\ Len(q) = Len(accept[k])
      /\ \A i \in DOMAIN accept[k] : q[i] = HungUp(accept[k][i], x)
  BY <1>1, HangUpShape
<1>3. PICK a \in Seq(Requests) : a = accept[k]
  BY DEF ServerInv
<1>4. Len(q) \in Nat /\ DOMAIN q = 1 .. Len(q) /\ DOMAIN a = 1 .. Len(a) /\ \A i \in DOMAIN a : a[i] \in Requests
  OBVIOUS
<1>5. \A r \in PushRequests : r.to = Gone
  BY DEF PushRequests
<1> QED
  BY <1>1, <1>2, <1>3, <1>4, <1>5 DEF Dropped

LEMMA BesideDropped ==
  ASSUME ServerInv, NEW x, Dropped(x)
  PROVE  Beside(x)
<1>1. ASSUME NEW v \in Threads, v # x, NEW k \in Hosts PROVE AsksOf(v, k)' <=> AsksOf(v, k)
  <2>1. PICK q \in Seq(Requests) :
           /\ Len(q) = Len(accept[k]) /\ Len(q) \in Nat /\ DOMAIN q = 1 .. Len(q) /\ DOMAIN accept[k] = 1 .. Len(q)
           /\ \A i \in 1 .. Len(q) : q[i] = HungUp(accept[k][i], x) /\ accept[k][i] \in Requests
           /\ accept'[k] = q \/ \E r \in PushRequests : r.op = "PUSH 0" /\ r.to = Gone /\ accept'[k] = Append(q, r)
    BY DroppedBacklog
  <2>2. v # Gone
    BY ThreadsAssumption
  <2>3. \A i \in 1 .. Len(q) : q[i].to = v <=> accept[k][i].to = v
    <3> TAKE i \in 1 .. Len(q)
    <3>1. q[i] = HungUp(accept[k][i], x) /\ accept[k][i] \in Requests
      BY <2>1
    <3>2. q[i].to = IF accept[k][i].to = x THEN Gone ELSE accept[k][i].to
      BY <3>1, HungUpRequest
    <3> QED
      BY <1>1, <2>2, <3>2
  <2>4. (\E i \in DOMAIN q : q[i].to = v) <=> AsksOf(v, k)
    BY <2>1, <2>3 DEF AsksOf
  <2>5. CASE accept'[k] = q
    BY <2>4, <2>5 DEF AsksOf
  <2>6. ASSUME NEW r \in PushRequests, r.to = Gone, accept'[k] = Append(q, r)
        PROVE  AsksOf(v, k)' <=> AsksOf(v, k)
    <3>1. r \in Requests
      BY DEF Requests
    <3>2. /\ DOMAIN Append(q, r) = 1 .. Len(q) + 1
          /\ \A i \in 1 .. Len(q) : Append(q, r)[i] = q[i]
          /\ Append(q, r)[Len(q) + 1] = r
      BY <3>1, AppendedRequest
    <3>3. (\E i \in DOMAIN Append(q, r) : Append(q, r)[i].to = v) <=> (\E i \in DOMAIN q : q[i].to = v)
      <4>1. Len(q) \in Nat /\ DOMAIN q = 1 .. Len(q) /\ r.to # v
        BY <2>1, <2>2, <2>6
      <4> QED
        BY <3>2, <4>1
    <3> QED
      BY <2>4, <2>6, <3>3 DEF AsksOf
  <2> QED
    BY <2>1, <2>5, <2>6
<1>2. ASSUME NEW h \in Hosts
      PROVE  /\ serving'[h].at = serving[h].at
             /\ \A v \in Threads : v # x => (serving'[h].to = v <=> serving[h].to = v)
  <2>1. serving'[h] = HungUp(serving[h], x) /\ serving[h] \in Servings
    BY HangUpShape DEF Dropped, ServerInv
  <2>2. \A v \in Threads : v # Gone
    BY ThreadsAssumption
  <2> QED
    BY <2>1, <2>2, HungUpServing
<1>3. ASSUME NEW v \in Threads PROVE wire'[v].ended \in {wire[v].ended, "no"} /\ (v # x => wire'[v] = wire[v])
  <2>1. wire'[v] = IF v = x THEN NoData ELSE wire[v]
    BY HangUpShape DEF Dropped
  <2> QED
    BY <2>1, NoDataType
<1> QED
  BY <1>1, <1>2, <1>3 DEF Beside, Dropped

-----------------------------------------------------------------------------
(* The steps of the manager, by what they do to the servers and the        *)
(* connections.                                                            *)
Pushing(w) == Create(w) \/ PushBlock(w)

LEMMA FinishDrops ==
  ASSUME ServerInv, WorkerInv, NEW w \in Workers, Finish(w)
  PROVE  Dropped(Stream(w))
<1> DEFINE x == Stream(w)
           r == PushTo(w, "PUSH 0")
           h == held[w].tar.host
           waiting == BacklogAfterClose(x)
<1>1. /\ workerPc[w] = "finish" /\ serving' = ServingAfterClose(x) /\ wire' = WireAfterClose(x) /\ UNCHANGED <<disk, up>>
      /\ accept' = waiting \/ accept' = [waiting EXCEPT ![h] = Append(@, r)]
  BY DEF Finish, Abandon, Goes
<1>2. r \in PushRequests /\ r.op = "PUSH 0" /\ h \in Hosts
  <2>1. r \in PushRequests /\ h \in Hosts
    BY <1>1, HeldPair, PairFields, PushRequestType
  <2> QED
    BY <2>1 DEF PushTo
<1>3. waiting \in [Hosts -> Seq(Requests)]
  BY HangUpShape
<1> HIDE DEF r, h, waiting
<1>4. \A k \in Hosts : accept'[k] = waiting[k] \/ accept'[k] = Append(waiting[k], r)
  BY <1>1, <1>2, <1>3
<1> QED
  BY <1>1, <1>2, <1>4 DEF Dropped, waiting

LEMMA ClosedDrops ==
  ASSUME NEW w, CloseSource(w), UNCHANGED <<disk, up>>
  PROVE  Dropped(Stream(w))
BY DEF CloseSource, Dropped

LEMMA WorkerServers ==
  ASSUME TInv, NEW w \in Workers, WorkerStep(w)
  PROVE  \/ UNCHANGED servers
         \/ Connected(w) /\ Readable(w) /\ Take(w) /\ UNCHANGED <<disk, up, accept, serving>>
         \/ Connected(w) /\ SeeReset(w) /\ UNCHANGED <<disk, up, accept, serving>>
         \/ Connected(w) /\ Dropped(Stream(w))
         \/ \E h \in Hosts, r \in Requests :
              /\ Request(h, r) /\ UNCHANGED <<disk, up, serving, wire>> /\ (r.to \in Threads => r.to = w)
              /\ \/ OpenSource(w) /\ r.op = "PULL" /\ r.to = w /\ h = held[w].src.host
                 \/ Create(w) /\ r = PushTo(w, "PUSH -1") /\ h = held[w].tar.host /\ r \in PushRequests
                 \/ PushBlock(w) /\ r = PushTo(w, "PUSH n") /\ h = held[w].tar.host /\ r \in PushRequests
<1>1. ServerInv /\ WorkerInv /\ NumberInv
  BY DEF TInv
<1>2. w # Main /\ Gone \notin Threads
  BY ThreadsAssumption
<1>3. workerPc[w] \in {"size", "blank", "create", "copy", "push", "finish"} => Connected(w)
  BY <1>2 DEF Connected
<1>4. CASE Exit(w) \/ Obtain(w) \/ SourceUnreachable(w)
  BY <1>4 DEF Exit, Obtain, SourceUnreachable
<1>5. CASE OpenSource(w)
  <2>1. workerPc[w] = "open"
    BY <1>5 DEF OpenSource, Goes
  <2>2. held[w] \in Pairs
    BY <1>1, <2>1, HeldPair
  <2>3. PICK r : r = [op |-> "PULL", to |-> w, loc |-> held[w].src, file |-> held[w].file]
    OBVIOUS
  <2>4. r \in Requests /\ held[w].src.host \in Hosts
    BY <2>2, <2>3, PairFields DEF Pulls, Ends, Threads, Requests
  <2>5. Request(held[w].src.host, r) /\ UNCHANGED <<disk, up, serving, wire>>
    BY <1>5, <2>3 DEF OpenSource
  <2> QED
    BY <1>5, <2>3, <2>4, <2>5
<1>6. CASE ReadReset(w) \/ ReadSize(w)
  <2>1. workerPc[w] \in {"size", "blank"} /\ UNCHANGED <<disk, up, accept, serving>>
    BY <1>6 DEF ReadReset, ReadSize, Goes
  <2>2. (Readable(w) /\ Take(w)) \/ SeeReset(w)
    BY <1>6 DEF ReadReset, ReadSize, SkipOne
  <2> QED
    BY <1>3, <2>1, <2>2
<1>7. CASE ReadBlock(w) \/ Swallow(w)
  <2>1. workerPc[w] = "copy" /\ UNCHANGED <<disk, up, accept, serving>> /\ ((Readable(w) /\ Take(w)) \/ SeeReset(w))
    BY <1>7 DEF ReadBlock, Swallow, Goes
  <2> QED
    BY <1>3, <2>1
<1>8. CASE PullRefused(w) \/ TargetUnreachable(w) \/ PushFails(w)
  <2>1. workerPc[w] \in {"size", "blank", "create", "push"} /\ CloseSource(w) /\ UNCHANGED <<disk, up>>
    BY <1>8 DEF PullRefused, TargetUnreachable, PushFails, Abandon, Goes
  <2> QED
    BY <1>3, <2>1, ClosedDrops
<1>9. CASE Finish(w)
  <2>1. workerPc[w] = "finish"
    BY <1>9 DEF Finish, Abandon, Goes
  <2> QED
    BY <1>1, <1>3, <1>9, <2>1, FinishDrops
<1>10. CASE Create(w) \/ PushBlock(w)
  <2>1. workerPc[w] \in {"create", "push"} /\ UNCHANGED <<disk, up, serving, wire>>
    BY <1>10 DEF Create, PushBlock, Goes
  <2>2. PICK op \in {"PUSH -1", "PUSH n"} :
          Request(held[w].tar.host, PushTo(w, op)) /\ ((Create(w) /\ op = "PUSH -1") \/ (PushBlock(w) /\ op = "PUSH n"))
    <3>1. Create(w) => Request(held[w].tar.host, PushTo(w, "PUSH -1"))
      BY DEF Create
    <3>2. PushBlock(w) => Request(held[w].tar.host, PushTo(w, "PUSH n"))
      BY DEF PushBlock
    <3> QED
      BY <1>10, <3>1, <3>2
  <2>3. PushTo(w, op) \in PushRequests /\ PushTo(w, op) \in Requests /\ PushTo(w, op).to = Gone
    BY <1>1, <2>1, PushRequestType
  <2>4. held[w].tar.host \in Hosts
    BY <1>1, <2>1, HeldPair, PairFields
  <2> QED
    BY <1>2, <2>1, <2>2, <2>3, <2>4
<1> QED
  BY <1>4, <1>5, <1>6, <1>7, <1>8, <1>9, <1>10 DEF WorkerStep

LEMMA WorkerBeside ==
  ASSUME TInv, NEW w \in Workers, WorkerStep(w)
  PROVE  Beside(w) \/ (Connected(w) /\ Beside(Stream(w)))
<1>1. ServerInv
  BY DEF TInv
<1>2. CASE UNCHANGED servers
  BY <1>2, BesideSame
<1>3. CASE Connected(w) /\ Readable(w) /\ Take(w) /\ UNCHANGED <<disk, up, accept, serving>>
  BY <1>1, <1>3, BesideTaken
<1>4. CASE Connected(w) /\ Dropped(Stream(w))
  BY <1>1, <1>4, BesideDropped
<1>6. CASE Connected(w) /\ SeeReset(w) /\ UNCHANGED <<disk, up, accept, serving>>
  BY <1>1, <1>6, BesideReset
<1>5. ASSUME NEW h \in Hosts, NEW r \in Requests, Request(h, r), UNCHANGED <<disk, up, serving, wire>>, r.to \in Threads => r.to = w
      PROVE  Beside(w)
  BY <1>1, <1>5, BesideAsked
<1> QED
  BY <1>2, <1>3, <1>4, <1>5, <1>6, WorkerServers

\* What is the other threads' own, and what only grows.
LEMMA WorkerAlone ==
  ASSUME TInv, NEW w \in Workers, WorkerStep(w)
  PROVE  /\ \A v \in Workers : v # w => workerPc'[v] = workerPc[v] /\ held'[v] = held[v] /\ left'[v] = left[v] /\ buf'[v] = buf[v] /\ fd'[v] = fd[v]
         /\ \A v \in Workers : v # w => (Connected(v)' <=> Connected(v))
         /\ suspect \subseteq suspect' /\ UNCHANGED <<main, console>>
<1>1. WorkerInv /\ NumberInv /\ w \in Threads /\ w # Main /\ Main \notin Workers
  BY ThreadsAssumption DEF TInv, Threads
<1>2. suspect \subseteq suspect' /\ UNCHANGED <<main, console>>
  BY DEF WorkerStep, Exit, Obtain, OpenSource, SourceUnreachable, ReadReset, ReadSize, PullRefused, Create, TargetUnreachable,
         ReadBlock, Swallow, PushBlock, PushFails, Finish, bounds
<1>3. \/ UNCHANGED workerPc
      \/ \E to : workerPc' = [workerPc EXCEPT ![w] = to]
  BY DEF WorkerStep, Exit, Obtain, OpenSource, SourceUnreachable, ReadReset, ReadSize, PullRefused, Create, TargetUnreachable,
         ReadBlock, Swallow, PushBlock, PushFails, Finish, Abandon, Goes
<1>4. \/ UNCHANGED held
      \/ \E to : held' = [held EXCEPT ![w] = to]
  BY DEF WorkerStep, Exit, Obtain, OpenSource, SourceUnreachable, ReadReset, ReadSize, PullRefused, Create, TargetUnreachable,
         ReadBlock, Swallow, PushBlock, PushFails, Finish, Abandon
<1>5. \/ UNCHANGED left
      \/ \E to : left' = [left EXCEPT ![w] = to]
  BY DEF WorkerStep, Exit, Obtain, OpenSource, SourceUnreachable, ReadReset, ReadSize, PullRefused, Create, TargetUnreachable,
         ReadBlock, Swallow, PushBlock, PushFails, Finish, Abandon
<1>6. \/ UNCHANGED buf
      \/ \E to : buf' = [buf EXCEPT ![w] = to]
  BY DEF WorkerStep, Exit, Obtain, OpenSource, SourceUnreachable, ReadReset, ReadSize, PullRefused, Create, TargetUnreachable,
         ReadBlock, Swallow, PushBlock, PushFails, Finish, Abandon
<1>7. \/ UNCHANGED fd
      \/ \E to : fd' = [fd EXCEPT ![w] = to]
  BY DEF WorkerStep, Exit, Obtain, OpenSource, SourceUnreachable, ReadReset, ReadSize, PullRefused, Create, TargetUnreachable,
         ReadBlock, Swallow, PushBlock, PushFails, Finish, Abandon, fds
<1>8. ASSUME NEW v \in Workers, v # w
      PROVE  workerPc'[v] = workerPc[v] /\ held'[v] = held[v] /\ left'[v] = left[v] /\ buf'[v] = buf[v] /\ fd'[v] = fd[v]
  <2>1. v \in Threads
    BY DEF Threads
  <2>2. workerPc'[v] = workerPc[v] /\ held'[v] = held[v]
    BY <1>1, <1>3, <1>4, <1>8 DEF WorkerInv
  <2>3. left'[v] = left[v] /\ buf'[v] = buf[v] /\ fd'[v] = fd[v]
    BY <1>1, <1>5, <1>6, <1>7, <1>8, <2>1 DEF WorkerInv, NumberInv
  <2> QED
    BY <2>2, <2>3
<1> QED
  BY <1>1, <1>2, <1>8 DEF Connected

LEMMA MainServers ==
  ASSUME TInv, MainStep
  PROVE  \/ UNCHANGED servers
         \/ Readable(Main) /\ Stream(Main) = Main /\ Take(Main) /\ UNCHANGED <<disk, up, accept, serving>>
         \/ SeeReset(Main) /\ UNCHANGED <<disk, up, accept, serving>>
         \/ Dropped(Main)
         \/ \E h \in Hosts, r \in Requests :
              Request(h, r) /\ UNCHANGED <<disk, up, serving, wire>> /\ r.to = Main /\ r.op = "LIST"
<1>1. MainInv
  BY DEF TInv
<1>2. CASE ReadConfigLine \/ Add \/ Cancel \/ Shutdown \/ Unknown \/ ListUnreachable \/ Place \/ Join
  BY <1>2 DEF ReadConfigLine, Add, Cancel, Shutdown, Unknown, ListUnreachable, Place, Join, Commanded
<1>6. CASE LoseNames
  BY <1>6 DEF LoseNames
<1>3. CASE OpenList
  <2>1. mainPc = "open" /\ listing \in Entries
    BY <1>1, <1>3 DEF OpenList, MainGoes, MainInv
  <2>2. listing.src \in Locations /\ listing.src.host \in Hosts
    BY <2>1, EntriesAssumption, LocationsAssumption
  <2>3. PICK r : r = [op |-> "LIST", to |-> Main, loc |-> listing.src]
    OBVIOUS
  <2>4. r \in Requests
    BY <2>2, <2>3 DEF Requests, Lists, Ends, Threads
  <2>5. Request(listing.src.host, r) /\ UNCHANGED <<disk, up, serving, wire>>
    BY <1>3, <2>3 DEF OpenList
  <2> QED
    BY <2>2, <2>3, <2>4, <2>5
<1>4. CASE SkipQueued \/ ReadName
  <2>1. ReadsName /\ Take(Main) /\ UNCHANGED <<disk, up, accept, serving>>
    BY <1>4 DEF SkipQueued, ReadName
  <2> QED
    BY <2>1, NameRead
<1>5. CASE ReadDot
  BY <1>5 DEF ReadDot, Dropped
<1> QED
  BY <1>2, <1>3, <1>4, <1>5, <1>6 DEF MainStep

LEMMA MainBeside ==
  ASSUME TInv, MainStep
  PROVE  Beside(Main) \/ (WasReset(Main) /\ Beside(Stream(Main)))
<1>1. ServerInv
  BY DEF TInv
<1>2. CASE UNCHANGED servers
  BY <1>2, BesideSame
<1>3. CASE Readable(Main) /\ Stream(Main) = Main /\ Take(Main) /\ UNCHANGED <<disk, up, accept, serving>>
  BY <1>1, <1>3, BesideTaken
<1>6. CASE SeeReset(Main) /\ UNCHANGED <<disk, up, accept, serving>>
  <2>1. CASE WasReset(Main)
    BY <1>1, <1>6, <2>1, BesideReset
  <2>2. CASE ~WasReset(Main)
    <3>1. UNCHANGED servers
      BY <1>6, <2>2 DEF SeeReset, servers
    <3> QED
      BY <3>1, BesideSame
  <2> QED
    BY <2>1, <2>2
<1>4. CASE Dropped(Main)
  BY <1>1, <1>4, BesideDropped
<1>5. ASSUME NEW h \in Hosts, NEW r \in Requests, Request(h, r), UNCHANGED <<disk, up, serving, wire>>, r.to = Main
      PROVE  Beside(Main)
  BY <1>1, <1>5, BesideAsked
<1> QED
  BY <1>2, <1>3, <1>4, <1>5, <1>6, MainServers

-----------------------------------------------------------------------------
(* Numbers stay with their workers.                                        *)
LEMMA RoomLeft ==
  ASSUME NumberInv, Roomy, \A n \in FdNumbers : table[n] # Leaked
  PROVE  FreeNumbers(table) # {}
<1> SUFFICES ASSUME FreeNumbers(table) = {} PROVE FALSE
  OBVIOUS
<1>1. \A n \in FdNumbers : table[n] \in Threads /\ fd[table[n]] = n
  BY DEF FreeNumbers, NumberInv
<1>2. PICK f : f = [n \in FdNumbers |-> table[n]]
  OBVIOUS
<1>3. f \in [FdNumbers -> Threads] /\ \A n \in FdNumbers : f[n] = table[n]
  BY <1>1, <1>2
<1>4. IsFiniteSet(Threads)
  BY FS_AddElement DEF Roomy, Threads
<1>5. \E m, n \in FdNumbers : m # n /\ f[m] = f[n]
  <2>1. IsFiniteSet(FdNumbers) /\ Cardinality(FdNumbers) > Cardinality(Threads)
    BY DEF Roomy
  <2>2. Cardinality(FdNumbers) \in Nat /\ Cardinality(Threads) \in Nat
    BY <1>4, <2>1, FS_CardinalityType
  <2>3. Cardinality(Threads) < Cardinality(FdNumbers)
    BY <2>1, <2>2
  <2> QED
    BY <1>3, <1>4, <2>1, <2>3, FS_PigeonHole
<1> QED
  BY <1>1, <1>3, <1>5

LEMMA RoomAfterClose ==
  ASSUME NumberInv, NEW n \in FdNumbers
  PROVE  FreeNumbers(Closing(table, n)) # {}
<1>1. Closing(table, n)[n] = Free
  BY DEF NumberInv, Closing
<1> QED
  BY <1>1 DEF FreeNumbers

(* Where nothing fails, connecting never does.                             *)
LEMMA NeverRefused ==
  ASSUME MainInv, NumberInv, OwnInv, AllUp, Roomy, ~Sole, NEW h \in Hosts
  PROVE  /\ ~Refused(h, table)
         /\ \A n \in FdNumbers : ~Refused(h, Closing(table, n))
<1>1. up[h] /\ ~(faults < MaxFaults)
  BY DEF AllUp, Roomy, MainInv
<1>2. FreeNumbers(table) # {}
  BY RoomLeft DEF OwnInv
<1> QED
  BY <1>1, <1>2, RoomAfterClose DEF Refused

LEMMA OthersStream ==
  ASSUME OwnInv, AllUp, NEW v \in Workers, NEW w \in Workers, v # w, Connected(v)
  PROVE  Stream(v) # w /\ table[fd[v]] = v
BY DEF OwnInv, Sole, Stream

LEMMA OwnMove ==
  ASSUME OwnInv, AllUp' => AllUp, suspect \subseteq suspect',
         AllUp => \A t \in Threads : wire'[t].ended \in {wire[t].ended, "no", "eof"},
         AllUp => \A w \in Workers : Connected(w)' =>
                    \/ table'[fd'[w]] = w
                    \/ Sole /\ held'[w] \in suspect'
                    \/ /\ Connected(w) /\ held'[w] = held[w] /\ fd'[w] = fd[w]
                       /\ table[fd[w]] = w => table'[fd[w]] = w,
         AllUp => Sole \/ \A n \in FdNumbers : table'[n] = Leaked => table[n] = Leaked
  PROVE  OwnInv'
<1> SUFFICES ASSUME AllUp'
             PROVE  /\ \A t \in Threads : wire'[t].ended # "reset"
                    /\ \A w \in Workers : Connected(w)' => table'[fd'[w]] = w \/ (Sole /\ held'[w] \in suspect')
                    /\ Sole \/ \A n \in FdNumbers : table'[n] # Leaked
  BY DEF OwnInv
<1>1. AllUp
  OBVIOUS
<1>2. /\ \A t \in Threads : wire[t].ended # "reset"
      /\ \A w \in Workers : Connected(w) => table[fd[w]] = w \/ (Sole /\ held[w] \in suspect)
      /\ Sole \/ \A n \in FdNumbers : table[n] # Leaked
  BY <1>1 DEF OwnInv
<1>3. \A t \in Threads : wire'[t].ended # "reset"
  BY <1>1, <1>2
<1>4. Sole \/ \A n \in FdNumbers : table'[n] # Leaked
  BY <1>1, <1>2
<1>5. ASSUME NEW w \in Workers, Connected(w)' PROVE table'[fd'[w]] = w \/ (Sole /\ held'[w] \in suspect')
  BY <1>1, <1>2, <1>5
<1> QED
  BY <1>3, <1>4, <1>5

(* A step that leaves the table as it is.                                  *)
LEMMA OwnSame ==
  ASSUME OwnInv, UNCHANGED <<up, table, fd>>, suspect \subseteq suspect',
         \A t \in Threads : wire'[t].ended \in {wire[t].ended, "no", "eof"},
         \A w \in Workers : Connected(w)' => Connected(w) /\ held'[w] = held[w]
  PROVE  OwnInv'
BY OwnMove DEF AllUp

LEMMA OwnClient ==
  ASSUME TInv, OwnInv, NEW h \in Hosts, ClientStep(h), UNCHANGED <<buffer, workers, fds, main, console, bounds>>
  PROVE  OwnInv'
<1>1. ServerInv /\ WireInv
  BY DEF TInv, LinkInv
<1>2. UNCHANGED <<table, fd, suspect, held, workerPc, mainPc>>
  BY DEF fds, bounds, workers, main
<1>3. ASSUME UNCHANGED up, \A t \in Threads : wire'[t].ended \in {wire[t].ended, "no", "eof"} PROVE OwnInv'
  BY <1>2, <1>3, OwnSame DEF Connected
<1>4. CASE UNCHANGED <<up, wire>>
  BY <1>3, <1>4
<1>5. CASE ServePush(h) \/ ServeList(h) \/ SkipRemoved(h) \/ SendNowhere(h)
  BY <1>4, <1>5 DEF ServePush, ServeList, SkipRemoved, SendNowhere
<1>6. CASE ServePull(h)
  <2>1. CASE Unserved(h)
    <3>1. PICK r \in Requests, e \in Wires :
           e.ended = "eof" /\ (\A t \in Threads : wire'[t] = IF t = r.to THEN e ELSE wire[t]) /\ UNCHANGED up
      BY <1>1, <1>6, <2>1, PullFailsShape
    <3> QED
      BY <1>3, <3>1
  <2>2. CASE ~Unserved(h)
    <3>1. PICK r \in Requests, n \in Nat :
           (IF r.to = Gone THEN UNCHANGED wire ELSE r.to \in Threads /\ Send(r.to, Item("size", n))) /\ UNCHANGED up
      BY <1>1, <1>6, <2>2, ServePullShape
    <3>2. CASE r.to = Gone
      BY <1>4, <3>1, <3>2
    <3>3. CASE r.to # Gone
      <4>1. Item("size", n) \in Items
        BY ItemTypes
      <4>2. \A t \in Threads : wire'[t].ended = wire[t].ended
        BY <1>1, <3>1, <3>3, <4>1, SendShape
      <4> QED
        BY <1>3, <3>1, <4>2
    <3> QED
      BY <3>2, <3>3
  <2> QED
    BY <2>1, <2>2
<1>7. CASE SendNext(h)
  <2>1. PICK t \in Threads, item \in Items : Send(t, item) /\ UNCHANGED up
    BY <1>1, <1>7, SendNextShape
  <2>2. \A u \in Threads : wire'[u].ended = wire[u].ended
    BY <1>1, <2>1, SendShape
  <2> QED
    BY <1>3, <2>1, <2>2
<1>8. CASE CloseConnection(h)
  <2>1. PICK t \in Ends :
          /\ \A u \in Threads : u # t => wire'[u] = wire[u]
          /\ \A u \in Threads : u = t => wire'[u].ended = "eof"
          /\ UNCHANGED up
    BY <1>1, <1>8, CloseShape
  <2> QED
    BY <1>3, <2>1
<1>9. CASE BrokenPipe(h)
  <2>1. up \in [Hosts -> BOOLEAN] /\ up' = [up EXCEPT ![h] = FALSE]
    BY <1>1, <1>9, BrokenShape
  <2>2. ~AllUp'
    BY <2>1 DEF AllUp
  <2> QED
    BY <2>2 DEF OwnInv
<1> QED
  BY <1>5, <1>6, <1>7, <1>8, <1>9 DEF ClientStep

LEMMA OwnClosed ==
  ASSUME TInv, OwnInv, NEW w \in Workers, Connected(w), UNCHANGED <<up, fd>>, suspect \subseteq suspect',
         \A t \in Threads : wire'[t].ended \in {wire[t].ended, "no", "eof"},
         \/ table' = Closing(table, fd[w])
         \/ /\ AllUp => Sole
            /\ table' = Leaking(Closing(table, fd[w])) \/ table' = Closing(Leaking(table), fd[w]),
         \A v \in Workers : v # w => (Connected(v)' => Connected(v) /\ held'[v] = held[v]),
         Connected(w)' => (AllUp => Sole) /\ held'[w] \in suspect'
  PROVE  OwnInv'
<1>1. /\ NumberInv /\ table \in Tables /\ w \in Threads /\ fd[w] \in FdNumbers
  BY DEF TInv, NumberInv, Tables, Threads
<1>2. \A n \in FdNumbers : \A t \in Threads : table[n] = t /\ n # fd[w] => table'[n] = t
  <2>1. PICK tb \in Tables : tb = Closing(table, fd[w]) /\ \A n \in FdNumbers : \A t \in Threads : tb[n] = t <=> table[n] = t /\ n # fd[w]
    BY <1>1, TableClosing
  <2>2. PICK tl \in Tables : tl = Leaking(table) /\ \A n \in FdNumbers : \A t \in Threads : tl[n] = t <=> table[n] = t
    BY <1>1, TableLeaking
  <2>3. CASE table' = tb
    BY <2>1, <2>3
  <2>4. CASE table' = Leaking(tb)
    BY <2>1, <2>4, TableLeaking
  <2>5. CASE table' = Closing(tl, fd[w])
    BY <1>1, <2>2, <2>5, TableClosing
  <2> QED
    BY <2>1, <2>2, <2>3, <2>4, <2>5
<1>3. table' = Closing(table, fd[w]) => \A n \in FdNumbers : table'[n] = Leaked => table[n] = Leaked
  BY <1>1, NumbersAssumption DEF Closing, Tables
<1>4. ASSUME AllUp, NEW v \in Workers, Connected(v)'
      PROVE  \/ Sole /\ held'[v] \in suspect'
             \/ /\ Connected(v) /\ held'[v] = held[v] /\ fd'[v] = fd[v]
                /\ table[fd[v]] = v => table'[fd[v]] = v
  <2>1. CASE v = w
    BY <1>4, <2>1
  <2>2. CASE v # w
    <3>1. Connected(v) /\ held'[v] = held[v] /\ v \in Threads /\ fd[v] \in FdNumbers
      BY <1>1, <1>4, <2>2 DEF NumberInv, Threads
    <3>2. table[fd[w]] # v
      BY <1>4, <2>2, OthersStream DEF Stream
    <3> QED
      BY <1>2, <3>1, <3>2
  <2> QED
    BY <2>1, <2>2
<1>5. AllUp' => AllUp
  BY DEF AllUp
<1> QED
  BY <1>3, <1>4, <1>5, OwnMove

LEMMA OwnOpened ==
  ASSUME TInv, OwnInv, NEW u \in Threads, FreeNumbers(table) # {}, UNCHANGED <<up, suspect>>,
         fd' = [fd EXCEPT ![u] = Lowest(table)], table' = Opening(table, u),
         \A t \in Threads : wire'[t].ended \in {wire[t].ended, "no", "eof"},
         \A v \in Workers : v # u => (Connected(v)' => Connected(v) /\ held'[v] = held[v])
  PROVE  OwnInv'
<1>1. fd \in [Threads -> FdNumbers \cup {0}] /\ table \in Tables /\ NumberInv
  BY DEF TInv, NumberInv, Tables
<1>2. /\ Lowest(table) \in FdNumbers
      /\ \A n \in FdNumbers : \A t \in Threads : table'[n] = t <=> table[n] = t \/ (n = Lowest(table) /\ t = u)
  BY <1>1, TableOpening
<1>3. \A n \in FdNumbers : table'[n] = Leaked => table[n] = Leaked
  BY <1>1, <1>2, NumbersAssumption DEF Opening, Tables
<1>4. ASSUME NEW v \in Workers, Connected(v)'
      PROVE  \/ table'[fd'[v]] = v
             \/ /\ Connected(v) /\ held'[v] = held[v] /\ fd'[v] = fd[v]
                /\ table[fd[v]] = v => table'[fd[v]] = v
  <2>1. CASE v = u
    BY <1>1, <1>2, <2>1
  <2>2. CASE v # u
    <3>1. Connected(v) /\ held'[v] = held[v] /\ v \in Threads /\ fd[v] \in FdNumbers
      BY <1>1, <1>4, <2>2 DEF NumberInv, Threads
    <3> QED
      BY <1>1, <1>2, <2>2, <3>1
  <2> QED
    BY <2>1, <2>2
<1>5. AllUp' => AllUp
  BY DEF AllUp
<1> QED
  BY <1>3, <1>4, <1>5, OwnMove

LEMMA OwnLeaking ==
  ASSUME TInv, OwnInv, UNCHANGED <<up, fd>>, suspect \subseteq suspect', table' = Leaking(table), AllUp => Sole,
         \A t \in Threads : wire'[t].ended \in {wire[t].ended, "no", "eof"},
         \A v \in Workers : Connected(v)' => Connected(v) /\ held'[v] = held[v]
  PROVE  OwnInv'
<1>1. table \in Tables /\ NumberInv
  BY DEF TInv, NumberInv, Tables
<1>2. \A n \in FdNumbers : \A t \in Threads : table'[n] = t <=> table[n] = t
  BY <1>1, TableLeaking
<1>3. \A v \in Workers : v \in Threads /\ (Connected(v) => fd[v] \in FdNumbers)
  BY <1>1 DEF NumberInv, Threads
<1>4. AllUp' => AllUp
  BY DEF AllUp
<1> QED
  BY <1>2, <1>3, <1>4, OwnMove

LEMMA OwnWorker ==
  ASSUME TInv, OwnInv, Sole \/ Roomy, NEW w \in Workers, WorkerStep(w)
  PROVE  OwnInv'
<1>1. ServerInv /\ WorkerInv /\ MainInv /\ NumberInv /\ w \in Threads /\ w # Main /\ Main \notin Workers
  BY ThreadsAssumption DEF TInv, Threads
<1>2. UNCHANGED up /\ \A t \in Threads : wire'[t].ended \in {wire[t].ended, "no", "eof"}
  BY WorkerBeside DEF Beside
<1>3. /\ suspect \subseteq suspect'
      /\ \A v \in Workers : v # w => (Connected(v)' <=> Connected(v)) /\ held'[v] = held[v]
  BY WorkerAlone
<1>4. ASSUME NEW h \in Hosts, Refused(h, table) PROVE AllUp => Sole
  BY <1>1, <1>4, NeverRefused
<1>5. ASSUME NEW h \in Hosts, Refused(h, Closing(table, fd[w])), Connected(w) PROVE AllUp => Sole
  BY <1>1, <1>5, NeverRefused DEF NumberInv
<1>6. \A pc : workerPc'[w] = pc /\ pc \in {"obtain", "open", "exit"} => ~Connected(w)'
  BY <1>1 DEF Connected
<1>7. \A pc \in {"size", "blank", "create", "copy", "push", "finish"} : workerPc[w] = pc => Connected(w)
  BY <1>1 DEF Connected
<1>8. workerPc[w] \notin {"obtain", "exit"} => held[w].src.host \in Hosts /\ held[w].tar.host \in Hosts
  BY <1>1, HeldPair, PairFields
<1>9. CASE Exit(w) \/ Obtain(w)
  <2>1. UNCHANGED <<table, fd>> /\ (workerPc' = [workerPc EXCEPT ![w] = "exit"] \/ workerPc' = [workerPc EXCEPT ![w] = "open"])
    BY <1>9 DEF Exit, Obtain, fds, Goes
  <2>2. ~Connected(w)'
    BY <1>1, <1>6, <2>1 DEF WorkerInv
  <2> QED
    BY <1>2, <1>3, <2>1, <2>2, OwnSame
<1>10. CASE ReadReset(w) \/ ReadSize(w) \/ Create(w) \/ ReadBlock(w) \/ Swallow(w) \/ PushBlock(w)
  <2>1. UNCHANGED <<table, fd, held>> /\ Connected(w)
    BY <1>7, <1>10 DEF ReadReset, ReadSize, Create, ReadBlock, Swallow, PushBlock, fds, Goes
  <2> QED
    BY <1>2, <1>3, <2>1, OwnSame
<1>11. CASE OpenSource(w)
  <2>1. /\ FreeNumbers(table) # {} /\ UNCHANGED suspect
        /\ fd' = [fd EXCEPT ![w] = Lowest(table)] /\ table' = Opening(table, w)
    BY <1>11 DEF OpenSource, Reaches, bounds
  <2> QED
    BY <1>1, <1>2, <1>3, <2>1, OwnOpened
<1>12. CASE SourceUnreachable(w)
  <2>1. /\ workerPc[w] = "open" /\ workerPc' = [workerPc EXCEPT ![w] = "obtain"] /\ Refused(held[w].src.host, table)
        /\ table' = Leaking(table) /\ UNCHANGED fd
    BY <1>12 DEF SourceUnreachable, Abandon, Goes
  <2>2. ~Connected(w)' /\ (AllUp => Sole)
    BY <1>1, <1>4, <1>6, <1>8, <2>1 DEF WorkerInv
  <2> QED
    BY <1>2, <1>3, <2>1, <2>2, OwnLeaking
<1>13. CASE PullRefused(w)
  <2>1. /\ workerPc[w] \in {"size", "blank"} /\ workerPc' = [workerPc EXCEPT ![w] = "obtain"]
        /\ table' = Closing(table, fd[w]) /\ UNCHANGED fd
    BY <1>13 DEF PullRefused, Abandon, Goes
  <2>2. ~Connected(w)' /\ Connected(w)
    BY <1>1, <1>6, <1>7, <2>1 DEF WorkerInv
  <2> QED
    BY <1>2, <1>3, <2>1, <2>2, OwnClosed
<1>14. CASE TargetUnreachable(w)
  <2>1. /\ workerPc[w] = "create" /\ workerPc' = [workerPc EXCEPT ![w] = "obtain"] /\ Refused(held[w].tar.host, table)
        /\ table' = Closing(Leaking(table), fd[w]) /\ UNCHANGED fd
    BY <1>14 DEF TargetUnreachable, Abandon, Goes
  <2>2. ~Connected(w)' /\ Connected(w) /\ (AllUp => Sole)
    BY <1>1, <1>4, <1>6, <1>7, <1>8, <2>1 DEF WorkerInv
  <2> QED
    BY <1>2, <1>3, <2>1, <2>2, OwnClosed
<1>15. CASE PushFails(w)
  <2>1. /\ workerPc[w] = "push" /\ Refused(held[w].tar.host, table) /\ suspect' = suspect \cup {held[w]}
        /\ table' = Closing(Leaking(table), fd[w]) /\ UNCHANGED <<fd, held>>
    BY <1>15 DEF PushFails, Goes
  <2>2. Connected(w) /\ (AllUp => Sole)
    BY <1>1, <1>4, <1>7, <1>8, <2>1
  <2> QED
    BY <1>2, <1>3, <2>1, <2>2, OwnClosed
<1>16. CASE Finish(w)
  <2>1. /\ workerPc[w] = "finish" /\ workerPc' = [workerPc EXCEPT ![w] = "obtain"] /\ UNCHANGED fd
        /\ \/ table' = Closing(table, fd[w])
           \/ Refused(held[w].tar.host, Closing(table, fd[w])) /\ table' = Leaking(Closing(table, fd[w]))
    BY <1>16 DEF Finish, Abandon, Goes
  <2>2. ~Connected(w)' /\ Connected(w) /\ held[w].tar.host \in Hosts
    BY <1>1, <1>6, <1>7, <1>8, <2>1 DEF WorkerInv
  <2>3. \/ table' = Closing(table, fd[w])
        \/ table' = Leaking(Closing(table, fd[w])) /\ (AllUp => Sole)
    BY <1>5, <2>1, <2>2
  <2> QED
    BY <1>2, <1>3, <2>1, <2>2, <2>3, OwnClosed
<1> QED
  BY <1>9, <1>10, <1>11, <1>12, <1>13, <1>14, <1>15, <1>16 DEF WorkerStep

LEMMA OwnMain ==
  ASSUME TInv, OwnInv, Sole \/ Roomy, MainStep
  PROVE  OwnInv'
<1>1. ServerInv /\ MainInv /\ NumberInv /\ Main \in Threads /\ Main \notin Workers
  BY ThreadsAssumption DEF TInv, Threads
<1>2. UNCHANGED up /\ \A t \in Threads : wire'[t].ended \in {wire[t].ended, "no", "eof"}
  BY MainBeside DEF Beside
<1>3. UNCHANGED <<workerPc, held, suspect>>
  BY DEF MainStep, ReadConfigLine, Add, Cancel, Shutdown, Unknown, OpenList, ListUnreachable, SkipQueued, ReadName, Place,
         ReadDot, LoseNames, Join, Commanded, workers, bounds
<1>4. \A v \in Workers : Connected(v)' => Connected(v) /\ held'[v] = held[v]
  BY <1>1, <1>3 DEF Connected
<1>5. CASE UNCHANGED fds
  BY <1>2, <1>3, <1>4, <1>5, OwnSame DEF fds
<1>6. CASE OpenList
  <2>1. /\ FreeNumbers(table) # {}
        /\ fd' = [fd EXCEPT ![Main] = Lowest(table)] /\ table' = Opening(table, Main)
    BY <1>6 DEF OpenList, Reaches
  <2> QED
    BY <1>1, <1>2, <1>3, <1>4, <2>1, OwnOpened
<1>7. CASE ListUnreachable
  <2>1. mainPc = "open" /\ Refused(listing.src.host, table) /\ table' = Leaking(table) /\ UNCHANGED fd
    BY <1>7 DEF ListUnreachable
  <2>2. listing \in Entries
    BY <1>1, <2>1 DEF MainInv
  <2>3. listing.src.host \in Hosts
    BY <2>2, EntriesAssumption, LocationsAssumption
  <2>4. AllUp => Sole
    BY <1>1, <2>1, <2>3, NeverRefused
  <2> QED
    BY <1>2, <1>3, <1>4, <2>1, <2>4, OwnLeaking
<1>8. CASE ReadDot
  <2>1. Stream(Main) = Main /\ mainPc = "names" /\ table' = Closing(table, fd[Main]) /\ UNCHANGED fd
    BY <1>8, NameRead DEF ReadDot
  <2>2. fd[Main] \in FdNumbers /\ table \in Tables
    BY <1>1, <2>1 DEF NumberInv, Tables, Connected
  <2>3. \A n \in FdNumbers : \A t \in Threads : table'[n] = t <=> table[n] = t /\ n # fd[Main]
    BY <2>1, <2>2, TableClosing
  <2>4. ASSUME NEW v \in Workers, Connected(v)' PROVE table[fd[v]] = v => table'[fd[v]] = v
    <3>1. v \in Threads /\ fd[v] \in FdNumbers /\ v # Main
      BY <1>1, <1>4, <2>4 DEF NumberInv, Threads
    <3> QED
      BY <2>1, <2>3, <3>1 DEF Stream
  <2>5. \A n \in FdNumbers : table'[n] = Leaked => table[n] = Leaked
    BY <2>1, <2>2, NumbersAssumption DEF Closing, Tables
  <2>6. AllUp' => AllUp
    BY <1>2 DEF AllUp
  <2> QED
    BY <1>2, <1>3, <1>4, <2>1, <2>4, <2>5, <2>6, OwnMove
<1>9. CASE ReadConfigLine \/ Add \/ Cancel \/ Shutdown \/ Unknown \/ SkipQueued \/ ReadName \/ Place \/ LoseNames \/ Join
  BY <1>5, <1>9 DEF ReadConfigLine, Add, Cancel, Shutdown, Unknown, SkipQueued, ReadName, Place, LoseNames, Join, Commanded
<1> QED
  BY <1>6, <1>7, <1>8, <1>9 DEF MainStep

LEMMA OwnInit == Init => OwnInv
<1> SUFFICES ASSUME Init PROVE OwnInv
  OBVIOUS
<1>1. /\ \A t \in Threads : wire[t] = NoData
      /\ \A n \in FdNumbers : table[n] = Free
      /\ \A w \in Workers : workerPc[w] = "obtain"
  BY DEF Init, ClientInit
<1>2. \A w \in Workers : ~Connected(w)
  BY <1>1, ThreadsAssumption DEF Connected
<1> QED
  BY <1>1, <1>2, NoDataType, NumbersAssumption DEF OwnInv

LEMMA OwnKept ==
  ASSUME TInv, OwnInv, Sole \/ Roomy, [Next]_vars
  PROVE  OwnInv'
<1>1. CASE MainStep
  BY <1>1, OwnMain
<1>2. ASSUME NEW w \in Workers, WorkerStep(w) PROVE OwnInv'
  BY <1>2, OwnWorker
<1>3. ASSUME NEW h \in Hosts, ClientStep(h) /\ UNCHANGED <<buffer, workers, fds, main, console, bounds>> PROVE OwnInv'
  BY <1>3, OwnClient
<1>4. ASSUME UNCHANGED <<up, table, fd, workerPc, mainPc, held, wire>>, suspect \subseteq suspect' PROVE OwnInv'
  BY <1>4, OwnSame DEF Connected
<1>5. CASE (\E c \in Commands : Type(c)) \/ ReadReply
  BY <1>4, <1>5 DEF Type, ReadReply, servers, fds, workers, main, bounds
<1>6. ASSUME NEW l \in Locations, NEW f \in Files, ChangeSource(l, f) PROVE OwnInv'
  BY <1>4, <1>6 DEF ChangeSource, fds, workers, main
<1>7. CASE Rest \/ (\E w \in Workers : Spin(w)) \/ UNCHANGED vars
  BY <1>4, <1>7 DEF Rest, Spin, vars, servers, fds, workers, main, bounds
<1> QED
  BY <1>1, <1>2, <1>3, <1>5, <1>6, <1>7 DEF Next

-----------------------------------------------------------------------------
(* Whose targets may be one.                                               *)
LEMMA HeldMoves ==
  ASSUME TInv, NEW w \in Workers, WorkerStep(w)
  PROVE  Obtain(w) \/ held'[w] = held[w] \/ held'[w] = NoPair
<1>1. WorkerInv
  BY DEF TInv
<1>2. CASE UNCHANGED held
  BY <1>2
<1>3. CASE held' = [held EXCEPT ![w] = NoPair]
  BY <1>1, <1>3 DEF WorkerInv
<1> QED
  BY <1>2, <1>3 DEF WorkerStep, Exit, OpenSource, SourceUnreachable, ReadReset, ReadSize, PullRefused, Create, TargetUnreachable,
         ReadBlock, Swallow, PushBlock, PushFails, Finish, Abandon

LEMMA ShareSame ==
  ASSUME ShareInv, suspect \subseteq suspect', \A v \in Workers : held'[v] = held[v] \/ held'[v] = NoPair
  PROVE  ShareInv'
<1> SUFFICES ASSUME NEW v \in Workers, NEW w \in Workers, v # w, held'[v] # NoPair, held'[w] # NoPair,
                    SameTarget(held'[v], held'[w])
             PROVE  held'[v] \in suspect'
  BY DEF ShareInv
<1>1. held'[v] = held[v] /\ held'[w] = held[w]
  OBVIOUS
<1> QED
  BY <1>1 DEF ShareInv

LEMMA ShareObtained ==
  ASSUME TInv, ShareInv, NEW w \in Workers, Obtain(w)
  PROVE  ShareInv'
<1>1. WorkerInv /\ BufferInv
  BY DEF TInv
<1>2. Goes(w, "obtain", "open") /\ Buffer!Get /\ held' = [held EXCEPT ![w] = Head(queue)]
  BY DEF Obtain
<1>3. PICK p \in Pairs : p = Head(queue)
  BY <1>1, <1>2 DEF BufferInv, Buffer!Get
<1>4. /\ held'[w] = p /\ \A v \in Workers : v # w => held'[v] = held[v]
      /\ suspect \subseteq suspect'
      /\ Working \cap Conflicting(p) # {} => Conflicting(p) \subseteq suspect'
  BY <1>1, <1>2, <1>3 DEF Obtain, WorkerInv
<1>5. ASSUME NEW v \in Workers, v # w, held[v] # NoPair, SameTarget(held[v], p) \/ SameTarget(p, held[v])
      PROVE  held[v] \in suspect' /\ p \in suspect'
  <2>1. held[v] \in Pairs
    BY <1>1, <1>5 DEF WorkerInv
  <2>2. held[v] \in Conflicting(p) /\ p \in Conflicting(p) /\ held[v] \in Working
    BY <1>5, <2>1 DEF Conflicting, SameTarget, Working
  <2> QED
    BY <1>4, <2>2
<1> SUFFICES ASSUME NEW v \in Workers, NEW u \in Workers, v # u, held'[v] # NoPair, held'[u] # NoPair,
                    SameTarget(held'[v], held'[u])
             PROVE  held'[v] \in suspect'
  BY DEF ShareInv
<1>6. CASE v = w
  BY <1>4, <1>5, <1>6
<1>7. CASE u = w
  BY <1>4, <1>5, <1>7
<1>8. CASE v # w /\ u # w
  <2>1. held'[v] = held[v] /\ held'[u] = held[u]
    BY <1>4, <1>8
  <2>2. held[v] \in suspect
    BY <2>1 DEF ShareInv
  <2> QED
    BY <1>4, <2>1, <2>2
<1> QED
  BY <1>6, <1>7, <1>8

LEMMA SuspectGrows ==
  ASSUME TInv, [Next]_vars
  PROVE  suspect \subseteq suspect'
<1>1. ASSUME NEW w \in Workers, WorkerStep(w) PROVE suspect \subseteq suspect'
  BY <1>1, WorkerAlone
<1>2. CASE MainStep
  BY <1>2 DEF MainStep, ReadConfigLine, Add, Cancel, Shutdown, Unknown, OpenList, ListUnreachable, SkipQueued, ReadName, Place,
         ReadDot, LoseNames, Join, Commanded, bounds
<1>3. ASSUME NEW l \in Locations, NEW f \in Files, ChangeSource(l, f) PROVE suspect \subseteq suspect'
  BY <1>3 DEF ChangeSource
<1>4. CASE UNCHANGED bounds
  BY <1>4 DEF bounds
<1>5. CASE (\E c \in Commands : Type(c)) \/ ReadReply \/ Rest \/ (\E w \in Workers : Spin(w)) \/ UNCHANGED vars
  BY <1>4, <1>5 DEF Type, ReadReply, Rest, Spin, vars
<1> QED
  BY <1>1, <1>2, <1>3, <1>4, <1>5 DEF Next

LEMMA ShareKept ==
  ASSUME TInv, ShareInv, [Next]_vars
  PROVE  ShareInv'
<1>1. suspect \subseteq suspect'
  BY SuspectGrows
<1>2. ASSUME NEW w \in Workers, WorkerStep(w) PROVE ShareInv'
  <2>1. \A v \in Workers : v # w => held'[v] = held[v]
    BY <1>2, WorkerAlone
  <2>2. CASE Obtain(w)
    BY <2>2, ShareObtained
  <2>3. CASE held'[w] = held[w] \/ held'[w] = NoPair
    BY <1>1, <2>1, <2>3, ShareSame
  <2> QED
    BY <1>2, <2>2, <2>3, HeldMoves
<1>3. CASE UNCHANGED held
  BY <1>1, <1>3, ShareSame
<1>4. UNCHANGED held \/ \E w \in Workers : WorkerStep(w)
  BY DEF Next, MainStep, ReadConfigLine, Add, Cancel, Shutdown, Unknown, OpenList, ListUnreachable, SkipQueued, ReadName, Place,
         ReadDot, LoseNames, Join, Commanded, workers, ChangeSource, Type, ReadReply, Rest, Spin, vars
<1> QED
  BY <1>2, <1>3, <1>4

-----------------------------------------------------------------------------
(* PUSHes go where a target is.                                            *)
IsPush(r) == r.op \in {"PUSH -1", "PUSH n"}
Aimed(r, h) == r.loc.host = h /\ \E e \in Entries : r.loc = e.tar

LEMMA PushMoves ==
  ASSUME PushInv,
         \A h \in Hosts : \A i \in DOMAIN accept'[h] :
           IsPush(accept'[h][i]) =>
             \/ Aimed(accept'[h][i], h)
             \/ \E j \in DOMAIN accept[h] : accept[h][j].op = accept'[h][i].op /\ accept[h][j].loc = accept'[h][i].loc
  PROVE  PushInv'
<1>1. \A h \in Hosts : \A j \in DOMAIN accept[h] : IsPush(accept[h][j]) => Aimed(accept[h][j], h)
  BY DEF PushInv, IsPush, Aimed
<1>2. ASSUME NEW h \in Hosts, NEW i \in DOMAIN accept'[h], IsPush(accept'[h][i])
      PROVE  Aimed(accept'[h][i], h)
  <2>1. CASE Aimed(accept'[h][i], h)
    BY <2>1
  <2>2. ASSUME NEW j \in DOMAIN accept[h], accept[h][j].op = accept'[h][i].op, accept[h][j].loc = accept'[h][i].loc
        PROVE  Aimed(accept'[h][i], h)
    <3>1. Aimed(accept[h][j], h)
      BY <1>1, <1>2, <2>2 DEF IsPush
    <3> QED
      BY <2>2, <3>1 DEF Aimed
  <2> QED
    BY <1>2, <2>1, <2>2
<1> QED
  BY <1>2 DEF PushInv, IsPush, Aimed

LEMMA PushSame ==
  ASSUME PushInv, UNCHANGED accept
  PROVE  PushInv'
BY DEF PushInv

LEMMA PushDropped ==
  ASSUME ServerInv, PushInv, NEW x, Dropped(x)
  PROVE  PushInv'
<1> SUFFICES ASSUME NEW h \in Hosts, NEW i \in DOMAIN accept'[h], IsPush(accept'[h][i])
             PROVE  \E j \in DOMAIN accept[h] : accept[h][j].op = accept'[h][i].op /\ accept[h][j].loc = accept'[h][i].loc
  BY PushMoves
<1>1. PICK q \in Seq(Requests) :
         /\ Len(q) = Len(accept[h]) /\ Len(q) \in Nat /\ DOMAIN q = 1 .. Len(q) /\ DOMAIN accept[h] = 1 .. Len(q)
         /\ \A j \in 1 .. Len(q) : q[j] = HungUp(accept[h][j], x) /\ accept[h][j] \in Requests
         /\ accept'[h] = q \/ \E r \in PushRequests : r.op = "PUSH 0" /\ r.to = Gone /\ accept'[h] = Append(q, r)
  BY DroppedBacklog
<1>2. i \in 1 .. Len(q) /\ accept'[h][i] = q[i]
  <2>1. CASE accept'[h] = q
    BY <1>1, <2>1
  <2>2. ASSUME NEW r \in PushRequests, r.op = "PUSH 0", accept'[h] = Append(q, r)
        PROVE  i \in 1 .. Len(q) /\ accept'[h][i] = q[i]
    <3>1. r \in Requests
      BY DEF Requests
    <3>2. /\ DOMAIN Append(q, r) = 1 .. Len(q) + 1
          /\ \A j \in 1 .. Len(q) : Append(q, r)[j] = q[j]
          /\ Append(q, r)[Len(q) + 1] = r
      BY <3>1, AppendedRequest
    <3>3. i # Len(q) + 1 /\ i \in 1 .. Len(q) + 1
      BY <2>2, <3>2 DEF IsPush
    <3>4. i \in 1 .. Len(q)
      <4>1. Len(q) \in Nat
        BY <1>1
      <4> QED
        BY <3>3, <4>1
    <3> QED
      BY <2>2, <3>2, <3>4
  <2> QED
    BY <1>1, <2>1, <2>2
<1>3. HungUp(accept[h][i], x).op = accept[h][i].op /\ HungUp(accept[h][i], x).loc = accept[h][i].loc
  BY <1>1, <1>2, HungUpRequest
<1> QED
  BY <1>1, <1>2, <1>3

LEMMA PushAsked ==
  ASSUME ServerInv, PushInv, NEW h \in Hosts, NEW r \in Requests, Request(h, r), IsPush(r) => Aimed(r, h)
  PROVE  PushInv'
<1>1. PICK q \in Seq(Requests) : q = accept[h]
  BY DEF ServerInv
<1>2. accept' = [accept EXCEPT ![h] = Append(q, r)]
  BY <1>1 DEF Request
<1>3. accept'[h] = Append(q, r) /\ \A k \in Hosts : k # h => accept'[k] = accept[k]
  BY <1>2 DEF ServerInv
<1>4. /\ DOMAIN Append(q, r) = 1 .. Len(q) + 1 /\ Len(q) \in Nat /\ DOMAIN q = 1 .. Len(q)
      /\ \A i \in 1 .. Len(q) : Append(q, r)[i] = q[i]
      /\ Append(q, r)[Len(q) + 1] = r
  BY AppendedRequest
<1> SUFFICES ASSUME NEW k \in Hosts, NEW i \in DOMAIN accept'[k], IsPush(accept'[k][i])
             PROVE  \/ Aimed(accept'[k][i], k)
                    \/ \E j \in DOMAIN accept[k] : accept[k][j].op = accept'[k][i].op /\ accept[k][j].loc = accept'[k][i].loc
  BY PushMoves
<1>5. CASE k # h
  BY <1>3, <1>5
<1>6. CASE k = h
  <2>1. i \in 1 .. Len(q) + 1
    BY <1>3, <1>4, <1>6
  <2>2. CASE i = Len(q) + 1
    BY <1>3, <1>4, <1>6, <2>2
  <2>3. CASE i # Len(q) + 1
    <3>1. i \in 1 .. Len(q)
      BY <1>4, <2>1, <2>3
    <3> QED
      BY <1>1, <1>3, <1>4, <1>6, <3>1
  <2> QED
    BY <2>2, <2>3
<1> QED
  BY <1>5, <1>6

LEMMA PushWorker ==
  ASSUME TInv, PushInv, NEW w \in Workers, WorkerStep(w)
  PROVE  PushInv'
<1>1. ServerInv /\ WorkerInv
  BY DEF TInv
<1>2. CASE UNCHANGED servers \/ UNCHANGED accept
  BY <1>2, PushSame DEF servers
<1>3. CASE Dropped(Stream(w))
  BY <1>1, <1>3, PushDropped
<1>4. ASSUME NEW h \in Hosts, NEW r \in Requests, Request(h, r),
             \/ OpenSource(w) /\ r.op = "PULL" /\ r.to = w /\ h = held[w].src.host
             \/ Create(w) /\ r = PushTo(w, "PUSH -1") /\ h = held[w].tar.host /\ r \in PushRequests
             \/ PushBlock(w) /\ r = PushTo(w, "PUSH n") /\ h = held[w].tar.host /\ r \in PushRequests
      PROVE  PushInv'
  <2>1. CASE r.op = "PULL"
    BY <1>1, <1>4, <2>1, PushAsked DEF IsPush
  <2>2. CASE (Create(w) \/ PushBlock(w)) /\ (\E op : r = PushTo(w, op)) /\ h = held[w].tar.host
    <3>1. workerPc[w] \in {"create", "push"}
      BY <2>2 DEF Create, PushBlock, Goes
    <3>2. held[w] \in Pairs /\ r.loc = held[w].tar
      BY <1>1, <2>2, <3>1, HeldPair DEF PushTo
    <3>3. \E e \in Entries : held[w].tar = e.tar
      BY <3>2 DEF Pairs
    <3> QED
      BY <1>1, <1>4, <2>2, <3>2, <3>3, PushAsked DEF Aimed
  <2> QED
    BY <1>4, <2>1, <2>2
<1> QED
  BY <1>2, <1>3, <1>4, WorkerServers

LEMMA PushClient ==
  ASSUME TInv, PushInv, NEW h \in Hosts, ClientStep(h)
  PROVE  PushInv'
<1>1. ServerInv
  BY DEF TInv
<1>2. ASSUME NEW ops, Accepts(h, ops) PROVE PushInv'
  <2>1. /\ \A k \in Hosts : k # h => accept'[k] = accept[k]
        /\ Len(accept[h]) \in Nat \ {0} /\ Len(accept'[h]) = Len(accept[h]) - 1
        /\ \A i \in 1 .. Len(accept[h]) - 1 : accept'[h][i] = accept[h][i + 1]
        /\ accept'[h] \in Seq(Requests)
    BY <1>1, <1>2, AcceptsShape
  <2>2. \A k \in Hosts : accept[k] \in Seq(Requests)
    BY <1>1 DEF ServerInv
  <2>3. DOMAIN accept'[h] = 1 .. Len(accept[h]) - 1 /\ DOMAIN accept[h] = 1 .. Len(accept[h])
    BY <2>1, <2>2
  <2>4. \A i \in DOMAIN accept'[h] : i + 1 \in DOMAIN accept[h] /\ accept'[h][i] = accept[h][i + 1]
    BY <2>1, <2>3
  <2>5. \A k \in Hosts : \A i \in DOMAIN accept'[k] : \E j \in DOMAIN accept[k] : accept[k][j] = accept'[k][i]
    <3> TAKE k \in Hosts
    <3>1. CASE k = h
      BY <2>4, <3>1
    <3>2. CASE k # h
      BY <2>1, <3>2
    <3> QED
      BY <3>1, <3>2
  <2> QED
    BY <2>5, PushMoves
<1>3. CASE UNCHANGED accept
  BY <1>3, PushSame
<1>4. CASE BrokenPipe(h)
  <2>1. accept'[h] = <<>> /\ \A k \in Hosts : k # h => accept'[k] = accept[k]
    BY <1>1, <1>4, BrokenShape
  <2>2. DOMAIN accept'[h] = {}
    BY <2>1
  <2> QED
    BY <2>1, <2>2, PushMoves
<1>5. CASE ServePush(h) \/ ServeList(h) \/ ServePull(h)
  BY <1>2, <1>5 DEF ServePush, ServeList, ServePull
<1>6. CASE SendNext(h) \/ SkipRemoved(h) \/ CloseConnection(h) \/ SendNowhere(h)
  BY <1>3, <1>6 DEF SendNext, SkipRemoved, CloseConnection, SendNowhere
<1> QED
  BY <1>4, <1>5, <1>6 DEF ClientStep

LEMMA PushKept ==
  ASSUME TInv, PushInv, [Next]_vars
  PROVE  PushInv'
<1>1. ASSUME NEW w \in Workers, WorkerStep(w) PROVE PushInv'
  BY <1>1, PushWorker
<1>2. ASSUME NEW h \in Hosts, ClientStep(h) PROVE PushInv'
  BY <1>2, PushClient
<1>3. CASE MainStep
  <2>1. ServerInv
    BY DEF TInv
  <2>2. ASSUME NEW h \in Hosts, NEW r \in Requests, Request(h, r), r.op = "LIST" PROVE PushInv'
    BY <2>1, <2>2, PushAsked DEF IsPush
  <2>3. CASE UNCHANGED servers \/ UNCHANGED accept
    BY <2>3, PushSame DEF servers
  <2>4. CASE Dropped(Main)
    BY <2>1, <2>4, PushDropped
  <2> QED
    BY <1>3, <2>2, <2>3, <2>4, MainServers
<1>4. CASE UNCHANGED accept
  BY <1>4, PushSame
<1>5. CASE (\E c \in Commands : Type(c)) \/ ReadReply \/ Rest \/ (\E w \in Workers : Spin(w)) \/ UNCHANGED vars
           \/ (\E l \in Locations, f \in Files : ChangeSource(l, f))
  BY <1>4, <1>5 DEF Type, ReadReply, Rest, Spin, ChangeSource, vars, servers
<1> QED
  BY <1>1, <1>2, <1>3, <1>5 DEF Next

-----------------------------------------------------------------------------
(* What an item sent, the size read and a block read and pushed leave of   *)
(* the flow.                                                               *)
LEMMA AppendedItem ==
  ASSUME NEW q \in Seq(Items), NEW x \in Items
  PROVE  /\ Append(q, x) \in Seq(Items) /\ Len(Append(q, x)) = Len(q) + 1 /\ Len(q) \in Nat
         /\ \A i \in 1 .. Len(q) : Append(q, x)[i] = q[i]
         /\ Append(q, x)[Len(q) + 1] = x
OBVIOUS

LEMMA PoppedItem ==
  ASSUME NEW q \in Seq(Items), q # <<>>
  PROVE  /\ Head(q) = q[1] /\ q[1] \in Items /\ Len(q) \in Nat \ {0}
         /\ Tail(q) \in Seq(Items) /\ Len(Tail(q)) = Len(q) - 1
         /\ \A i \in 1 .. Len(q) - 1 : Tail(q)[i] = q[i + 1]
OBVIOUS

LEMMA ComesSent ==
  ASSUME NEW data \in Seq(Items), NEW S, Len(S) \in Nat, NEW sent \in Nat, NEW skip \in Nat, NEW base \in Int,
         NEW x \in Items, x = Item("block", S[sent + 1]), sent < Len(S), Comes(data, S, sent, skip, base)
  PROVE  Comes(Append(data, x), S, sent + 1, skip, base)
<1>1. /\ base + Len(data) = skip + sent
      /\ \A i \in 1 .. sent - base : data[skip + i] = Item("block", S[base + i])
  BY DEF Comes
<1>2. PICK next : next = Append(data, x)
  OBVIOUS
<1>3. PICK m \in Nat : m = Len(data)
  OBVIOUS
<1>4. /\ Len(next) = m + 1
      /\ \A i \in 1 .. m : next[i] = data[i]
      /\ next[m + 1] = x
  BY <1>2, <1>3, AppendedItem
<1>5. base + Len(next) = skip + (sent + 1) /\ sent + 1 <= Len(S)
  BY <1>1, <1>3, <1>4
<1>6. ASSUME NEW i \in 1 .. (sent + 1) - base PROVE next[skip + i] = Item("block", S[base + i])
  <2>1. base + m = skip + sent
    BY <1>1, <1>3
  <2>2. CASE i = (sent + 1) - base
    <3>1. skip + i = m + 1 /\ base + i = sent + 1
      BY <2>1, <2>2
    <3> QED
      BY <1>4, <3>1
  <2>3. CASE i # (sent + 1) - base
    <3>1. i \in 1 .. sent - base /\ skip + i \in 1 .. m
      BY <2>1, <2>3
    <3> QED
      BY <1>1, <1>4, <3>1
  <2> QED
    BY <2>2, <2>3
<1>7. Comes(next, S, sent + 1, skip, base)
  BY <1>5, <1>6 DEF Comes
<1> QED
  BY <1>2, <1>7

LEMMA ComesTaken ==
  ASSUME NEW data \in Seq(Items), data # <<>>, NEW S, NEW sent \in Nat, NEW skip \in {0, 1}, NEW base \in Int,
         Comes(data, S, sent, skip, base)
  PROVE  Comes(Tail(data), S, sent, 0, base + 1 - skip)
<1>1. /\ base + Len(data) = skip + sent /\ sent <= Len(S)
      /\ \A i \in 1 .. sent - base : data[skip + i] = Item("block", S[base + i])
  BY DEF Comes
<1>2. PICK next : next = Tail(data)
  OBVIOUS
<1>3. PICK m \in Nat : m = Len(data)
  OBVIOUS
<1>4. m # 0 /\ Len(next) = m - 1 /\ \A i \in 1 .. m - 1 : next[i] = data[i + 1]
  BY <1>2, <1>3, PoppedItem
<1>5. (base + 1 - skip) + Len(next) = 0 + sent
  BY <1>1, <1>3, <1>4
<1>6. ASSUME NEW i \in 1 .. sent - (base + 1 - skip) PROVE next[0 + i] = Item("block", S[(base + 1 - skip) + i])
  <2>1. base + m = skip + sent
    BY <1>1, <1>3
  <2>2. PICK k : k = i + 1 - skip
    OBVIOUS
  <2>3. k \in 1 .. sent - base /\ skip + k = i + 1 /\ base + k = (base + 1 - skip) + i /\ i \in 1 .. m - 1 /\ 0 + i = i
    BY <2>1, <2>2
  <2>4. data[skip + k] = Item("block", S[base + k])
    BY <1>1, <2>3
  <2> QED
    BY <1>4, <2>3, <2>4
<1>7. Comes(next, S, sent, 0, base + 1 - skip)
  BY <1>1, <1>5, <1>6 DEF Comes
<1> QED
  BY <1>2, <1>7

LEMMA FlowStarted ==
  ASSUME NEW S, S # Absent, Len(S) \in Nat, NEW n, NEW b, NEW data \in Seq(Items), data = <<Item("size", Len(S))>>
  PROVE  Flowing("size", n, b, data, S, 0)
<1>1. data # <<>> /\ data[1].kind = "size" /\ data[1].val = Len(S) /\ Len(data) = 1
  BY DEF Item
<1>2. Comes(data, S, 0, 1, 0)
  BY <1>1 DEF Comes
<1> QED
  BY <1>1, <1>2 DEF Flowing

LEMMA FlowRefused ==
  ASSUME NEW S, NEW n, NEW b, NEW sent, NEW data, data = <<Item("size", -1)>>
  PROVE  Flowing("size", n, b, data, S, sent)
BY DEF Item, Flowing

LEMMA BaseType ==
  ASSUME NEW S, Len(S) \in Nat, NEW n \in Nat, NEW pc
  PROVE  Base(pc, n, S) \in Int
<1>1. CASE pc = "push"
  <2>1. Base(pc, n, S) = Len(S) - n + 1
    BY <1>1 DEF Base
  <2> QED
    BY <2>1
<1>2. CASE pc # "push"
  <2>1. Base(pc, n, S) = Len(S) - n + 0
    BY <1>2 DEF Base
  <2> QED
    BY <2>1
<1> QED
  BY <1>1, <1>2

LEMMA FlowSent ==
  ASSUME NEW data \in Seq(Items), NEW S, Len(S) \in Nat, NEW sent \in Nat, sent < Len(S), NEW n \in Nat, NEW b, NEW pc,
         NEW x \in Items, x = Item("block", S[sent + 1]), Flowing(pc, n, b, data, S, sent)
  PROVE  Flowing(pc, n, b, Append(data, x), S, sent + 1)
<1>1. \A skip \in Nat, base \in Int : Comes(data, S, sent, skip, base) => Comes(Append(data, x), S, sent + 1, skip, base)
  BY ComesSent
<1>2. Base(pc, n, S) \in Int
  BY BaseType
<1>3. data # <<>> => Append(data, x) # <<>> /\ Append(data, x)[1] = data[1]
  OBVIOUS
<1> QED
  BY <1>1, <1>2, <1>3 DEF Flowing

LEMMA FlowSized ==
  ASSUME NEW data \in Seq(Items), NEW S, Len(S) \in Nat, NEW sent \in Nat, NEW n, NEW b, NEW m, data # <<>>, m = data[1].val, m >= 0,
         Flowing("size", n, b, data, S, sent)
  PROVE  Flowing("create", m, b, Tail(data), S, sent)
<1>0. PICK skip \in {0, 1}, base \in Int : skip = 1 /\ base = 0
  OBVIOUS
<1>1. S # Absent /\ m = Len(S) /\ Comes(data, S, sent, skip, base)
  BY <1>0 DEF Flowing
<1>2. Comes(Tail(data), S, sent, 0, base + 1 - skip)
  BY <1>1, ComesTaken
<1>3. Base("create", m, S) = Len(S) - m + 0
  BY DEF Base
<1>4. Base("create", m, S) = base + 1 - skip /\ m <= Len(S)
  BY <1>0, <1>1, <1>3
<1> QED
  BY <1>1, <1>2, <1>4 DEF Flowing

LEMMA FlowCreated ==
  ASSUME NEW data, NEW S, NEW sent, NEW n, NEW b, NEW c, NEW pc \in {"copy", "finish"}, Flowing("create", n, b, data, S, sent)
  PROVE  Flowing(pc, n, c, data, S, sent)
<1>1. Base("create", n, S) = Base("copy", n, S)
  BY DEF Base
<1> QED
  BY <1>1 DEF Flowing

LEMMA FlowRead ==
  ASSUME NEW data \in Seq(Items), NEW S, Len(S) \in Nat, NEW sent \in Nat, NEW n \in Nat, NEW b, data # <<>>, n > 0,
         Flowing("copy", n, b, data, S, sent)
  PROVE  data[1].kind = "block" /\ Flowing("push", n, data[1].val, Tail(data), S, sent)
<1>1. S # Absent /\ n <= Len(S) /\ Comes(data, S, sent, 0, Base("copy", n, S))
  BY DEF Flowing
<1>2. PICK base \in Int : base = Base("copy", n, S)
  BY BaseType
<1>3. base = Len(S) - n + 0 /\ Base("push", n, S) = Len(S) - n + 1
  BY <1>2 DEF Base
<1>4. Base("push", n, S) = base + 1 - 0 /\ base + 1 - 0 = base + 1
  BY <1>2, <1>3
<1>5. Comes(Tail(data), S, sent, 0, base + 1 - 0)
  BY <1>1, <1>2, ComesTaken
<1>6. /\ base + Len(data) = 0 + sent
      /\ \A i \in 1 .. sent - base : data[0 + i] = Item("block", S[base + i])
  BY <1>1, <1>2 DEF Comes
<1>7. Len(data) \in Nat \ {0}
  BY PoppedItem
<1>8. 1 \in 1 .. sent - base /\ 0 + 1 = 1
  BY <1>6, <1>7
<1>9. data[1] = Item("block", S[base + 1])
  BY <1>6, <1>8
<1>10. data[1].kind = "block" /\ data[1].val = S[base + 1]
  BY <1>9 DEF Item
<1> QED
  BY <1>1, <1>4, <1>5, <1>10 DEF Flowing

LEMMA FlowPushed ==
  ASSUME NEW data, NEW S, Len(S) \in Nat, NEW sent, NEW n \in Nat, n > 0, NEW b, NEW c, NEW pc \in {"copy", "finish"},
         Flowing("push", n, b, data, S, sent)
  PROVE  Flowing(pc, n - 1, c, data, S, sent)
<1>1. n <= Len(S) /\ S # Absent /\ Comes(data, S, sent, 0, Base("push", n, S))
  BY DEF Flowing
<1>2. Base("push", n, S) = Len(S) - n + 1 /\ Base("copy", n - 1, S) = Len(S) - (n - 1) + 0
  BY DEF Base
<1>3. Base("push", n, S) = Base("copy", n - 1, S) /\ n - 1 <= Len(S)
  BY <1>1, <1>2
<1> QED
  BY <1>1, <1>3 DEF Flowing

-----------------------------------------------------------------------------
(* What comes from the source arrives complete and in order.               *)
LEMMA SourceType ==
  ASSUME ServerInv, NEW p \in Pairs
  PROVE  /\ Source(p) \in Contents
         /\ Source(p) # Absent => Source(p) \in Seq(Stored) /\ Len(Source(p)) \in Nat
<1>1. Source(p) \in Contents
  BY PairFields DEF ServerInv, Source
<1>2. \A S \in Contents : S # Absent => S \in Seq(Stored) /\ Len(S) \in Nat
  BY DEF Contents
<1> QED
  BY <1>1, <1>2

LEMMA SentType ==
  ASSUME ServerInv, NEW w \in Workers, held[w] \in Pairs, Source(held[w]) # Absent
  PROVE  Sent(w) \in Nat
<1>1. Len(Source(held[w])) \in Nat
  BY SourceType
<1>2. serving[held[w].src.host] \in Servings
  BY PairFields DEF ServerInv
<1>3. serving[held[w].src.host].at \in Nat
  BY <1>2, ServingFields
<1> QED
  BY <1>1, <1>3 DEF Sent

LEMMA ConnectedPair ==
  ASSUME TInv, NEW w \in Workers, Connected(w)
  PROVE  held[w] \in Pairs /\ wire[w].data \in Seq(Items) /\ left[w] \in Nat /\ w \in Threads
<1>1. w \in Threads /\ w # Main
  BY ThreadsAssumption DEF Threads
<1>2. held[w] \in Pairs /\ left[w] \in Nat
  BY <1>1, HeldPair DEF TInv, WorkerInv, Connected
<1>3. wire[w] \in Wires
  BY <1>1 DEF TInv, ServerInv
<1> QED
  BY <1>1, <1>2, <1>3 DEF Wires

LEMMA WaitingEmpty ==
  ASSUME TInv, NEW w \in Workers, NEW h \in Hosts, AsksOf(w, h)
  PROVE  /\ wire[w].data = <<>> /\ h = held[w].src.host
         /\ \A k \in Hosts : serving[k].to # w
<1>1. w \in Threads /\ w # Main
  BY ThreadsAssumption DEF Threads
<1>2. PICK q \in Seq(Requests) : q = accept[h]
  BY DEF TInv, ServerInv
<1>3. PICK i \in DOMAIN accept[h] : accept[h][i].to = w
  BY DEF AsksOf
<1>4. i \in 0 .. Len(accept[h]) /\ i # 0
  <2>1. DOMAIN q = 1 .. Len(q) /\ Len(q) \in Nat
    OBVIOUS
  <2> QED
    BY <1>2, <1>3, <2>1
<1>5. Line(h, i).to = w
  BY <1>3, <1>4 DEF Line
<1>6. wire[w] = NoData /\ Asks(Line(h, i), w) /\ Line(h, i).loc.host = h
  BY <1>1, <1>4, <1>5 DEF TInv, LinkInv, Asking
<1>7. ASSUME NEW k \in Hosts, serving[k].to = w PROVE FALSE
  <2>1. 0 \in 0 .. Len(accept[k])
    <3>1. PICK a \in Seq(Requests) : a = accept[k]
      BY DEF TInv, ServerInv
    <3>2. Len(a) \in Nat
      OBVIOUS
    <3> QED
      BY <3>1, <3>2
  <2>2. Line(k, 0).to = w
    BY <1>7 DEF Line
  <2>3. i = 0
    BY <1>1, <1>4, <1>5, <2>1, <2>2 DEF TInv, LinkInv, Asking
  <2> QED
    BY <1>4, <2>3
<1> QED
  BY <1>1, <1>6, <1>7, NoDataType DEF Asks

LEMMA ServedOwn ==
  ASSUME TInv, NEW w \in Workers, NEW h \in Hosts, serving[h].to = w
  PROVE  /\ serving[h].op = "PULL" /\ serving[h].loc = held[w].src /\ serving[h].file = held[w].file
         /\ held[w].src.host = h
<1>1. w \in Threads /\ w # Main
  BY ThreadsAssumption DEF Threads
<1>2. 0 \in 0 .. Len(accept[h])
  <2>1. PICK a \in Seq(Requests) : a = accept[h]
    BY DEF TInv, ServerInv
  <2>2. Len(a) \in Nat
    OBVIOUS
  <2> QED
    BY <2>1, <2>2
<1>3. Line(h, 0) = serving[h]
  BY DEF Line
<1>4. Asks(serving[h], w) /\ serving[h].loc.host = h
  BY <1>1, <1>2, <1>3 DEF TInv, LinkInv, Asking
<1> QED
  BY <1>1, <1>4 DEF Asks

LEMMA InView ==
  ASSUME NEW w \in Workers, InFlow(w),
         workerPc'[w] = workerPc[w], held'[w] = held[w], left'[w] = left[w], buf'[w] = buf[w], wire'[w].data = wire[w].data,
         disk'[held[w].src][held[w].file] = disk[held[w].src][held[w].file],
         AsksOf(w, held[w].src.host)' <=> AsksOf(w, held[w].src.host),
         serving'[held[w].src.host].to = w <=> serving[held[w].src.host].to = w,
         serving[held[w].src.host].to = w => serving'[held[w].src.host].at = serving[held[w].src.host].at
  PROVE  InFlow(w)'
<1>1. Source(held[w])' = Source(held[w])
  BY DEF Source
<1>2. Sent(w)' = Sent(w)
  BY <1>1 DEF Sent, Source
<1>3. Waiting(w)' <=> Waiting(w)
  BY DEF Waiting, AsksOf
<1> QED
  BY <1>1, <1>2, <1>3 DEF InFlow

(* A step of the worker's own that sends nothing to his source.            *)
LEMMA InMoved ==
  ASSUME NEW w \in Workers, UNCHANGED <<disk, serving>>, held'[w] = held[w], ~Waiting(w),
         AsksOf(w, held[w].src.host)' <=> AsksOf(w, held[w].src.host),
         Flowing(workerPc'[w], left'[w], buf'[w], wire'[w].data, Source(held[w]), Sent(w))
  PROVE  InFlow(w)'
<1>1. Source(held[w])' = Source(held[w])
  BY DEF Source
<1>2. Sent(w)' = Sent(w)
  BY <1>1 DEF Sent, Source
<1>3. ~Waiting(w)'
  BY DEF Waiting, AsksOf
<1> QED
  BY <1>1, <1>2, <1>3 DEF InFlow

LEMMA InOthers ==
  ASSUME TInv, NEW v \in Workers, Connected(v), InFlow(v), NEW x, v # x, Beside(x),
         workerPc'[v] = workerPc[v], held'[v] = held[v], left'[v] = left[v], buf'[v] = buf[v]
  PROVE  InFlow(v)'
<1>1. held[v] \in Pairs /\ v \in Threads
  BY ConnectedPair
<1>2. held[v].src.host \in Hosts
  BY <1>1, PairFields
<1> QED
  BY <1>1, <1>2, InView DEF Beside

LEMMA TakenOwn ==
  ASSUME ServerInv, NEW w \in Threads, Stream(w) = w, Readable(w), Take(w)
  PROVE  /\ wire[w].data # <<>> /\ wire[w].data \in Seq(Items) /\ Received(w) = wire[w].data[1]
         /\ wire'[w].data = Tail(wire[w].data)
<1>1. PICK s \in Threads :
           /\ s = Stream(w) /\ wire[s].data # <<>> /\ wire[s].data \in Seq(Items)
           /\ wire'[s] = [data |-> Tail(wire[s].data), ended |-> wire[s].ended]
  BY TakeShape
<1> QED
  BY <1>1, PoppedItem DEF Received

LEMMA InOwnMoves ==
  ASSUME TInv, OwnInv, AllUp, NEW w \in Workers, Connected(w), InFlow(w), held[w] \notin suspect,
         ReadReset(w) \/ (ReadSize(w) /\ held[w] \notin suspect') \/ Create(w) \/ ReadBlock(w) \/ Swallow(w) \/ PushBlock(w)
  PROVE  InFlow(w)'
<1>1. ServerInv /\ WorkerInv /\ w \in Threads /\ held[w] \in Pairs /\ left[w] \in Nat /\ wire[w].data \in Seq(Items)
  BY ConnectedPair DEF TInv
<1>2. Stream(w) = w /\ wire[w].ended # "reset"
  BY <1>1 DEF OwnInv, Stream
<1>3. held[w].src.host \in Hosts /\ held[w].tar.host \in Hosts
  BY <1>1, PairFields
<1>4. held'[w] = held[w] /\ UNCHANGED <<disk, serving>>
  BY DEF ReadReset, ReadSize, Create, ReadBlock, Swallow, PushBlock
<1>5. Source(held[w]) # Absent => Len(Source(held[w])) \in Nat /\ Sent(w) \in Nat
  BY <1>1, SourceType, SentType
<1>6. ASSUME UNCHANGED accept PROVE AsksOf(w, held[w].src.host)' <=> AsksOf(w, held[w].src.host)
  BY <1>4, <1>6 DEF AsksOf
<1>7. ASSUME NEW op \in {"PUSH -1", "PUSH n"}, workerPc[w] \in {"create", "push"}, Request(held[w].tar.host, PushTo(w, op)), UNCHANGED <<disk, up, serving, wire>>
      PROVE  AsksOf(w, held[w].src.host)' <=> AsksOf(w, held[w].src.host)
  <2>1. PICK r \in Requests : r = PushTo(w, op) /\ r.to = Gone
    BY <1>1, <1>7, PushRequestType
  <2>2. Gone \notin Threads
    BY ThreadsAssumption
  <2>3. Beside(Gone)
    BY <1>1, <1>3, <1>7, <2>1, <2>2, BesideAsked
  <2> QED
    BY <1>1, <1>3, <1>4, <2>2, <2>3 DEF Beside
<1>8. CASE ReadSize(w) /\ held[w] \notin suspect'
  <2>1. /\ workerPc[w] = "size" /\ workerPc' = [workerPc EXCEPT ![w] = "create"] /\ Readable(w) /\ Received(w).kind = "size" /\ Received(w).val >= 0
        /\ left' = [left EXCEPT ![w] = Received(w).val] /\ Take(w) /\ UNCHANGED <<accept, buf>>
    BY <1>8 DEF ReadSize
  <2>2. workerPc[w] = "size" /\ workerPc'[w] = "create" /\ left'[w] = Received(w).val /\ buf'[w] = buf[w]
    BY <1>1, <2>1 DEF WorkerInv
  <2>3. wire[w].data # <<>> /\ Received(w) = wire[w].data[1] /\ wire'[w].data = Tail(wire[w].data)
    BY <1>1, <1>2, <2>1, TakenOwn
  <2>4. ~Waiting(w)
    BY <1>3, <2>3, WaitingEmpty DEF Waiting
  <2>5. Flowing("size", left[w], buf[w], wire[w].data, Source(held[w]), Sent(w))
    BY <2>2, <2>4 DEF InFlow
  <2>6. Source(held[w]) # Absent
    BY <2>1, <2>3, <2>5 DEF Flowing
  <2>7. Flowing("create", left'[w], buf[w], wire'[w].data, Source(held[w]), Sent(w))
    BY <1>1, <1>5, <2>1, <2>2, <2>3, <2>5, <2>6, FlowSized
  <2> QED
    BY <1>4, <1>6, <2>1, <2>2, <2>4, <2>7, InMoved
<1>9. CASE Create(w)
  <2>1. /\ workerPc[w] = "create" /\ workerPc'[w] \in {"copy", "finish"} /\ UNCHANGED <<left, wire, disk, up, serving>>
        /\ Request(held[w].tar.host, PushTo(w, "PUSH -1"))
    BY <1>1, <1>9 DEF Create, Goes, AfterPush, WorkerInv
  <2>2. ~Waiting(w) /\ Flowing("create", left[w], buf[w], wire[w].data, Source(held[w]), Sent(w))
    BY <2>1 DEF InFlow
  <2>3. Flowing(workerPc'[w], left[w], buf'[w], wire[w].data, Source(held[w]), Sent(w))
    BY <2>1, <2>2, FlowCreated
  <2> QED
    BY <1>4, <1>7, <2>1, <2>2, <2>3, InMoved
<1>10. CASE ReadBlock(w) \/ Swallow(w)
  <2>1. workerPc[w] = "copy" /\ left[w] > 0 /\ UNCHANGED <<accept, left>>
    BY <1>1, <1>10 DEF ReadBlock, Swallow, Goes, WorkerInv
  <2>2. ~Waiting(w) /\ Flowing("copy", left[w], buf[w], wire[w].data, Source(held[w]), Sent(w))
    BY <2>1 DEF InFlow
  <2>3. Source(held[w]) # Absent
    BY <2>2 DEF Flowing
  <2>4. ~ReadFails(w)
    BY <1>1, <1>2 DEF ReadFails, WasReset
  <2>5. Readable(w) /\ Take(w)
    BY <1>10, <2>4 DEF ReadBlock, Swallow
  <2>6. wire[w].data # <<>> /\ Received(w) = wire[w].data[1] /\ wire'[w].data = Tail(wire[w].data)
    BY <1>1, <1>2, <2>5, TakenOwn
  <2>7. Received(w).kind = "block" /\ Flowing("push", left[w], Received(w).val, wire'[w].data, Source(held[w]), Sent(w))
    BY <1>1, <1>5, <2>1, <2>2, <2>3, <2>6, FlowRead
  <2>8. Goes(w, "copy", "push") /\ buf' = [buf EXCEPT ![w] = Received(w).val]
    BY <1>10, <2>4, <2>7 DEF ReadBlock, Swallow
  <2>9. workerPc'[w] = "push" /\ buf'[w] = Received(w).val
    BY <1>1, <2>8 DEF Goes, WorkerInv
  <2> QED
    BY <1>4, <1>6, <2>1, <2>2, <2>7, <2>9, InMoved
<1>11. CASE PushBlock(w)
  <2>1. /\ workerPc[w] = "push" /\ workerPc'[w] \in {"copy", "finish"} /\ left'[w] = left[w] - 1
        /\ UNCHANGED <<wire, disk, up, serving>> /\ Request(held[w].tar.host, PushTo(w, "PUSH n"))
    BY <1>1, <1>11 DEF PushBlock, Goes, AfterPush, WorkerInv
  <2>2. ~Waiting(w) /\ Flowing("push", left[w], buf[w], wire[w].data, Source(held[w]), Sent(w)) /\ left[w] > 0
    BY <1>1, <2>1 DEF InFlow, WorkerInv
  <2>3. Source(held[w]) # Absent
    BY <2>2 DEF Flowing
  <2>4. Flowing(workerPc'[w], left[w] - 1, buf'[w], wire[w].data, Source(held[w]), Sent(w))
    BY <1>1, <1>5, <2>1, <2>2, <2>3, FlowPushed
  <2> QED
    BY <1>4, <1>7, <2>1, <2>2, <2>4, InMoved
<1>12. ~ReadReset(w)
  BY <1>2 DEF ReadReset, WasReset
<1> QED
  BY <1>8, <1>9, <1>10, <1>11, <1>12

LEMMA InOpened ==
  ASSUME TInv, NEW w \in Workers, OpenSource(w)
  PROVE  InFlow(w)'
<1>1. ServerInv /\ WorkerInv
  BY DEF TInv
<1>2. /\ workerPc[w] = "open" /\ workerPc'[w] = "size" /\ UNCHANGED held
      /\ Request(held[w].src.host, [op |-> "PULL", to |-> w, loc |-> held[w].src, file |-> held[w].file])
  BY <1>1 DEF OpenSource, Goes, WorkerInv
<1>3. held[w] \in Pairs
  BY <1>1, <1>2, HeldPair
<1>4. PICK h \in Hosts : h = held[w].src.host
  BY <1>3, PairFields
<1>5. PICK r \in Requests : r = [op |-> "PULL", to |-> w, loc |-> held[w].src, file |-> held[w].file]
  BY <1>3, PairFields DEF Requests, Pulls, Ends, Threads
<1>6. PICK q \in Seq(Requests) : q = accept[h]
  BY <1>1 DEF ServerInv
<1>7. accept'[h] = Append(q, r)
  BY <1>1, <1>2, <1>4, <1>5, <1>6 DEF Request, ServerInv
<1>8. r.to = w /\ Len(q) + 1 \in DOMAIN Append(q, r) /\ Append(q, r)[Len(q) + 1] = r
  BY <1>5, AppendedRequest
<1>9. Waiting(w)'
  BY <1>2, <1>4, <1>7, <1>8 DEF Waiting, AsksOf
<1> QED
  BY <1>2, <1>9 DEF InFlow

LEMMA InWorker ==
  ASSUME TInv, OwnInv, InInv, AllUp, NEW w \in Workers, WorkerStep(w),
         \A p \in Pairs : p \notin Spoiled' => p \notin Spoiled,
         NEW v \in Workers, Connected(v)', held'[v] \notin Spoiled'
  PROVE  InFlow(v)'
<1>1. WorkerInv
  BY DEF TInv
<1>2. suspect \subseteq suspect' /\ held'[v] \notin suspect'
  BY WorkerAlone DEF Spoiled
<1>3. CASE v # w
  <2>1. /\ Connected(v)
        /\ workerPc'[v] = workerPc[v] /\ held'[v] = held[v] /\ left'[v] = left[v] /\ buf'[v] = buf[v]
    BY <1>3, WorkerAlone
  <2>2. InFlow(v)
    BY <2>1, ConnectedPair DEF InInv
  <2>3. Stream(w) # v \/ ~Connected(w)
    BY <1>3, OthersStream
  <2>4. PICK x : x # v /\ Beside(x)
    BY <1>3, <2>3, WorkerBeside
  <2> QED
    BY <2>1, <2>2, <2>4, InOthers
<1>4. CASE v = w
  <2>1. w # Main /\ w \in Threads
    BY ThreadsAssumption DEF Threads
  <2>2. workerPc'[w] \in {"size", "blank", "create", "copy", "push", "finish"}
    BY <1>4, <2>1 DEF Connected
  <2>3. CASE Exit(w) \/ Obtain(w) \/ SourceUnreachable(w) \/ PullRefused(w) \/ TargetUnreachable(w) \/ Finish(w)
    <3>1. \E from, to : to \in {"exit", "open", "obtain"} /\ workerPc' = [workerPc EXCEPT ![w] = to]
      BY <2>3 DEF Exit, Obtain, SourceUnreachable, PullRefused, TargetUnreachable, Finish, Abandon, Goes
    <3> QED
      BY <1>1, <2>2, <3>1 DEF WorkerInv
  <2>4. CASE PushFails(w)
    BY <1>2, <1>4, <2>4 DEF PushFails
  <2>5. CASE OpenSource(w)
    BY <1>4, <2>5, InOpened
  <2>6. CASE ReadReset(w) \/ ReadSize(w) \/ Create(w) \/ ReadBlock(w) \/ Swallow(w) \/ PushBlock(w)
    <3>1. Connected(w) /\ held'[w] = held[w]
      BY <2>1, <2>6 DEF Connected, ReadReset, ReadSize, Create, ReadBlock, Swallow, PushBlock, Goes
    <3>2. held[w] \notin suspect /\ held[w] \notin suspect'
      BY <1>2, <1>4, <3>1
    <3>3. InFlow(w)
      BY <1>4, <3>1, ConnectedPair DEF InInv
    <3> QED
      BY <1>4, <2>6, <3>1, <3>2, <3>3, InOwnMoves
  <2> QED
    BY <2>3, <2>4, <2>5, <2>6 DEF WorkerStep
<1> QED
  BY <1>3, <1>4

(* The server of h does something for others than v.                       *)
LEMMA InElsewhere ==
  ASSUME TInv, NEW v \in Workers, Connected(v), InFlow(v), UNCHANGED <<workerPc, held, left, buf>>,
         disk'[held[v].src][held[v].file] = disk[held[v].src][held[v].file],
         wire'[v].data = wire[v].data, \A k \in Hosts : AsksOf(v, k)' <=> AsksOf(v, k),
         \A k \in Hosts : \/ serving'[k] = serving[k]
                          \/ serving'[k].to # v /\ serving[k].to # v
  PROVE  InFlow(v)'
<1>1. held[v] \in Pairs
  BY ConnectedPair
<1>2. held[v].src.host \in Hosts
  BY <1>1, PairFields
<1> QED
  BY <1>2, InView

\* Who waits when the first of a backlog has been accepted.
LEMMA AskedStill ==
  ASSUME ServerInv, NEW h \in Hosts, NEW ops, Accepts(h, ops), NEW v
  PROVE  \A k \in Hosts : /\ AsksOf(v, k)' => AsksOf(v, k)
                          /\ accept[h][1].to # v => (AsksOf(v, k)' <=> AsksOf(v, k))
<1>1. /\ \A k \in Hosts : k # h => accept'[k] = accept[k]
      /\ Len(accept[h]) \in Nat \ {0} /\ Len(accept'[h]) = Len(accept[h]) - 1
      /\ \A i \in 1 .. Len(accept[h]) - 1 : accept'[h][i] = accept[h][i + 1]
      /\ accept'[h] \in Seq(Requests)
  BY AcceptsShape
<1>2. accept[h] \in Seq(Requests)
  BY DEF ServerInv
<1>3. DOMAIN accept'[h] = 1 .. Len(accept[h]) - 1 /\ DOMAIN accept[h] = 1 .. Len(accept[h])
  BY <1>1, <1>2
<1>4. \A i \in DOMAIN accept'[h] : i + 1 \in DOMAIN accept[h] /\ accept'[h][i] = accept[h][i + 1]
  BY <1>1, <1>3
<1>5. \A i \in DOMAIN accept[h] : i # 1 => i - 1 \in DOMAIN accept'[h] /\ accept'[h][i - 1] = accept[h][i]
  <2> TAKE i \in DOMAIN accept[h]
  <2> HAVE i # 1
  <2>1. i - 1 \in 1 .. Len(accept[h]) - 1 /\ (i - 1) + 1 = i
    BY <1>1, <1>3
  <2> QED
    BY <1>1, <1>3, <2>1
<1>6. ASSUME NEW k \in Hosts, AsksOf(v, k)' PROVE AsksOf(v, k)
  BY <1>1, <1>4, <1>6 DEF AsksOf
<1>7. ASSUME NEW k \in Hosts, AsksOf(v, k), accept[h][1].to # v PROVE AsksOf(v, k)'
  BY <1>1, <1>5, <1>7 DEF AsksOf
<1> QED
  BY <1>6, <1>7

\* What is served and who asks, as far as v is concerned.
LEMMA FirstOwn ==
  ASSUME TInv, NEW h \in Hosts, NEW ops, Accepts(h, ops), NEW v \in Workers, accept[h][1].to = v
  PROVE  /\ AsksOf(v, h) /\ held[v].src.host = h
         /\ accept[h][1].op = "PULL" /\ accept[h][1].loc = held[v].src /\ accept[h][1].file = held[v].file
         /\ wire[v].data = <<>>
<1>1. v \in Threads /\ v # Main
  BY ThreadsAssumption DEF Threads
<1>2. Len(accept[h]) \in Nat \ {0} /\ accept[h] \in Seq(Requests)
  BY AcceptsShape DEF TInv, ServerInv
<1>3. 1 \in DOMAIN accept[h] /\ 1 \in 0 .. Len(accept[h])
  BY <1>2
<1>4. AsksOf(v, h)
  BY <1>3 DEF AsksOf
<1>5. Line(h, 1) = accept[h][1]
  BY DEF Line
<1>6. Asks(accept[h][1], v)
  BY <1>1, <1>3, <1>5 DEF TInv, LinkInv, Asking
<1> QED
  BY <1>1, <1>4, <1>6, WaitingEmpty DEF Asks

LEMMA InPulled ==
  ASSUME TInv, NEW h \in Hosts, ServePull(h), NEW v \in Workers, Connected(v), InFlow(v), accept[h][1].to = v,
         Representable(held[v]), UNCHANGED <<workerPc, held, left, buf>>
  PROVE  InFlow(v)'
<1>1. ServerInv /\ v \in Threads /\ v # Gone
  BY ThreadsAssumption DEF TInv, Threads
<1>2. Accepts(h, {"PULL"})
  BY DEF ServePull
<1>3. /\ AsksOf(v, h) /\ held[v].src.host = h
      /\ accept[h][1].loc = held[v].src /\ accept[h][1].file = held[v].file
      /\ wire[v].data = <<>>
  BY <1>2, FirstOwn
<1>4. workerPc[v] = "size" /\ workerPc'[v] = "size" /\ held[v] \in Pairs
  BY <1>3, ConnectedPair DEF InFlow, Waiting
<1>5. Head(accept[h]) = accept[h][1]
  BY <1>1, <1>2, AcceptsShape
<1>6. SUFFICES ASSUME ~Waiting(v)'
               PROVE  Flowing("size", left[v], buf[v], wire'[v].data, Source(held[v])', Sent(v)')
  BY <1>4 DEF InFlow
<1>7. CASE Unserved(h)
  <2>1. wire'[v].data = <<Item("size", -1)>>
    BY <1>1, <1>7, PullFailsShape
  <2> QED
    BY <2>1, FlowRefused
<1>8. CASE ~Unserved(h)
  <2>1. PICK r \in Requests, s \in Servings, n \in Nat :
           /\ r = accept[h][1]
           /\ s = [op |-> "PULL", to |-> r.to, loc |-> r.loc, file |-> r.file, at |-> 0]
           /\ disk[r.loc][r.file] \in Seq(Stored) /\ disk[r.loc][r.file] # Absent /\ n = Narrowed(Len(disk[r.loc][r.file]))
           /\ serving'[h] = s
           /\ IF r.to = Gone THEN UNCHANGED wire ELSE r.to \in Threads /\ Send(r.to, Item("size", n))
           /\ UNCHANGED <<disk, up>>
    BY <1>1, <1>8, ServePullShape
  <2>2. r.to = v /\ Send(v, Item("size", n))
    BY <1>1, <2>1
  <2>3. Item("size", n) \in Items
    BY ItemTypes
  <2>4. wire'[v].data = Append(wire[v].data, Item("size", n)) /\ wire' \in [Threads -> Wires]
    BY <1>1, <2>2, <2>3, SendShape
  <2>5. wire'[v].data = <<Item("size", n)>> /\ wire'[v].data \in Seq(Items)
    <3>1. \A x \in Items : Append(<<>>, x) = <<x>> /\ <<x>> \in Seq(Items)
      OBVIOUS
    <3>2. Append(<<>>, Item("size", n)) = <<Item("size", n)>> /\ <<Item("size", n)>> \in Seq(Items)
      BY <2>3, <3>1
    <3> QED
      BY <1>3, <2>4, <3>2
  <2>6. Source(held[v])' = Source(held[v]) /\ Source(held[v]) # Absent /\ n = Len(Source(held[v]))
    <3>1. Source(held[v])' = Source(held[v]) /\ Source(held[v]) = disk[r.loc][r.file]
      BY <1>3, <2>1 DEF Source
    <3>2. PICK m \in Nat : m = Len(Source(held[v]))
      <4>1. PICK S \in Seq(Stored) : S = disk[r.loc][r.file]
        BY <2>1
      <4>2. Len(S) \in Nat /\ S = Source(held[v])
        BY <3>1, <4>1
      <4> QED
        BY <4>2
    <3>3. m < Width \div 2 /\ n = Narrowed(m)
      BY <2>1, <3>1, <3>2 DEF Representable
    <3> QED
      BY <2>1, <3>1, <3>2, <3>3, NarrowedSize
  <2>7. Sent(v)' = 0
    BY <1>3, <2>1, <2>2 DEF Sent
  <2> QED
    BY <2>5, <2>6, <2>7, FlowStarted
<1> QED
  BY <1>7, <1>8

LEMMA InSent ==
  ASSUME TInv, NEW h \in Hosts, SendNext(h), NEW v \in Workers, Connected(v), InFlow(v), serving[h].to = v,
         UNCHANGED <<workerPc, held, left, buf>>
  PROVE  InFlow(v)'
<1>1. ServerInv /\ WireInv /\ v \in Threads
  BY DEF TInv, LinkInv, Threads
<1>2. /\ serving[h].op = "PULL" /\ serving[h].loc = held[v].src /\ serving[h].file = held[v].file
      /\ held[v].src.host = h
  BY ServedOwn
<1>3. held[v] \in Pairs /\ wire[v].data \in Seq(Items) /\ left[v] \in Nat
  BY ConnectedPair
<1>4. Source(held[v]) # Absent /\ Source(held[v]) \in Seq(Stored) /\ Len(Source(held[v])) \in Nat
  <2>1. Source(held[v]) # Absent
    BY <1>1, <1>2 DEF WireInv, Source
  <2> QED
    BY <1>1, <1>3, <2>1, SourceType
<1>5. PICK n \in Nat : n = serving[h].at
  <2>1. serving[h] \in Servings
    BY <1>1 DEF ServerInv
  <2> QED
    BY <2>1, ServingFields
<1>6. /\ Answer(serving[h]) = [i \in 1 .. Len(Source(held[v])) |-> Item("block", Source(held[v])[i])]
      /\ Sent(v) = n
  BY <1>2, <1>5 DEF Answer, Source, Sent
<1>7. n < Len(Source(held[v]))
  <2>1. Len(Answer(serving[h])) = Len(Source(held[v]))
    BY <1>4, <1>6
  <2> QED
    BY <1>5, <2>1 DEF SendNext, HasMore
<1>8. PICK x : x = Item("block", Source(held[v])[n + 1])
  OBVIOUS
<1>9. Answer(serving[h])[serving[h].at + 1] = x
  BY <1>4, <1>5, <1>6, <1>7, <1>8
<1>10. x \in Items
  <2>1. HasMore(serving[h])
    BY DEF SendNext
  <2> QED
    BY <1>1, <1>9, <2>1, AnswerType
<1>11. Send(v, x) /\ UNCHANGED <<disk, up, accept>> /\ serving' = [serving EXCEPT ![h].at = @ + 1]
  BY <1>9 DEF SendNext
<1>12. wire'[v].data = Append(wire[v].data, x)
  BY <1>1, <1>10, <1>11, SendShape
<1>13. serving'[h].to = v /\ serving'[h].at = n + 1
  <2>1. PICK t \in Threads, item \in Items, s \in Servings :
           t = serving[h].to /\ s.to = t /\ s.at = serving[h].at + 1 /\ serving'[h] = s
    BY <1>1, SendNextShape
  <2> QED
    BY <1>5, <2>1
<1>14. Source(held[v])' = Source(held[v]) /\ Sent(v)' = n + 1 /\ (Waiting(v)' <=> Waiting(v))
  BY <1>2, <1>11, <1>13 DEF Source, Sent, Waiting, AsksOf
<1>15. CASE Waiting(v)
  BY <1>14, <1>15 DEF InFlow
<1>16. CASE ~Waiting(v)
  <2>1. Flowing(workerPc[v], left[v], buf[v], wire[v].data, Source(held[v]), n)
    BY <1>6, <1>16 DEF InFlow
  <2>2. Flowing(workerPc[v], left[v], buf[v], Append(wire[v].data, x), Source(held[v]), n + 1)
    BY <1>3, <1>4, <1>7, <1>8, <1>10, <2>1, FlowSent
  <2> QED
    BY <1>12, <1>14, <1>16, <2>2 DEF InFlow
<1> QED
  BY <1>15, <1>16

LEMMA FlowClosed ==
  ASSUME NEW data, NEW S, Len(S) \in Nat, NEW sent \in Nat, ~(sent < Len(S)), NEW n, NEW b, NEW pc,
         Flowing(pc, n, b, data, S, sent)
  PROVE  Flowing(pc, n, b, data, S, Len(S))
<1>1. ASSUME NEW skip, NEW base, Comes(data, S, sent, skip, base) PROVE Comes(data, S, Len(S), skip, base)
  <2>1. sent <= Len(S)
    BY <1>1 DEF Comes
  <2>2. sent = Len(S)
    BY <2>1
  <2> QED
    BY <1>1, <2>2
<1> QED
  BY <1>1 DEF Flowing

LEMMA InClosed ==
  ASSUME TInv, NEW h \in Hosts, CloseConnection(h), NEW v \in Workers, Connected(v), InFlow(v), serving[h].to = v,
         UNCHANGED <<workerPc, held, left, buf>>
  PROVE  InFlow(v)'
<1>1. ServerInv /\ WireInv /\ v \in Threads
  BY DEF TInv, LinkInv, Threads
<1>2. /\ serving[h].op = "PULL" /\ serving[h].loc = held[v].src /\ serving[h].file = held[v].file
      /\ held[v].src.host = h
  BY ServedOwn
<1>3. held[v] \in Pairs
  BY ConnectedPair
<1>4. Source(held[v]) # Absent /\ Len(Source(held[v])) \in Nat
  <2>1. Source(held[v]) # Absent
    BY <1>1, <1>2 DEF WireInv, Source
  <2> QED
    BY <1>1, <1>3, <2>1, SourceType
<1>5. PICK n \in Nat : n = serving[h].at
  <2>1. serving[h] \in Servings
    BY <1>1 DEF ServerInv
  <2> QED
    BY <2>1, ServingFields
<1>6. /\ Answer(serving[h]) = [i \in 1 .. Len(Source(held[v])) |-> Item("block", Source(held[v])[i])]
      /\ Sent(v) = n
  BY <1>2, <1>5 DEF Answer, Source, Sent
<1>7. ~(n < Len(Source(held[v])))
  <2>1. Len(Answer(serving[h])) = Len(Source(held[v]))
    BY <1>4, <1>6
  <2> QED
    BY <1>5, <2>1 DEF CloseConnection, HasMore
<1>8. wire'[v].data = wire[v].data /\ serving'[h] = Closed /\ UNCHANGED <<disk, accept>>
  BY <1>1, CloseShape
<1>9. serving'[h].to # v
  BY <1>1, <1>8, ThreadsAssumption DEF Closed
<1>10. Source(held[v])' = Source(held[v]) /\ Sent(v)' = Len(Source(held[v])) /\ (Waiting(v)' <=> Waiting(v))
  BY <1>2, <1>8, <1>9 DEF Source, Sent, Waiting, AsksOf
<1>11. CASE Waiting(v)
  BY <1>10, <1>11 DEF InFlow
<1>12. CASE ~Waiting(v)
  <2>1. Flowing(workerPc[v], left[v], buf[v], wire[v].data, Source(held[v]), n)
    BY <1>6, <1>12 DEF InFlow
  <2>2. Flowing(workerPc[v], left[v], buf[v], wire[v].data, Source(held[v]), Len(Source(held[v])))
    BY <1>4, <1>7, <2>1, FlowClosed
  <2> QED
    BY <1>8, <1>10, <1>12, <2>2 DEF InFlow
<1> QED
  BY <1>11, <1>12

(* A PUSH leaves every source as it is.                                    *)
LEMMA SourcesStay ==
  ASSUME TInv, PushInv, SourcesApart, NEW h \in Hosts, ServePush(h), NEW p \in Pairs
  PROVE  disk'[p.src][p.file] = disk[p.src][p.file]
<1>1. ServerInv
  BY DEF TInv
<1>2. PICK r \in PushRequests :
        /\ r = accept[h][1] /\ Accepts(h, {"PUSH -1", "PUSH n", "PUSH 0"})
        /\ \A l \in Locations, f \in Files :
             disk'[l][f] = IF l = r.loc /\ f = r.file THEN Pushed(disk[l][f], r) ELSE disk[l][f]
  BY <1>1, ServePushShape
<1>3. p.src \in Locations /\ p.file \in Files
  BY PairFields
<1>4. CASE r.op = "PUSH 0"
  <2>1. Pushed(disk[p.src][p.file], r) = disk[p.src][p.file]
    BY <1>4 DEF Pushed
  <2>2. \/ disk'[p.src][p.file] = disk[p.src][p.file]
        \/ p.src = r.loc /\ p.file = r.file /\ disk'[p.src][p.file] = Pushed(disk[p.src][p.file], r)
    BY <1>2, <1>3
  <2> QED
    BY <2>1, <2>2
<1>5. CASE r.op \in {"PUSH -1", "PUSH n"}
  <2>1. Len(accept[h]) \in Nat \ {0} /\ accept[h] \in Seq(Requests)
    BY <1>1, <1>2, AcceptsShape DEF ServerInv
  <2>2. 1 \in DOMAIN accept[h]
    BY <2>1
  <2>3. PICK e \in Entries : r.loc = e.tar
    BY <1>2, <1>5, <2>2 DEF PushInv
  <2>4. PICK d \in Entries : p.src = d.src
    BY DEF Pairs
  <2>5. p.src # r.loc
    BY <2>3, <2>4 DEF SourcesApart
  <2> QED
    BY <1>2, <1>3, <2>5
<1> QED
  BY <1>4, <1>5 DEF PushRequests

LEMMA SourceKept ==
  ASSUME TInv, PushInv, SourcesApart, [Next]_vars, NEW p \in Pairs, p \notin suspect'
  PROVE  disk'[p.src][p.file] = disk[p.src][p.file]
<1>1. ASSUME NEW w \in Workers, WorkerStep(w) PROVE UNCHANGED disk
  BY <1>1, WorkerBeside DEF Beside
<1>2. CASE MainStep
  BY <1>2, MainBeside DEF Beside
<1>3. ASSUME NEW h \in Hosts, ClientStep(h)
      PROVE  disk'[p.src][p.file] = disk[p.src][p.file]
  <2>1. ServePush(h) \/ UNCHANGED disk
    BY <1>3 DEF ClientStep, ServeList, ServePull, SendNext, SkipRemoved, CloseConnection, SendNowhere, BrokenPipe
  <2> QED
    BY <2>1, SourcesStay
<1>4. ASSUME NEW l \in Locations, NEW f \in Files, ChangeSource(l, f)
      PROVE  disk'[p.src][p.file] = disk[p.src][p.file]
  <2>1. /\ suspect' = suspect \cup {q \in Pairs : q.src = l /\ q.file = f}
        /\ \E c : disk' = [disk EXCEPT ![l][f] = c]
    BY <1>4 DEF ChangeSource
  <2>2. ~(p.src = l /\ p.file = f)
    BY <2>1
  <2>3. disk \in [Locations -> [Files -> Contents]] /\ p.src \in Locations /\ p.file \in Files
    BY PairFields DEF TInv, ServerInv
  <2> QED
    BY <2>1, <2>2, <2>3
<1>5. CASE (\E c \in Commands : Type(c)) \/ ReadReply \/ Rest \/ (\E w \in Workers : Spin(w)) \/ UNCHANGED vars
  BY <1>5 DEF Type, ReadReply, Rest, Spin, vars, servers
<1> QED
  BY <1>1, <1>2, <1>3, <1>4, <1>5 DEF Next

LEMMA SpoiledGrows ==
  ASSUME TInv, PushInv, SourcesApart, [Next]_vars, NEW p \in Pairs, p \notin Spoiled'
  PROVE  p \notin Spoiled
<1>1. p \notin suspect' /\ suspect \subseteq suspect'
  BY SuspectGrows DEF Spoiled
<1>2. Source(p)' = Source(p)
  BY <1>1, SourceKept DEF Source
<1>3. Representable(p)' <=> Representable(p)
  BY <1>2 DEF Representable
<1> QED
  BY <1>1, <1>3 DEF Spoiled

LEMMA InClient ==
  ASSUME TInv, PushInv, SourcesApart, AllUp', NEW h \in Hosts, ClientStep(h), UNCHANGED <<workerPc, held, left, buf>>,
         NEW v \in Workers, Connected(v), Representable(held[v]), InFlow(v)
  PROVE  InFlow(v)'
<1>1. ServerInv /\ WireInv /\ v \in Threads /\ v # Gone /\ v # Main
  BY ThreadsAssumption DEF TInv, LinkInv, Threads
<1>2. held[v] \in Pairs
  BY ConnectedPair
<1>3. Closed.to # v
  BY <1>1 DEF Closed
<1>4. ASSUME UNCHANGED accept PROVE \A k \in Hosts : AsksOf(v, k)' <=> AsksOf(v, k)
  BY <1>4 DEF AsksOf
<1>5. ASSUME UNCHANGED disk PROVE disk'[held[v].src][held[v].file] = disk[held[v].src][held[v].file]
  BY <1>5
<1>6. CASE ServePush(h)
  <2>1. PICK r \in PushRequests :
          r = accept[h][1] /\ Accepts(h, {"PUSH -1", "PUSH n", "PUSH 0"}) /\ UNCHANGED <<up, serving, wire>>
    BY <1>1, <1>6, ServePushShape
  <2>2. accept[h][1].to # v
    BY <1>1, <2>1 DEF PushRequests
  <2>3. \A k \in Hosts : AsksOf(v, k)' <=> AsksOf(v, k)
    BY <1>1, <2>1, <2>2, AskedStill
  <2>4. disk'[held[v].src][held[v].file] = disk[held[v].src][held[v].file]
    BY <1>2, <1>6, SourcesStay
  <2> QED
    BY <2>1, <2>3, <2>4, InElsewhere
<1>7. CASE ServeList(h)
  <2>1. PICK r \in Requests, s \in Servings :
           /\ r = accept[h][1] /\ r.op = "LIST" /\ Accepts(h, {"LIST"})
           /\ s.to = r.to /\ serving'[h] = s
           /\ \A k \in Hosts : k # h => serving'[k] = serving[k]
           /\ UNCHANGED <<disk, up, wire>>
    BY <1>1, <1>7, ServeListShape
  <2>2. accept[h][1].to # v
    BY <2>1, FirstOwn
  <2>3. \A k \in Hosts : AsksOf(v, k)' <=> AsksOf(v, k)
    BY <1>1, <2>1, <2>2, AskedStill
  <2>4. serving[h].to # v
    BY <1>1, <1>3, <2>1, AcceptsShape
  <2> QED
    BY <1>5, <2>1, <2>2, <2>3, <2>4, InElsewhere
<1>8. CASE ServePull(h)
  <2>1. CASE accept[h][1].to = v
    BY <1>8, <2>1, InPulled
  <2>2. CASE accept[h][1].to # v
    <3>1. Accepts(h, {"PULL"})
      BY <1>8 DEF ServePull
    <3>2. \A k \in Hosts : AsksOf(v, k)' <=> AsksOf(v, k)
      BY <1>1, <2>2, <3>1, AskedStill
    <3>3. serving[h].to # v
      BY <1>1, <1>3, <3>1, AcceptsShape
    <3>4. CASE Unserved(h)
      <4>1. wire'[v] = wire[v] /\ UNCHANGED <<disk, up, serving>>
        BY <1>1, <1>8, <2>2, <3>4, PullFailsShape
      <4> QED
        BY <1>5, <3>2, <4>1, InElsewhere
    <3>5. CASE ~Unserved(h)
      <4>1. PICK r \in Requests, s \in Servings, n \in Nat :
               /\ r = accept[h][1]
               /\ s = [op |-> "PULL", to |-> r.to, loc |-> r.loc, file |-> r.file, at |-> 0]
               /\ serving'[h] = s
               /\ \A k \in Hosts : k # h => serving'[k] = serving[k]
               /\ IF r.to = Gone THEN UNCHANGED wire ELSE r.to \in Threads /\ Send(r.to, Item("size", n))
               /\ UNCHANGED <<disk, up>>
        BY <1>1, <1>8, <3>5, ServePullShape
      <4>2. Item("size", n) \in Items
        BY ItemTypes
      <4>3. wire'[v] = wire[v]
        <5>1. CASE r.to = Gone
          BY <4>1, <5>1
        <5>2. CASE r.to # Gone
          <6>1. r.to \in Threads /\ Send(r.to, Item("size", n))
            BY <4>1, <5>2
          <6>2. v # r.to
            BY <2>2, <4>1
          <6>3. \A u \in Threads : u # r.to => wire'[u] = wire[u]
            BY <1>1, <4>2, <6>1, SendShape
          <6> QED
            BY <1>1, <6>2, <6>3
        <5> QED
          BY <5>1, <5>2
      <4>4. serving'[h].to # v
        BY <2>2, <4>1
      <4> QED
        BY <1>5, <3>2, <3>3, <4>1, <4>3, <4>4, InElsewhere
    <3> QED
      BY <3>4, <3>5
  <2> QED
    BY <2>1, <2>2
<1>9. CASE SendNext(h)
  <2>1. CASE serving[h].to = v
    BY <1>9, <2>1, InSent
  <2>2. CASE serving[h].to # v
    <3>1. PICK t \in Threads, item \in Items, s \in Servings :
           /\ t = serving[h].to /\ Send(t, item) /\ s.to = t /\ serving'[h] = s
           /\ \A k \in Hosts : k # h => serving'[k] = serving[k]
           /\ UNCHANGED <<disk, up, accept>>
      BY <1>1, <1>9, SendNextShape
    <3>2. wire'[v] = wire[v]
      BY <1>1, <2>2, <3>1, SendShape
    <3> QED
      BY <1>4, <1>5, <2>2, <3>1, <3>2, InElsewhere
  <2> QED
    BY <2>1, <2>2
<1>10. CASE CloseConnection(h)
  <2>1. CASE serving[h].to = v
    BY <1>10, <2>1, InClosed
  <2>2. CASE serving[h].to # v
    <3>1. /\ wire'[v].data = wire[v].data /\ serving'[h] = Closed
          /\ \A k \in Hosts : k # h => serving'[k] = serving[k]
          /\ UNCHANGED <<disk, up, accept>>
      BY <1>1, <1>10, CloseShape
    <3> QED
      BY <1>3, <1>4, <1>5, <2>2, <3>1, InElsewhere
  <2> QED
    BY <2>1, <2>2
<1>11. CASE SendNowhere(h)
  <2>1. PICK s \in Servings :
           /\ s.to = Gone /\ serving[h].to = Gone /\ serving'[h] = s
           /\ \A k \in Hosts : k # h => serving'[k] = serving[k]
           /\ UNCHANGED <<disk, up, accept, wire>>
    BY <1>1, <1>11, SendNowhereShape
  <2> QED
    BY <1>1, <1>4, <1>5, <2>1, InElsewhere
<1>13. CASE SkipRemoved(h)
  <2>1. PICK s \in Servings :
           /\ serving[h].op = "LIST" /\ s.to = serving[h].to /\ serving'[h] = s
           /\ \A k \in Hosts : k # h => serving'[k] = serving[k]
           /\ UNCHANGED <<disk, up, accept, wire>>
    BY <1>1, <1>13, SkipRemovedShape
  <2>2. serving[h].to # v
    BY <2>1, ServedOwn
  <2> QED
    BY <1>4, <1>5, <2>1, <2>2, InElsewhere
<1>12. CASE BrokenPipe(h)
  <2>1. up \in [Hosts -> BOOLEAN] /\ up' = [up EXCEPT ![h] = FALSE]
    BY <1>1, <1>12, BrokenShape
  <2>2. ~AllUp'
    BY <2>1 DEF AllUp
  <2> QED
    BY <2>2
<1> QED
  BY <1>6, <1>7, <1>8, <1>9, <1>10, <1>11, <1>12, <1>13 DEF ClientStep

LEMMA UpBefore ==
  ASSUME TInv, [Next]_vars, AllUp'
  PROVE  AllUp
<1>1. CASE UNCHANGED up
  BY <1>1 DEF AllUp
<1>2. ASSUME NEW h \in Hosts, BrokenPipe(h) PROVE AllUp
  <2>1. up \in [Hosts -> BOOLEAN] /\ up' = [up EXCEPT ![h] = FALSE]
    BY <1>2 DEF BrokenPipe, TInv, ServerInv
  <2> QED
    BY <2>1 DEF AllUp
<1>3. ASSUME NEW h \in Hosts, ClientStep(h) PROVE AllUp
  BY <1>1, <1>2, <1>3 DEF ClientStep, ServePush, ServeList, ServePull, SendNext, SkipRemoved, CloseConnection, SendNowhere
<1>4. ASSUME NEW w \in Workers, WorkerStep(w) PROVE AllUp
  BY <1>1, <1>4, WorkerBeside DEF Beside
<1>5. CASE MainStep
  BY <1>1, <1>5, MainBeside DEF Beside
<1>6. CASE (\E c \in Commands : Type(c)) \/ ReadReply \/ Rest \/ (\E w \in Workers : Spin(w)) \/ UNCHANGED vars
           \/ (\E l \in Locations, f \in Files : ChangeSource(l, f))
  BY <1>1, <1>6 DEF Type, ReadReply, Rest, Spin, ChangeSource, vars, servers
<1> QED
  BY <1>3, <1>4, <1>5, <1>6 DEF Next

LEMMA InKept ==
  ASSUME TInv, OwnInv, InInv, PushInv, SourcesApart, [Next]_vars
  PROVE  InInv'
<1> SUFFICES ASSUME AllUp', NEW v \in Workers, Connected(v)', held'[v] \notin Spoiled'
             PROVE  InFlow(v)'
  BY DEF InInv
<1>1. AllUp
  BY UpBefore
<1>2. v # Main /\ held'[v] \notin suspect' /\ \A p \in Pairs : p \notin Spoiled' => p \notin Spoiled
  BY SpoiledGrows, ThreadsAssumption DEF Spoiled
<1>3. ASSUME NEW w \in Workers, WorkerStep(w) PROVE InFlow(v)'
  BY <1>1, <1>2, <1>3, InWorker
<1>4. ASSUME UNCHANGED <<workerPc, held, left, buf>> PROVE Connected(v) /\ Representable(held[v]) /\ InFlow(v)
  <2>1. Connected(v)
    BY <1>2, <1>4 DEF Connected
  <2>2. held[v] \in Pairs /\ held[v] \notin Spoiled
    BY <1>2, <1>4, <2>1, ConnectedPair
  <2> QED
    BY <1>1, <2>1, <2>2 DEF InInv, Spoiled
<1>5. CASE MainStep
  <2>1. UNCHANGED <<workerPc, held, left, buf>>
    BY <1>5 DEF MainStep, ReadConfigLine, Add, Cancel, Shutdown, Unknown, OpenList, ListUnreachable, SkipQueued, ReadName, Place,
         ReadDot, LoseNames, Join, Commanded, workers
  <2>2. ~WasReset(Main)
    BY <1>1 DEF OwnInv, WasReset, Drained
  <2> QED
    BY <1>2, <1>4, <1>5, <2>1, <2>2, MainBeside, InOthers
<1>6. ASSUME NEW h \in Hosts, ClientStep(h) /\ UNCHANGED <<buffer, workers, fds, main, console, bounds>> PROVE InFlow(v)'
  BY <1>4, <1>6, InClient DEF workers
<1>7. ASSUME NEW l \in Locations, NEW f \in Files, ChangeSource(l, f) PROVE InFlow(v)'
  <2>1. /\ UNCHANGED <<up, accept, serving, wire>> /\ UNCHANGED <<workerPc, held, left, buf>>
        /\ suspect' = suspect \cup {p \in Pairs : p.src = l /\ p.file = f}
        /\ \E c : disk' = [disk EXCEPT ![l][f] = c]
    BY <1>7 DEF ChangeSource, workers
  <2>2. held[v] \in Pairs
    BY <1>4, <2>1, ConnectedPair
  <2>3. ~(held[v].src = l /\ held[v].file = f)
    BY <1>2, <2>1, <2>2
  <2>4. disk'[held[v].src][held[v].file] = disk[held[v].src][held[v].file]
    <3>1. disk \in [Locations -> [Files -> Contents]] /\ held[v].src \in Locations /\ held[v].file \in Files
      BY <2>2, PairFields DEF TInv, ServerInv
    <3> QED
      BY <2>1, <2>3, <3>1
  <2>5. \A k \in Hosts : AsksOf(v, k)' <=> AsksOf(v, k)
    BY <2>1 DEF AsksOf
  <2> QED
    BY <1>4, <2>1, <2>4, <2>5, InElsewhere
<1>8. CASE (\E c \in Commands : Type(c)) \/ ReadReply \/ Rest \/ (\E w \in Workers : Spin(w)) \/ UNCHANGED vars
  <2>1. UNCHANGED <<disk, up, accept, serving, wire, workerPc, held, left, buf>>
    BY <1>8 DEF Type, ReadReply, Rest, Spin, vars, servers, workers
  <2>2. \A k \in Hosts : AsksOf(v, k)' <=> AsksOf(v, k)
    BY <2>1 DEF AsksOf
  <2> QED
    BY <1>4, <2>1, <2>2, InElsewhere
<1> QED
  BY <1>3, <1>5, <1>6, <1>7, <1>8 DEF Next

LEMMA InInit == Init => InInv
<1> SUFFICES ASSUME Init PROVE InInv
  OBVIOUS
<1>1. \A w \in Workers : workerPc[w] = "obtain"
  BY DEF Init
<1>2. \A w \in Workers : ~Connected(w)
  BY <1>1, ThreadsAssumption DEF Connected
<1> QED
  BY <1>2 DEF InInv

-----------------------------------------------------------------------------
(* What lands: only a worker that fills the target changes it.             *)
LEMMA LandingHeld ==
  ASSUME UNCHANGED accept, NEW p, disk'[p.tar][p.file] = disk[p.tar][p.file]
  PROVE  Landing(p)' = Landing(p)
BY DEF Landing

LEMMA LandingAsked ==
  ASSUME ServerInv, NEW h \in Hosts, NEW r \in Requests, Request(h, r), UNCHANGED disk, NEW p \in Pairs
  PROVE  Landing(p)' = IF h = p.tar.host THEN Then(Landing(p), r, p) ELSE Landing(p)
<1>1. PICK q \in Seq(Requests) : q = accept[h]
  BY DEF ServerInv
<1>2. accept'[h] = Append(q, r) /\ \A k \in Hosts : k # h => accept'[k] = accept[k]
  BY <1>1 DEF Request, ServerInv
<1>3. p.tar.host \in Hosts
  BY PairFields
<1>4. CASE h = p.tar.host
  <2>1. Landing(p)' = Landed(disk[p.tar][p.file], Append(q, r), p) /\ Landing(p) = Landed(disk[p.tar][p.file], q, p)
    BY <1>1, <1>2, <1>4 DEF Landing
  <2> QED
    BY <1>4, <2>1, LandedAppend
<1>5. CASE h # p.tar.host
  BY <1>2, <1>3, <1>5 DEF Landing
<1> QED
  BY <1>4, <1>5

LEMMA LandingDropped ==
  ASSUME ServerInv, NEW x, Dropped(x), NEW p \in Pairs
  PROVE  Landing(p)' = Landing(p)
<1>1. PICK k \in Hosts : k = p.tar.host
  BY PairFields
<1>2. PICK q \in Seq(Requests) :
         /\ Len(q) = Len(accept[k]) /\ Len(q) \in Nat
         /\ \A i \in 1 .. Len(q) : q[i] = HungUp(accept[k][i], x) /\ accept[k][i] \in Requests
         /\ accept'[k] = q \/ \E r \in PushRequests : r.op = "PUSH 0" /\ r.to = Gone /\ accept'[k] = Append(q, r)
  BY DroppedBacklog
<1>3. PICK c : c = disk[p.tar][p.file]
  OBVIOUS
<1>4. Landing(p) = Landed(c, accept[k], p) /\ Landing(p)' = Landed(c, accept'[k], p)
  BY <1>1, <1>3 DEF Landing, Dropped
<1>5. Landed(c, q, p) = Landed(c, accept[k], p)
  <2>1. \A n \in 1 .. Len(q) : \A y : Then(y, q[n], p) = Then(y, accept[k][n], p)
    <3> TAKE n \in 1 .. Len(q)
    <3>1. accept[k][n] \in Requests /\ q[n] = HungUp(accept[k][n], x)
      BY <1>2
    <3> QED
      BY <3>1, HungUpThen
  <2>2. PICK a : a = accept[k]
    OBVIOUS
  <2>3. Len(a) \in Nat /\ Len(q) = Len(a)
    BY <1>2, <2>2
  <2>4. \A n \in 1 .. Len(a) : \A y : Then(y, q[n], p) = Then(y, a[n], p)
    BY <2>1, <2>2, <2>3
  <2>5. Landed(c, q, p) = Landed(c, a, p)
    BY <2>3, <2>4, LandedSame
  <2> QED
    BY <2>2, <2>5
<1>6. CASE accept'[k] = q
  BY <1>4, <1>5, <1>6
<1>7. ASSUME NEW r \in PushRequests, r.op = "PUSH 0", accept'[k] = Append(q, r) PROVE Landing(p)' = Landing(p)
  <2>1. r \in Requests
    BY DEF Requests
  <2>2. Landed(c, Append(q, r), p) = Then(Landed(c, q, p), r, p)
    BY <2>1, LandedAppend
  <2>3. Then(Landed(c, q, p), r, p) = Landed(c, q, p)
    BY <1>7 DEF Then, Pushes
  <2> QED
    BY <1>4, <1>5, <1>7, <2>2, <2>3
<1> QED
  BY <1>2, <1>6, <1>7

LEMMA LandingWorker ==
  ASSUME TInv, NEW w \in Workers, WorkerStep(w), NEW p \in Pairs
  PROVE  \/ Landing(p)' = Landing(p)
         \/ Create(w) /\ SameTarget(held[w], p) /\ Landing(p)' = <<>>
         \/ /\ PushBlock(w) /\ SameTarget(held[w], p)
            /\ Landing(p) # Absent => Landing(p)' = Append(Landing(p), buf[w])
<1>1. ServerInv
  BY DEF TInv
<1>2. CASE UNCHANGED servers
  BY <1>2, LandingHeld DEF servers
<1>3. CASE UNCHANGED <<disk, up, accept, serving>>
  BY <1>3, LandingHeld
<1>4. CASE Dropped(Stream(w))
  BY <1>1, <1>4, LandingDropped
<1>5. ASSUME NEW h \in Hosts, NEW r \in Requests, Request(h, r), UNCHANGED <<disk, up, serving, wire>>,
             \/ OpenSource(w) /\ r.op = "PULL" /\ r.to = w /\ h = held[w].src.host
             \/ Create(w) /\ r = PushTo(w, "PUSH -1") /\ h = held[w].tar.host /\ r \in PushRequests
             \/ PushBlock(w) /\ r = PushTo(w, "PUSH n") /\ h = held[w].tar.host /\ r \in PushRequests
      PROVE  \/ Landing(p)' = Landing(p)
             \/ Create(w) /\ SameTarget(held[w], p) /\ Landing(p)' = <<>>
             \/ /\ PushBlock(w) /\ SameTarget(held[w], p)
                /\ Landing(p) # Absent => Landing(p)' = Append(Landing(p), buf[w])
  <2>1. Landing(p)' = Landing(p) \/ (Landing(p)' = Then(Landing(p), r, p) /\ Pushes(r, p))
    <3>1. ~Pushes(r, p) => Then(Landing(p), r, p) = Landing(p)
      BY DEF Then
    <3> QED
      BY <1>1, <1>5, <3>1, LandingAsked
  <2>2. CASE Landing(p)' = Then(Landing(p), r, p) /\ Pushes(r, p)
    <3>1. Landing(p)' = Pushed(Landing(p), r) /\ r.op # "PULL"
      BY <2>2 DEF Then, Pushes
    <3>2. CASE Create(w) /\ r = PushTo(w, "PUSH -1")
      <4>1. r.op = "PUSH -1" /\ r.loc = held[w].tar /\ r.file = held[w].file
        BY <3>2 DEF PushTo
      <4>2. SameTarget(held[w], p)
        BY <2>2, <4>1 DEF Pushes, SameTarget
      <4>3. Pushed(Landing(p), r) = <<>>
        BY <4>1 DEF Pushed
      <4> QED
        BY <3>1, <3>2, <4>2, <4>3
    <3>3. CASE PushBlock(w) /\ r = PushTo(w, "PUSH n")
      <4>1. r.op = "PUSH n" /\ r.loc = held[w].tar /\ r.file = held[w].file /\ r.block = buf[w]
        BY <3>3 DEF PushTo
      <4>2. SameTarget(held[w], p)
        BY <2>2, <4>1 DEF Pushes, SameTarget
      <4>3. Landing(p) # Absent => Pushed(Landing(p), r) = Append(Landing(p), buf[w])
        BY <4>1 DEF Pushed
      <4> QED
        BY <3>1, <3>3, <4>2, <4>3
    <3> QED
      BY <1>5, <3>1, <3>2, <3>3
  <2> QED
    BY <2>1, <2>2
<1> QED
  BY <1>2, <1>3, <1>4, <1>5, WorkerServers

LEMMA LandingMain ==
  ASSUME TInv, MainStep, NEW p \in Pairs
  PROVE  Landing(p)' = Landing(p)
<1>1. ServerInv
  BY DEF TInv
<1>2. CASE UNCHANGED servers
  BY <1>2, LandingHeld DEF servers
<1>3. CASE UNCHANGED <<disk, up, accept, serving>>
  BY <1>3, LandingHeld
<1>4. CASE Dropped(Main)
  BY <1>1, <1>4, LandingDropped
<1>5. ASSUME NEW h \in Hosts, NEW r \in Requests, Request(h, r), UNCHANGED <<disk, up, serving, wire>>, r.op = "LIST"
      PROVE  Landing(p)' = Landing(p)
  <2>1. Then(Landing(p), r, p) = Landing(p)
    BY <1>5 DEF Then, Pushes
  <2> QED
    BY <1>1, <1>5, <2>1, LandingAsked
<1> QED
  BY <1>2, <1>3, <1>4, <1>5, MainServers

\* The first of a backlog is served: what it did to the target is on the disk.
LEMMA LandingServed ==
  ASSUME ServerInv, NEW h \in Hosts, NEW ops, Accepts(h, ops), NEW p \in Pairs,
         disk'[p.tar][p.file] = IF h = p.tar.host THEN Then(disk[p.tar][p.file], accept[h][1], p) ELSE disk[p.tar][p.file]
  PROVE  Landing(p)' = Landing(p)
<1>1. PICK q \in Seq(Requests) : q = accept[h]
  BY DEF ServerInv
<1>2. q # <<>> /\ accept'[h] = Tail(q) /\ \A k \in Hosts : k # h => accept'[k] = accept[k]
  BY <1>1 DEF Accepts, ServerInv
<1>3. p.tar.host \in Hosts
  BY PairFields
<1>4. CASE h = p.tar.host
  <2>1. /\ Landing(p)' = Landed(Then(disk[p.tar][p.file], q[1], p), Tail(q), p)
        /\ Landing(p) = Landed(disk[p.tar][p.file], q, p)
    BY <1>1, <1>2, <1>4 DEF Landing
  <2> QED
    BY <1>2, <2>1, LandedPop
<1>5. CASE h # p.tar.host
  BY <1>2, <1>3, <1>5 DEF Landing
<1> QED
  BY <1>4, <1>5

LEMMA LandingClient ==
  ASSUME TInv, PushInv, NEW h \in Hosts, ClientStep(h), AllUp', NEW p \in Pairs
  PROVE  Landing(p)' = Landing(p)
<1>1. ServerInv
  BY DEF TInv
<1>2. p.tar \in Locations /\ p.file \in Files
  BY PairFields
<1>3. ASSUME NEW ops \in {{"LIST"}, {"PULL"}}, Accepts(h, ops), UNCHANGED disk PROVE Landing(p)' = Landing(p)
  <2>1. accept[h][1].op \in ops
    BY <1>1, <1>3, AcceptsShape
  <2>2. Then(disk[p.tar][p.file], accept[h][1], p) = disk[p.tar][p.file]
    BY <2>1 DEF Then, Pushes
  <2> QED
    BY <1>1, <1>3, <2>2, LandingServed
<1>4. CASE ServePush(h)
  <2>1. PICK r \in PushRequests :
          /\ r = accept[h][1] /\ Accepts(h, {"PUSH -1", "PUSH n", "PUSH 0"})
          /\ \A l \in Locations, f \in Files :
               disk'[l][f] = IF l = r.loc /\ f = r.file THEN Pushed(disk[l][f], r) ELSE disk[l][f]
    BY <1>1, <1>4, ServePushShape
  <2>2. PICK c : c = disk[p.tar][p.file]
    OBVIOUS
  <2>3. disk'[p.tar][p.file] = IF p.tar = r.loc /\ p.file = r.file THEN Pushed(c, r) ELSE c
    BY <1>2, <2>1, <2>2
  <2>4. CASE r.op = "PUSH 0"
    <3>1. Pushed(c, r) = c /\ Then(c, r, p) = c
      BY <2>4 DEF Pushed, Then, Pushes
    <3>2. disk'[p.tar][p.file] = IF h = p.tar.host THEN Then(c, r, p) ELSE c
      BY <2>3, <3>1
    <3> QED
      BY <1>1, <2>1, <2>2, <3>2, LandingServed
  <2>5. CASE r.op \in {"PUSH -1", "PUSH n"}
    <3>1. Len(accept[h]) \in Nat \ {0} /\ accept[h] \in Seq(Requests)
      BY <1>1, <2>1, AcceptsShape DEF ServerInv
    <3>2. 1 \in DOMAIN accept[h]
      BY <3>1
    <3>3. r.loc.host = h
      BY <2>1, <2>5, <3>2 DEF PushInv
    <3>4. Then(c, r, p) = IF p.tar = r.loc /\ p.file = r.file THEN Pushed(c, r) ELSE c
      BY <2>5 DEF Then, Pushes
    <3>5. disk'[p.tar][p.file] = IF h = p.tar.host THEN Then(c, r, p) ELSE c
      BY <2>3, <3>3, <3>4
    <3> QED
      BY <1>1, <2>1, <2>2, <3>5, LandingServed
  <2> QED
    BY <2>4, <2>5 DEF PushRequests
<1>5. CASE ServeList(h) \/ ServePull(h)
  BY <1>3, <1>5 DEF ServeList, ServePull
<1>6. CASE SendNext(h) \/ SkipRemoved(h) \/ CloseConnection(h) \/ SendNowhere(h)
  BY <1>6, LandingHeld DEF SendNext, SkipRemoved, CloseConnection, SendNowhere
<1>7. CASE BrokenPipe(h)
  <2>1. up \in [Hosts -> BOOLEAN] /\ up' = [up EXCEPT ![h] = FALSE]
    BY <1>1, <1>7, BrokenShape
  <2>2. ~AllUp'
    BY <2>1 DEF AllUp
  <2> QED
    BY <2>2
<1> QED
  BY <1>4, <1>5, <1>6, <1>7 DEF ClientStep

\* Only a worker's own steps change what he has.
LEMMA WorkersStay ==
  ASSUME [Next]_vars
  PROVE  (\E w \in Workers : WorkerStep(w)) \/ UNCHANGED <<workerPc, held, left, buf>>
BY DEF Next, MainStep, ReadConfigLine, Add, Cancel, Shutdown, Unknown, OpenList, ListUnreachable, SkipQueued, ReadName, Place,
       ReadDot, LoseNames, Join, Commanded, ChangeSource, Type, ReadReply, Rest, Spin, vars, workers

\* Whatever happens, an unsuspected pair's source stays, and only workers change what lands.
LEMMA PairStep ==
  ASSUME TInv, PushInv, SourcesApart, [Next]_vars, AllUp', NEW p \in Pairs, p \notin suspect'
  PROVE  /\ disk'[p.src][p.file] = disk[p.src][p.file]
         /\ \/ \E w \in Workers : WorkerStep(w)
            \/ Landing(p)' = Landing(p)
<1>1. disk'[p.src][p.file] = disk[p.src][p.file]
  BY SourceKept
<1>2. CASE MainStep
  BY <1>1, <1>2, LandingMain
<1>3. ASSUME NEW h \in Hosts, ClientStep(h) PROVE Landing(p)' = Landing(p)
  BY <1>3, LandingClient
<1>4. ASSUME NEW l \in Locations, NEW f \in Files, ChangeSource(l, f) PROVE Landing(p)' = Landing(p)
  <2>1. /\ UNCHANGED accept /\ l \in {e.src : e \in Entries}
        /\ \E c : disk' = [disk EXCEPT ![l][f] = c]
    BY <1>4 DEF ChangeSource
  <2>2. disk \in [Locations -> [Files -> Contents]] /\ p.tar \in Locations /\ p.file \in Files
    BY PairFields DEF TInv, ServerInv
  <2>3. p.tar # l
    <3>1. PICK e \in Entries : p.tar = e.tar
      BY DEF Pairs
    <3>2. PICK d \in Entries : l = d.src
      BY <2>1
    <3> QED
      BY <3>1, <3>2 DEF SourcesApart
  <2>4. disk'[p.tar][p.file] = disk[p.tar][p.file]
    BY <2>1, <2>2, <2>3
  <2> QED
    BY <2>1, <2>4, LandingHeld
<1>5. CASE (\E c \in Commands : Type(c)) \/ ReadReply \/ Rest \/ (\E w \in Workers : Spin(w)) \/ UNCHANGED vars
  <2>1. UNCHANGED <<disk, accept>>
    BY <1>5 DEF Type, ReadReply, Rest, Spin, vars, servers
  <2> QED
    BY <1>1, <2>1, LandingHeld
<1> QED
  BY <1>1, <1>2, <1>3, <1>4, <1>5 DEF Next

-----------------------------------------------------------------------------
(* What has landed is the source as far as it has been pushed.             *)
LEMMA SubSeqGrows ==
  ASSUME NEW S \in Seq(Stored), NEW k \in Nat, k < Len(S)
  PROVE  /\ SubSeq(S, 1, k) \in Seq(Stored)
         /\ Append(SubSeq(S, 1, k), S[k + 1]) = SubSeq(S, 1, k + 1)
<1>1. SubSeq(S, 1, k) \in Seq(Stored) /\ Len(SubSeq(S, 1, k)) = k /\ \A i \in 1 .. k : SubSeq(S, 1, k)[i] = S[i]
  OBVIOUS
<1>2. SubSeq(S, 1, k + 1) \in Seq(Stored) /\ Len(SubSeq(S, 1, k + 1)) = k + 1 /\ \A i \in 1 .. k + 1 : SubSeq(S, 1, k + 1)[i] = S[i]
  OBVIOUS
<1>3. S[k + 1] \in Stored
  OBVIOUS
<1>4. PICK a \in Seq(Stored) : a = SubSeq(S, 1, k)
  BY <1>1
<1>5. PICK x \in Stored : x = S[k + 1]
  BY <1>3
<1>6. /\ Append(a, x) \in Seq(Stored) /\ Len(Append(a, x)) = k + 1
      /\ \A i \in 1 .. k : Append(a, x)[i] = a[i]
      /\ Append(a, x)[k + 1] = x
  BY <1>1, <1>4
<1>7. \A i \in 1 .. k + 1 : Append(a, x)[i] = SubSeq(S, 1, k + 1)[i]
  <2> TAKE i \in 1 .. k + 1
  <2>1. CASE i = k + 1
    BY <1>2, <1>5, <1>6, <2>1
  <2>2. CASE i # k + 1
    <3>1. i \in 1 .. k
      BY <2>2
    <3> QED
      BY <1>1, <1>2, <1>4, <1>6, <3>1
  <2> QED
    BY <2>1, <2>2
<1>8. Append(a, x) = SubSeq(S, 1, k + 1)
  BY <1>2, <1>6, <1>7, SeqEqual
<1> QED
  BY <1>1, <1>4, <1>5, <1>8

LEMMA ReachCreated ==
  ASSUME NEW S \in Seq(Stored), S # Absent, NEW n, n = Len(S)
  PROVE  Reaching(AfterPush(n), n, S, <<>>)
<1>1. n \in Nat
  OBVIOUS
<1>2. SubSeq(S, 1, 0) = <<>>
  OBVIOUS
<1>3. n = 0 => S = <<>>
  <2>1. Len(S) = 0 => S = <<>>
    OBVIOUS
  <2> QED
    BY <2>1
<1>4. Len(S) - n = 0
  BY <1>1
<1> QED
  BY <1>2, <1>3, <1>4 DEF Reaching, AfterPush

LEMMA ReachPushed ==
  ASSUME NEW S \in Seq(Stored), S # Absent, NEW n \in Nat, n > 0, n <= Len(S), NEW landed, Reaching("push", n, S, landed)
  PROVE  landed # Absent /\ Reaching(AfterPush(n - 1), n - 1, S, Append(landed, S[Len(S) - n + 1]))
<1>1. PICK k \in Nat : k = Len(S) - n /\ k < Len(S) /\ Len(S) - (n - 1) = k + 1 /\ Len(S) - n + 1 = k + 1
  <2>1. PICK m \in Nat : m = Len(S)
    OBVIOUS
  <2>2. PICK k : k = m - n
    OBVIOUS
  <2>3. k \in Nat /\ k < m /\ m - (n - 1) = k + 1 /\ m - n + 1 = k + 1
    BY <2>1, <2>2
  <2> QED
    BY <2>1, <2>2, <2>3
<1>2. landed = SubSeq(S, 1, k)
  BY <1>1 DEF Reaching
<1>3. landed \in Seq(Stored) /\ Append(landed, S[k + 1]) = SubSeq(S, 1, k + 1)
  BY <1>1, <1>2, SubSeqGrows
<1>4. landed # Absent
  BY <1>3, AbsentAssumption DEF Stored
<1>5. n - 1 = 0 => SubSeq(S, 1, k + 1) = S
  <2>1. n - 1 = 0 => k + 1 = Len(S)
    BY <1>1
  <2>2. SubSeq(S, 1, Len(S)) = S
    <3>1. Len(S) \in Nat
      OBVIOUS
    <3>2. Len(SubSeq(S, 1, Len(S))) = Len(S) /\ SubSeq(S, 1, Len(S)) \in Seq(Stored)
      OBVIOUS
    <3>3. \A i \in 1 .. Len(S) : SubSeq(S, 1, Len(S))[i] = S[i]
      OBVIOUS
    <3> QED
      BY <3>2, <3>3, SeqEqual
  <2> QED
    BY <2>1, <2>2
<1>6. AfterPush(n - 1) = "finish" => n - 1 = 0
  BY DEF AfterPush
<1> QED
  BY <1>1, <1>3, <1>4, <1>5, <1>6 DEF Reaching

LEMMA OutView ==
  ASSUME NEW w \in Workers, OutFlow(w), held'[w] = held[w], left'[w] = left[w],
         workerPc'[w] = workerPc[w] \/ (workerPc[w] \in {"copy", "push"} /\ workerPc'[w] # "finish"),
         disk'[held[w].src][held[w].file] = disk[held[w].src][held[w].file], Landing(held[w])' = Landing(held[w])
  PROVE  OutFlow(w)'
<1>1. Source(held[w])' = Source(held[w])
  BY DEF Source
<1> QED
  BY <1>1 DEF OutFlow, Reaching

LEMMA OutOwn ==
  ASSUME TInv, OwnInv, InInv, OutInv, AllUp, NEW w \in Workers, WorkerStep(w), Connected(w)', held'[w] \notin Spoiled',
         \A p \in Pairs : p \notin Spoiled' => p \notin Spoiled,
         \A p \in Pairs : p \notin suspect' => disk'[p.src][p.file] = disk[p.src][p.file]
  PROVE  OutFlow(w)'
<1>1. WorkerInv /\ ServerInv /\ w # Main
  BY ThreadsAssumption DEF TInv
<1>2. held'[w] \notin suspect'
  BY DEF Spoiled
<1>3. workerPc'[w] \in {"size", "blank", "create", "copy", "push", "finish"}
  BY <1>1 DEF Connected
<1>4. CASE Exit(w) \/ Obtain(w) \/ SourceUnreachable(w) \/ PullRefused(w) \/ TargetUnreachable(w) \/ Finish(w)
  <2>1. \E from, to : to \in {"exit", "open", "obtain"} /\ workerPc' = [workerPc EXCEPT ![w] = to]
    BY <1>4 DEF Exit, Obtain, SourceUnreachable, PullRefused, TargetUnreachable, Finish, Abandon, Goes
  <2> QED
    BY <1>1, <1>3, <2>1 DEF WorkerInv
<1>5. CASE PushFails(w)
  BY <1>2, <1>5 DEF PushFails
<1>6. CASE OpenSource(w) \/ ReadReset(w) \/ ReadSize(w)
  <2>1. workerPc'[w] \in {"size", "blank", "create"}
    BY <1>1, <1>6 DEF OpenSource, ReadReset, ReadSize, Goes, WorkerInv
  <2> QED
    BY <2>1 DEF OutFlow, Reaching
<1>7. CASE Create(w) \/ ReadBlock(w) \/ Swallow(w) \/ PushBlock(w)
  <2>1. Connected(w) /\ held'[w] = held[w]
    BY <1>1, <1>7 DEF Connected, Create, ReadBlock, Swallow, PushBlock, Goes
  <2>2. held[w] \in Pairs /\ held[w] \notin Spoiled /\ held[w] \notin suspect' /\ left[w] \in Nat
    BY <1>2, <2>1, ConnectedPair
  <2>3. InFlow(w) /\ OutFlow(w)
    BY <2>1, <2>2 DEF InInv, OutInv
  <2>4. disk'[held[w].src][held[w].file] = disk[held[w].src][held[w].file]
    BY <2>2
  <2>5. /\ Source(held[w])' = Source(held[w])
        /\ Source(held[w]) # Absent => Source(held[w]) \in Seq(Stored)
    BY <1>1, <2>1, <2>2, <2>4, SourceType DEF Source
  <2>6. CASE ReadBlock(w) \/ Swallow(w)
    <3>1. workerPc[w] = "copy" /\ workerPc'[w] \in {"copy", "push"} /\ left'[w] = left[w] /\ UNCHANGED <<disk, accept>>
      BY <1>1, <2>6 DEF ReadBlock, Swallow, Goes, WorkerInv
    <3>2. Landing(held[w])' = Landing(held[w])
      BY <2>1, <3>1 DEF Landing
    <3> QED
      BY <2>1, <2>3, <2>4, <3>1, <3>2, OutView
  <2>7. PICK p \in Pairs : p = held[w]
    BY <2>2
  <2>8. CASE Create(w)
    <3>1. workerPc[w] = "create" /\ workerPc'[w] = AfterPush(left[w]) /\ left'[w] = left[w]
      BY <1>1, <2>8 DEF Create, Goes, WorkerInv
    <3>2. Source(p) # Absent /\ left[w] = Len(Source(p))
      BY <2>3, <2>7, <3>1 DEF InFlow, Flowing
    <3>3. Landing(p)' = <<>>
      <4>1. PICK h \in Hosts : h = p.tar.host
        BY PairFields
      <4>2. PICK r \in Requests : r = PushTo(w, "PUSH -1")
        BY <1>1, <3>1, PushRequestType
      <4>3. Request(h, r) /\ UNCHANGED disk
        BY <2>7, <2>8, <4>1, <4>2 DEF Create
      <4>4. Landing(p)' = Then(Landing(p), r, p)
        BY <1>1, <4>1, <4>3, LandingAsked
      <4>5. r.op = "PUSH -1" /\ r.loc = p.tar /\ r.file = p.file
        BY <2>7, <4>2 DEF PushTo
      <4> QED
        BY <4>4, <4>5 DEF Then, Pushes, Pushed
    <3>4. Reaching(AfterPush(left[w]), left[w], Source(p), <<>>)
      BY <2>5, <2>7, <3>2, ReachCreated
    <3> QED
      BY <2>1, <2>5, <2>7, <3>1, <3>3, <3>4 DEF OutFlow
  <2>9. CASE PushBlock(w)
    <3>1. workerPc[w] = "push" /\ workerPc'[w] = AfterPush(left[w] - 1) /\ left'[w] = left[w] - 1 /\ left[w] > 0
      BY <1>1, <2>9 DEF PushBlock, Goes, WorkerInv
    <3>2. Source(p) # Absent /\ left[w] <= Len(Source(p)) /\ buf[w] = Source(p)[Base("push", left[w], Source(p))]
      BY <2>3, <2>7, <3>1 DEF InFlow, Flowing
    <3>3. buf[w] = Source(p)[Len(Source(p)) - left[w] + 1]
      BY <3>2 DEF Base
    <3>4. Reaching("push", left[w], Source(p), Landing(p))
      BY <2>3, <2>7, <3>1 DEF OutFlow
    <3>5. Landing(p) # Absent /\ Reaching(AfterPush(left[w] - 1), left[w] - 1, Source(p), Append(Landing(p), buf[w]))
      BY <2>2, <2>5, <2>7, <3>1, <3>2, <3>3, <3>4, ReachPushed
    <3>6. Landing(p)' = Append(Landing(p), buf[w])
      <4>1. PICK h \in Hosts : h = p.tar.host
        BY PairFields
      <4>2. PICK r \in Requests : r = PushTo(w, "PUSH n")
        BY <1>1, <3>1, PushRequestType
      <4>3. Request(h, r) /\ UNCHANGED disk
        BY <2>7, <2>9, <4>1, <4>2 DEF PushBlock
      <4>4. Landing(p)' = Then(Landing(p), r, p)
        BY <1>1, <4>1, <4>3, LandingAsked
      <4>5. r.op = "PUSH n" /\ r.loc = p.tar /\ r.file = p.file /\ r.block = buf[w]
        BY <2>7, <4>2 DEF PushTo
      <4> QED
        BY <3>5, <4>4, <4>5 DEF Then, Pushes, Pushed
    <3> QED
      BY <2>1, <2>5, <2>7, <3>1, <3>5, <3>6 DEF OutFlow
  <2> QED
    BY <1>7, <2>6, <2>8, <2>9
<1> QED
  BY <1>4, <1>5, <1>6, <1>7 DEF WorkerStep

LEMMA OutKept ==
  ASSUME TInv, OwnInv, ShareInv, PushInv, InInv, OutInv, SourcesApart, [Next]_vars
  PROVE  OutInv'
<1> SUFFICES ASSUME AllUp', NEW v \in Workers, Connected(v)', held'[v] \notin Spoiled'
             PROVE  OutFlow(v)'
  BY DEF OutInv
<1>1. AllUp
  BY UpBefore
<1>2. v # Main /\ held'[v] \notin suspect' /\ \A p \in Pairs : p \notin Spoiled' => p \notin Spoiled
  BY SpoiledGrows, ThreadsAssumption DEF Spoiled
<1>3. \A p \in Pairs : p \notin suspect' =>
        /\ disk'[p.src][p.file] = disk[p.src][p.file]
        /\ \/ \E w \in Workers : WorkerStep(w)
           \/ Landing(p)' = Landing(p)
  BY PairStep
<1>4. ASSUME NEW w \in Workers, WorkerStep(w) PROVE OutFlow(v)'
  <2>1. CASE v = w
    BY <1>1, <1>2, <1>3, <1>4, <2>1, OutOwn
  <2>2. CASE v # w
    <3>1. Connected(v) /\ workerPc'[v] = workerPc[v] /\ held'[v] = held[v] /\ left'[v] = left[v]
      BY <1>4, <2>2, WorkerAlone
    <3>2. held[v] \in Pairs /\ held[v] \notin suspect' /\ held[v] \notin Spoiled /\ held[v] \notin suspect
      BY <1>2, <3>1, ConnectedPair DEF Spoiled
    <3>3. OutFlow(v)
      BY <1>1, <3>1, <3>2 DEF OutInv
    <3>4. PICK p \in Pairs : p = held[v]
      BY <3>2
    <3>5. p # NoPair
      BY <3>4, NoPairAssumption
    <3>6. Landing(p)' = Landing(p)
      <4>1. SUFFICES ASSUME Create(w) \/ PushBlock(w), SameTarget(held[w], p) PROVE FALSE
        BY <1>4, LandingWorker
      <4>2. held[w] # NoPair
        BY <4>1, HeldPair DEF Create, PushBlock, Goes, TInv
      <4>3. SameTarget(held[v], held[w])
        BY <3>4, <4>1 DEF SameTarget
      <4> QED
        BY <2>2, <3>2, <3>4, <3>5, <4>2, <4>3 DEF ShareInv
    <3>7. Landing(held[v])' = Landing(held[v])
      BY <3>1, <3>4, <3>6
    <3> QED
      BY <1>3, <3>1, <3>2, <3>3, <3>7, OutView
  <2> QED
    BY <2>1, <2>2
<1>5. CASE \A w \in Workers : ~WorkerStep(w)
  <2>1. UNCHANGED <<workerPc, held, left, buf>>
    BY <1>5, WorkersStay
  <2>2. Connected(v)
    BY <1>2, <2>1 DEF Connected
  <2>3. held[v] \in Pairs /\ held[v] \notin suspect' /\ held[v] \notin Spoiled
    BY <1>2, <2>1, <2>2, ConnectedPair
  <2>4. OutFlow(v)
    BY <1>1, <2>2, <2>3 DEF OutInv
  <2>5. PICK q \in Pairs : q = held[v]
    BY <2>3
  <2>6. Landing(q)' = Landing(q)
    BY <1>3, <1>5, <2>3, <2>5
  <2>7. Landing(held[v])' = Landing(held[v])
    BY <2>1, <2>5, <2>6
  <2> QED
    BY <1>3, <2>1, <2>3, <2>4, <2>7, OutView
<1> QED
  BY <1>4, <1>5

-----------------------------------------------------------------------------
(* A target that nobody fills is as it was, or is its source.              *)
LEMMA SamePair ==
  ASSUME TargetsApart, NEW p \in Pairs, NEW q \in Pairs, SameTarget(p, q)
  PROVE  p = q
<1>1. PICK f \in Files, d \in Entries : p = [file |-> f, src |-> d.src, tar |-> d.tar]
  BY DEF Pairs
<1>2. PICK g \in Files, e \in Entries : q = [file |-> g, src |-> e.src, tar |-> e.tar]
  BY DEF Pairs
<1>3. d.tar = e.tar /\ f = g
  BY <1>1, <1>2 DEF SameTarget
<1>4. d = e
  BY <1>3 DEF TargetsApart
<1> QED
  BY <1>1, <1>2, <1>3, <1>4

LEMMA FillingEnds ==
  ASSUME WorkerInv, NEW w \in Workers, WorkerStep(w), Filling(w)
  PROVE  workerPc[w] = "finish" \/ (held'[w] = held[w] /\ Filling(w)')
<1>1. CASE ReadBlock(w) \/ Swallow(w) \/ PushFails(w)
  <2>1. held' = held /\ workerPc[w] \in {"copy", "push"} /\ workerPc'[w] \in {"copy", "push"}
    BY <1>1 DEF ReadBlock, Swallow, PushFails, Goes, WorkerInv
  <2> QED
    BY <2>1 DEF Filling
<1>2. CASE PushBlock(w)
  <2>1. held' = held /\ workerPc'[w] = AfterPush(left[w] - 1)
    BY <1>2 DEF PushBlock, Goes, WorkerInv
  <2> QED
    BY <2>1 DEF Filling, AfterPush
<1>3. CASE Finish(w)
  BY <1>3 DEF Finish, Abandon, Goes
<1>4. ~(Exit(w) \/ Obtain(w) \/ OpenSource(w) \/ SourceUnreachable(w) \/ ReadReset(w) \/ ReadSize(w) \/ PullRefused(w) \/ Create(w) \/ TargetUnreachable(w))
  BY DEF Filling, Exit, Obtain, OpenSource, SourceUnreachable, ReadReset, ReadSize, PullRefused, Create, TargetUnreachable, Abandon, Goes
<1> QED
  BY <1>1, <1>2, <1>3, <1>4 DEF WorkerStep

LEMMA RestKept ==
  ASSUME TInv, PushInv, OutInv, RestInv, SourcesApart, TargetsApart, [Next]_vars
  PROVE  RestInv'
<1> SUFFICES ASSUME AllUp', NEW p \in Pairs, p \notin Spoiled', \A w \in Workers : held'[w] = p => ~Filling(w)'
             PROVE  Marked(Landing(p)') \/ Landing(p)' = Source(p)'
  BY DEF RestInv, Marked
<1>1. AllUp /\ p \notin Spoiled /\ p \notin suspect'
  BY UpBefore, SpoiledGrows DEF Spoiled
<1>2. /\ Source(p)' = Source(p)
      /\ (\E w \in Workers : WorkerStep(w)) \/ Landing(p)' = Landing(p)
  BY <1>1, PairStep DEF Source
<1>3. WorkerInv
  BY DEF TInv
<1>4. CASE Landing(p)' = Landing(p)
  <2>1. CASE \A w \in Workers : held[w] = p => ~Filling(w)
    <3>1. Marked(Landing(p)) \/ Landing(p) = Source(p)
      BY <1>1, <2>1 DEF RestInv
    <3> QED
      BY <1>2, <1>4, <3>1
  <2>2. ASSUME NEW w \in Workers, held[w] = p, Filling(w) PROVE Landing(p) = Source(p)
    <3>1. workerPc[w] = "finish"
      <4>1. PICK v \in Workers : WorkerStep(v)
        <5>1. ~(UNCHANGED <<workerPc, held, left, buf>>)
          BY <2>2 DEF Filling
        <5> QED
          BY <5>1, WorkersStay
      <4>2. CASE v = w
        BY <1>3, <2>2, <4>1, <4>2, FillingEnds
      <4>3. CASE v # w
        <5>1. workerPc'[w] = workerPc[w] /\ held'[w] = held[w]
          BY <4>1, <4>3, WorkerAlone
        <5> QED
          BY <2>2, <5>1 DEF Filling
      <4> QED
        BY <4>2, <4>3
    <3>2. Connected(w)
      BY <3>1, ThreadsAssumption DEF Connected
    <3>3. OutFlow(w)
      BY <1>1, <2>2, <3>2 DEF OutInv
    <3> QED
      BY <2>2, <3>1, <3>3 DEF OutFlow, Reaching
  <2> QED
    BY <1>2, <1>4, <2>1, <2>2
<1>5. CASE Landing(p)' # Landing(p)
  <2>1. PICK w \in Workers : WorkerStep(w)
    BY <1>2, <1>5
  <2>2. (Create(w) \/ PushBlock(w)) /\ SameTarget(held[w], p)
    BY <1>5, <2>1, LandingWorker
  <2>3. held[w] \in Pairs
    BY <1>3, <2>2, HeldPair DEF Create, PushBlock, Goes
  <2>4. held[w] = p
    BY <2>2, <2>3, SamePair
  <2>5. held'[w] = p /\ workerPc'[w] \in {"finish", "copy"}
    BY <1>3, <2>2, <2>4 DEF Create, PushBlock, Goes, WorkerInv, AfterPush
  <2> QED
    BY <2>5 DEF Filling
<1> QED
  BY <1>4, <1>5

-----------------------------------------------------------------------------
(* At the start nobody holds a connection, and no backlog anything.        *)
LEMMA SoundInit == Init => ShareInv /\ PushInv /\ OutInv
<1> SUFFICES ASSUME Init PROVE ShareInv /\ PushInv /\ OutInv
  OBVIOUS
<1>1. \A w \in Workers : held[w] = NoPair /\ workerPc[w] = "obtain"
  BY DEF Init
<1>2. \A h \in Hosts : accept[h] = <<>>
  BY DEF Init, ClientInit
<1>3. ShareInv
  BY <1>1 DEF ShareInv
<1>4. PushInv
  <2>1. \A h \in Hosts : DOMAIN accept[h] = {}
    BY <1>2
  <2> QED
    BY <2>1 DEF PushInv
<1>5. OutInv
  BY <1>1, ThreadsAssumption DEF OutInv, Connected
<1> QED
  BY <1>3, <1>4, <1>5

LEMMA RestInit == ASSUME Init, TargetsMarked PROVE RestInv
<1> SUFFICES ASSUME NEW p \in Pairs PROVE Marked(Landing(p))
  BY DEF RestInv
<1>1. PICK f \in Files, e \in Entries : p.file = f /\ p.tar = e.tar
  BY DEF Pairs
<1>2. accept[p.tar.host] = <<>>
  BY PairFields DEF Init, ClientInit
<1>3. PICK q : q = accept[p.tar.host]
  OBVIOUS
<1>4. Len(q) = 0
  BY <1>2, <1>3
<1>5. PICK c : c = disk[p.tar][p.file]
  OBVIOUS
<1>6. Landed(c, q, p) = c
  BY <1>4, LandedNone
<1>7. Marked(c)
  BY <1>1, <1>5 DEF TargetsMarked, Init
<1> QED
  BY <1>3, <1>5, <1>6, <1>7 DEF Landing

-----------------------------------------------------------------------------
(* What has landed, the block in hand, the connection and what is not yet  *)
(* sent are together the source.                                           *)
LEMMA ValuesCome ==
  ASSUME NEW S \in Seq(Stored), NEW sent \in Nat, NEW base \in Nat, NEW data \in Seq(Items), Comes(data, S, sent, 0, base)
  PROVE  /\ base <= sent /\ sent <= Len(S)
         /\ [i \in DOMAIN data |-> data[i].val] = SubSeq(S, base + 1, sent)
<1>1. PICK n \in Nat : n = Len(data) /\ DOMAIN data = 1 .. n
  OBVIOUS
<1>2. base + n = sent /\ sent <= Len(S) /\ sent - base = n
  BY <1>1 DEF Comes
<1>3. \A i \in 1 .. n : data[i].val = S[base + i]
  <2> TAKE i \in 1 .. n
  <2>1. i \in 1 .. sent - base /\ 0 + i = i
    BY <1>2
  <2>2. data[0 + i] = Item("block", S[base + i])
    BY <2>1 DEF Comes
  <2> QED
    BY <2>1, <2>2 DEF Item
<1>4. SubSeq(S, base + 1, sent) = [i \in 1 .. n |-> S[base + i]]
  <2>1. (base + 1) .. sent \subseteq 1 .. Len(S)
    BY <1>2
  <2>2. /\ SubSeq(S, base + 1, sent) \in Seq(Stored) /\ Len(SubSeq(S, base + 1, sent)) = n
        /\ \A i \in 1 .. n : SubSeq(S, base + 1, sent)[i] = S[base + i]
    BY <1>2, <2>1
  <2>3. PICK a \in Seq(Stored) : a = SubSeq(S, base + 1, sent)
    BY <2>2
  <2>4. a = [i \in 1 .. Len(a) |-> a[i]]
    OBVIOUS
  <2> QED
    BY <2>2, <2>3, <2>4
<1> QED
  BY <1>1, <1>2, <1>3, <1>4

LEMMA Together ==
  ASSUME NEW S \in Seq(Stored), NEW base \in Nat, NEW sent \in Nat, base <= sent, sent <= Len(S)
  PROVE  /\ SubSeq(S, base + 1, sent) \o SubSeq(S, sent + 1, Len(S)) = SubSeq(S, base + 1, Len(S))
         /\ Len(SubSeq(S, base + 1, Len(S))) = Len(S) - base
         /\ SubSeq(S, 1, base) \o SubSeq(S, base + 1, sent) \o SubSeq(S, sent + 1, Len(S)) = S
<1>1. PICK n \in Nat : n = Len(S)
  OBVIOUS
<1>2. 1 \in 1 .. n + 1 /\ base + 1 \in 1 .. n + 1 /\ base \in 1 - 1 .. n /\ sent \in base + 1 - 1 .. n /\ n \in sent .. n /\ n \in base .. n
  BY <1>1
<1>3. SubSeq(S, base + 1, sent) \o SubSeq(S, sent + 1, n) = SubSeq(S, base + 1, n)
  <2>1. PICK m \in 1 .. Len(S) + 1 : m = base + 1
    BY <1>1, <1>2
  <2>2. sent \in m - 1 .. Len(S) /\ n \in sent .. Len(S)
    BY <1>1, <1>2, <2>1
  <2>3. SubSeq(S, m, sent) \o SubSeq(S, sent + 1, n) = SubSeq(S, m, n)
    BY <2>2, ConcatAdjacentSubSeq
  <2> QED
    BY <2>1, <2>3
<1>4. SubSeq(S, 1, base) \o SubSeq(S, base + 1, n) = SubSeq(S, 1, n)
  BY <1>1, <1>2, ConcatAdjacentSubSeq
<1>5. SubSeq(S, 1, n) = S
  BY <1>1, SubSeqFull
<1>6. Len(SubSeq(S, base + 1, n)) = n - base
  BY <1>1, <1>2
<1>7. /\ SubSeq(S, 1, base) \in Seq(Stored) /\ SubSeq(S, base + 1, sent) \in Seq(Stored)
      /\ SubSeq(S, sent + 1, n) \in Seq(Stored)
  BY <1>1, <1>2
<1>8. \A a, b, c \in Seq(Stored) : (a \o b) \o c = a \o (b \o c)
  BY ConcatAssociative
<1>9. PICK x \in Seq(Stored) : x = SubSeq(S, 1, base)
  BY <1>7
<1>10. PICK y \in Seq(Stored) : y = SubSeq(S, base + 1, sent)
  BY <1>7
<1>11. PICK z \in Seq(Stored) : z = SubSeq(S, sent + 1, n)
  BY <1>7
<1>12. (x \o y) \o z = S
  <2>1. (x \o y) \o z = x \o (y \o z)
    BY <1>8
  <2> QED
    BY <1>3, <1>4, <1>5, <1>9, <1>10, <1>11, <2>1
<1>13. Len(SubSeq(S, base + 1, Len(S))) = Len(S) - base
  BY <1>1, <1>6
<1> QED
  BY <1>1, <1>3, <1>9, <1>10, <1>11, <1>12, <1>13

LEMMA UnsentRest ==
  ASSUME TInv, NEW w \in Workers, held[w] \in Pairs, NEW S \in Seq(Stored), S = Source(held[w])
  PROVE  Unsent(w) = SubSeq(S, Sent(w) + 1, Len(S))
<1>1. PICK h \in Hosts : h = held[w].src.host
  BY PairFields
<1>2. CASE serving[h].to = w
  <2>1. serving[h].loc = held[w].src /\ serving[h].file = held[w].file
    BY <1>2, ServedOwn
  <2>2. disk[serving[h].loc][serving[h].file] = S
    BY <2>1 DEF Source
  <2> QED
    BY <1>1, <1>2, <2>2 DEF Unsent, Sent
<1>3. CASE serving[h].to # w
  <2>1. Unsent(w) = <<>> /\ Sent(w) = Len(S)
    BY <1>1, <1>3 DEF Unsent, Sent
  <2>2. SubSeq(S, Len(S) + 1, Len(S)) = <<>>
    BY SubSeqEmpty
  <2> QED
    BY <2>1, <2>2
<1> QED
  BY <1>2, <1>3

LEMMA SoundConserved ==
  ASSUME TInv, InInv, OutInv
  PROVE  Conserved
<1> SUFFICES ASSUME NEW w \in Workers, Sound(w), workerPc[w] \in {"create", "copy", "push", "finish"}
             PROVE  /\ workerPc[w] = "create" => Arrived(w) \o Unsent(w) = Source(held[w]) /\ left[w] = Len(Source(held[w]))
                    /\ workerPc[w] = "copy" => /\ Landing(held[w]) \o Arrived(w) \o Unsent(w) = Source(held[w])
                                               /\ left[w] = Len(Arrived(w) \o Unsent(w))
                    /\ workerPc[w] = "push" => Landing(held[w]) \o <<buf[w]>> \o Arrived(w) \o Unsent(w) = Source(held[w])
                    /\ workerPc[w] = "finish" => Landing(held[w]) = Source(held[w])
  BY DEF Conserved
<1>1. Connected(w) /\ AllUp /\ held[w] \notin Spoiled
  BY ThreadsAssumption DEF Connected, Sound, Spoiled
<1>2. InFlow(w) /\ OutFlow(w)
  BY <1>1 DEF InInv, OutInv
<1>3. held[w] \in Pairs /\ wire[w].data \in Seq(Items) /\ left[w] \in Nat
  BY <1>1, ConnectedPair
<1>4. PICK S : S = Source(held[w])
  OBVIOUS
<1>5. PICK n \in Nat : n = left[w]
  BY <1>3
<1>6. CASE workerPc[w] = "finish"
  BY <1>2, <1>6 DEF OutFlow, Reaching
<1>7. CASE workerPc[w] \in {"create", "copy", "push"}
  <2>1. Flowing(workerPc[w], n, buf[w], wire[w].data, S, Sent(w))
    BY <1>2, <1>4, <1>5, <1>7 DEF InFlow
  <2>2. PICK base : base = Base(workerPc[w], n, S)
    OBVIOUS
  <2>3. S # Absent /\ n <= Len(S) /\ Comes(wire[w].data, S, Sent(w), 0, base)
    BY <1>7, <2>1, <2>2 DEF Flowing
  <2>4. S \in Seq(Stored) /\ Sent(w) \in Nat
    BY <1>3, <1>4, <2>3, SourceType, SentType DEF TInv
  <2>5. workerPc[w] = "push" => n > 0
    BY <1>5 DEF TInv, WorkerInv
  <2>6. base \in Nat
    <3>1. PICK m \in Nat : m = Len(S)
      BY <2>4
    <3> QED
      BY <2>2, <2>3, <3>1 DEF Base
  <2>7. base <= Sent(w) /\ Sent(w) <= Len(S) /\ Arrived(w) = SubSeq(S, base + 1, Sent(w))
    BY <1>3, <2>3, <2>4, <2>6, ValuesCome DEF Arrived
  <2>8. Unsent(w) = SubSeq(S, Sent(w) + 1, Len(S))
    BY <1>3, <1>4, <2>4, UnsentRest
  <2>9. /\ Arrived(w) \o Unsent(w) = SubSeq(S, base + 1, Len(S))
        /\ Len(Arrived(w) \o Unsent(w)) = Len(S) - base
        /\ SubSeq(S, 1, base) \o Arrived(w) \o Unsent(w) = S
    <3>1. PICK sent \in Nat : sent = Sent(w)
      BY <2>4
    <3>2. base <= sent /\ sent <= Len(S)
      BY <2>7, <3>1
    <3>3. /\ SubSeq(S, base + 1, sent) \o SubSeq(S, sent + 1, Len(S)) = SubSeq(S, base + 1, Len(S))
          /\ Len(SubSeq(S, base + 1, Len(S))) = Len(S) - base
          /\ SubSeq(S, 1, base) \o SubSeq(S, base + 1, sent) \o SubSeq(S, sent + 1, Len(S)) = S
      BY <2>4, <2>6, <3>2, Together
    <3>4. Arrived(w) = SubSeq(S, base + 1, sent) /\ Unsent(w) = SubSeq(S, sent + 1, Len(S))
      BY <2>7, <2>8, <3>1
    <3> QED
      BY <3>3, <3>4
  <2>10. CASE workerPc[w] = "create"
    <3>1. n = Len(S)
      BY <2>1, <2>10 DEF Flowing
    <3>2. base = 0
      BY <2>2, <2>10, <3>1 DEF Base
    <3>3. SubSeq(S, 1, Len(S)) = S
      BY <2>4, SubSeqFull
    <3> QED
      BY <1>4, <1>5, <2>9, <2>10, <3>1, <3>2, <3>3
  <2>11. CASE workerPc[w] = "copy"
    <3>1. base = Len(S) - n
      BY <2>2, <2>11, <2>4 DEF Base
    <3>2. Landing(held[w]) = SubSeq(S, 1, base)
      BY <1>2, <1>4, <1>5, <2>11, <3>1 DEF OutFlow, Reaching
    <3>3. PICK m \in Nat : m = Len(S)
      BY <2>4
    <3>4. Len(S) - base = n
      BY <3>1, <3>3
    <3> QED
      BY <1>4, <1>5, <2>9, <2>11, <3>2, <3>4
  <2>12. CASE workerPc[w] = "push"
    <3>1. PICK m \in Nat : m = Len(S)
      BY <2>4
    <3>2. PICK k \in Nat : k = m - n /\ base = k + 1 /\ k < m
      <4>1. base = m - n + 1
        BY <2>2, <2>12, <3>1 DEF Base
      <4>2. n <= m /\ n > 0
        BY <2>3, <2>5, <2>12, <3>1
      <4>3. PICK k : k = m - n
        OBVIOUS
      <4>4. k \in Nat /\ base = k + 1 /\ k < m
        BY <4>1, <4>2, <4>3
      <4> QED
        BY <4>3, <4>4
    <3>3. Landing(held[w]) = SubSeq(S, 1, k)
      BY <1>2, <1>4, <1>5, <2>12, <3>1, <3>2 DEF OutFlow, Reaching
    <3>4. buf[w] = S[k + 1]
      BY <2>1, <2>2, <2>12, <3>2 DEF Flowing
    <3>5. SubSeq(S, 1, k) \in Seq(Stored) /\ Append(SubSeq(S, 1, k), S[k + 1]) = SubSeq(S, 1, k + 1) /\ S[k + 1] \in Stored
      <4>1. S \in Seq(Stored) /\ k \in Nat /\ k < Len(S)
        BY <2>4, <3>1, <3>2
      <4> QED
        BY <4>1, SubSeqGrows
    <3>6. Landing(held[w]) \o <<buf[w]>> = SubSeq(S, 1, base)
      BY <3>2, <3>3, <3>4, <3>5, AppendIsConcat
    <3> QED
      BY <1>4, <2>9, <2>12, <3>6
  <2> QED
    BY <1>7, <2>10, <2>11, <2>12
<1> QED
  BY <1>6, <1>7

LEMMA RestExact ==
  ASSUME TInv, RestInv
  PROVE  TargetExact
<1> SUFFICES ASSUME NEW p \in Pairs, Settled(p), p \notin suspect, AllUp, Representable(p)
             PROVE  Untouched(p) \/ disk[p.tar][p.file] = Source(p)
  BY DEF TargetExact
<1>1. \A w \in Workers : held[w] # p
  BY NoPairAssumption DEF Settled, SameTarget
<1>2. Marked(Landing(p)) \/ Landing(p) = Source(p)
  BY <1>1 DEF RestInv, Spoiled
<1>3. PICK q \in Seq(Requests) : q = accept[p.tar.host]
  BY PairFields DEF TInv, ServerInv
<1>4. Len(q) \in Nat /\ \A n \in 1 .. Len(q) : ~Pushes(q[n], p)
  BY <1>3 DEF Settled
<1>5. PICK c : c = disk[p.tar][p.file]
  OBVIOUS
<1>6. Landed(c, q, p) = c
  BY <1>4, LandedNone
<1>7. Landing(p) = c
  BY <1>3, <1>5, <1>6 DEF Landing
<1> QED
  BY <1>2, <1>5, <1>7 DEF Marked, Untouched

(* For every number of workers, hosts, files, entries and descriptors:     *)
(* what a worker has pushed, the block in its hands, what its connection   *)
(* holds and what the source's server has yet to send are together the     *)
(* source file, in order (worker_thread of nfs_manager.c with command_pull *)
(* and command_push of nfs_client.c).  The source is one of less than 2    *)
(* GiB, as Conserved says: the size of a longer one is announced wrongly   *)
(* (nfs_client.c:171).  Supposed is that no directory is both a source and *)
(* a target, since a PUSH would change the source under the PULL, and that *)
(* a connection is not closed by another thread's second close of its      *)
(* number: there is one worker, or no failing connect.                     *)
THEOREM TransfersConserve ==
  ASSUME SourcesApart, Sole \/ Roomy
  PROVE  Spec => []Conserved
<1> DEFINE Inv == OwnInv /\ ShareInv /\ PushInv /\ InInv /\ OutInv
<1>1. Init => Inv
  BY OwnInit, SoundInit, InInit
<1>2. TInv /\ Inv /\ [Next]_vars => Inv'
  BY OwnKept, ShareKept, PushKept, InKept, OutKept
<1>3. TInv /\ Inv => Conserved
  BY SoundConserved
<1>4. Spec => []TInv
  BY TypesInductive
<1> HIDE DEF Inv
<1> QED
  BY <1>1, <1>2, <1>3, <1>4, PTL DEF Spec

(* For every number of workers, hosts, files, entries and descriptors: a   *)
(* target file that no worker is filling, and for which no PUSH waits, is  *)
(* as it was before or is its source, whatever befalls other files.  The   *)
(* source is again one of less than 2 GiB, as TargetExact says: of one     *)
(* beyond 4 GiB only a part is copied.  Supposed is besides that every     *)
(* directory is the target of one entry only, and that what targets hold   *)
(* at the start can be told from copies.                                   *)
THEOREM TargetsExact ==
  ASSUME SourcesApart, TargetsApart, TargetsMarked, Sole \/ Roomy
  PROVE  Spec => []TargetExact
<1> DEFINE Inv == OwnInv /\ ShareInv /\ PushInv /\ InInv /\ OutInv /\ RestInv
<1>1. Init => Inv
  BY OwnInit, SoundInit, InInit, RestInit
<1>2. TInv /\ Inv /\ [Next]_vars => Inv'
  BY OwnKept, ShareKept, PushKept, InKept, OutKept, RestKept
<1>3. TInv /\ Inv => TargetExact
  BY RestExact
<1>4. Spec => []TInv
  BY TypesInductive
<1> HIDE DEF Inv
<1> QED
  BY <1>1, <1>2, <1>3, <1>4, PTL DEF Spec
=============================================================================
