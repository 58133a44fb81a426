--------------------------- MODULE FssWorkerProof ---------------------------
(***************************************************************************)
(* Proofs about FssWorker, for every set of files and names, files of any  *)
(* length, any number of descriptors, changes and faults.                  *)
(***************************************************************************)
EXTENDS FssWorker, SequenceTheorems, TLAPS

-----------------------------------------------------------------------------
(* Contents and directories.                                               *)
Blocks == -1 .. MaxChanges
Texts == BoundedSeq(Blocks, Max(Lengths))

LEMMA Longest == Max(Lengths) \in Nat \ {0} /\ \A n \in Lengths : n <= Max(Lengths)
<1>1. \A n \in Lengths : n \in Nat
  BY LengthsAssumption
<1>2. PICK m \in Lengths : m > 0 /\ \A n \in Lengths : m >= n
  BY <1>1, LengthsAssumption
<1>3. Max(Lengths) \in Lengths /\ \A n \in Lengths : Max(Lengths) >= n
  BY <1>2 DEF Max
<1> QED
  BY <1>1, <1>2, <1>3

LEMMA TextShape ==
  /\ \A t \in Texts : t \in Seq(Blocks) /\ Len(t) \in 0 .. Max(Lengths)
  /\ \A t \in Seq(Blocks) : Len(t) <= Max(Lengths) => t \in Texts
<1>1. Texts = UNION {[1 .. n -> Blocks] : n \in 0 .. Max(Lengths)}
  BY DEF Texts, BoundedSeq, SeqOf
<1>2. ASSUME NEW t \in Texts PROVE t \in Seq(Blocks) /\ Len(t) \in 0 .. Max(Lengths)
  <2>1. PICK n \in 0 .. Max(Lengths) : t \in [1 .. n -> Blocks]
    BY <1>1
  <2>2. n \in Nat
    BY Longest
  <2> QED
    BY <2>1, <2>2
<1>3. ASSUME NEW t \in Seq(Blocks), Len(t) <= Max(Lengths) PROVE t \in Texts
  <2>1. Len(t) \in 0 .. Max(Lengths) /\ t \in [1 .. Len(t) -> Blocks]
    BY <1>3, Longest, LenProperties
  <2> QED
    BY <1>1, <2>1
<1> QED
  BY <1>2, <1>3

LEMMA TextOf ==
  /\ <<>> \in Texts
  /\ \A v \in Blocks : Contents(v) \subseteq Texts
  /\ \A t \in Texts, b \in Blocks : Len(t) < Max(Lengths) => Append(t, b) \in Texts
<1>1. <<>> \in Texts
  <2>1. <<>> \in Seq(Blocks) /\ Len(<<>>) <= Max(Lengths)
    BY Longest
  <2> QED
    BY <2>1, TextShape
<1>2. ASSUME NEW v \in Blocks, NEW n \in Lengths PROVE [i \in 1 .. n |-> v] \in Texts
  <2>1. n \in Nat /\ n <= Max(Lengths)
    BY Longest, LengthsAssumption
  <2>2. [i \in 1 .. n |-> v] \in Seq(Blocks) /\ Len([i \in 1 .. n |-> v]) = n
    BY <2>1
  <2> QED
    BY <2>1, <2>2, TextShape
<1>3. ASSUME NEW t \in Texts, NEW b \in Blocks, Len(t) < Max(Lengths) PROVE Append(t, b) \in Texts
  <2>1. t \in Seq(Blocks) /\ Len(t) \in Nat /\ Max(Lengths) \in Nat
    BY TextShape, Longest
  <2>2. Append(t, b) \in Seq(Blocks) /\ Len(Append(t, b)) = Len(t) + 1
    BY <2>1
  <2>3. Len(Append(t, b)) <= Max(Lengths)
    BY <1>3, <2>1, <2>2
  <2> QED
    BY <2>2, <2>3, TextShape
<1> QED
  BY <1>1, <1>2, <1>3 DEF Contents

LEMMA DirShape ==
  ASSUME NEW B, NEW dir
  PROVE  dir \in Directories(B) <=> DOMAIN dir \subseteq Files /\ dir \in [DOMAIN dir -> B]
BY DEF Directories

LEMMA WithDir ==
  ASSUME NEW B, NEW dir \in Directories(B), NEW f \in Files, NEW c \in B
  PROVE  With(dir, f, c) \in Directories(B)
<1>1. DOMAIN dir \subseteq Files /\ \A g \in DOMAIN dir : dir[g] \in B
  BY DirShape
<1>2. With(dir, f, c) \in [DOMAIN dir \cup {f} -> B]
  BY <1>1 DEF With
<1>3. DOMAIN dir \cup {f} \in SUBSET Files
  BY <1>1
<1> QED
  BY <1>2, <1>3 DEF Directories

LEMMA WithoutDir ==
  ASSUME NEW B, NEW dir \in Directories(B), NEW f
  PROVE  Without(dir, f) \in Directories(B)
<1>1. DOMAIN dir \subseteq Files /\ \A g \in DOMAIN dir : dir[g] \in B
  BY DirShape
<1>2. Without(dir, f) \in [DOMAIN dir \ {f} -> B]
  BY <1>1 DEF Without, Restrict
<1>3. DOMAIN dir \ {f} \in SUBSET Files
  BY <1>1
<1> QED
  BY <1>2, <1>3 DEF Directories

-----------------------------------------------------------------------------
(* The worker's half of the inductive invariant: where the descriptors,    *)
(* counters and the target stand at each place of worker.c.                *)
PcValues ==
  {"opendir", "next", "source", "target", "copy", "unlink", "report", "error", "message", "trailer", "exited", "freed"}

WorkerTypes ==
  /\ src \in Directories(Texts) /\ tar \in Directories(Texts)
  /\ job \in Jobs /\ cur \in Names /\ text \in Names \cup {NoName}
  /\ fds \in 0 .. MaxFds /\ pos \in 0 .. Max(Lengths) /\ body \in Texts
  /\ unread \subseteq Files /\ (linked => cur \in DOMAIN src)
  /\ pc \in PcValues
  /\ written \in BOOLEAN /\ linked \in BOOLEAN /\ killed \in BOOLEAN
  /\ done \in Nat /\ failed \in Nat /\ changes \in 0 .. MaxChanges

Copying == pc \in {"source", "target", "copy"}

\* The places a kind of job passes, and what its locals hold there.
Phases ==
  /\ pc \in {"opendir", "next"} => job.op = "FULL"
  /\ Copying => job.op # "DELETED" /\ cur \in Files
  /\ pc = "unlink" => job.op = "DELETED"
  /\ pc = "opendir" => done = 0 /\ failed = 0
  /\ job.op # "FULL" => cur = job.file /\ failed = 0 /\ (Copying \/ pc = "unlink" => done = 0)
  /\ pc = "report" /\ job.op = "FULL" => unread = {}
  /\ linked => pc \in {"target", "copy", "exited", "freed"}
  /\ pc \in {"opendir", "next", "source", "target"} => pos = 0 /\ ~written
  /\ pc = "copy" => cur \in DOMAIN tar /\ Len(tar[cur]) = pos /\ (written <=> pos > 0)

\* A failed copy leaves at most two descriptors behind.
Descriptors ==
  /\ pc \in {"opendir", "next", "source", "unlink", "report"} => fds <= 2 * failed
  /\ pc = "target" => fds \in 1 .. 2 * failed + 1
  /\ pc = "copy" => fds \in 2 .. 2 * failed + 2

\* The copy under way is a prefix of its source, unless somebody changed that.
Following ==
  /\ pc \in {"target", "copy"} /\ cur \notin touched => linked
  /\ pc = "copy" /\ cur \notin touched => \A i \in 1 .. pos : i <= Len(src[cur]) /\ tar[cur][i] = src[cur][i]

\* Why the target of a FULL job may not have the source's version of f yet, or not at all.
Behind(f) ==
  \/ f \in unread
  \/ Copying /\ f = cur
  \/ failed > 0 /\ (f \in hit \/ 2 * failed + 2 > MaxFds)

Progress ==
  job.op = "FULL" /\ (Copying \/ pc \in {"next", "report"})
    => \A f \in DOMAIN src \ touched : Same(f) \/ Behind(f)

SingleDone == pc = "report" /\ job.op # "FULL" => Brought

WorkerInv == WorkerTypes /\ Phases /\ Descriptors /\ Following /\ Progress /\ SingleDone

LEMMA JobShape ==
  ASSUME NEW j \in Jobs
  PROVE  /\ j.op \in {"FULL", "ADDED", "MODIFIED", "DELETED"} /\ j.file \in Names
         /\ (j.op # "FULL" => j.file \in Files)
BY DEF Jobs, Copies, Names

LEMMA WorkerInit == Init => WorkerInv
<1> SUFFICES ASSUME Init PROVE WorkerInv
  OBVIOUS
<1>1. src \in Directories(Texts)
  <2>1. 0 \in Blocks
    BY BoundsAssumption DEF Blocks
  <2>2. Contents(0) \subseteq Texts
    BY <2>1, TextOf
  <2>3. DOMAIN src \subseteq Files /\ src \in [DOMAIN src -> Contents(0)]
    BY DirShape DEF Init
  <2>4. src \in [DOMAIN src -> Texts]
    BY <2>2, <2>3
  <2> QED
    BY <2>3, <2>4, DirShape
<1>2. tar \in Directories(Texts)
  <2>1. <<-1>> \in Seq(Blocks) /\ Len(<<-1>>) <= Max(Lengths)
    BY Longest, BoundsAssumption DEF Blocks
  <2>2. <<-1>> \in Texts
    BY <2>1, TextShape
  <2>3. tar \in [Stale -> Texts]
    BY <2>2 DEF Init
  <2> QED
    BY <2>3, StaleAssumption DEF Directories
<1>3. job \in Jobs /\ job.op \in {"FULL", "ADDED", "MODIFIED", "DELETED"} /\ (job.op # "FULL" => job.file \in Files)
  BY JobShape DEF Init
<1>4. pc = IF job.op = "FULL" THEN "opendir" ELSE IF job.op = "DELETED" THEN "unlink" ELSE "source"
  BY <1>3 DEF Init, StartOf, Copies
<1>5. WorkerTypes
  <2>1. cur \in Names /\ text \in Names \cup {NoName}
    BY <1>3, JobShape DEF Init
  <2>2. pc \in PcValues
    BY <1>4 DEF PcValues
  <2>3. 0 \in 0 .. MaxFds /\ 0 \in 0 .. Max(Lengths) /\ 0 \in 0 .. MaxChanges
    BY Longest, BoundsAssumption
  <2>4. body \in Texts
    BY TextOf DEF Init
  <2> QED
    BY <1>1, <1>2, <1>3, <2>1, <2>2, <2>3, <2>4 DEF Init, WorkerTypes
<1>6. Phases /\ Descriptors /\ Following
  BY <1>3, <1>4 DEF Init, Phases, Descriptors, Following, Copying, Copies
<1>7. Progress /\ SingleDone
  BY <1>3, <1>4 DEF Init, Progress, SingleDone, Behind, Copying, Copies
<1> QED
  BY <1>5, <1>6, <1>7 DEF WorkerInv

(* Users change one source file and the listing's view of that file.       *)
LEMMA WriteKeeps == ASSUME NEW f \in Files PROVE WorkerInv /\ WriteSource(f) => WorkerInv'
<1> SUFFICES ASSUME WorkerInv, WriteSource(f) PROVE WorkerInv'
  OBVIOUS
<1>1. PICK c \in Contents(changes') : src' = With(src, f, c)
  BY DEF WriteSource
<1>2. changes' \in 0 .. MaxChanges /\ changes' \in Blocks
  BY BoundsAssumption DEF WorkerInv, WorkerTypes, WriteSource, Changed, Blocks
<1>3. c \in Texts
  BY <1>1, <1>2, TextOf
<1>4. /\ src' \in Directories(Texts) /\ DOMAIN src' = DOMAIN src \cup {f}
      /\ \A g \in DOMAIN src : g # f => src'[g] = src[g]
  <2>1. src \in Directories(Texts)
    BY DEF WorkerInv, WorkerTypes
  <2>2. With(src, f, c) \in Directories(Texts)
    BY <1>3, <2>1, WithDir
  <2>3. /\ DOMAIN With(src, f, c) = DOMAIN src \cup {f}
        /\ \A g \in DOMAIN src : g # f => With(src, f, c)[g] = src[g]
    BY DEF With
  <2> QED
    BY <1>1, <2>2, <2>3
<1>5. touched' = touched \cup {f} /\ unread \subseteq unread' /\ unread' \subseteq unread \cup {f}
  BY DEF WriteSource, Changed
<1>6. WorkerTypes'
  BY <1>2, <1>4, <1>5 DEF WorkerInv, WorkerTypes, WriteSource, copying, counters
<1>7. (Phases /\ Descriptors)'
  <2>1. pc = "report" => unread' = unread
    BY DEF WriteSource, Listing
  <2> QED
    BY <2>1 DEF WorkerInv, Phases, Descriptors, Copying, WriteSource, copying, counters
<1>8. Following'
  BY <1>4, <1>5 DEF WorkerInv, WorkerTypes, Following, WriteSource, copying
<1>9. \A g \in DOMAIN src' \ touched' : g \in DOMAIN src \ touched /\ (Same(g) => Same(g)')
  BY <1>4, <1>5 DEF Same, WriteSource
<1>10. Progress'
  BY <1>5, <1>9 DEF WorkerInv, Progress, Behind, Copying, WriteSource, copying, counters
<1>11. SingleDone'
  BY <1>4, <1>5, <1>9 DEF WorkerInv, SingleDone, Brought, Scope, WriteSource
<1> QED
  BY <1>6, <1>7, <1>8, <1>10, <1>11 DEF WorkerInv

LEMMA RemoveKeeps == ASSUME NEW f \in Files PROVE WorkerInv /\ RemoveSource(f) => WorkerInv'
<1> SUFFICES ASSUME WorkerInv, RemoveSource(f) PROVE WorkerInv'
  OBVIOUS
<1>1. changes' \in 0 .. MaxChanges
  BY BoundsAssumption DEF WorkerInv, WorkerTypes, RemoveSource, Changed
<1>2. /\ src' \in Directories(Texts) /\ DOMAIN src' = DOMAIN src \ {f}
      /\ \A g \in DOMAIN src : g # f => src'[g] = src[g]
  BY WithoutDir DEF WorkerInv, WorkerTypes, RemoveSource, Without, Restrict
<1>3. touched' = touched \cup {f} /\ unread \ {f} \subseteq unread' /\ unread' \subseteq unread
  BY DEF RemoveSource, Changed
<1>4. IF linked /\ cur = f THEN linked' = FALSE /\ body' \in Texts ELSE UNCHANGED <<linked, body>>
  <2>1. f \in DOMAIN src /\ src[f] \in Texts
    BY DirShape DEF WorkerInv, WorkerTypes, RemoveSource
  <2> QED
    BY <2>1 DEF RemoveSource
<1>5. WorkerTypes'
  BY <1>1, <1>2, <1>3, <1>4 DEF WorkerInv, WorkerTypes, RemoveSource, counters
<1>6. (Phases /\ Descriptors)'
  BY <1>4 DEF WorkerInv, Phases, Descriptors, Copying, RemoveSource, counters
<1>7. Following'
  BY <1>2, <1>3, <1>4 DEF WorkerInv, WorkerTypes, Following, RemoveSource
<1>8. \A g \in DOMAIN src' \ touched' : g # f /\ g \in DOMAIN src \ touched /\ (Same(g) => Same(g)')
  BY <1>2, <1>3 DEF Same, RemoveSource
<1>9. Progress'
  BY <1>3, <1>8 DEF WorkerInv, Progress, Behind, Copying, RemoveSource, counters
<1>10. SingleDone'
  BY <1>2, <1>3, <1>8 DEF WorkerInv, SingleDone, Brought, Scope, RemoveSource
<1> QED
  BY <1>5, <1>6, <1>7, <1>9, <1>10 DEF WorkerInv

(* A system call of the worker at a time: the directories and the listing. *)
LEMMA OpenDirsKeeps == WorkerInv /\ OpenDirs => WorkerInv'
<1> SUFFICES ASSUME WorkerInv, OpenDirs PROVE WorkerInv'
  OBVIOUS
<1>1. /\ UNCHANGED <<src, tar, job, cur, body, linked, pos, written, fds, done, failed, touched, killed, changes>>
      /\ pc = "opendir" /\ job.op = "FULL" /\ done = 0 /\ ~linked
      /\ \/ pc' = "next" /\ unread' = DOMAIN src /\ text' = text
         \/ pc' = "error" /\ unread' = unread /\ text' \in {SrcDir, TarDir}
  BY DEF WorkerInv, Phases, OpenDirs, GiveUp, Noted, counters, copying
<1>2. DOMAIN src \subseteq Files
  BY DirShape DEF WorkerInv, WorkerTypes
<1>3. WorkerTypes'
  BY <1>1, <1>2 DEF WorkerInv, WorkerTypes, PcValues, Names
<1>4. (Phases /\ Descriptors /\ Following)'
  BY <1>1 DEF WorkerInv, Phases, Descriptors, Following, Copying
<1>5. (Progress /\ SingleDone)'
  BY <1>1 DEF Progress, SingleDone, Behind, Copying
<1> QED
  BY <1>3, <1>4, <1>5 DEF WorkerInv

LEMMA NextEntryKeeps == WorkerInv /\ NextEntry => WorkerInv'
<1> SUFFICES ASSUME WorkerInv, NextEntry PROVE WorkerInv'
  OBVIOUS
<1>1. PICK f \in unread : cur' = f /\ unread' = unread \ {f}
  BY DEF NextEntry
<1>2. /\ UNCHANGED <<src, tar, job, body, linked, pos, written, fds, text, done, failed, touched, hit, killed, changes>>
      /\ pc = "next" /\ pc' = "source" /\ job.op = "FULL" /\ ~linked /\ f \in Files
  BY DEF WorkerInv, WorkerTypes, Phases, NextEntry, counters, history, bounds
<1>3. WorkerTypes'
  BY <1>1, <1>2 DEF WorkerInv, WorkerTypes, PcValues, Names
<1>4. (Phases /\ Descriptors /\ Following)'
  BY <1>1, <1>2 DEF WorkerInv, Phases, Descriptors, Following, Copying
<1>5. \A g : Same(g)' <=> Same(g)
  BY <1>2 DEF Same
<1>6. (Progress /\ SingleDone)'
  BY <1>1, <1>2, <1>5 DEF WorkerInv, Progress, SingleDone, Behind, Copying
<1> QED
  BY <1>3, <1>4, <1>6 DEF WorkerInv

LEMMA LastEntryKeeps == WorkerInv /\ LastEntry => WorkerInv'
<1> SUFFICES ASSUME WorkerInv, LastEntry PROVE WorkerInv'
  OBVIOUS
<1>1. /\ UNCHANGED <<src, tar, job, unread, cur, body, linked, pos, written, fds, done, failed, touched, killed, changes>>
      /\ pc = "next" /\ job.op = "FULL" /\ ~linked
      /\ \/ pc' = "report" /\ unread = {} /\ text' = text /\ hit' = hit
         \/ pc' = "error" /\ text' = SrcDir
  BY DEF WorkerInv, Phases, LastEntry, GiveUp, Noted, counters, copying
<1>2. WorkerTypes'
  BY <1>1 DEF WorkerInv, WorkerTypes, PcValues, Names
<1>3. (Phases /\ Descriptors /\ Following)'
  BY <1>1 DEF WorkerInv, Phases, Descriptors, Following, Copying
<1>4. \A g : Same(g)' <=> Same(g)
  BY <1>1 DEF Same
<1>5. (Progress /\ SingleDone)'
  BY <1>1, <1>4 DEF WorkerInv, Progress, SingleDone, Behind, Copying
<1> QED
  BY <1>2, <1>3, <1>5 DEF WorkerInv

(* A copy that fails leaves its descriptors behind and, in a FULL job, the *)
(* next file to be copied.                                                 *)
LEMMA FailKeeps ==
  ASSUME WorkerInv, Copying, CopyFails, UNCHANGED <<src, tar, job, unread, cur, fds, touched, killed, changes>>,
         hit \subseteq hit',
         cur \in DOMAIN src \ touched => Same(cur) \/ cur \in hit' \/ 2 * failed + 4 > MaxFds
  PROVE  WorkerInv'
<1>1. /\ linked' = FALSE /\ body' = <<>> /\ pos' = 0 /\ written' = FALSE
      /\ text' = cur /\ done' = done /\ job.op # "DELETED" /\ cur \in Files
      /\ \/ job.op = "FULL" /\ failed' = failed + 1 /\ pc' = "next"
         \/ job.op # "FULL" /\ failed' = failed /\ pc' = "error" /\ done = 0
  BY DEF WorkerInv, Phases, CopyFails, LeavesCopy, GiveUp, Noted, counters
<1>2. failed \in Nat /\ fds \in Int
  BY BoundsAssumption DEF WorkerInv, WorkerTypes
<1>3. WorkerTypes'
  <2>1. body' \in Texts /\ pos' \in 0 .. Max(Lengths) /\ failed' \in Nat /\ pc' \in PcValues
    BY <1>1, <1>2, TextOf, Longest DEF PcValues
  <2>2. text' \in Names \cup {NoName}
    BY <1>1 DEF WorkerInv, WorkerTypes
  <2> QED
    BY <1>1, <2>1, <2>2 DEF WorkerInv, WorkerTypes
<1>4. Phases'
  BY <1>1 DEF WorkerInv, Phases, Copying
<1>5. Descriptors'
  BY <1>1, <1>2 DEF WorkerInv, Descriptors, Copying
<1>6. (Following /\ SingleDone)'
  BY <1>1 DEF Following, SingleDone
<1>7. Progress'
  <2> SUFFICES ASSUME job.op = "FULL", NEW f \in DOMAIN src \ touched PROVE Same(f)' \/ Behind(f)'
    BY DEF Progress
  <2>1. failed' = failed + 1 /\ pc' = "next" /\ (Same(f)' <=> Same(f))
    BY <1>1 DEF Same
  <2>2. Same(f) \/ Behind(f)
    BY DEF WorkerInv, Progress
  <2>3. CASE f = cur
    BY <1>2, <2>1, <2>3 DEF Behind
  <2>4. CASE f # cur
    BY <1>2, <2>1, <2>2, <2>4, BoundsAssumption DEF Behind, Copying
  <2> QED
    BY <2>3, <2>4
<1> QED
  BY <1>3, <1>4, <1>5, <1>6, <1>7 DEF WorkerInv

LEMMA OpenSourceKeeps == WorkerInv /\ OpenSource => WorkerInv'
<1> SUFFICES ASSUME WorkerInv, OpenSource PROVE WorkerInv'
  OBVIOUS
<1>1. /\ UNCHANGED <<src, job, tar, unread, cur, touched, killed, changes>>
      /\ pc = "source" /\ Copying /\ hit \subseteq hit' /\ failed \in Nat /\ fds \in Nat
  BY BoundsAssumption DEF WorkerInv, WorkerTypes, OpenSource, Copying, Hit, Missed, bounds
<1>2. CASE cur \in DOMAIN src /\ fds < MaxFds /\ fds' = fds + 1 /\ linked' = TRUE /\ pc' = "target"
           /\ UNCHANGED <<hit, body, pos, written, text, counters>>
  <2>1. WorkerTypes'
    BY <1>1, <1>2, BoundsAssumption DEF WorkerInv, WorkerTypes, PcValues, counters
  <2>2. (Phases /\ Descriptors /\ Following)'
    BY <1>1, <1>2 DEF WorkerInv, Phases, Descriptors, Following, Copying, counters
  <2>3. \A g : Same(g)' <=> Same(g)
    BY <1>1 DEF Same
  <2>4. (Progress /\ SingleDone)'
    BY <1>1, <1>2, <2>3 DEF WorkerInv, Progress, SingleDone, Behind, Copying, counters
  <2> QED
    BY <2>1, <2>2, <2>4 DEF WorkerInv
<1>3. CASE CopyFails /\ UNCHANGED fds /\ (cur \in DOMAIN src => fds >= MaxFds \/ cur \in hit')
  <2>1. fds >= MaxFds => 2 * failed + 4 > MaxFds
    BY <1>1, BoundsAssumption DEF WorkerInv, Descriptors
  <2> QED
    BY <1>1, <1>3, <2>1, FailKeeps
<1> QED
  BY <1>2, <1>3 DEF OpenSource, Hit, Missed

LEMMA OpenTargetKeeps == WorkerInv /\ OpenTarget => WorkerInv'
<1> SUFFICES ASSUME WorkerInv, OpenTarget PROVE WorkerInv'
  OBVIOUS
<1>1. /\ UNCHANGED <<src, job, unread, cur, touched, killed, changes>>
      /\ pc = "target" /\ Copying /\ hit \subseteq hit' /\ failed \in Nat /\ fds \in Nat /\ cur \in Files
  BY BoundsAssumption DEF WorkerInv, WorkerTypes, Phases, OpenTarget, Copying, Hit, Missed, bounds
<1>2. CASE fds < MaxFds /\ tar' = With(tar, cur, <<>>) /\ fds' = fds + 1 /\ pc' = "copy"
           /\ UNCHANGED <<hit, linked, body, pos, written, text, counters>>
  <2>1. /\ tar' \in Directories(Texts) /\ DOMAIN tar' = DOMAIN tar \cup {cur} /\ tar'[cur] = <<>>
        /\ \A g \in DOMAIN tar : g # cur => tar'[g] = tar[g]
    <3>1. tar \in Directories(Texts) /\ <<>> \in Texts /\ cur \in Files
      BY <1>1, TextOf DEF WorkerInv, WorkerTypes
    <3>2. With(tar, cur, <<>>) \in Directories(Texts)
      BY <3>1, WithDir
    <3>3. /\ DOMAIN With(tar, cur, <<>>) = DOMAIN tar \cup {cur} /\ With(tar, cur, <<>>)[cur] = <<>>
          /\ \A g \in DOMAIN tar : g # cur => With(tar, cur, <<>>)[g] = tar[g]
      BY DEF With
    <3> QED
      BY <1>2, <3>2, <3>3
  <2>2. WorkerTypes'
    BY <1>1, <1>2, <2>1, BoundsAssumption DEF WorkerInv, WorkerTypes, PcValues, counters
  <2>3. pos = 0 /\ ~written
    BY <1>1 DEF WorkerInv, Phases
  <2>4. (Phases /\ Descriptors)'
    BY <1>1, <1>2, <2>1, <2>3 DEF WorkerInv, Phases, Descriptors, Copying, counters
  <2>5. Following'
    BY <1>1, <1>2, <2>3 DEF WorkerInv, Following
  <2>6. \A g : g # cur => (Same(g) => Same(g)')
    BY <1>1, <2>1 DEF Same
  <2>7. (Progress /\ SingleDone)'
    BY <1>1, <1>2, <2>6 DEF WorkerInv, Progress, SingleDone, Behind, Copying, counters
  <2> QED
    BY <2>2, <2>4, <2>5, <2>7 DEF WorkerInv
<1>3. CASE CopyFails /\ UNCHANGED <<tar, fds>> /\ (fds >= MaxFds \/ cur \in hit')
  <2>1. fds >= MaxFds => 2 * failed + 4 > MaxFds
    BY <1>1, BoundsAssumption DEF WorkerInv, Descriptors
  <2> QED
    BY <1>1, <1>3, <2>1, FailKeeps
<1> QED
  BY <1>2, <1>3 DEF OpenTarget, Hit, Missed

LEMMA ReadingType ==
  ASSUME WorkerInv
  PROVE  Reading \in Texts /\ Reading \in Seq(Blocks) /\ Len(Reading) \in 0 .. Max(Lengths)
<1>1. linked => src[cur] \in Texts
  BY DirShape DEF WorkerInv, WorkerTypes
<1>2. Reading \in Texts
  BY <1>1 DEF WorkerInv, WorkerTypes, Reading
<1> QED
  BY <1>2, TextShape

LEMMA CopyBlockKeeps == WorkerInv /\ CopyBlock => WorkerInv'
<1> SUFFICES ASSUME WorkerInv, CopyBlock PROVE WorkerInv'
  OBVIOUS
<1>1. /\ UNCHANGED <<src, job, unread, cur, fds, touched, killed, changes>>
      /\ pc = "copy" /\ Copying /\ hit \subseteq hit' /\ cur \in Files /\ cur \in DOMAIN tar
      /\ Len(tar[cur]) = pos /\ pos \in Nat
  BY Longest DEF WorkerInv, WorkerTypes, Phases, CopyBlock, Copying, Hit, Missed, bounds
<1>2. tar[cur] \in Texts /\ DOMAIN tar \subseteq Files /\ tar \in [DOMAIN tar -> Texts]
  BY <1>1, DirShape DEF WorkerInv, WorkerTypes
<1>3. CASE /\ pos < Len(Reading) /\ pos' = pos + 1 /\ written' = TRUE
           /\ tar' = [tar EXCEPT ![cur] = Append(@, Reading[pos + 1])]
           /\ UNCHANGED <<hit, linked, body, pc, text, counters>>
  <2>1. Reading \in Seq(Blocks) /\ Len(Reading) \in 0 .. Max(Lengths) /\ Max(Lengths) \in Nat
    BY ReadingType, Longest
  <2>2. pos + 1 \in 1 .. Len(Reading) /\ pos + 1 \in 0 .. Max(Lengths) /\ pos < Max(Lengths)
    BY <1>1, <1>3, <2>1
  <2>3. Reading[pos + 1] \in Blocks
    BY <2>1, <2>2, ElementOfSeq
  <2>4. Append(tar[cur], Reading[pos + 1]) \in Texts
    BY <1>1, <1>2, <2>2, <2>3, TextOf
  <2>5. /\ tar' \in Directories(Texts) /\ DOMAIN tar' = DOMAIN tar
        /\ tar'[cur] = Append(tar[cur], Reading[pos + 1]) /\ \A g \in DOMAIN tar : g # cur => tar'[g] = tar[g]
    BY <1>1, <1>2, <1>3, <2>4, DirShape
  <2>6. WorkerTypes'
    BY <1>1, <1>3, <2>2, <2>5 DEF WorkerInv, WorkerTypes, counters
  <2>7. /\ Len(tar'[cur]) = pos + 1
        /\ \A i \in 1 .. pos + 1 : tar'[cur][i] = IF i = pos + 1 THEN Reading[pos + 1] ELSE tar[cur][i]
    <3>1. tar[cur] \in Seq(Blocks)
      BY <1>2, TextShape
    <3> QED
      BY <1>1, <2>3, <2>5, <3>1
  <2>8. (Phases /\ Descriptors)'
    BY <1>1, <1>3, <2>5, <2>7 DEF WorkerInv, Phases, Descriptors, Copying, counters
  <2>9. Following'
    <3> SUFFICES ASSUME cur \notin touched
                 PROVE  linked /\ \A i \in 1 .. pos + 1 : i <= Len(src[cur]) /\ tar'[cur][i] = src[cur][i]
      BY <1>1, <1>3 DEF Following
    <3>1. linked /\ Reading = src[cur] /\ \A i \in 1 .. pos : i <= Len(src[cur]) /\ tar[cur][i] = src[cur][i]
      BY <1>1 DEF WorkerInv, Following, Reading
    <3>2. \A i \in 1 .. pos + 1 : i = pos + 1 \/ i \in 1 .. pos
      BY <1>1
    <3> QED
      BY <2>1, <2>2, <2>7, <3>1, <3>2
  <2>10. \A g : g # cur => (Same(g) => Same(g)')
    BY <1>1, <2>5 DEF Same
  <2>11. (Progress /\ SingleDone)'
    BY <1>1, <1>3, <2>10 DEF WorkerInv, Progress, SingleDone, Behind, Copying, counters
  <2> QED
    BY <2>6, <2>8, <2>9, <2>11 DEF WorkerInv
<1>4. CASE CopyFails /\ Hit /\ UNCHANGED tar
  <2>1. cur \in hit'
    BY <1>4 DEF Hit
  <2> QED
    BY <1>1, <1>4, <2>1, FailKeeps
<1> QED
  BY <1>3, <1>4 DEF CopyBlock, Missed

(* At the end of an undisturbed copy the target is the source.             *)
LEMMA CopiedSame ==
  ASSUME WorkerInv, pc = "copy", pos >= Len(Reading), cur \notin touched
  PROVE  Same(cur)
<1>1. /\ linked /\ Reading = src[cur] /\ cur \in DOMAIN tar /\ Len(tar[cur]) = pos
      /\ \A i \in 1 .. pos : i <= Len(src[cur]) /\ tar[cur][i] = src[cur][i]
  BY DEF WorkerInv, Phases, Following, Reading
<1>2. tar[cur] \in Texts
  BY <1>1, DirShape DEF WorkerInv, WorkerTypes
<1>3. tar[cur] \in Seq(Blocks) /\ src[cur] \in Seq(Blocks) /\ Len(src[cur]) \in Nat /\ pos \in Nat
  BY <1>1, <1>2, TextShape, ReadingType, LenProperties
<1>4. pos = Len(src[cur])
  <2>1. CASE pos = 0
    BY <1>1, <1>3, <2>1
  <2>2. CASE pos # 0
    <3>1. pos \in 1 .. pos
      BY <1>3, <2>2
    <3>2. pos <= Len(src[cur])
      BY <1>1, <3>1
    <3> QED
      BY <1>1, <1>3, <3>2
  <2> QED
    BY <2>1, <2>2
<1>5. tar[cur] = src[cur]
  BY <1>1, <1>3, <1>4, SeqEqual
<1> QED
  BY <1>1, <1>5 DEF Same

LEMMA EndOfFileKeeps == WorkerInv /\ EndOfFile => WorkerInv'
<1> SUFFICES ASSUME WorkerInv, EndOfFile PROVE WorkerInv'
  OBVIOUS
<1>1. /\ UNCHANGED <<src, tar, job, unread, cur, touched, hit, killed, changes>>
      /\ pc = "copy" /\ Copying /\ pos >= Len(Reading) /\ cur \in Files /\ job.op # "DELETED"
  BY DEF WorkerInv, Phases, EndOfFile, Copying, history, bounds
<1>2. cur \notin touched => Same(cur)
  BY <1>1, CopiedSame
<1>3. CASE CopyFails /\ UNCHANGED fds
  BY <1>1, <1>2, <1>3, FailKeeps
<1>4. CASE /\ LeavesCopy /\ fds' = Closed(fds) /\ done' = done + 1
           /\ pc' = IF job.op = "FULL" THEN "next" ELSE "report"
           /\ UNCHANGED <<failed, text>>
  <2>1. fds \in 2 .. 2 * failed + 2 /\ failed \in Nat /\ fds' = fds - 2 /\ fds <= MaxFds
    BY <1>1, <1>4, BoundsAssumption DEF WorkerInv, WorkerTypes, Descriptors, Closed
  <2>2. WorkerTypes'
    <3>1. body' \in Texts /\ pos' \in 0 .. Max(Lengths) /\ fds' \in 0 .. MaxFds /\ pc' \in PcValues
      BY <1>4, <2>1, TextOf, Longest, BoundsAssumption DEF LeavesCopy, PcValues
    <3>2. linked' = FALSE /\ written' = FALSE /\ text' = text /\ failed' = failed /\ done' \in Nat
      BY <1>4 DEF WorkerInv, WorkerTypes, LeavesCopy
    <3> QED
      BY <1>1, <3>1, <3>2 DEF WorkerInv, WorkerTypes
  <2>3. (Phases /\ Following)'
    BY <1>1, <1>4 DEF WorkerInv, Phases, Following, Copying, LeavesCopy
  <2>4. Descriptors'
    BY <1>1, <1>4, <2>1 DEF WorkerInv, Descriptors
  <2>5. \A g : Same(g)' <=> Same(g)
    BY <1>1 DEF Same
  <2>6. Progress'
    BY <1>1, <1>2, <1>4, <2>5 DEF WorkerInv, Progress, Behind, Copying
  <2>7. SingleDone'
    <3> SUFFICES ASSUME job.op # "FULL" PROVE Brought'
      BY <1>1 DEF SingleDone
    <3>1. cur = job.file /\ job.op \in Copies
      BY <1>1, JobShape DEF WorkerInv, WorkerTypes, Phases, Copies
    <3>2. Scope' = {cur} \cap DOMAIN src
      BY <1>1, <3>1 DEF Scope, Copies
    <3> QED
      BY <1>1, <1>2, <2>5, <3>2 DEF Brought
  <2> QED
    BY <2>2, <2>3, <2>4, <2>6, <2>7 DEF WorkerInv
<1> QED
  BY <1>3, <1>4 DEF EndOfFile

LEMMA UnlinkKeeps == WorkerInv /\ Unlink => WorkerInv'
<1> SUFFICES ASSUME WorkerInv, Unlink PROVE WorkerInv'
  OBVIOUS
<1>1. /\ UNCHANGED <<src, job, unread, cur, body, linked, pos, written, fds, touched, killed, changes>>
      /\ pc = "unlink" /\ job.op = "DELETED" /\ cur = job.file /\ ~linked /\ done = 0 /\ failed = 0 /\ failed' = failed
      /\ pc' \in {"report", "error"} /\ done' \in Nat /\ (pc' = "error" => done' = 0)
      /\ text' \in Names \cup {NoName}
  BY DEF WorkerInv, WorkerTypes, Phases, Unlink, GiveUp, Noted, Copying, copying, counters
<1>2. tar' \in Directories(Texts) /\ (pc' = "report" => cur \notin DOMAIN tar')
  <2>1. CASE tar' = tar /\ pc' = "error"
    BY <2>1 DEF WorkerInv, WorkerTypes
  <2>2. CASE tar' = Without(tar, cur)
    <3>1. Without(tar, cur) \in Directories(Texts)
      BY WithoutDir DEF WorkerInv, WorkerTypes
    <3> QED
      BY <2>2, <3>1 DEF Without, Restrict
  <2> QED
    BY <2>1, <2>2 DEF Unlink, GiveUp, Without
<1>3. WorkerTypes'
  BY <1>1, <1>2 DEF WorkerInv, WorkerTypes, PcValues
<1>4. (Phases /\ Following /\ Progress)'
  BY <1>1 DEF WorkerInv, Phases, Following, Progress, Copying
<1>5. Descriptors'
  <2>1. fds = 0
    BY <1>1, BoundsAssumption DEF WorkerInv, WorkerTypes, Descriptors
  <2> QED
    BY <1>1, <2>1 DEF Descriptors
<1>6. SingleDone'
  BY <1>1, <1>2 DEF SingleDone, Brought
<1> QED
  BY <1>3, <1>4, <1>5, <1>6 DEF WorkerInv

(* Once the worker is past its work, nothing of what it did changes.       *)
LEMMA OffKeeps ==
  ASSUME WorkerInv, killed' \in BOOLEAN,
         UNCHANGED <<src, tar, job, unread, copying, fds, text, counters, touched, hit, changes>>,
         pc' = pc \/ (pc' \in {"message", "trailer"} /\ ~linked) \/ pc' \in {"exited", "freed"}
  PROVE  WorkerInv'
<1>1. WorkerTypes'
  BY DEF WorkerInv, WorkerTypes, PcValues, copying, counters
<1>2. (Phases /\ Descriptors /\ Following)'
  BY DEF WorkerInv, Phases, Descriptors, Following, Copying, copying, counters
<1>3. (\A g : Same(g)' <=> Same(g)) /\ (Brought' <=> Brought)
  BY DEF Same, Brought, Scope
<1>4. (Progress /\ SingleDone)'
  BY <1>3 DEF WorkerInv, Progress, SingleDone, Behind, Copying, copying, counters
<1> QED
  BY <1>1, <1>2, <1>4 DEF WorkerInv

-----------------------------------------------------------------------------
(* Why a job fails, and what it has copied: the second half of the         *)
(* worker's invariant, from which the results it reports are true.         *)
Working == Copying \/ pc \in {"opendir", "next", "unlink", "report"}

\* A file that is still to be copied, or is being copied.
Ahead(f) == f \in unread \/ (Copying /\ f = cur)

\* Every failure has a reason, and a job without one has met no failing call.
Causes ==
  /\ failed > 0 => \E f \in Files : Excused(f)
  /\ pc = "error" => /\ (job.op # "FULL" /\ Missing) \/ \E f \in Names : Excused(f)
                     /\ job.op = "FULL" => hit \cap {SrcDir, TarDir} # {}
  /\ Working /\ failed = 0 => hit = {}
  /\ job.op = "FULL" => \A f : Ahead(f) => f \in DOMAIN src \cup touched

\* A FULL job that has counted a copy has one in the target, and one that has not has none.
Copied ==
  /\ Copying /\ cur \notin touched => cur \notin unread
  /\ job.op = "FULL" /\ done > 0 =>
       \E f \in DOMAIN tar : f \notin touched => f \in DOMAIN src /\ Same(f) /\ ~Ahead(f)
  /\ job.op = "FULL" /\ done = 0 /\ Working =>
       \A f \in DOMAIN src \ (touched \cup hit) : Same(f) /\ ~(pc = "copy" /\ f = cur) => src[f] = <<>>

CauseInv == Causes /\ Copied

LEMMA CauseInit == Init => CauseInv
<1> SUFFICES ASSUME Init PROVE CauseInv
  OBVIOUS
<1>1. Causes
  <2>1. pc # "error"
    BY JobShape DEF Init, StartOf, Copies
  <2>2. job.op = "FULL" => pc = "opendir"
    BY DEF Init, StartOf, Copies
  <2> QED
    BY <2>1, <2>2 DEF Init, Causes, Ahead, Copying
<1>2. \A f \in DOMAIN src : ~Same(f)
  <2> SUFFICES ASSUME NEW f \in DOMAIN src, Same(f) PROVE FALSE
    OBVIOUS
  <2>1. src[f] \in Contents(0)
    BY DirShape DEF Init
  <2>2. PICK n \in Lengths : src[f] = [i \in 1 .. n |-> 0]
    BY <2>1 DEF Contents
  <2>3. src[f] = <<-1>>
    BY DEF Init, Same
  <2>4. n \in Nat
    BY LengthsAssumption
  <2>5. Len(src[f]) = 1 /\ src[f][1] = -1
    BY <2>3
  <2>6. n = 1
    BY <2>2, <2>4, <2>5
  <2> QED
    BY <2>2, <2>5, <2>6
<1>3. Copied
  BY <1>2 DEF Init, Copied, Copying
<1> QED
  BY <1>1, <1>3 DEF CauseInv

(* Users.                                                                  *)
LEMMA UserShape ==
  ASSUME NEW f \in Files, WriteSource(f) \/ RemoveSource(f)
  PROVE  /\ UNCHANGED <<tar, job, pc, cur, text, done, failed, hit>> /\ touched' = touched \cup {f}
         /\ DOMAIN src' \subseteq DOMAIN src \cup {f}
         /\ \A g \in DOMAIN src : g # f => g \in DOMAIN src' /\ src'[g] = src[g]
         /\ unread' \subseteq unread \cup {f}
<1>1. CASE WriteSource(f)
  <2>1. PICK c : src' = With(src, f, c)
    BY <1>1 DEF WriteSource
  <2>2. DOMAIN src' = DOMAIN src \cup {f} /\ \A g \in DOMAIN src' : g # f => src'[g] = src[g]
    BY <2>1 DEF With
  <2> QED
    BY <1>1, <2>2 DEF WriteSource, Changed, counters, copying
<1>2. CASE RemoveSource(f)
  BY <1>2 DEF RemoveSource, Changed, counters, Without, Restrict
<1> QED
  BY <1>1, <1>2

\* Every reason to fail stays one, and the files that nobody has changed stay as they are.
LEMMA UserKeepsReasons ==
  ASSUME NEW f \in Files, WriteSource(f) \/ RemoveSource(f)
  PROVE  /\ \A g : Excused(g) => Excused(g)'
         /\ \A g : g \notin touched' => /\ g \notin touched /\ (g \in DOMAIN src' <=> g \in DOMAIN src)
                                       /\ (g \in DOMAIN src => src'[g] = src[g])
                                       /\ (g \in unread' => g \in unread)
         /\ Missing => Missing' \/ Excused(f)'
<1>1. /\ UNCHANGED <<tar, job, pc, cur, text, done, failed, hit>> /\ touched' = touched \cup {f}
      /\ DOMAIN src' \subseteq DOMAIN src \cup {f}
      /\ \A g \in DOMAIN src : g # f => g \in DOMAIN src' /\ src'[g] = src[g]
      /\ unread' \subseteq unread \cup {f}
  BY UserShape
<1>2. \A g : Excused(g) => Excused(g)'
  BY <1>1 DEF Excused
<1>3. \A g : g \notin touched' => /\ g \notin touched /\ (g \in DOMAIN src' <=> g \in DOMAIN src)
                                  /\ (g \in DOMAIN src => src'[g] = src[g])
                                  /\ (g \in unread' => g \in unread)
  BY <1>1
<1>4. Missing => Missing' \/ Excused(f)'
  BY <1>1 DEF Missing, Excused
<1> QED
  BY <1>2, <1>3, <1>4

LEMMA UserCauses ==
  ASSUME CauseInv, NEW f \in Files, WriteSource(f) \/ RemoveSource(f)
  PROVE  CauseInv'
<1>1. UNCHANGED <<tar, job, pc, cur, done, failed, hit>> /\ f \in Names
  BY UserShape DEF Names
<1>2. /\ \A g : Excused(g) => Excused(g)'
      /\ \A g : g \notin touched' => /\ g \notin touched /\ (g \in DOMAIN src' <=> g \in DOMAIN src)
                                    /\ (g \in DOMAIN src => src'[g] = src[g])
                                    /\ (g \in unread' => g \in unread)
      /\ Missing => Missing' \/ Excused(f)'
  BY UserKeepsReasons
<1>3. (Working' <=> Working) /\ (Copying' <=> Copying) /\ \A g : g \notin touched' => (Ahead(g)' => Ahead(g))
  BY <1>1, <1>2 DEF Working, Copying, Ahead
<1>4. \A g : g \notin touched' /\ g \in DOMAIN src => (Same(g)' <=> Same(g))
  BY <1>1, <1>2 DEF Same
<1>5. Causes'
  BY <1>1, <1>2, <1>3 DEF CauseInv, Causes
<1>6. Copied'
  <2>1. Copying' /\ cur' \notin touched' => cur' \notin unread'
    BY <1>1, <1>2, <1>3 DEF CauseInv, Copied
  <2>2. ASSUME job.op = "FULL", done > 0
        PROVE  \E g \in DOMAIN tar' : g \notin touched' => g \in DOMAIN src' /\ Same(g)' /\ ~Ahead(g)'
    <3>1. PICK g \in DOMAIN tar : g \notin touched => g \in DOMAIN src /\ Same(g) /\ ~Ahead(g)
      BY <2>2 DEF CauseInv, Copied
    <3> QED
      BY <1>1, <1>2, <1>3, <1>4, <3>1
  <2>3. ASSUME job.op = "FULL", done = 0, Working, NEW g \in DOMAIN src' \ (touched' \cup hit'),
               Same(g)', ~(pc = "copy" /\ g = cur)
        PROVE  src'[g] = <<>>
    BY <1>1, <1>2, <1>4, <2>3 DEF CauseInv, Copied
  <2> QED
    BY <1>1, <1>3, <2>1, <2>2, <2>3 DEF Copied
<1> QED
  BY <1>5, <1>6 DEF CauseInv

(* The directories and the listing.                                        *)
LEMMA SameFiles ==
  ASSUME UNCHANGED <<src, tar, job, touched>>, hit \subseteq hit'
  PROVE  (\A g : Same(g)' <=> Same(g)) /\ (\A g : Excused(g) => Excused(g)') /\ (Missing' <=> Missing)
BY DEF Same, Excused, Missing

LEMMA OpenDirsCauses == WorkerInv /\ CauseInv /\ OpenDirs => CauseInv'
<1> SUFFICES ASSUME WorkerInv, CauseInv, OpenDirs PROVE CauseInv'
  OBVIOUS
<1>1. /\ UNCHANGED <<src, tar, job, cur, done, failed, touched>> /\ hit \subseteq hit'
      /\ pc = "opendir" /\ job.op = "FULL" /\ done = 0 /\ failed = 0
      /\ \/ pc' = "next" /\ unread' = DOMAIN src /\ hit' = hit
         \/ pc' = "error" /\ unread' = unread /\ \E dir \in {SrcDir, TarDir} : hit' = hit \cup {dir}
  BY DEF WorkerInv, Phases, OpenDirs, GiveUp, counters, copying
<1>2. \A g : Same(g)' <=> Same(g)
  BY <1>1, SameFiles
<1>3. Causes'
  BY <1>1 DEF CauseInv, Causes, Working, Copying, Ahead, Excused, Names
<1>4. Copied'
  BY <1>1, <1>2 DEF CauseInv, Copied, Working, Copying
<1> QED
  BY <1>3, <1>4 DEF CauseInv

LEMMA NextEntryCauses == WorkerInv /\ CauseInv /\ NextEntry => CauseInv'
<1> SUFFICES ASSUME WorkerInv, CauseInv, NextEntry PROVE CauseInv'
  OBVIOUS
<1>1. PICK f \in unread : cur' = f /\ unread' = unread \ {f}
  BY DEF NextEntry
<1>2. UNCHANGED <<src, tar, job, done, failed, touched, hit>> /\ pc = "next" /\ pc' = "source"
  BY DEF NextEntry, counters, history
<1>3. (\A g : Same(g)' <=> Same(g)) /\ (\A g : Excused(g) => Excused(g)')
  BY <1>2, SameFiles
<1>4. \A g : Ahead(g)' => Ahead(g)
  BY <1>1, <1>2 DEF Ahead, Copying
<1>5. Causes'
  BY <1>2, <1>3, <1>4 DEF CauseInv, Causes, Working, Copying
<1>6. Copied'
  <2>1. job.op = "FULL" /\ done > 0 => \E g \in DOMAIN tar : g \notin touched => g \in DOMAIN src /\ Same(g)' /\ ~Ahead(g)'
    BY <1>3, <1>4 DEF CauseInv, Copied
  <2> QED
    BY <1>1, <1>2, <1>3, <2>1 DEF CauseInv, Copied, Working, Copying
<1> QED
  BY <1>5, <1>6 DEF CauseInv

LEMMA LastEntryCauses == WorkerInv /\ CauseInv /\ LastEntry => CauseInv'
<1> SUFFICES ASSUME WorkerInv, CauseInv, LastEntry PROVE CauseInv'
  OBVIOUS
<1>1. /\ UNCHANGED <<src, tar, job, unread, cur, done, failed, touched>> /\ hit \subseteq hit' /\ pc = "next"
      /\ \/ pc' = "report" /\ hit' = hit
         \/ pc' = "error" /\ hit' = hit \cup {SrcDir}
  BY DEF LastEntry, GiveUp, counters, copying
<1>2. (\A g : Same(g)' <=> Same(g)) /\ (\A g : Excused(g) => Excused(g)') /\ (\A g : Ahead(g)' <=> Ahead(g))
  BY <1>1, SameFiles DEF Ahead, Copying
<1>3. Causes'
  BY <1>1, <1>2 DEF CauseInv, Causes, Working, Copying, Excused, Names
<1>4. Copied'
  BY <1>1, <1>2 DEF CauseInv, Copied, Working, Copying
<1> QED
  BY <1>3, <1>4 DEF CauseInv

(* A copy that fails has a reason, and has not brought its file over.      *)
LEMMA FailCauses ==
  ASSUME WorkerInv, CauseInv, Copying, CopyFails, UNCHANGED <<src, tar, job, unread, cur, touched>>, hit \subseteq hit',
         (\E f \in Files : Excused(f)') \/ (job.op # "FULL" /\ Missing),
         pc = "copy" /\ cur \notin touched \cup hit' => src[cur] = <<>>
  PROVE  CauseInv'
<1>1. /\ done' = done
      /\ \/ job.op = "FULL" /\ failed' = failed + 1 /\ pc' = "next"
         \/ job.op # "FULL" /\ failed' = failed /\ failed = 0 /\ pc' = "error"
  BY DEF WorkerInv, Phases, CopyFails, GiveUp, counters
<1>2. failed \in Nat
  BY DEF WorkerInv, WorkerTypes
<1>3. (\A g : Same(g)' <=> Same(g)) /\ (\A g : Ahead(g)' => Ahead(g)) /\ (Missing' <=> Missing)
  BY <1>1, SameFiles DEF Ahead, Copying
<1>4. Causes'
  BY <1>1, <1>2, <1>3 DEF CauseInv, Causes, Working, Copying, Names
<1>5. Copied'
  <2>1. job.op = "FULL" /\ done > 0 => \E g \in DOMAIN tar : g \notin touched => g \in DOMAIN src /\ Same(g)' /\ ~Ahead(g)'
    BY <1>3 DEF CauseInv, Copied
  <2>2. Working
    BY DEF Working
  <2>3. job.op = "FULL" /\ done = 0 => \A g \in DOMAIN src \ (touched \cup hit') : Same(g)' => src[g] = <<>>
    BY <1>3, <2>2 DEF CauseInv, Copied
  <2> QED
    BY <1>1, <2>1, <2>3 DEF Copied, Copying
<1> QED
  BY <1>4, <1>5 DEF CauseInv

LEMMA OpenSourceCauses == WorkerInv /\ CauseInv /\ OpenSource => CauseInv'
<1> SUFFICES ASSUME WorkerInv, CauseInv, OpenSource PROVE CauseInv'
  OBVIOUS
<1>1. /\ UNCHANGED <<src, tar, job, unread, cur, touched>> /\ pc = "source" /\ Copying /\ hit \subseteq hit'
      /\ failed \in Nat /\ fds \in Nat /\ cur \in Files /\ job.op # "DELETED"
  BY BoundsAssumption DEF WorkerInv, WorkerTypes, Phases, OpenSource, Copying, Hit, Missed
<1>2. (\A g : Same(g)' <=> Same(g)) /\ (\A g : Excused(g) => Excused(g)')
  BY <1>1, SameFiles
<1>3. CASE pc' = "target" /\ UNCHANGED <<hit, done, failed>>
  <2>1. \A g : Ahead(g)' <=> Ahead(g)
    BY <1>1, <1>3 DEF Ahead, Copying
  <2>2. Causes'
    BY <1>1, <1>2, <1>3, <2>1 DEF CauseInv, Causes, Working, Copying
  <2>3. Copied'
    BY <1>1, <1>2, <1>3, <2>1 DEF CauseInv, Copied, Working, Copying
  <2> QED
    BY <2>2, <2>3 DEF CauseInv
<1>4. CASE CopyFails /\ (cur \in DOMAIN src => fds >= MaxFds \/ cur \in hit')
  <2>1. (\E f \in Files : Excused(f)') \/ (job.op # "FULL" /\ Missing)
    <3>1. CASE cur \in hit'
      BY <1>1, <3>1 DEF Excused
    <3>2. CASE fds >= MaxFds
      <4>1. failed > 0
        BY <1>1, <3>2, BoundsAssumption DEF WorkerInv, Descriptors
      <4> QED
        BY <1>2, <4>1 DEF CauseInv, Causes
    <3>3. CASE cur \notin DOMAIN src /\ job.op = "FULL"
      <4>1. cur \in touched
        BY <1>1, <3>3 DEF CauseInv, Causes, Ahead
      <4> QED
        BY <1>1, <4>1 DEF Excused
    <3>4. CASE cur \notin DOMAIN src /\ job.op # "FULL"
      BY <1>1, <3>4 DEF WorkerInv, Phases, Missing
    <3> QED
      BY <1>4, <3>1, <3>2, <3>3, <3>4
  <2> QED
    BY <1>1, <1>4, <2>1, FailCauses
<1> QED
  BY <1>3, <1>4 DEF OpenSource, Hit, Missed, counters

\* The target changes at cur only, which is still ahead.
LEMMA TargetCauses ==
  ASSUME CauseInv, Copying, pc \in {"target", "copy"}, pc' = "copy", UNCHANGED <<src, job, unread, cur, touched, hit, done, failed>>,
         DOMAIN tar \subseteq DOMAIN tar', \A g \in DOMAIN tar' : g # cur => g \in DOMAIN tar /\ tar'[g] = tar[g]
  PROVE  CauseInv'
<1>1. (\A g : g # cur => (Same(g)' <=> Same(g))) /\ (\A g : Ahead(g)' <=> Ahead(g)) /\ Ahead(cur)
  BY DEF Same, Ahead, Copying
<1>2. (\A g : Excused(g) => Excused(g)') /\ Working /\ Working'
  BY DEF Excused, Working, Copying
<1>3. Causes'
  BY <1>1, <1>2 DEF CauseInv, Causes
<1>4. Copied'
  <2>1. job.op = "FULL" /\ done > 0 => \E g \in DOMAIN tar' : g \notin touched => g \in DOMAIN src /\ Same(g)' /\ ~Ahead(g)'
    <3> SUFFICES ASSUME job.op = "FULL", done > 0
                 PROVE  \E g \in DOMAIN tar' : g \notin touched => g \in DOMAIN src /\ Same(g)' /\ ~Ahead(g)'
      OBVIOUS
    <3>1. PICK g \in DOMAIN tar : g \notin touched => g \in DOMAIN src /\ Same(g) /\ ~Ahead(g)
      BY DEF CauseInv, Copied
    <3> QED
      BY <1>1, <3>1
  <2>2. job.op = "FULL" /\ done = 0 => \A g \in DOMAIN src \ (touched \cup hit) : Same(g)' /\ g # cur => src[g] = <<>>
    BY <1>1, <1>2 DEF CauseInv, Copied
  <2> QED
    BY <2>1, <2>2 DEF CauseInv, Copied, Copying
<1> QED
  BY <1>3, <1>4 DEF CauseInv

LEMMA OpenTargetCauses == WorkerInv /\ CauseInv /\ OpenTarget => CauseInv'
<1> SUFFICES ASSUME WorkerInv, CauseInv, OpenTarget PROVE CauseInv'
  OBVIOUS
<1>1. /\ UNCHANGED <<src, job, unread, cur, touched>> /\ pc = "target" /\ Copying /\ hit \subseteq hit'
      /\ failed \in Nat /\ fds \in Nat /\ cur \in Files
  BY BoundsAssumption DEF WorkerInv, WorkerTypes, Phases, OpenTarget, Copying, Hit, Missed
<1>2. CASE tar' = With(tar, cur, <<>>) /\ pc' = "copy" /\ UNCHANGED <<hit, done, failed>>
  <2>1. DOMAIN tar \subseteq DOMAIN tar' /\ \A g \in DOMAIN tar' : g # cur => g \in DOMAIN tar /\ tar'[g] = tar[g]
    BY <1>2 DEF With
  <2> QED
    BY <1>1, <1>2, <2>1, TargetCauses
<1>3. CASE CopyFails /\ tar' = tar /\ (fds >= MaxFds \/ cur \in hit')
  <2>1. \E f \in Files : Excused(f)'
    <3>1. CASE cur \in hit'
      BY <1>1, <3>1 DEF Excused
    <3>2. CASE fds >= MaxFds
      <4>1. failed > 0
        BY <1>1, <3>2, BoundsAssumption DEF WorkerInv, Descriptors
      <4>2. \A g : Excused(g) => Excused(g)'
        BY <1>1, <1>3, SameFiles
      <4> QED
        BY <4>1, <4>2 DEF CauseInv, Causes
    <3> QED
      BY <1>3, <3>1, <3>2
  <2> QED
    BY <1>1, <1>3, <2>1, FailCauses
<1> QED
  BY <1>2, <1>3 DEF OpenTarget, Hit, Missed, counters

LEMMA CopyBlockCauses == WorkerInv /\ CauseInv /\ CopyBlock => CauseInv'
<1> SUFFICES ASSUME WorkerInv, CauseInv, CopyBlock PROVE CauseInv'
  OBVIOUS
<1>1. UNCHANGED <<src, job, unread, cur, touched>> /\ pc = "copy" /\ Copying /\ hit \subseteq hit' /\ cur \in Files
  BY DEF WorkerInv, Phases, CopyBlock, Copying, Hit, Missed
<1>2. CASE tar' = [tar EXCEPT ![cur] = Append(@, Reading[pos + 1])] /\ UNCHANGED <<pc, hit, done, failed>>
  <2>1. DOMAIN tar' = DOMAIN tar /\ \A g \in DOMAIN tar' : g # cur => tar'[g] = tar[g]
    BY <1>2
  <2> QED
    BY <1>1, <1>2, <2>1, TargetCauses
<1>3. CASE CopyFails /\ Hit /\ tar' = tar
  <2>1. cur \in hit'
    BY <1>3 DEF Hit
  <2>2. \E f \in Files : Excused(f)'
    BY <1>1, <2>1 DEF Excused
  <2> QED
    BY <1>1, <1>3, <2>1, <2>2, FailCauses
<1> QED
  BY <1>2, <1>3 DEF CopyBlock, Missed, counters

LEMMA EndOfFileCauses == WorkerInv /\ CauseInv /\ EndOfFile => CauseInv'
<1> SUFFICES ASSUME WorkerInv, CauseInv, EndOfFile PROVE CauseInv'
  OBVIOUS
<1>1. /\ UNCHANGED <<src, tar, job, unread, cur, touched, hit>> /\ pc = "copy" /\ Copying /\ pos >= Len(Reading)
      /\ cur \in Files /\ cur \in DOMAIN tar /\ done \in Nat /\ failed \in Nat
  BY DEF WorkerInv, WorkerTypes, Phases, EndOfFile, Copying, history
<1>2. cur \notin touched => Same(cur) /\ linked /\ cur \in DOMAIN src
  BY <1>1, CopiedSame DEF WorkerInv, WorkerTypes, Following
<1>3. CASE done' = done + 1 /\ pc' = (IF job.op = "FULL" THEN "next" ELSE "report") /\ failed' = failed
  <2>1. /\ \A g : Same(g)' <=> Same(g)
        /\ \A g : Excused(g) => Excused(g)'
        /\ \A g : Ahead(g)' => Ahead(g)
    BY <1>1, <1>3, SameFiles DEF Ahead, Copying
  <2>2. Causes'
    BY <1>1, <1>3, <2>1 DEF CauseInv, Causes, Working, Copying
  <2>3. cur \notin touched => ~Ahead(cur)'
    BY <1>1, <1>3 DEF CauseInv, Copied, Ahead, Copying
  <2>4. Copied'
    BY <1>1, <1>2, <1>3, <2>1, <2>3 DEF Copied, Copying
  <2> QED
    BY <2>2, <2>4 DEF CauseInv
<1>4. CASE ~written /\ CopyFails
  <2>1. cur \notin touched => src[cur] = <<>>
    <3> SUFFICES ASSUME cur \notin touched PROVE src[cur] = <<>>
      OBVIOUS
    <3>1. Reading = src[cur] /\ pos = 0
      <4>1. pos \in Nat /\ (written <=> pos > 0)
        BY <1>1, Longest DEF WorkerInv, WorkerTypes, Phases
      <4> QED
        BY <1>2, <1>4, <4>1 DEF Reading
    <3>2. Reading \in Seq(Blocks) /\ Len(Reading) = 0
      BY <1>1, <3>1, ReadingType
    <3> QED
      BY <3>1, <3>2, EmptySeq
  <2>2. \E f \in Files : Excused(f)'
    BY <1>1, <1>2, <2>1 DEF Excused
  <2> QED
    BY <1>1, <1>4, <2>1, <2>2, FailCauses
<1> QED
  BY <1>3, <1>4 DEF EndOfFile

LEMMA UnlinkCauses == WorkerInv /\ CauseInv /\ Unlink => CauseInv'
<1> SUFFICES ASSUME WorkerInv, CauseInv, Unlink PROVE CauseInv'
  OBVIOUS
<1>1. /\ UNCHANGED <<src, job, unread, cur, touched>> /\ hit \subseteq hit' /\ failed' = failed
      /\ pc = "unlink" /\ job.op = "DELETED" /\ cur = job.file /\ cur \in Names /\ failed = 0
      /\ \/ pc' = "report" /\ hit' = hit
         \/ pc' = "error" /\ tar' = tar /\ (cur \in hit' \/ cur \notin DOMAIN tar)
  BY DEF WorkerInv, WorkerTypes, Phases, Unlink, GiveUp, Hit, Missed, Copying, copying, counters
<1>2. Causes'
  BY <1>1 DEF CauseInv, Causes, Working, Copying, Missing, Excused
<1>3. Copied'
  BY <1>1 DEF Copied, Copying
<1> QED
  BY <1>2, <1>3 DEF CauseInv

LEMMA OffCauses ==
  ASSUME CauseInv, UNCHANGED <<src, tar, job, unread, copying, text, counters, touched, hit>>,
         pc' = pc \/ pc' \in {"message", "trailer", "exited", "freed"}
  PROVE  CauseInv'
<1>1. UNCHANGED <<src, tar, job, unread, cur, done, failed, touched, hit>>
  BY DEF copying, counters
<1>2. (\A g : Same(g)' <=> Same(g)) /\ (\A g : Excused(g) => Excused(g)') /\ (Missing' <=> Missing) /\ (\A g : Ahead(g)' => Ahead(g))
  BY <1>1, SameFiles DEF Ahead, Copying
<1>3. Causes'
  BY <1>1, <1>2 DEF CauseInv, Causes, Working, Copying
<1>4. Copied'
  <2>1. job.op = "FULL" /\ done > 0 => \E g \in DOMAIN tar : g \notin touched => g \in DOMAIN src /\ Same(g)' /\ ~Ahead(g)'
    BY <1>2 DEF CauseInv, Copied
  <2> QED
    BY <1>1, <1>2, <2>1 DEF CauseInv, Copied, Working, Copying
<1> QED
  BY <1>3, <1>4 DEF CauseInv

-----------------------------------------------------------------------------
(* The manager's half of the inductive invariant: the pipe holds what the  *)
(* worker has written of its report and the manager has not read.          *)
Results == {"SUCCESS", "PARTIAL", "ERROR"}

Line(r, k) ==
  CASE k = 1 -> <<"EXEC_REPORT_START">> [] k = 2 -> <<"STATUS", r>> [] k = 3 -> <<"DETAILS">>
    [] k = 4 /\ r # "SUCCESS" -> <<"ERRORS">> [] k = 5 -> <<"FILE", text>> [] OTHER -> <<"EXEC_REPORT_END">>
Rest == <<"REST">>
Lines(r) == {Line(r, k) : k \in 1 .. 6} \cup {Rest}

\* The lines n + 1 to w of the report with the result r are in the pipe.
Holding(r, n, w) ==
  pipe \in Seq(Lines(r)) /\ Len(pipe) = w - n /\ \A i \in 1 .. w - n : pipe[i] = Line(r, n + i)

\* The rest of the error line that was too long, then the lines 6 to w.
HoldingRest(r, w) ==
  pipe \in Seq(Lines(r)) /\ Len(pipe) = w - 4 /\ pipe[1] = Rest /\ \A i \in 2 .. w - 4 : pipe[i] = Line(r, 4 + i)

\* The first w lines have been written.
Wrote(r, w) ==
  \/ pc = "message" /\ ~killed /\ w = 4 /\ r # "SUCCESS"
  \/ pc = "trailer" /\ ~killed /\ w = 5 /\ r # "SUCCESS"
  \/ pc = "exited" /\ ~killed /\ w = IF r = "SUCCESS" THEN 4 ELSE 6
  \/ pc = "exited" /\ killed /\ w \in {4, 5} /\ r # "SUCCESS"

\* Where the manager is, once it has read n lines.
ReadUpTo(r, n) ==
  \/ n = 0 /\ mpc = "poll" /\ status = "none"
  \/ n = 1 /\ mpc = "status" /\ status = "none"
  \/ n = 2 /\ mpc = "details" /\ status = r
  \/ n = 3 /\ mpc = "next" /\ status = r
  \/ n = 4 /\ mpc = "error" /\ status = r /\ r # "SUCCESS"

InOrder(r, w) == \E n \in 0 .. 4 : n <= w /\ ReadUpTo(r, n) /\ Holding(r, n, w) /\ count = 0
Counting(r, w) ==
  /\ mpc = "more" /\ status = r /\ r # "SUCCESS" /\ w >= 5
  /\ \/ Holding(r, 5, w) /\ count \in 1 .. 2
     \/ HoldingRest(r, w) /\ count = 1
Spinning(r) == mpc = "spins" /\ status = r /\ r # "SUCCESS" /\ killed /\ pipe = <<>> /\ count \in 0 .. 2

Silent ==
  /\ pc \notin {"message", "trailer", "freed"} /\ (pc = "exited" <=> killed)
  /\ mpc = "poll" /\ pipe = <<>> /\ status = "none" /\ count = 0 /\ errors = 0
Reporting(r, w) ==
  /\ Truthful(r) /\ Wrote(r, w) /\ errors = 0
  /\ InOrder(r, w) \/ Counting(r, w) \/ Spinning(r)
Freed ==
  /\ pc = "freed" /\ mpc = "poll" /\ pipe = <<>> /\ status \in Results /\ Truthful(status) /\ count \in 0 .. 2

Protocol == Silent \/ (\E r \in Results, w \in 4 .. 6 : Reporting(r, w)) \/ Freed

IInv == WorkerInv /\ CauseInv /\ Protocol

LEMMA Joined ==
  ASSUME NEW S, NEW s \in Seq(S), NEW t \in Seq(S)
  PROVE  /\ s \o t \in Seq(S) /\ Len(s \o t) = Len(s) + Len(t)
         /\ \A i \in 1 .. Len(s) : (s \o t)[i] = s[i]
         /\ \A i \in 1 .. Len(t) : (s \o t)[Len(s) + i] = t[i]
<1>1. /\ s \o t \in Seq(S) /\ Len(s \o t) = Len(s) + Len(t)
      /\ \A i \in 1 .. Len(s) + Len(t) : (s \o t)[i] = IF i <= Len(s) THEN s[i] ELSE t[i - Len(s)]
  BY ConcatProperties
<1>2. Len(s) \in Nat /\ Len(t) \in Nat
  OBVIOUS
<1> QED
  BY <1>1, <1>2

LEMMA LinesDiffer ==
  ASSUME NEW r \in Results
  PROVE  /\ Line(r, 1) = <<"EXEC_REPORT_START">> /\ Line(r, 2) = <<"STATUS", r>> /\ Line(r, 3) = <<"DETAILS">>
         /\ Line(r, 4) = IF r = "SUCCESS" THEN <<"EXEC_REPORT_END">> ELSE <<"ERRORS">>
         /\ Line(r, 5) = <<"FILE", text>> /\ Line(r, 6) = <<"EXEC_REPORT_END">>
         /\ \A k \in 1 .. 6 : Line(r, k) \in Lines(r)
         /\ <<"EXEC_REPORT_END">> # <<"ERRORS">> /\ Rest # <<"EXEC_REPORT_END">>
BY DEF Line, Lines, Rest

(* What a report begins with, and the one write of a success.              *)
LEMMA HeaderLines ==
  ASSUME NEW r \in Results
  PROVE  /\ Header(r) \in Seq(Lines(r)) /\ Len(Header(r)) = 3
         /\ \A k \in 1 .. 3 : Header(r)[k] = Line(r, k)
<1>1. /\ Header(r) = <<Line(r, 1), Line(r, 2), Line(r, 3)>>
      /\ Line(r, 1) \in Lines(r) /\ Line(r, 2) \in Lines(r) /\ Line(r, 3) \in Lines(r)
  BY LinesDiffer DEF Header
<1> QED
  BY <1>1

LEMMA FirstLines ==
  ASSUME NEW r \in Results, pipe' = <<>> \o (Header(r) \o <<Line(r, 4)>>), text' = text
  PROVE  Holding(r, 0, 4)'
<1>1. <<Line(r, 4)>> \in Seq(Lines(r)) /\ Len(<<Line(r, 4)>>) = 1 /\ <<Line(r, 4)>>[1] = Line(r, 4)
  BY LinesDiffer
<1>2. Header(r) \o <<Line(r, 4)>> \in Seq(Lines(r))
  BY <1>1, HeaderLines, Joined
<1>3. pipe' = Header(r) \o <<Line(r, 4)>>
  BY <1>2, ConcatEmptySeq
<1>4. Len(pipe') = 4 /\ pipe'[4] = Line(r, 4) /\ \A k \in 1 .. 3 : pipe'[k] = Line(r, k)
  BY <1>1, <1>3, HeaderLines, Joined
<1>5. \A k \in 1 .. 4 : pipe'[k] = Line(r, k)
  BY <1>4
<1>6. Lines(r)' = Lines(r) /\ \A k \in 1 .. 4 : Line(r, k)' = Line(r, k)
  BY DEF Lines, Line, Rest
<1> QED
  BY <1>2, <1>3, <1>4, <1>5, <1>6 DEF Holding

(* One more line is written, and one is read.                              *)
LEMMA WriteLine ==
  ASSUME NEW r \in Results, NEW w \in 4 .. 5, pipe' = pipe \o <<Line(r, w + 1)>>, text' = text
  PROVE  /\ \A n \in 0 .. w : Holding(r, n, w) => Holding(r, n, w + 1)'
         /\ w = 5 /\ HoldingRest(r, w) => HoldingRest(r, w + 1)'
<1>1. Lines(r)' = Lines(r) /\ \A k \in 1 .. 6 : Line(r, k)' = Line(r, k)
  BY DEF Lines, Line, Rest
<1>2. /\ <<Line(r, w + 1)>> \in Seq(Lines(r)) /\ Len(<<Line(r, w + 1)>>) = 1
      /\ <<Line(r, w + 1)>>[1] = Line(r, w + 1)
  <2>1. w + 1 \in 1 .. 6
    OBVIOUS
  <2>2. Line(r, w + 1) \in Lines(r)
    BY <2>1, LinesDiffer
  <2> QED
    BY <2>2
<1>3. ASSUME pipe \in Seq(Lines(r))
      PROVE  /\ pipe' \in Seq(Lines(r)) /\ Len(pipe') = Len(pipe) + 1
             /\ \A i \in 1 .. Len(pipe) : pipe'[i] = pipe[i]
             /\ pipe'[Len(pipe) + 1] = Line(r, w + 1)
  <2>1. 1 \in 1 .. Len(<<Line(r, w + 1)>>)
    BY <1>2
  <2> QED
    BY <1>2, <1>3, <2>1, Joined
<1>4. ASSUME NEW n \in 0 .. w, Holding(r, n, w) PROVE Holding(r, n, w + 1)'
  <2>1. pipe \in Seq(Lines(r)) /\ Len(pipe) = w - n /\ \A i \in 1 .. w - n : pipe[i] = Line(r, n + i)
    BY <1>4 DEF Holding
  <2>2. Len(pipe') = w + 1 - n /\ pipe'[w + 1 - n] = Line(r, w + 1)
    BY <1>3, <2>1
  <2>3. \A i \in 1 .. w + 1 - n : pipe'[i] = Line(r, n + i)
    <3>1. TAKE i \in 1 .. w + 1 - n
    <3>2. CASE i = w + 1 - n
      <4>1. n + i = w + 1
        BY <3>2
      <4> QED
        BY <2>2, <3>2, <4>1
    <3>3. CASE i # w + 1 - n
      <4>1. i \in 1 .. w - n
        BY <3>3
      <4> QED
        BY <1>3, <2>1, <4>1
    <3> QED
      BY <3>2, <3>3
  <2>4. ASSUME NEW i \in 1 .. w + 1 - n PROVE pipe'[i] = Line(r, n + i)'
    <3>1. n + i \in 1 .. 6
      OBVIOUS
    <3> QED
      BY <1>1, <2>3, <3>1
  <2>5. pipe' \in Seq(Lines(r)')
    BY <1>1, <1>3, <2>1
  <2> QED
    BY <2>2, <2>4, <2>5 DEF Holding
<1>5. ASSUME w = 5, HoldingRest(r, w) PROVE HoldingRest(r, w + 1)'
  <2>1. pipe \in Seq(Lines(r)) /\ Len(pipe) = 1 /\ pipe[1] = Rest
    BY <1>5 DEF HoldingRest
  <2>2. pipe' \in Seq(Lines(r)) /\ Len(pipe') = 2 /\ pipe'[1] = Rest /\ pipe'[2] = Line(r, 6)
    BY <1>3, <1>5, <2>1
  <2> QED
    BY <1>1, <1>5, <2>2 DEF HoldingRest, Rest
<1> QED
  BY <1>4, <1>5

LEMMA ReadLine ==
  ASSUME NEW r \in Results, NEW n \in 0 .. 5, NEW w \in 4 .. 6, Holding(r, n, w), pipe # <<>>, pipe' = Tail(pipe), text' = text
  PROVE  n < w /\ Head(pipe) = Line(r, n + 1) /\ Holding(r, n + 1, w)'
<1>1. pipe \in Seq(Lines(r)) /\ Len(pipe) = w - n /\ \A i \in 1 .. w - n : pipe[i] = Line(r, n + i)
  BY DEF Holding
<1>2. n < w /\ Head(pipe) = pipe[1]
  BY <1>1, EmptySeq
<1>3. /\ pipe' \in Seq(Lines(r)) /\ Len(pipe') = w - (n + 1)
      /\ \A i \in 1 .. w - (n + 1) : pipe'[i] = pipe[i + 1]
  BY <1>1, HeadTailProperties
<1>4. \A i \in 1 .. w - (n + 1) : pipe'[i] = Line(r, n + 1 + i)
  <2>1. TAKE i \in 1 .. w - (n + 1)
  <2>2. i + 1 \in 1 .. w - n /\ n + (i + 1) = n + 1 + i
    OBVIOUS
  <2> QED
    BY <1>1, <1>3, <2>2
<1>5. Lines(r)' = Lines(r) /\ \A k \in 1 .. 6 : Line(r, k)' = Line(r, k)
  BY DEF Lines, Line, Rest
<1>6. \A i \in 1 .. w - (n + 1) : n + 1 + i \in 1 .. 6
  OBVIOUS
<1>7. Head(pipe) = Line(r, n + 1)
  BY <1>1, <1>2
<1> QED
  BY <1>2, <1>3, <1>4, <1>5, <1>6, <1>7 DEF Holding

LEMMA SameLines ==
  ASSUME pipe' = pipe, text' = text, NEW r, NEW n, NEW w
  PROVE  (Holding(r, n, w)' <=> Holding(r, n, w)) /\ (HoldingRest(r, w)' <=> HoldingRest(r, w))
<1>1. Lines(r)' = Lines(r) /\ \A k : Line(r, k)' = Line(r, k)
  BY DEF Lines, Line, Rest
<1> QED
  BY <1>1 DEF Holding, HoldingRest, Rest

LEMMA SamePlace ==
  ASSUME pipe' = pipe, text' = text, UNCHANGED manager, killed => killed', NEW r, NEW w
  PROVE  /\ InOrder(r, w) => InOrder(r, w)'
         /\ Counting(r, w) => Counting(r, w)'
         /\ Spinning(r) => Spinning(r)'
<1>1. UNCHANGED <<mpc, status, count, errors>>
  BY DEF manager
<1>2. ASSUME InOrder(r, w) PROVE InOrder(r, w)'
  <2>1. PICK n \in 0 .. 4 : n <= w /\ ReadUpTo(r, n) /\ Holding(r, n, w) /\ count = 0
    BY <1>2 DEF InOrder
  <2>2. ReadUpTo(r, n)' /\ Holding(r, n, w)'
    BY <1>1, <2>1, SameLines DEF ReadUpTo
  <2> QED
    BY <1>1, <2>1, <2>2 DEF InOrder
<1>3. Counting(r, w) => Counting(r, w)'
  BY <1>1, SameLines DEF Counting
<1>4. Spinning(r) => Spinning(r)'
  BY <1>1 DEF Spinning
<1> QED
  BY <1>2, <1>3, <1>4

LEMMA SameTruth ==
  ASSUME UNCHANGED <<src, tar, job, touched, hit>>, NEW r
  PROVE  Truthful(r)' <=> Truthful(r)
<1>1. (\A g : Same(g)' <=> Same(g)) /\ Scope' = Scope
  BY DEF Same, Scope
<1>2. (Brought' <=> Brought) /\ (SomeCopied' <=> SomeCopied) /\ (NoneCopied' <=> NoneCopied)
  BY <1>1 DEF Brought, SomeCopied, NoneCopied
<1>3. (\A g : Excused(g)' <=> Excused(g)) /\ (Missing' <=> Missing)
  BY DEF Excused, Missing
<1> QED
  BY <1>2, <1>3 DEF Truthful

(* A user's change never makes a result untrue.                            *)
LEMMA UserTruth ==
  ASSUME NEW f \in Files, WriteSource(f) \/ RemoveSource(f), NEW r, Truthful(r)
  PROVE  Truthful(r)'
<1>1. UNCHANGED <<tar, job, hit>> /\ f \in Names
  BY UserShape DEF Names
<1>2. /\ \A g : Excused(g) => Excused(g)'
      /\ \A g : g \notin touched' => /\ g \notin touched /\ (g \in DOMAIN src' <=> g \in DOMAIN src)
                                    /\ (g \in DOMAIN src => src'[g] = src[g])
                                    /\ (g \in unread' => g \in unread)
      /\ Missing => Missing' \/ Excused(f)'
  BY UserKeepsReasons
<1>3. \A g : g \notin touched' /\ g \in DOMAIN src => (Same(g)' <=> Same(g))
  BY <1>1, <1>2 DEF Same
<1>4. \A g \in Scope' : g \notin touched' => g \in Scope /\ g \in DOMAIN src
  BY <1>1, <1>2 DEF Scope
<1>5. Brought => Brought'
  BY <1>1, <1>2, <1>3, <1>4 DEF Brought
<1>6. SomeCopied => SomeCopied'
  BY <1>1, <1>2, <1>3 DEF SomeCopied
<1>7. NoneCopied => NoneCopied'
  BY <1>1, <1>2, <1>3, <1>4 DEF NoneCopied
<1> QED
  BY <1>1, <1>2, <1>5, <1>6, <1>7 DEF Truthful

LEMMA UserProtocol ==
  ASSUME NEW f \in Files, Protocol, WriteSource(f) \/ RemoveSource(f)
  PROVE  Protocol'
<1>1. /\ UNCHANGED <<pc, pipe, text, manager, mpc, status, count, errors, killed>> /\ pc # "freed"
  BY DEF WriteSource, RemoveSource, Changed, manager
<1>2. CASE Silent
  BY <1>1, <1>2 DEF Protocol, Silent
<1>3. ASSUME NEW r \in Results, NEW w \in 4 .. 6, Reporting(r, w) PROVE Reporting(r, w)'
  <2>1. Truthful(r)'
    BY <1>3, UserTruth DEF Reporting
  <2>2. Wrote(r, w)'
    BY <1>1, <1>3 DEF Reporting, Wrote
  <2>3. (InOrder(r, w) \/ Counting(r, w) \/ Spinning(r))'
    BY <1>1, <1>3, SamePlace DEF Reporting
  <2> QED
    BY <1>1, <1>3, <2>1, <2>2, <2>3 DEF Reporting
<1> QED
  BY <1>1, <1>2, <1>3 DEF Protocol, Freed

(* The worker at work writes nothing.                                      *)
LEMMA WorkProtocol ==
  ASSUME Protocol, pc \notin {"message", "trailer", "exited", "freed"}, pc' \notin {"message", "trailer", "exited", "freed"},
         UNCHANGED <<pipe, manager, killed>>
  PROVE  Protocol'
<1>1. Silent
  BY DEF Protocol, Freed, Reporting, Wrote
<1> QED
  BY <1>1 DEF Protocol, Silent, manager

(* The results that the worker reports are true.                           *)
LEMMA OutcomeTrue ==
  ASSUME WorkerInv, CauseInv, pc = "report"
  PROVE  Outcome \in Results /\ Truthful(Outcome)
<1>1. done \in Nat /\ failed \in Nat
  BY DEF WorkerInv, WorkerTypes
<1>2. ASSUME failed = 0 PROVE Brought
  <2>1. CASE job.op = "FULL"
    <3>1. \A f \in DOMAIN src \ touched : Same(f)
      BY <1>2, <2>1 DEF WorkerInv, Phases, Progress, Behind, Copying
    <3>2. Scope = DOMAIN src
      BY <2>1 DEF Scope, Copies
    <3> QED
      BY <2>1, <3>1, <3>2 DEF Brought
  <2>2. CASE job.op # "FULL"
    BY <2>2 DEF WorkerInv, SingleDone
  <2> QED
    BY <2>1, <2>2
<1>3. failed = 0 => hit = {}
  BY DEF CauseInv, Causes, Working
<1>4. failed > 0 => job.op = "FULL" /\ (\E f \in Files : Excused(f)) /\ Scope = DOMAIN src
  BY DEF WorkerInv, Phases, CauseInv, Causes, Scope, Copies
<1>5. ASSUME failed > 0, done > 0 PROVE SomeCopied
  BY <1>4, <1>5 DEF CauseInv, Copied, SomeCopied
<1>6. ASSUME failed > 0, done = 0 PROVE NoneCopied
  BY <1>4, <1>6 DEF CauseInv, Copied, NoneCopied, Working
<1> QED
  BY <1>1, <1>2, <1>3, <1>4, <1>5, <1>6 DEF Outcome, Truthful, Results, Names

LEMMA ReportSuccessKeeps == WorkerInv /\ CauseInv /\ Protocol /\ ReportSuccess => Protocol'
<1> SUFFICES ASSUME WorkerInv, CauseInv, Protocol, ReportSuccess PROVE Protocol'
  OBVIOUS
<1>1. /\ pc = "report" /\ pc' = "exited" /\ Outcome = "SUCCESS" /\ pipe' = pipe \o (Header("SUCCESS") \o Trailer)
      /\ UNCHANGED <<src, tar, job, text, counters, touched, hit, killed, mpc, status, count, errors>>
  BY DEF ReportSuccess, Writes, manager, history
<1>2. Silent
  BY <1>1 DEF Protocol, Freed, Reporting, Wrote
<1>3. Trailer = <<Line("SUCCESS", 4)>> /\ "SUCCESS" \in Results
  BY LinesDiffer DEF Trailer, Results
<1>4. Holding("SUCCESS", 0, 4)'
  BY <1>1, <1>2, <1>3, FirstLines DEF Silent
<1>5. InOrder("SUCCESS", 4)'
  <2>1. ReadUpTo("SUCCESS", 0)' /\ count' = 0
    BY <1>1, <1>2 DEF Silent, ReadUpTo
  <2> QED
    BY <1>4, <2>1 DEF InOrder
<1>6. Truthful("SUCCESS")
  BY <1>1, OutcomeTrue
<1>7. Truthful("SUCCESS")' /\ Wrote("SUCCESS", 4)' /\ errors' = 0
  BY <1>1, <1>2, <1>6, SameTruth DEF Wrote, Silent
<1> QED
  BY <1>3, <1>5, <1>7 DEF Protocol, Reporting

LEMMA ReportErrorsKeeps == WorkerInv /\ CauseInv /\ Protocol /\ ReportErrors => Protocol'
<1> SUFFICES ASSUME WorkerInv, CauseInv, Protocol, ReportErrors PROVE Protocol'
  OBVIOUS
<1>1. /\ pc \in {"error", "report"} /\ (pc = "report" => Outcome # "SUCCESS")
      /\ pc' = "message" /\ pipe' = pipe \o (Header(IF pc = "error" THEN "ERROR" ELSE Outcome) \o <<<<"ERRORS">>>>)
      /\ UNCHANGED <<src, tar, job, text, counters, touched, hit, killed, mpc, status, count, errors>>
  BY DEF ReportErrors, Writes, manager, history
<1>2. Silent
  BY <1>1 DEF Protocol, Freed, Reporting, Wrote
<1>3. PICK r \in Results \ {"SUCCESS"} : r = (IF pc = "error" THEN "ERROR" ELSE Outcome) /\ Truthful(r)
  <2>1. CASE pc = "error"
    <3>1. Truthful("ERROR") /\ "ERROR" \in Results \ {"SUCCESS"}
      BY <2>1 DEF Results, Truthful, CauseInv, Causes
    <3> QED
      BY <2>1, <3>1
  <2>2. CASE pc = "report"
    BY <1>1, <2>2, OutcomeTrue
  <2> QED
    BY <1>1, <2>1, <2>2
<1>4. Line(r, 4) = <<"ERRORS">>
  BY <1>3, LinesDiffer
<1>5. Holding(r, 0, 4)'
  BY <1>1, <1>2, <1>3, <1>4, FirstLines DEF Silent
<1>6. InOrder(r, 4)'
  <2>1. ReadUpTo(r, 0)' /\ count' = 0
    BY <1>1, <1>2 DEF Silent, ReadUpTo
  <2> QED
    BY <1>5, <2>1 DEF InOrder
<1>7. Truthful(r)' /\ Wrote(r, 4)' /\ errors' = 0
  BY <1>1, <1>2, <1>3, SameTruth DEF Wrote, Silent
<1> QED
  BY <1>3, <1>6, <1>7 DEF Protocol, Reporting

(* A further line, the error or the end, joins what is in the pipe.        *)
LEMMA NextLineKeeps ==
  ASSUME WorkerInv, Protocol, WriteErrors \/ EndReport
  PROVE  Protocol'
<1>1. /\ UNCHANGED <<src, tar, job, text, touched, hit, killed, mpc, status, count, errors>>
      /\ \/ pc = "message" /\ pc' = "trailer" /\ pipe' = pipe \o <<<<"FILE", text>>>>
         \/ pc = "trailer" /\ pc' = "exited" /\ pipe' = pipe \o <<<<"EXEC_REPORT_END">>>>
  BY DEF WriteErrors, EndReport, Writes, Trailer, manager, history
<1>2. PICK r \in Results, w \in 4 .. 6 : Reporting(r, w)
  BY <1>1 DEF Protocol, Silent, Freed
<1>3. r # "SUCCESS" /\ w = IF pc = "message" THEN 4 ELSE 5
  BY <1>1, <1>2 DEF Reporting, Wrote
<1>4. w \in 4 .. 5 /\ w + 1 \in 4 .. 6 /\ pipe' = pipe \o <<Line(r, w + 1)>> /\ text' = text
  <2>1. Line(r, 5) = <<"FILE", text>> /\ Line(r, 6) = <<"EXEC_REPORT_END">>
    BY LinesDiffer
  <2>2. CASE pc = "message"
    BY <1>1, <1>3, <2>1, <2>2
  <2>3. CASE pc = "trailer"
    BY <1>1, <1>3, <2>1, <2>3
  <2> QED
    BY <1>1, <2>2, <2>3
<1>5. ~killed /\ killed' = killed
  BY <1>1, <1>2 DEF Reporting, Wrote
<1>6. Truthful(r)' /\ Wrote(r, w + 1)' /\ errors' = 0
  BY <1>1, <1>2, <1>3, <1>5, SameTruth DEF Reporting, Wrote
<1>7. /\ \A n \in 0 .. w : Holding(r, n, w) => Holding(r, n, w + 1)'
      /\ w = 5 /\ HoldingRest(r, w) => HoldingRest(r, w + 1)'
  BY <1>4, WriteLine
<1>8. ASSUME InOrder(r, w) PROVE InOrder(r, w + 1)'
  <2>1. PICK n \in 0 .. 4 : n <= w /\ ReadUpTo(r, n) /\ Holding(r, n, w) /\ count = 0
    BY <1>8 DEF InOrder
  <2>2. n <= w + 1 /\ ReadUpTo(r, n)' /\ Holding(r, n, w + 1)' /\ count' = 0
    BY <1>1, <1>7, <2>1 DEF ReadUpTo
  <2> QED
    BY <2>2 DEF InOrder
<1>9. Counting(r, w) => Counting(r, w + 1)'
  BY <1>1, <1>3, <1>4, <1>7 DEF Counting
<1> QED
  BY <1>2, <1>4, <1>5, <1>6, <1>8, <1>9 DEF Protocol, Reporting, Spinning

(* A killed worker's report goes no further.                               *)
LEMMA KillProtocol == WorkerInv /\ Protocol /\ KillWorker => Protocol'
<1> SUFFICES ASSUME WorkerInv, Protocol, KillWorker PROVE Protocol'
  OBVIOUS
<1>1. /\ pc \notin {"exited", "freed"} /\ pc' = "exited" /\ killed' = TRUE
      /\ UNCHANGED <<src, tar, job, text, counters, touched, hit, pipe, manager, mpc, status, count, errors>>
  BY DEF KillWorker, manager
<1>2. CASE Silent
  BY <1>1, <1>2 DEF Protocol, Silent
<1>3. ASSUME NEW r \in Results, NEW w \in 4 .. 6, Reporting(r, w) PROVE Reporting(r, w)'
  <2>1. Truthful(r)'
    BY <1>1, <1>3, SameTruth DEF Reporting
  <2>2. Wrote(r, w)'
    BY <1>1, <1>3 DEF Reporting, Wrote
  <2>3. (InOrder(r, w) \/ Counting(r, w) \/ Spinning(r))'
    BY <1>1, <1>3, SamePlace DEF Reporting
  <2> QED
    BY <1>1, <1>3, <2>1, <2>2, <2>3 DEF Reporting
<1> QED
  BY <1>1, <1>2, <1>3 DEF Protocol, Freed

(* The manager reads a line of a report, which it never reads in another   *)
(* place than the one it was written for.                                  *)
LEMMA ReaderReports ==
  ASSUME Protocol, mpc # "poll" \/ pipe # <<>>
  PROVE  \E r \in Results, w \in 4 .. 6 : Reporting(r, w)
BY DEF Protocol, Silent, Freed

LEMMA ReadsInOrder ==
  ASSUME NEW r \in Results, NEW w \in 4 .. 6, Reporting(r, w), GetsLine, text' = text,
         NEW n \in 0 .. 3, mpc = <<"poll", "status", "details", "next">>[n + 1]
  PROVE  /\ ReadUpTo(r, n) /\ count = 0 /\ Head(pipe) = Line(r, n + 1)
         /\ n + 1 <= w /\ Holding(r, n + 1, w)'
<1>1. InOrder(r, w)
  BY DEF Reporting, Counting, Spinning
<1>2. PICK k \in 0 .. 4 : k <= w /\ ReadUpTo(r, k) /\ Holding(r, k, w) /\ count = 0
  BY <1>1 DEF InOrder
<1>3. k = n
  BY <1>2 DEF ReadUpTo
<1>4. n < w /\ Head(pipe) = Line(r, n + 1) /\ Holding(r, n + 1, w)'
  BY <1>2, <1>3, ReadLine DEF GetsLine
<1> QED
  BY <1>2, <1>3, <1>4

LEMMA GoesOn ==
  ASSUME NEW r \in Results, NEW w \in 4 .. 6, Reporting(r, w), Manages, pc' = pc, errors' = errors,
         (InOrder(r, w) \/ Counting(r, w) \/ Spinning(r))'
  PROVE  Protocol'
<1>1. UNCHANGED <<src, tar, job, text, touched, hit, killed>>
  BY DEF Manages, history
<1>2. Truthful(r)' /\ Wrote(r, w)' /\ errors' = 0
  BY <1>1, SameTruth DEF Reporting, Wrote
<1> QED
  BY <1>2 DEF Protocol, Reporting

LEMMA Frees ==
  ASSUME NEW r \in Results, NEW w \in 4 .. 6, Reporting(r, w), Manages, NEW n, Handle(n),
         status' = r, count' \in 0 .. 2, pipe' = <<>>
  PROVE  Protocol'
<1>1. UNCHANGED <<src, tar, job, text, touched, hit>>
  BY DEF Manages, history
<1>2. Truthful(r)'
  BY <1>1, SameTruth DEF Reporting
<1>3. Truthful(status)'
  BY <1>2 DEF Truthful
<1> QED
  BY <1>3 DEF Protocol, Freed, Handle

LEMMA ReadHeaderKeeps ==
  ASSUME Protocol, ReadStart \/ ReadStatus \/ ReadDetails
  PROVE  Protocol'
<1>1. GetsLine /\ Manages /\ text' = text /\ pipe # <<>> /\ UNCHANGED <<pc, errors, count>>
  BY DEF ReadStart, ReadStatus, ReadDetails, GetsLine, Manages
<1>2. PICK r \in Results, w \in 4 .. 6 : Reporting(r, w)
  BY <1>1, ReaderReports
<1>3. ASSUME NEW n \in 0 .. 2, mpc = <<"poll", "status", "details", "next">>[n + 1],
             ReadUpTo(r, n) => (Head(pipe) = Line(r, n + 1) => ReadUpTo(r, n + 1)')
      PROVE  Protocol'
  <2>1. n \in 0 .. 3 /\ n + 1 \in 0 .. 4
    OBVIOUS
  <2>2. /\ ReadUpTo(r, n) /\ count = 0 /\ Head(pipe) = Line(r, n + 1)
        /\ n + 1 <= w /\ Holding(r, n + 1, w)'
    BY <1>1, <1>2, <1>3, <2>1, ReadsInOrder
  <2>3. InOrder(r, w)'
    BY <1>1, <1>3, <2>1, <2>2 DEF InOrder
  <2> QED
    BY <1>1, <1>2, <2>3, GoesOn
<1>4. CASE ReadStart
  <2>1. mpc = <<"poll", "status", "details", "next">>[0 + 1] /\ (ReadUpTo(r, 0) => ReadUpTo(r, 0 + 1)')
    BY <1>4 DEF ReadStart, ReadUpTo
  <2> QED
    BY <1>3, <2>1
<1>5. CASE ReadStatus
  <2>1. Line(r, 2)[2] = r
    BY LinesDiffer
  <2>2. /\ mpc = <<"poll", "status", "details", "next">>[1 + 1]
        /\ ReadUpTo(r, 1) => (Head(pipe) = Line(r, 1 + 1) => ReadUpTo(r, 1 + 1)')
    BY <1>5, <2>1 DEF ReadStatus, ReadUpTo
  <2> QED
    BY <1>3, <2>2
<1>6. CASE ReadDetails
  <2>1. mpc = <<"poll", "status", "details", "next">>[2 + 1] /\ (ReadUpTo(r, 2) => ReadUpTo(r, 2 + 1)')
    BY <1>6 DEF ReadDetails, ReadUpTo
  <2> QED
    BY <1>3, <2>1
<1> QED
  BY <1>4, <1>5, <1>6

LEMMA NoLinesLeft ==
  ASSUME NEW r \in Results, NEW n \in 0 .. 6, Holding(r, n, n)'
  PROVE  pipe' = <<>>
BY EmptySeq DEF Holding

LEMMA ReadNextKeeps == Protocol /\ ReadNext => Protocol'
<1> SUFFICES ASSUME Protocol, ReadNext PROVE Protocol'
  OBVIOUS
<1>1. GetsLine /\ Manages /\ text' = text /\ pipe # <<>> /\ UNCHANGED <<status, count>> /\ mpc = "next"
  BY DEF ReadNext, GetsLine, Manages
<1>2. PICK r \in Results, w \in 4 .. 6 : Reporting(r, w)
  BY <1>1, ReaderReports
<1>3. /\ ReadUpTo(r, 3) /\ count = 0 /\ Head(pipe) = Line(r, 4) /\ Holding(r, 4, w)'
  <2>1. mpc = <<"poll", "status", "details", "next">>[3 + 1]
    BY <1>1
  <2> QED
    BY <1>1, <1>2, <2>1, ReadsInOrder
<1>4. status' = r
  BY <1>1, <1>3 DEF ReadUpTo
<1>5. CASE r = "SUCCESS"
  <2>1. Handle(0) /\ w = 4
    BY <1>2, <1>3, <1>5, LinesDiffer DEF ReadNext, Reporting, Wrote
  <2>2. pipe' = <<>>
    BY <1>3, <2>1, NoLinesLeft
  <2> QED
    BY <1>1, <1>2, <1>3, <1>4, <2>1, <2>2, Frees
<1>6. CASE r # "SUCCESS"
  <2>1. mpc' = "error" /\ UNCHANGED <<pc, errors>>
    BY <1>3, <1>6, LinesDiffer DEF ReadNext
  <2>2. ReadUpTo(r, 4)' /\ count' = 0
    BY <1>1, <1>3, <1>4, <1>6, <2>1 DEF ReadUpTo
  <2>3. InOrder(r, w)'
    BY <1>3, <2>2 DEF InOrder
  <2> QED
    BY <1>1, <1>2, <2>1, <2>3, GoesOn
<1> QED
  BY <1>5, <1>6

LEMMA ReadErrorKeeps == Protocol /\ ReadError => Protocol'
<1> SUFFICES ASSUME Protocol, ReadError PROVE Protocol'
  OBVIOUS
<1>1. Manages /\ text' = text /\ pipe # <<>> /\ UNCHANGED <<pc, errors, status>> /\ mpc = "error" /\ mpc' = "more" /\ count' = 1
  BY DEF ReadError, Manages, FirstCounted
<1>2. PICK r \in Results, w \in 4 .. 6 : Reporting(r, w)
  BY <1>1, ReaderReports
<1>3. InOrder(r, w)
  BY <1>1, <1>2 DEF Reporting, Counting, Spinning
<1>4. status = r /\ r # "SUCCESS" /\ Holding(r, 4, w)
  BY <1>1, <1>3 DEF InOrder, ReadUpTo
<1>5. pipe \in Seq(Lines(r)) /\ Len(pipe) = w - 4 /\ \A i \in 1 .. w - 4 : pipe[i] = Line(r, 4 + i)
  BY <1>4 DEF Holding
<1>6. /\ Tail(pipe) \in Seq(Lines(r)) /\ Len(Tail(pipe)) = w - 5 /\ w >= 5
      /\ \A i \in 1 .. w - 5 : Tail(pipe)[i] = pipe[i + 1]
  BY <1>1, <1>5, HeadTailProperties, EmptySeq
<1>7. CASE pipe' = Tail(pipe)
  <2>1. Holding(r, 4 + 1, w)'
    BY <1>1, <1>4, <1>7, ReadLine
  <2> QED
    BY <1>1, <1>2, <1>4, <1>6, <2>1, GoesOn DEF Counting
<1>8. CASE pipe' = <<Rest>> \o Tail(pipe)
  <2>1. <<Rest>> \in Seq(Lines(r)) /\ Len(<<Rest>>) = 1 /\ <<Rest>>[1] = Rest
    BY DEF Lines
  <2>2. /\ pipe' \in Seq(Lines(r)) /\ Len(pipe') = w - 4 /\ pipe'[1] = Rest
        /\ \A i \in 1 .. w - 5 : pipe'[1 + i] = pipe[i + 1]
    BY <1>6, <1>8, <2>1, Joined
  <2>3. \A i \in 2 .. w - 4 : pipe'[i] = Line(r, 4 + i)
    <3>1. TAKE i \in 2 .. w - 4
    <3>2. i - 1 \in 1 .. w - 5 /\ 1 + (i - 1) = i /\ (i - 1) + 1 = i /\ i \in 1 .. w - 4
      OBVIOUS
    <3>3. pipe'[i] = pipe[i]
      BY <2>2, <3>2
    <3> QED
      BY <1>5, <3>2, <3>3
  <2>4. Lines(r)' = Lines(r) /\ Rest' = Rest /\ \A k \in 1 .. 6 : Line(r, k)' = Line(r, k)
    BY <1>1 DEF Lines, Line, Rest
  <2>5. ASSUME NEW i \in 2 .. w - 4 PROVE pipe'[i] = Line(r, 4 + i)'
    <3>1. 4 + i \in 1 .. 6
      OBVIOUS
    <3> QED
      BY <2>3, <2>4, <3>1
  <2>6. HoldingRest(r, w)'
    BY <2>2, <2>4, <2>5 DEF HoldingRest
  <2> QED
    BY <1>1, <1>2, <1>4, <1>6, <2>6, GoesOn DEF Counting
<1> QED
  BY <1>7, <1>8 DEF ReadError, Rest

LEMMA ReadMoreKeeps == Protocol /\ ReadMore => Protocol'
<1> SUFFICES ASSUME Protocol, ReadMore PROVE Protocol'
  OBVIOUS
<1>1. Manages /\ text' = text /\ pipe # <<>> /\ pipe' = Tail(pipe) /\ status' = status /\ mpc = "more"
  BY DEF ReadMore, GetsLine, Manages
<1>2. PICK r \in Results, w \in 4 .. 6 : Reporting(r, w)
  BY <1>1, ReaderReports
<1>3. Counting(r, w)
  BY <1>1, <1>2 DEF Reporting, InOrder, ReadUpTo, Spinning
<1>4. CASE Holding(r, 5, w) /\ count \in 1 .. 2
  <2>1. 5 < w /\ Head(pipe) = Line(r, 5 + 1) /\ Holding(r, 5 + 1, w)'
    BY <1>1, <1>4, ReadLine
  <2>2. w = 6 /\ Handle(count) /\ count' = count
    BY <2>1, LinesDiffer DEF ReadMore
  <2>3. pipe' = <<>>
    BY <2>1, <2>2, NoLinesLeft
  <2> QED
    BY <1>1, <1>2, <1>3, <1>4, <2>2, <2>3, Frees DEF Counting
<1>5. CASE HoldingRest(r, w) /\ count = 1
  <2>1. /\ pipe \in Seq(Lines(r)) /\ Len(pipe) = w - 4 /\ pipe[1] = Rest /\ w >= 5
        /\ \A i \in 2 .. w - 4 : pipe[i] = Line(r, 4 + i)
    BY <1>3, <1>5 DEF HoldingRest, Counting
  <2>2. count' = 2 /\ UNCHANGED <<pc, mpc, errors>>
    BY <1>1, <1>5, <2>1, LinesDiffer DEF ReadMore
  <2>3. /\ pipe' \in Seq(Lines(r)) /\ Len(pipe') = w - 5
        /\ \A i \in 1 .. w - 5 : pipe'[i] = pipe[i + 1]
    BY <1>1, <2>1, HeadTailProperties
  <2>4. Lines(r)' = Lines(r) /\ \A k \in 1 .. 6 : Line(r, k)' = Line(r, k)
    BY <1>1 DEF Lines, Line, Rest
  <2>5. ASSUME NEW i \in 1 .. w - 5 PROVE pipe'[i] = Line(r, 5 + i)'
    <3>1. i + 1 \in 2 .. w - 4 /\ 4 + (i + 1) = 5 + i /\ 5 + i \in 1 .. 6
      OBVIOUS
    <3> QED
      BY <2>1, <2>3, <2>4, <3>1
  <2>6. Holding(r, 5, w)'
    BY <2>3, <2>4, <2>5 DEF Holding
  <2> QED
    BY <1>1, <1>2, <1>3, <2>2, <2>6, GoesOn DEF Counting
<1> QED
  BY <1>3, <1>4, <1>5 DEF Counting

LEMMA ReadsEndKeeps == Protocol /\ ReadsEnd => Protocol'
<1> SUFFICES ASSUME Protocol, ReadsEnd PROVE Protocol'
  OBVIOUS
<1>1. /\ Manages /\ mpc \in {"error", "more"} /\ mpc' = "spins" /\ pc = "exited"
      /\ pipe = <<>> /\ UNCHANGED <<pipe, pc, status, count, errors, killed>>
  BY DEF ReadsEnd, Manages, history
<1>2. PICK r \in Results, w \in 4 .. 6 : Reporting(r, w)
  BY <1>1, ReaderReports
<1>3. status = r /\ r # "SUCCESS" /\ count \in 0 .. 2 /\ w < 6
  <2>1. Len(pipe) = 0
    BY <1>1
  <2>2. CASE InOrder(r, w)
    BY <1>1, <2>1, <2>2 DEF InOrder, ReadUpTo, Holding
  <2>3. CASE Counting(r, w)
    BY <2>1, <2>3 DEF Counting, Holding, HoldingRest
  <2>4. ~Spinning(r)
    BY <1>1 DEF Spinning
  <2> QED
    BY <1>2, <2>2, <2>3, <2>4 DEF Reporting
<1>4. killed
  BY <1>1, <1>2, <1>3 DEF Reporting, Wrote
<1> QED
  BY <1>1, <1>2, <1>3, <1>4, GoesOn DEF Spinning

-----------------------------------------------------------------------------
(* The invariant.                                                          *)
LEMMA InitInv == Init => IInv
<1>1. Init => pc \notin {"message", "trailer", "exited", "freed"}
  BY JobShape DEF Init, StartOf, Copies
<1>2. Init => Silent
  BY <1>1 DEF Init, Silent
<1> QED
  BY <1>2, WorkerInit, CauseInit DEF IInv, Protocol

LEMMA ReportStepKeeps ==
  ASSUME IInv, ReportSuccess \/ ReportErrors \/ WriteErrors \/ EndReport
  PROVE  IInv'
<1>1. pc \in {"report", "error", "message", "trailer"} /\ pc' \in {"message", "trailer", "exited"}
  BY DEF ReportSuccess, ReportErrors, WriteErrors, EndReport
<1>2. UNCHANGED <<src, tar, job, unread, copying, fds, text, counters, touched, hit, killed, changes>>
  BY DEF ReportSuccess, ReportErrors, WriteErrors, EndReport, Writes, history, bounds
<1>3. ~linked /\ killed' \in BOOLEAN
  BY <1>1, <1>2 DEF IInv, WorkerInv, Phases, WorkerTypes
<1>4. WorkerInv'
  BY <1>1, <1>2, <1>3, OffKeeps DEF IInv
<1>5. Protocol'
  BY ReportSuccessKeeps, ReportErrorsKeeps, NextLineKeeps DEF IInv
<1>6. CauseInv'
  BY <1>1, <1>2, OffCauses DEF IInv
<1> QED
  BY <1>4, <1>5, <1>6 DEF IInv

LEMMA WorkerStepKeeps == IInv /\ WorkerStep => IInv'
<1> SUFFICES ASSUME IInv, WorkerStep PROVE IInv'
  OBVIOUS
<1>1. CASE OpenDirs \/ NextEntry \/ LastEntry \/ OpenSource \/ OpenTarget \/ CopyBlock \/ EndOfFile \/ Unlink
  <2>1. WorkerInv'
    BY <1>1, OpenDirsKeeps, NextEntryKeeps, LastEntryKeeps, OpenSourceKeeps, OpenTargetKeeps, CopyBlockKeeps,
       EndOfFileKeeps, UnlinkKeeps DEF IInv
  <2>2. /\ pc \notin {"message", "trailer", "exited", "freed"} /\ pc' \notin {"message", "trailer", "exited", "freed"}
        /\ UNCHANGED <<pipe, manager, killed>>
    <3>1. CASE OpenDirs \/ NextEntry \/ LastEntry
      BY <3>1 DEF OpenDirs, NextEntry, LastEntry, GiveUp, history
    <3>2. CASE OpenSource \/ OpenTarget
      BY <3>2 DEF OpenSource, OpenTarget, CopyFails, GiveUp
    <3>3. CASE CopyBlock \/ EndOfFile
      BY <3>3 DEF CopyBlock, EndOfFile, CopyFails, GiveUp, history
    <3>4. CASE Unlink
      BY <3>4 DEF Unlink, GiveUp
    <3> QED
      BY <1>1, <3>1, <3>2, <3>3, <3>4
  <2>3. Protocol'
    BY <2>2, WorkProtocol DEF IInv
  <2>4. CauseInv'
    BY <1>1, OpenDirsCauses, NextEntryCauses, LastEntryCauses, OpenSourceCauses, OpenTargetCauses, CopyBlockCauses,
       EndOfFileCauses, UnlinkCauses DEF IInv
  <2> QED
    BY <2>1, <2>3, <2>4 DEF IInv
<1>2. CASE ReportSuccess \/ ReportErrors \/ WriteErrors \/ EndReport
  BY <1>2, ReportStepKeeps
<1> QED
  BY <1>1, <1>2 DEF WorkerStep

LEMMA ManagerStepKeeps == IInv /\ ManagerStep => IInv'
<1> SUFFICES ASSUME IInv, ManagerStep PROVE IInv'
  OBVIOUS
<1>1. pc' = pc \/ pc' = "freed"
  BY DEF ManagerStep, ReadStart, ReadStatus, ReadDetails, ReadNext, ReadError, ReadMore, ReadsEnd, Handle
<1>2. Manages
  BY DEF ManagerStep, ReadStart, ReadStatus, ReadDetails, ReadNext, ReadError, ReadMore, ReadsEnd
<1>3. UNCHANGED <<src, tar, job, unread, copying, fds, text, counters, touched, hit, killed, changes>>
  BY <1>2 DEF Manages, history, bounds
<1>4. WorkerInv'
  <2>1. killed' \in BOOLEAN
    BY <1>3 DEF IInv, WorkerInv, WorkerTypes
  <2> QED
    BY <1>1, <1>3, <2>1, OffKeeps DEF IInv
<1>5. Protocol'
  BY ReadHeaderKeeps, ReadNextKeeps, ReadErrorKeeps, ReadMoreKeeps, ReadsEndKeeps DEF IInv, ManagerStep
<1>6. CauseInv'
  BY <1>1, <1>3, OffCauses DEF IInv
<1> QED
  BY <1>4, <1>5, <1>6 DEF IInv

LEMMA StepKeeps == IInv /\ [Next]_vars => IInv'
<1> SUFFICES ASSUME IInv, [Next]_vars PROVE IInv'
  OBVIOUS
<1>1. CASE WorkerStep
  BY <1>1, WorkerStepKeeps
<1>2. CASE ManagerStep
  BY <1>2, ManagerStepKeeps
<1>3. CASE KillWorker
  <2>1. UNCHANGED <<src, tar, job, unread, copying, fds, text, counters, touched, hit, changes>> /\ killed' = TRUE /\ pc' = "exited"
    BY <1>3 DEF KillWorker
  <2>2. WorkerInv'
    BY <2>1, OffKeeps DEF IInv
  <2>3. Protocol'
    BY <1>3, KillProtocol DEF IInv
  <2>4. CauseInv'
    BY <2>1, OffCauses DEF IInv
  <2> QED
    BY <2>2, <2>3, <2>4 DEF IInv
<1>4. ASSUME NEW f \in Files, WriteSource(f) \/ RemoveSource(f) PROVE IInv'
  <2>1. WorkerInv'
    BY <1>4, WriteKeeps, RemoveKeeps DEF IInv
  <2>2. Protocol'
    BY <1>4, UserProtocol DEF IInv
  <2>3. CauseInv'
    BY <1>4, UserCauses DEF IInv
  <2> QED
    BY <2>1, <2>2, <2>3 DEF IInv
<1>5. CASE UNCHANGED vars
  <2>1. UNCHANGED <<src, tar, job, pc, unread, copying, fds, text, counters, touched, hit, killed, changes, pipe, manager, mpc, status, count, errors>>
    BY <1>5 DEF vars, history, bounds, manager
  <2>2. WorkerInv'
    <3>1. killed' \in BOOLEAN
      BY <2>1 DEF IInv, WorkerInv, WorkerTypes
    <3> QED
      BY <2>1, <3>1, OffKeeps DEF IInv
  <2>3. ASSUME NEW r, Truthful(r) PROVE Truthful(r)'
    BY <2>1, <2>3, SameTruth
  <2>4. ASSUME NEW r \in Results, NEW w \in 4 .. 6, Reporting(r, w) PROVE Reporting(r, w)'
    BY <2>1, <2>3, <2>4, SamePlace DEF Reporting, Wrote
  <2>5. Silent => Silent'
    BY <2>1 DEF Silent
  <2>6. Freed => Freed'
    BY <2>1, <2>3 DEF Freed
  <2>7. CauseInv'
    BY <2>1, OffCauses DEF IInv
  <2> QED
    BY <2>2, <2>4, <2>5, <2>6, <2>7 DEF IInv, Protocol
<1> QED
  BY <1>1, <1>2, <1>3, <1>4, <1>5 DEF Next, Over

LEMMA Invariant == Spec => []IInv
<1> QED
  BY InitInv, StepKeeps, PTL DEF Spec

-----------------------------------------------------------------------------
(* Theorems.                                                               *)

\* Every variable keeps its type: no more descriptors than there are, no file longer than the longest, a
\* file that is being read exists, and the manager counts at most two lines of one error.
THEOREM TypeCorrect == Spec => []TypeOK
<1>1. ASSUME IInv PROVE TypeOK
  <2>1. status \in {"none", "SUCCESS", "PARTIAL", "ERROR"} /\ count \in 0 .. 2
    <3>1. ASSUME NEW r \in Results, NEW w \in 4 .. 6, Reporting(r, w)
          PROVE  status \in {"none", "SUCCESS", "PARTIAL", "ERROR"} /\ count \in 0 .. 2
      BY <3>1 DEF Reporting, InOrder, ReadUpTo, Counting, Spinning, Results
    <3> QED
      BY <1>1, <3>1 DEF IInv, Protocol, Silent, Freed, Results
  <2>2. mpc \in {"poll", "status", "details", "next", "error", "more", "spins"}
    <3>1. ASSUME NEW r \in Results, NEW w \in 4 .. 6, Reporting(r, w)
          PROVE  mpc \in {"poll", "status", "details", "next", "error", "more", "spins"}
      BY <3>1 DEF Reporting, InOrder, ReadUpTo, Counting, Spinning
    <3> QED
      BY <1>1, <3>1 DEF IInv, Protocol, Silent, Freed
  <2>3. \A dir \in {src, tar} : DOMAIN dir \subseteq Files /\ Range(dir) \subseteq Texts
    BY <1>1, DirShape DEF IInv, WorkerInv, WorkerTypes, Range
  <2> QED
    BY <1>1, <2>1, <2>2, <2>3 DEF IInv, WorkerInv, WorkerTypes, Texts, Blocks, PcValues, TypeOK
<1> QED
  BY <1>1, Invariant, PTL

\* README.md:128: the result that fss_read_worker_report gets out of the pipe is what has happened to the two
\* directories and to the job, in the sense of StatusTrue, however the worker's writes, the manager's reads, the
\* users' changes, the faults and a kill are interleaved.
THEOREM ResultsTrue == Spec => []StatusTrue
<1>1. ASSUME IInv, status \in Results PROVE Truthful(status)
  <2>1. ASSUME NEW r \in Results, NEW w \in 4 .. 6, Reporting(r, w) PROVE Truthful(status)
    <3>1. status = r
      BY <1>1, <2>1 DEF Reporting, InOrder, ReadUpTo, Counting, Spinning, Results
    <3> QED
      BY <2>1, <3>1 DEF Reporting
  <2> QED
    BY <1>1, <2>1 DEF IInv, Protocol, Silent, Freed, Results
<1>2. ASSUME IInv PROVE StatusTrue
  BY <1>1, <1>2 DEF StatusTrue, Truthful, Brought, Results
<1> QED
  BY <1>2, Invariant, PTL

\* worker.c:117-151: as long as the failed copies leave descriptors for one more, a FULL job has brought over every
\* file that nobody changed and no fault met, for any number of files.
THEOREM OthersCopied == Spec => []FailuresStayApart
<1>1. ASSUME IInv PROVE FailuresStayApart
  <2> SUFFICES ASSUME pc = "report", job.op = "FULL", 2 * failed + 2 <= MaxFds, NEW f \in Scope \ (touched \cup hit)
               PROVE  Same(f)
    BY DEF FailuresStayApart
  <2>1. f \in DOMAIN src \ touched /\ unread = {} /\ failed \in Nat
    BY <1>1 DEF Scope, Copies, IInv, WorkerInv, WorkerTypes, Phases
  <2>2. Same(f) \/ Behind(f)
    BY <1>1, <2>1 DEF IInv, WorkerInv, Progress
  <2>3. ~Behind(f)
    BY <2>1, BoundsAssumption DEF Behind, Copying
  <2> QED
    BY <2>2, <2>3
<1> QED
  BY <1>1, Invariant, PTL

\* README.md:78: the entry's error count grows with exactly the jobs that are not a SUCCESS.
THEOREM ErrorsCounted == Spec => ErrorsNoticed
<1>1. ASSUME IInv, Next, pc' = "freed", pc # "freed"
      PROVE  errors' > errors <=> status # "SUCCESS"
  <2>1. ReadNext \/ ReadMore
    <3>1. CASE OpenDirs \/ NextEntry \/ LastEntry \/ OpenSource \/ OpenTarget
      BY <1>1, <3>1 DEF OpenDirs, NextEntry, LastEntry, OpenSource, OpenTarget, CopyFails, GiveUp
    <3>2. CASE CopyBlock \/ EndOfFile \/ Unlink
      BY <1>1, <3>2 DEF CopyBlock, EndOfFile, Unlink, CopyFails, GiveUp
    <3>3. CASE ReportSuccess \/ ReportErrors \/ WriteErrors \/ EndReport \/ KillWorker \/ Over
      BY <1>1, <3>3 DEF ReportSuccess, ReportErrors, WriteErrors, EndReport, KillWorker, Over, vars
    <3>4. CASE \E f \in Files : WriteSource(f) \/ RemoveSource(f)
      BY <1>1, <3>4 DEF WriteSource, RemoveSource
    <3>5. CASE ReadStart \/ ReadStatus \/ ReadDetails \/ ReadError \/ ReadsEnd
      BY <1>1, <3>5 DEF ReadStart, ReadStatus, ReadDetails, ReadError, ReadsEnd
    <3> QED
      BY <1>1, <3>1, <3>2, <3>3, <3>4, <3>5 DEF Next, WorkerStep, ManagerStep
  <2>2. mpc # "poll" /\ pipe # <<>> /\ GetsLine /\ text' = text
    BY <2>1 DEF ReadNext, ReadMore, GetsLine, Manages
  <2>3. PICK r \in Results, w \in 4 .. 6 : Reporting(r, w)
    BY <1>1, <2>2, ReaderReports DEF IInv
  <2>4. errors = 0
    BY <2>3 DEF Reporting
  <2>5. CASE ReadNext
    <3>1. mpc = <<"poll", "status", "details", "next">>[3 + 1]
      BY <2>5 DEF ReadNext
    <3>2. ReadUpTo(r, 3) /\ Head(pipe) = Line(r, 3 + 1)
      BY <2>2, <2>3, <3>1, ReadsInOrder
    <3>3. Handle(0) /\ Head(pipe) # <<"ERRORS">>
      BY <1>1, <2>5 DEF ReadNext
    <3>4. status = "SUCCESS" /\ errors' = 0
      BY <3>2, <3>3, LinesDiffer DEF ReadUpTo, Handle
    <3> QED
      BY <2>4, <3>4
  <2>6. CASE ReadMore
    <3>1. Counting(r, w)
      BY <2>3, <2>6 DEF ReadMore, Reporting, InOrder, ReadUpTo, Spinning
    <3>2. errors' = count /\ count \in 1 .. 2
      BY <1>1, <2>6, <3>1 DEF ReadMore, Handle, Counting
    <3>3. status # "SUCCESS"
      BY <3>1 DEF Counting
    <3> QED
      BY <2>4, <3>2, <3>3
  <2> QED
    BY <2>1, <2>5, <2>6
<1>2. IInv /\ [Next]_vars
       => [pc' = "freed" /\ pc # "freed" => (errors' > errors <=> status # "SUCCESS")]_vars
  BY <1>1
<1> QED
  BY <1>2, Invariant, PTL DEF Spec, ErrorsNoticed
=============================================================================
