-------------------------- MODULE BuildCache_proofs --------------------------
(***************************************************************************)
(* Proofs about BuildCache.  A command works off the list it began with:   *)
(* what is left of the list is the end of the queue, and before it stand   *)
(* the files that the last module or target taken from it still has to     *)
(* write.                                                                  *)
(*                                                                         *)
(* CacheInv, of every project: a module that has left the list has its     *)
(* interface on the disk, or among those files.                            *)
(*                                                                         *)
(* BuildInv, of a plain project, relates the build directory to its own    *)
(* records (DiskInv: an object is what its state record says, an output is *)
(* what the objects below it say unless one of them is newer) and to the   *)
(* command under way (Stands: what has left the list is as a build from an *)
(* empty directory would make it, or is among the files to be written).    *)
(***************************************************************************)
EXTENDS BuildCache, BuildGraph_proofs

FileItem == {"remove", "write"}
Areas    == {"mci", "obj", "state", "out", "rtobj"}
JobFields == {"cmd", "target", "mode", "parsed", "units", "queue"}

\* The declarations a file holds are those of the text this command parsed.
Matches(m, iface) == /\ iface.values = job.parsed[m].values
                     /\ iface.types[m] = job.parsed[m].types

\* A file to remove or to write; an interface is only written, and where it
\* belongs.
OwnFile(item) ==
    \/ item.do \in FileItem /\ item.area \in Areas \ {"mci"}
    \/ /\ item.do = "write" /\ item.area = "mci" /\ item.key \in Modules
       /\ Matches(item.key, item.what)

OwnFiles(s) == IsSequence(s) /\ \A i \in 1 .. Len(s) : OwnFile(s[i])

OnDisk(m) == Exists(disk.mci[m]) /\ Matches(m, disk.mci[m].what)

Announced(m, files) ==
    \E j \in 1 .. files : /\ job.queue[j].do = "write" /\ job.queue[j].area = "mci"
                          /\ job.queue[j].key = m

\* n items of the list have been taken, and the files of the last one that are
\* not dealt with yet are the first of the queue.
Progress(n, files) ==
    LET work == WorkOf(job.cmd, job.target)
    IN  /\ Len(job.queue) = files + (Len(work) - n)
        /\ \A j \in 1 .. files : OwnFile(job.queue[j])
        /\ \A k \in n + 1 .. Len(work) : job.queue[files + (k - n)] = work[k]
        /\ \A k \in 1 .. n :
              work[k].do = "compile" => OnDisk(work[k].mod) \/ Announced(work[k].mod, files)

JobTypes ==
    job # Idle => /\ DOMAIN job = JobFields /\ IsSequence(job.queue)
                  /\ job.cmd \in Commands /\ job.target \in DOMAIN Targets

DiskTypes == DOMAIN disk = Areas /\ DOMAIN disk.mci = Modules

CacheInv ==
    /\ DiskTypes /\ JobTypes
    /\ job # Idle =>
          \E n \in 0 .. Len(WorkOf(job.cmd, job.target)), files \in Nat : Progress(n, files)

-----------------------------------------------------------------------------
(* Queues.                                                                 *)

\* The queue after its first item.
LEMMA Rest ==
    ASSUME NEW s, IsSequence(s), s # << >>
    PROVE  /\ IsSequence(Tail(s)) /\ Len(Tail(s)) = Len(s) - 1 /\ Len(s) \in Nat \ {0}
           /\ Head(s) = s[1]
           /\ \A i \in 1 .. Len(s) - 1 : Tail(s)[i] = s[i + 1]
BY Shortened

\* Files after files are files.
LEMMA FilesJoined ==
    ASSUME NEW s, NEW t, OwnFiles(s), OwnFiles(t)
    PROVE  OwnFiles(s \o t)
<1>1. /\ IsSequence(s) /\ IsSequence(t)
      /\ \A i \in 1 .. Len(s) : OwnFile(s[i])
      /\ \A i \in 1 .. Len(t) : OwnFile(t[i])
  BY DEF OwnFiles
<1>2. Len(s) \in Nat /\ Len(t) \in Nat BY <1>1, SequenceFacts
<1>3. /\ IsSequence(s \o t) /\ Len(s \o t) = Len(s) + Len(t)
      /\ \A i \in 1 .. Len(s) : (s \o t)[i] = s[i]
      /\ \A i \in 1 .. Len(t) : (s \o t)[Len(s) + i] = t[i]
  BY <1>1, Joined
<1>4. ASSUME NEW i \in 1 .. Len(s \o t) PROVE OwnFile((s \o t)[i])
  <2>1. CASE i <= Len(s) BY <1>1, <1>2, <1>3, <2>1
  <2>2. CASE i > Len(s)
    <3>1. i - Len(s) \in 1 .. Len(t) /\ i = Len(s) + (i - Len(s)) BY <1>2, <1>3, <2>2
    <3>2. (s \o t)[i] = t[i - Len(s)] BY <1>3, <3>1
    <3>3. QED BY <1>1, <3>1, <3>2
  <2>3. QED BY <1>2, <2>1, <2>2
<1>5. QED BY <1>3, <1>4 DEF OwnFiles

\* What a host tool does to a file that is not an interface (ByTool).
LEMMA ToolFiles ==
    ASSUME NEW a \in Areas \ {"mci"}, NEW k, NEW v
    PROVE  OwnFiles(ByTool(a, k, v))
<1> DEFINE x == Unlink(a, k)
           y == Write(a, k, v)
<1>1. OwnFile(x) /\ OwnFile(y) BY DEF OwnFile, FileItem, Unlink, Write
<1>2. ByTool(a, k, v) = << x, y >> BY DEF ByTool
<1> HIDE DEF x, y
<1>3. << x, y >> \in Seq({x, y}) OBVIOUS
<1>4. IsSequence(<< x, y >>) BY <1>3, SequenceFacts
<1>5. Len(<< x, y >>) = 2 /\ \A i \in 1 .. 2 : OwnFile(<< x, y >>[i]) BY <1>1
<1>6. QED BY <1>2, <1>4, <1>5 DEF OwnFiles

\* Nothing to do, or one file.
LEMMA FewFiles ==
    /\ OwnFiles(<< >>)
    /\ \A x : OwnFile(x) => OwnFiles(<< x >>)
<1>1. << >> \in Seq({}) /\ Len(<< >>) = 0 OBVIOUS
<1>2. OwnFiles(<< >>)
  <2>1. IsSequence(<< >>) BY <1>1, SequenceFacts
  <2>2. QED BY <1>1, <2>1 DEF OwnFiles
<1>3. ASSUME NEW x, OwnFile(x) PROVE OwnFiles(<< x >>)
  <2>1. << x >> \in Seq({x}) /\ Len(<< x >>) = 1 /\ << x >>[1] = x OBVIOUS
  <2>2. IsSequence(<< x >>) BY <2>1, SequenceFacts
  <2>3. QED BY <1>3, <2>1, <2>2 DEF OwnFiles
<1>4. QED BY <1>2, <1>3

-----------------------------------------------------------------------------
(* Steps through the queue.                                                *)

\* The list of a command, as discovery hands it over (ImportsAssumption).
LEMMA WorkFacts ==
    ASSUME NEW cmd \in Commands, NEW t \in DOMAIN Targets, NEW work, work = WorkOf(cmd, t)
    PROVE  /\ IsSequence(work) /\ Len(work) \in Nat /\ DOMAIN work = 1 .. Len(work)
           /\ \A k \in 1 .. Len(work) :
                 /\ work[k].do \in {"compile", "close"}
                 /\ work[k].do = "compile" =>
                       /\ work[k].mod \in Modules
                       /\ \A i \in Imports[work[k].mod] :
                             \E j \in 1 .. k - 1 : work[j].do = "compile" /\ work[j].mod = i
<1> ImportsComeFirst(work) BY ImportsAssumption
<1>1. /\ work \in Seq(WorkItem)
      /\ \A k \in 1 .. Len(work) :
            work[k].do = "compile" =>
                \A i \in Imports[work[k].mod] :
                    \E j \in 1 .. k - 1 : work[j].do = "compile" /\ work[j].mod = i
  BY DEF ImportsComeFirst
<1>2. IsSequence(work) BY <1>1, SequenceFacts
<1>3. \A k \in 1 .. Len(work) : work[k] \in WorkItem BY <1>1
<1>4. \A x \in WorkItem : /\ x.do \in {"compile", "close"}
                          /\ x.do = "compile" => x.mod \in Modules
  BY DEF WorkItem
<1>5. Len(work) \in Nat /\ DOMAIN work = 1 .. Len(work) BY <1>1
<1>6. QED BY <1>1, <1>2, <1>3, <1>4, <1>5

\* The command goes on.
SameCommand ==
    /\ job' # Idle /\ DOMAIN job' = JobFields
    /\ job'.cmd = job.cmd /\ job'.target = job.target /\ job'.parsed = job.parsed

\* The head of the list is replaced by the files that it has to write, the
\* interface of a compiled module among them unless it is on the disk.
Takes(files) ==
    /\ OwnFiles(files) /\ job'.queue = files \o Tail(job.queue)
    /\ Head(job.queue).do = "compile" =>
          \/ OnDisk(Head(job.queue).mod)
          \/ \E j \in 1 .. Len(files) :
                /\ files[j].do = "write" /\ files[j].area = "mci"
                /\ files[j].key = Head(job.queue).mod

\* What the queue of a command begins with.
LEMMA HeadPlace ==
    ASSUME JobTypes, job # Idle, job.queue # << >>,
           NEW n \in 0 .. Len(WorkOf(job.cmd, job.target)), NEW f \in Nat, Progress(n, f)
    PROVE  /\ Head(job.queue) = job.queue[1]
           /\ IF Head(job.queue).do \in FileItem THEN f > 0
              ELSE /\ f = 0 /\ n < Len(WorkOf(job.cmd, job.target))
                   /\ Head(job.queue) = WorkOf(job.cmd, job.target)[n + 1]
<1> DEFINE W == WorkOf(job.cmd, job.target)
           q == job.queue
<1>1. IsSequence(q) /\ job.cmd \in Commands /\ job.target \in DOMAIN Targets
  BY DEF JobTypes
<1>w. Len(W) \in Nat /\ \A k \in 1 .. Len(W) : W[k].do \in {"compile", "close"}
  BY <1>1, WorkFacts
<1>3. /\ Len(q) = f + (Len(W) - n)
      /\ \A j \in 1 .. f : OwnFile(q[j])
      /\ \A k \in n + 1 .. Len(W) : q[f + (k - n)] = W[k]
  BY DEF Progress
<1>4. Len(q) \in Nat \ {0} /\ Head(q) = q[1] BY <1>1, Rest
<1> HIDE DEF W, q
<1>5. CASE f = 0
  <2>1. n + 1 \in n + 1 .. Len(W) /\ f + (n + 1 - n) = 1 BY <1>3, <1>4, <1>5, <1>w DEF W
  <2>2. q[1] = W[n + 1] BY <1>3, <2>1
  <2>3. Head(q).do \notin FileItem BY <1>4, <1>w, <2>1, <2>2 DEF FileItem, W
  <2>4. n < Len(W) BY <1>w, <2>1 DEF W
  <2>5. QED BY <1>4, <1>5, <2>2, <2>3, <2>4 DEF q, W
<1>6. CASE f # 0
  <2>1. OwnFile(q[1]) BY <1>3, <1>6
  <2>2. Head(q).do \in FileItem BY <1>4, <2>1 DEF OwnFile, FileItem
  <2>3. f > 0 BY <1>6
  <2>4. QED BY <1>4, <2>2, <2>3 DEF q, W
<1>7. QED BY <1>5, <1>6

\* Where the queue of a command stands.
LEMMA Position ==
    ASSUME CacheInv, job # Idle, job.queue # << >>
    PROVE  \E n \in 0 .. Len(WorkOf(job.cmd, job.target)), f \in Nat :
              /\ Progress(n, f)
              /\ IF Head(job.queue).do \in FileItem THEN f > 0
                 ELSE f = 0 /\ n < Len(WorkOf(job.cmd, job.target))
<1>1. PICK n \in 0 .. Len(WorkOf(job.cmd, job.target)), f \in Nat : Progress(n, f)
  BY DEF CacheInv
<1>2. JobTypes BY DEF CacheInv
<1>3. QED BY <1>1, <1>2, HeadPlace

\* A module or a target is taken from the list: the place in the queue.
LEMMA TakeProgress ==
    ASSUME JobTypes, job # Idle, job.queue # << >>, SameCommand, UNCHANGED disk,
           NEW n \in Nat, Progress(n, 0), n < Len(WorkOf(job.cmd, job.target)),
           NEW files, Takes(files)
    PROVE  /\ JobTypes' /\ Len(files) \in Nat /\ Progress(n + 1, Len(files))'
           /\ \A i \in 1 .. Len(files) : job'.queue[i] = files[i]
<1> DEFINE W == WorkOf(job.cmd, job.target)
           q == job.queue
<1>1. IsSequence(q) /\ job.cmd \in Commands /\ job.target \in DOMAIN Targets
  BY DEF JobTypes
<1>w. Len(W) \in Nat /\ \A k \in 1 .. Len(W) : W[k].do \in {"compile", "close"}
  BY <1>1, WorkFacts
<1>2. n \in Nat /\ n < Len(W) OBVIOUS
<1>3. /\ Len(q) = Len(W) - n
      /\ \A k \in n + 1 .. Len(W) : q[k - n] = W[k]
      /\ \A k \in 1 .. n : W[k].do = "compile" => OnDisk(W[k].mod)
  <2>1. \A m : ~Announced(m, 0) BY DEF Announced
  <2>2. \A k \in n + 1 .. Len(W) : 0 + (k - n) = k - n BY <1>2, <1>w
  <2>3. Len(W) - n = 0 + (Len(W) - n) BY <1>2, <1>w
  <2>4. QED BY <1>2, <2>1, <2>2, <2>3 DEF Progress
<1>5. IsSequence(files) /\ \A i \in 1 .. Len(files) : OwnFile(files[i])
  BY DEF Takes, OwnFiles
<1>6. /\ Len(Tail(q)) = Len(q) - 1 /\ IsSequence(Tail(q)) /\ Head(q) = q[1]
      /\ \A i \in 1 .. Len(q) - 1 : Tail(q)[i] = q[i + 1]
  BY <1>1, Rest
<1>7. /\ IsSequence(q') /\ Len(q') = Len(files) + (Len(q) - 1) /\ Len(files) \in Nat
      /\ \A i \in 1 .. Len(files) : q'[i] = files[i]
      /\ \A i \in 1 .. Len(q) - 1 : q'[Len(files) + i] = q[i + 1]
  <2> DEFINE t == Tail(q)
  <2>1. IsSequence(t) /\ q' = files \o t BY <1>6 DEF Takes
  <2>2. Len(files) \in Nat BY <1>5, SequenceFacts
  <2> HIDE DEF t, q
  <2>3. /\ IsSequence(q') /\ Len(q') = Len(files) + Len(t)
        /\ \A i \in 1 .. Len(files) : q'[i] = files[i]
        /\ \A i \in 1 .. Len(t) : q'[Len(files) + i] = t[i]
    BY <1>5, <2>1, Joined
  <2>4. Len(t) = Len(q) - 1 /\ \A i \in 1 .. Len(q) - 1 : t[i] = q[i + 1] BY <1>6 DEF t
  <2>5. QED BY <2>2, <2>3, <2>4
<1>8. W' = W /\ (Len(W))' = Len(W) BY DEF SameCommand
<1>9. Head(q).do = "compile" =>
         OnDisk(Head(q).mod) \/ \E j \in 1 .. Len(files) :
             files[j].do = "write" /\ files[j].area = "mci" /\ files[j].key = Head(q).mod
  BY DEF Takes
<1>10. JobTypes' BY <1>7, <1>1 DEF JobTypes, SameCommand
<1> HIDE DEF W, q
<1>11. Len(q') = Len(files) + (Len(W) - (n + 1)) BY <1>2, <1>3, <1>7, <1>w
<1>12. ASSUME NEW j \in 1 .. Len(files) PROVE OwnFile(q[j])'
  <2>1. q'[j] = files[j] /\ OwnFile(files[j]) BY <1>5, <1>7
  <2> HIDE DEF FileItem, Areas
  <2>2. QED BY <2>1 DEF OwnFile, Matches, SameCommand
<1>13. ASSUME NEW k \in n + 1 + 1 .. Len(W) PROVE q'[Len(files) + (k - (n + 1))] = W[k]
  <2> DEFINE L == Len(W)
             M == Len(q)
  <2>1. k \in Nat /\ n \in Nat /\ n + 2 <= k /\ k <= L /\ M = L - n /\ L \in Nat
    BY <1>2, <1>3, <1>w
  <2> HIDE DEF L, M
  <2>2. k - (n + 1) \in 1 .. M - 1 /\ k - (n + 1) + 1 = k - n /\ k \in n + 1 .. L
    BY <2>1
  <2>3. q'[Len(files) + (k - (n + 1))] = q[k - (n + 1) + 1] BY <1>7, <2>2 DEF M
  <2>4. QED BY <1>3, <2>2, <2>3 DEF L
<1>14. ASSUME NEW k \in 1 .. n + 1, NEW m, W[k].do = "compile", W[k].mod = m
       PROVE  OnDisk(m)' \/ Announced(m, Len(files))'
  <2>1. CASE k = n + 1
    <3>1. n + 1 \in n + 1 .. Len(W) /\ n + 1 - n = 1 BY <1>2, <1>w
    <3>2. Head(q) = W[k] BY <1>3, <1>6, <2>1, <3>1 DEF q
    <3>3. CASE OnDisk(m) BY <1>14, <3>3 DEF OnDisk, Matches, SameCommand
    <3>4. CASE ~OnDisk(m)
      <4>1. PICK j \in 1 .. Len(files) :
               files[j].do = "write" /\ files[j].area = "mci" /\ files[j].key = m
        BY <1>9, <1>14, <3>2, <3>4
      <4>2. q'[j] = files[j] BY <1>7
      <4>3. QED BY <4>1, <4>2 DEF Announced, q
    <3>5. QED BY <3>3, <3>4
  <2>2. CASE k # n + 1
    <3>1. k \in 1 .. n BY <1>2, <2>2
    <3>2. OnDisk(m) BY <1>3, <1>14, <3>1
    <3>3. QED BY <1>14, <3>2 DEF OnDisk, Matches, SameCommand
  <2>3. QED BY <2>1, <2>2
<1>15. Progress(n + 1, Len(files))'
  BY <1>8, <1>11, <1>12, <1>13, <1>14 DEF Progress, W, q
<1>16. QED BY <1>7, <1>10, <1>15 DEF q

\* A module or a target is taken from the list (CompileModule, CloseTarget).
LEMMA TakeKeeps ==
    ASSUME CacheInv, job # Idle, job.queue # << >>, Head(job.queue).do \notin FileItem,
           SameCommand, UNCHANGED disk, \E files : Takes(files)
    PROVE  CacheInv'
<1> DEFINE W == WorkOf(job.cmd, job.target)
<1>1. JobTypes /\ DiskTypes BY DEF CacheInv
<1>2. Len(W) \in Nat BY <1>1, WorkFacts DEF JobTypes
<1>3. PICK n \in 0 .. Len(W), f \in Nat : Progress(n, f) /\ f = 0 /\ n < Len(W)
  BY Position
<1>4. PICK files : Takes(files) OBVIOUS
<1>5. JobTypes' /\ Len(files) \in Nat /\ Progress(n + 1, Len(files))'
  BY <1>1, <1>2, <1>3, <1>4, TakeProgress
<1>6. W' = W BY DEF SameCommand
<1>7. DiskTypes' BY <1>1 DEF DiskTypes
<1> HIDE DEF W
<1>8. n + 1 \in 0 .. Len(W) BY <1>2, <1>3
<1>9. QED BY <1>5, <1>6, <1>7, <1>8 DEF CacheInv, W

\* The first file of the queue is dealt with.
Drops ==
    LET w == Head(job.queue)
    IN  /\ job'.queue = Tail(job.queue)
        /\ IF w.do = "write" THEN disk' = Put(w.area, w.key, w.what)
           ELSE disk' = [disk EXCEPT ![w.area][w.key] = NoFile]

\* What the step makes of the interfaces.
LEMMA DropDisk ==
    ASSUME DiskTypes, Drops, SameCommand, OwnFile(Head(job.queue)), NEW m \in Modules
    PROVE  /\ DiskTypes'
           /\ OnDisk(m) => OnDisk(m)'
           /\ LET w == Head(job.queue)
              IN  w.do = "write" /\ w.area = "mci" /\ w.key = m => OnDisk(m)'
<1> DEFINE w == Head(job.queue)
<1>1. CASE w.area = "mci"
  <2>1. w.do = "write" /\ w.key \in Modules /\ Matches(w.key, w.what)
    BY <1>1 DEF OwnFile, Areas
  <2> DEFINE file == [what |-> w.what, time |-> clock + 1]
  <2>2. disk' = [disk EXCEPT !["mci"][w.key] = file] BY <1>1, <2>1 DEF Drops, Put
  <2>3. Exists(file) /\ file.what = w.what
    <3>1. DOMAIN file = {"what", "time"} /\ DOMAIN NoFile = {"time"} BY DEF NoFile
    <3> HIDE DEF file
    <3>2. file # NoFile BY <3>1
    <3>3. QED BY <3>2 DEF Exists, file
  <2> HIDE DEF file, w
  <2>4. DOMAIN disk' = Areas /\ disk'.mci = [disk.mci EXCEPT ![w.key] = file]
    BY <2>2 DEF DiskTypes, Areas
  <2>5. DiskTypes' BY <2>4 DEF DiskTypes
  <2>6. disk'.mci[m] = IF m = w.key THEN file ELSE disk.mci[m] BY <2>4 DEF DiskTypes
  <2>7. m = w.key => OnDisk(m)'
    BY <2>1, <2>3, <2>6 DEF OnDisk, Exists, Matches, SameCommand
  <2>8. m # w.key => (OnDisk(m) => OnDisk(m)')
    BY <2>6 DEF OnDisk, Exists, Matches, SameCommand
  <2>9. QED BY <2>5, <2>7, <2>8 DEF w
<1>2. CASE w.area # "mci"
  <2>1. w.area \in Areas \ {"mci"} BY <1>2 DEF OwnFile
  <2>2. PICK file : disk' = [disk EXCEPT ![w.area][w.key] = file] BY DEF Drops, Put
  <2> HIDE DEF w
  <2>3. DOMAIN disk' = Areas /\ disk'.mci = disk.mci
    BY <2>1, <2>2 DEF DiskTypes, Areas
  <2>4. DiskTypes' BY <2>3 DEF DiskTypes
  <2>5. OnDisk(m) => OnDisk(m)' BY <2>3 DEF OnDisk, Exists, Matches, SameCommand
  <2>6. QED BY <1>2, <2>4, <2>5 DEF w
<1>3. QED BY <1>1, <1>2

\* A file is dealt with: the place in the queue.
LEMMA DropProgress ==
    ASSUME DiskTypes, JobTypes, job # Idle, job.queue # << >>, SameCommand, Drops,
           NEW n \in 0 .. Len(WorkOf(job.cmd, job.target)), NEW f \in Nat \ {0}, Progress(n, f)
    PROVE  /\ DiskTypes' /\ JobTypes' /\ Progress(n, f - 1)'
           /\ \A i \in 1 .. f - 1 : job'.queue[i] = job.queue[i + 1]
<1> DEFINE W == WorkOf(job.cmd, job.target)
           q == job.queue
<1>1. IsSequence(q) /\ job.cmd \in Commands /\ job.target \in DOMAIN Targets
  BY DEF JobTypes
<1>w. Len(W) \in Nat /\ \A k \in 1 .. Len(W) : W[k].do = "compile" => W[k].mod \in Modules
  BY <1>1, WorkFacts
<1>2. n \in 0 .. Len(W) /\ f \in Nat /\ f > 0 /\ Progress(n, f) OBVIOUS
<1>3. /\ Len(q) = f + (Len(W) - n)
      /\ \A j \in 1 .. f : OwnFile(q[j])
      /\ \A k \in n + 1 .. Len(W) : q[f + (k - n)] = W[k]
      /\ \A k \in 1 .. n : W[k].do = "compile" => OnDisk(W[k].mod) \/ Announced(W[k].mod, f)
  BY <1>2 DEF Progress
<1>4. /\ Len(Tail(q)) = Len(q) - 1 /\ IsSequence(Tail(q)) /\ Head(q) = q[1]
      /\ \A i \in 1 .. Len(q) - 1 : Tail(q)[i] = q[i + 1]
      /\ Len(q) \in Nat \ {0}
  BY <1>1, Rest
<1>5. /\ IsSequence(q') /\ Len(q') = Len(q) - 1
      /\ \A i \in 1 .. Len(q) - 1 : q'[i] = q[i + 1]
  BY <1>4 DEF Drops
<1>6. W' = W /\ (Len(W))' = Len(W) BY DEF SameCommand
<1>7. OwnFile(Head(q)) BY <1>2, <1>3, <1>4
<1>8. DiskTypes OBVIOUS
<1>9. DiskTypes'
  <2>1. CASE Head(q).area = "mci"
    <3>1. Head(q).key \in Modules BY <1>7, <2>1 DEF OwnFile, Areas
    <3>2. QED BY <1>7, <1>8, <3>1, DropDisk
  <2>2. CASE Head(q).area # "mci"
    <3>1. Head(q).area \in Areas \ {"mci"} BY <1>7, <2>2 DEF OwnFile
    <3>2. PICK file : disk' = [disk EXCEPT ![Head(q).area][Head(q).key] = file]
      BY DEF Drops, Put
    <3> HIDE DEF q
    <3>3. DOMAIN disk' = Areas /\ disk'.mci = disk.mci
      BY <1>8, <3>1, <3>2 DEF DiskTypes, Areas
    <3>4. QED BY <1>8, <3>3 DEF DiskTypes
  <2>3. QED BY <2>1, <2>2
<1>10. JobTypes' BY <1>1, <1>5 DEF JobTypes, SameCommand
<1>11. ASSUME NEW m \in Modules, OnDisk(m) \/ Announced(m, f)
       PROVE  OnDisk(m)' \/ Announced(m, f - 1)'
  <2>1. CASE OnDisk(m) BY <1>7, <1>8, <2>1, DropDisk
  <2>2. CASE Announced(m, f)
    <3>1. PICK j \in 1 .. f : q[j].do = "write" /\ q[j].area = "mci" /\ q[j].key = m
      BY <2>2 DEF Announced
    <3>2. CASE j = 1
      <4>1. Head(q).do = "write" /\ Head(q).area = "mci" /\ Head(q).key = m
        BY <1>4, <3>1, <3>2
      <4>2. OnDisk(m)' BY <1>7, <1>8, <4>1, DropDisk
      <4>3. QED BY <4>2
    <3>3. CASE j # 1
      <4> HIDE DEF W, q
      <4>1. j - 1 \in 1 .. f - 1 /\ j - 1 \in 1 .. Len(q) - 1 /\ j - 1 + 1 = j
        BY <1>2, <1>3, <1>w, <3>3
      <4>2. q'[j - 1] = q[j] BY <1>5, <4>1
      <4>3. QED BY <3>1, <4>1, <4>2 DEF Announced, q
    <3>4. QED BY <3>2, <3>3
  <2>3. QED BY <1>11, <2>1, <2>2
<1> HIDE DEF W, q
<1>12. f - 1 \in Nat /\ Len(q') = (f - 1) + (Len(W) - n) BY <1>2, <1>3, <1>5, <1>w
<1>13. ASSUME NEW j \in 1 .. f - 1 PROVE OwnFile(q[j])'
  <2>1. j \in 1 .. Len(q) - 1 /\ j + 1 \in 1 .. f BY <1>2, <1>3, <1>w
  <2>2. q'[j] = q[j + 1] /\ OwnFile(q[j + 1]) BY <1>3, <1>5, <2>1
  <2> HIDE DEF FileItem, Areas
  <2>3. QED BY <2>2 DEF OwnFile, Matches, SameCommand
<1>14. ASSUME NEW k \in n + 1 .. Len(W) PROVE q'[(f - 1) + (k - n)] = W[k]
  <2> DEFINE L == Len(W)
             M == Len(q)
  <2>1. /\ k \in Nat /\ n \in Nat /\ f \in Nat /\ f > 0 /\ n + 1 <= k /\ k <= L
        /\ M = f + (L - n) /\ L \in Nat
    BY <1>2, <1>3, <1>w
  <2> HIDE DEF L, M
  <2>2. (f - 1) + (k - n) \in 1 .. M - 1 /\ (f - 1) + (k - n) + 1 = f + (k - n) BY <2>1
  <2>3. q'[(f - 1) + (k - n)] = q[f + (k - n)] BY <1>5, <2>2 DEF M
  <2>4. QED BY <1>3, <2>3
<1>15. ASSUME NEW k \in 1 .. n, NEW m, W[k].do = "compile", W[k].mod = m
       PROVE  OnDisk(m)' \/ Announced(m, f - 1)'
  <2>1. k \in 1 .. Len(W) BY <1>2, <1>w
  <2>2. m \in Modules /\ (OnDisk(m) \/ Announced(m, f)) BY <1>3, <1>15, <1>w, <2>1
  <2>3. QED BY <1>11, <2>2
<1>16. Progress(n, f - 1)'
  BY <1>6, <1>12, <1>13, <1>14, <1>15 DEF Progress, W, q
<1>17. \A i \in 1 .. f - 1 : q'[i] = q[i + 1]
  <2> DEFINE L == Len(W)
             M == Len(q)
  <2>1. n \in 0 .. L /\ f \in Nat /\ M = f + (L - n) /\ L \in Nat BY <1>2, <1>3, <1>w
  <2> HIDE DEF L, M
  <2>2. 1 .. f - 1 \subseteq 1 .. M - 1 BY <2>1
  <2>3. QED BY <1>5, <2>2 DEF M
<1>18. QED BY <1>9, <1>10, <1>16, <1>17 DEF q

\* A file is dealt with (RemoveArtifactIfExists, WriteArtifact).
LEMMA DropKeeps ==
    ASSUME CacheInv, job # Idle, job.queue # << >>, Head(job.queue).do \in FileItem,
           SameCommand, Drops
    PROVE  CacheInv'
<1> DEFINE W == WorkOf(job.cmd, job.target)
<1>1. JobTypes /\ DiskTypes BY DEF CacheInv
<1>2. PICK n \in 0 .. Len(W), f \in Nat : Progress(n, f) /\ f > 0
  BY Position
<1>3. DiskTypes' /\ JobTypes' /\ Progress(n, f - 1)' BY <1>1, <1>2, DropProgress
<1>4. W' = W BY DEF SameCommand
<1>5. f - 1 \in Nat BY <1>2
<1> HIDE DEF W
<1>6. QED BY <1>2, <1>3, <1>4, <1>5 DEF CacheInv, W

-----------------------------------------------------------------------------
(* The actions.                                                            *)

\* A module whose turn it is finds the interfaces it imports.
LEMMA AtCompile ==
    ASSUME CacheInv, job # Idle, job.queue # << >>, Head(job.queue).do = "compile"
    PROVE  /\ Head(job.queue).mod \in Modules
           /\ \A i \in Imports[Head(job.queue).mod] : OnDisk(i)
<1> DEFINE W == WorkOf(job.cmd, job.target)
           q == job.queue
<1>1. IsSequence(q) /\ job.cmd \in Commands /\ job.target \in DOMAIN Targets
  BY DEF CacheInv, JobTypes
<1>w. /\ Len(W) \in Nat
      /\ \A k \in 1 .. Len(W) :
            W[k].do = "compile" =>
                /\ W[k].mod \in Modules
                /\ \A i \in Imports[W[k].mod] :
                      \E j \in 1 .. k - 1 : W[j].do = "compile" /\ W[j].mod = i
  BY <1>1, WorkFacts
<1>2. PICK n \in 0 .. Len(W), f \in Nat : Progress(n, f) /\ f = 0 /\ n < Len(W)
  BY Position DEF FileItem
<1>3. /\ \A k \in n + 1 .. Len(W) : q[0 + (k - n)] = W[k]
      /\ \A k \in 1 .. n : W[k].do = "compile" => OnDisk(W[k].mod)
  BY <1>2 DEF Progress, Announced
<1>4. Head(q) = q[1] BY <1>1, Rest
<1> HIDE DEF W, q
<1>5. n + 1 \in n + 1 .. Len(W) /\ 0 + (n + 1 - n) = 1 /\ n + 1 \in 1 .. Len(W)
      /\ n + 1 - 1 = n
  BY <1>2, <1>w
<1>6. Head(q) = W[n + 1]
  <2>1. q[0 + (n + 1 - n)] = W[n + 1] BY <1>3, <1>5, SMTT(30)
  <2>2. QED BY <1>4, <1>5, <2>1
<1>7. W[n + 1].do = "compile" BY <1>6 DEF q
<1>8. ASSUME NEW i \in Imports[W[n + 1].mod] PROVE OnDisk(i)
  <2>k. PICK k \in 1 .. Len(W) : k = n + 1 BY <1>5
  <2>1. PICK j \in 1 .. k - 1 : W[j].do = "compile" /\ W[j].mod = i
    <3>1. W[k].do = "compile" /\ i \in Imports[W[k].mod] BY <1>7, <2>k
    <3>2. QED BY <1>w, <3>1
  <2>2. j \in 1 .. n BY <1>5, <2>k
  <2>3. QED BY <1>3, <2>1, <2>2
<1>9. QED BY <1>5, <1>6, <1>7, <1>8, <1>w DEF q

\* A command that has ended claims nothing.
LEMMA EndKeeps ==
    ASSUME DiskTypes', job' = Idle
    PROVE  CacheInv'
BY DEF CacheInv, JobTypes

\* A command begins (RunBuild, RunCheck).
LEMMA StartKeeps ==
    ASSUME CacheInv, NEW cmd \in Commands, NEW t \in DOMAIN Targets, NEW mode, Start(cmd, t, mode)
    PROVE  CacheInv'
<1> DEFINE W == WorkOf(cmd, t)
<1>1. /\ job' = [cmd |-> cmd, target |-> t, mode |-> mode, parsed |-> src,
                 units |-> [m \in {} |-> 0], queue |-> W]
      /\ disk' = disk
  BY DEF Start
<1>2. IsSequence(W) /\ Len(W) \in Nat BY WorkFacts
<1> HIDE DEF W
<1>3. DiskTypes' BY <1>1 DEF CacheInv, DiskTypes
<1>4. DOMAIN job' = JobFields /\ job'.queue = W /\ job'.cmd = cmd /\ job'.target = t
  BY <1>1 DEF JobFields
<1>5. JobTypes' BY <1>2, <1>4 DEF JobTypes
<1>6. WorkOf(job'.cmd, job'.target) = W BY <1>4 DEF W
<1>7. Len(W) = 0 + (Len(W) - 0) /\ \A k \in 0 + 1 .. Len(W) : 0 + (k - 0) = k BY <1>2
<1>8. Progress(0, 0)' BY <1>4, <1>6, <1>7 DEF Progress
<1>9. 0 \in 0 .. Len(W) /\ 0 \in Nat BY <1>2
<1>10. QED BY <1>3, <1>5, <1>6, <1>8, <1>9 DEF CacheInv

\* What a change of the queue and of the units keeps of a command.
LEMMA QueueChanged ==
    ASSUME CacheInv, job # Idle, NEW queue, NEW units,
           \/ job' = [job EXCEPT !.queue = queue]
           \/ job' = [job EXCEPT !.queue = queue, !.units = units]
    PROVE  SameCommand /\ job'.queue = queue
<1>1. DOMAIN job = JobFields /\ job.cmd \in Commands BY DEF CacheInv, JobTypes
<1>2. /\ DOMAIN job' = JobFields /\ job'.queue = queue /\ job'.cmd = job.cmd
      /\ job'.target = job.target /\ job'.parsed = job.parsed
  BY <1>1 DEF JobFields
<1>3. job' # Idle
  <2>1. Idle.cmd = "idle" BY DEF Idle
  <2>2. job'.cmd # "idle" BY <1>1, <1>2 DEF Commands
  <2>3. QED BY <2>1, <2>2
<1>4. QED BY <1>2, <1>3 DEF SameCommand

\* A module is compiled (CompileModule).
LEMMA CompileKeeps ==
    ASSUME CacheInv, CompileModule
    PROVE  CacheInv'
<1> DEFINE m        == Head(job.queue).mod
           tgt      == Head(job.queue).target
           imported == LoadImportedInterfaces(m)
           text     == job.parsed[m]
           iface    == InterfaceOf(m, text, imported)
           current  == CurrentState(tgt, m, iface, imported)
           code     == Code(text, imported, job.mode, Role(tgt, m))
           first    == IF InterfaceChanged(m, iface) THEN << Write("mci", m, iface) >> ELSE << >>
           object   == ByTool("obj", m, code) \o << Write("state", m, current) >>
<1>1. job # Idle /\ job.queue # << >> /\ Head(job.queue).do = "compile" /\ disk' = disk
  BY DEF CompileModule
<1>2. CASE Finish(FALSE)
  <2>1. job' = Idle BY <1>2 DEF Finish
  <2>2. DiskTypes' BY <1>1 DEF CacheInv, DiskTypes
  <2>3. QED BY <2>1, <2>2, EndKeeps
<1>3. CASE ~Finish(FALSE)
  <2>1. PICK units, second :
           /\ second \in {object, << >>}
           /\ job' = [job EXCEPT !.queue = first \o second \o Tail(job.queue), !.units = units]
    BY <1>3 DEF CompileModule
  <2>2. SameCommand /\ job'.queue = first \o second \o Tail(job.queue)
    <3> DEFINE queue == first \o second \o Tail(job.queue)
    <3>1. job' = [job EXCEPT !.queue = queue, !.units = units] BY <2>1
    <3> HIDE DEF queue
    <3>2. SameCommand /\ job'.queue = queue BY <1>1, <3>1, QueueChanged
    <3>3. QED BY <3>2 DEF queue
  <2>3. m \in Modules BY <1>1, AtCompile
  <2>4. Matches(m, iface) BY DEF Matches, InterfaceOf
  <2>5. OwnFiles(first)
    <3>1. OwnFile(Write("mci", m, iface)) BY <2>3, <2>4 DEF OwnFile, Write
    <3>2. QED BY <3>1, FewFiles
  <2>6. OwnFiles(second)
    <3>1. OwnFiles(ByTool("obj", m, code)) BY ToolFiles DEF Areas
    <3>2. OwnFile(Write("state", m, current)) BY DEF OwnFile, Write, FileItem, Areas
    <3>3. OwnFiles(<< Write("state", m, current) >>) BY <3>2, FewFiles
    <3>4. OwnFiles(object) BY <3>1, <3>3, FilesJoined
    <3>5. QED BY <2>1, <3>4, FewFiles
  <2>7. OwnFiles(first \o second) BY <2>5, <2>6, FilesJoined
  <2>8. CASE InterfaceChanged(m, iface)
    <3> DEFINE x == Write("mci", m, iface)
    <3>1. first = << x >> /\ x.do = "write" /\ x.area = "mci" /\ x.key = m
      BY <2>8 DEF Write
    <3> HIDE DEF first, x
    <3>2. /\ Len(first) = 1 /\ first[1] = x BY <3>1
    <3>3. /\ Len(first \o second) = Len(first) + Len(second)
          /\ \A i \in 1 .. Len(first) : (first \o second)[i] = first[i]
          /\ Len(second) \in Nat
      BY <2>5, <2>6, Joined, SequenceFacts DEF OwnFiles
    <3>4. 1 \in 1 .. Len(first \o second) /\ (first \o second)[1] = x BY <3>2, <3>3
    <3>5. \E j \in 1 .. Len(first \o second) :
             /\ (first \o second)[j].do = "write" /\ (first \o second)[j].area = "mci"
             /\ (first \o second)[j].key = m
      BY <3>1, <3>4
    <3>6. Takes(first \o second) BY <2>2, <2>7, <3>5 DEF Takes
    <3>7. QED BY <1>1, <2>2, <3>6, TakeKeeps DEF FileItem
  <2>9. CASE ~InterfaceChanged(m, iface)
    <3>1. OnDisk(m) BY <2>4, <2>9 DEF OnDisk, InterfaceChanged
    <3>2. Takes(first \o second) BY <2>2, <2>7, <3>1 DEF Takes
    <3>3. QED BY <1>1, <2>2, <3>2, TakeKeeps DEF FileItem
  <2>10. QED BY <2>8, <2>9
<1>4. QED BY <1>2, <1>3

\* A target is closed (CloseTarget).
LEMMA CloseKeeps ==
    ASSUME CacheInv, CloseTarget
    PROVE  CacheInv'
<1>1. job # Idle /\ job.queue # << >> /\ Head(job.queue).do = "close" /\ disk' = disk
  BY DEF CloseTarget
<1> DEFINE t == Head(job.queue).target
<1>2. \A code : OwnFiles(LinkExecutable(t, code))
  <2> SUFFICES ASSUME NEW code PROVE OwnFiles(LinkExecutable(t, code))
    OBVIOUS
  <2>1. \A v : OwnFiles(ByTool("rtobj", t, v)) /\ OwnFiles(ByTool("out", t, v))
    BY ToolFiles DEF Areas
  <2>2. PICK first, v : /\ OwnFiles(first)
                        /\ LinkExecutable(t, code) = first \o ByTool("out", t, v)
    <3>1. OwnFiles(<< >>) BY FewFiles
    <3>2. QED BY <2>1, <3>1 DEF LinkExecutable
  <2>3. OwnFiles(ByTool("out", t, v)) BY <2>1
  <2>4. QED BY <2>2, <2>3, FilesJoined
<1>3. \A v : OwnFiles(ByTool("obj", Entry(t), v)) BY ToolFiles DEF Areas
<1>4. OwnFiles(ArchiveStaticLibrary(t)) BY ToolFiles DEF Areas, ArchiveStaticLibrary
<1>5. OwnFiles(<< >>) BY FewFiles
<1>6. \A v, code : OwnFiles(ByTool("obj", Entry(t), v) \o LinkExecutable(t, code))
  BY <1>2, <1>3, FilesJoined
<1>7. PICK work : /\ OwnFiles(work)
                  /\ job' = [job EXCEPT !.queue = work \o Tail(job.queue)]
  BY <1>2, <1>4, <1>5, <1>6 DEF CloseTarget
<1>8. SameCommand /\ job'.queue = work \o Tail(job.queue) BY <1>1, <1>7, QueueChanged
<1>9. Takes(work) BY <1>1, <1>7, <1>8 DEF Takes
<1>10. QED BY <1>1, <1>8, <1>9, TakeKeeps DEF FileItem

\* The rest of the steps deal with a file, end the command, or are made by
\* the programmer.
LEMMA OthersKeep ==
    ASSUME CacheInv,
           \/ RemoveArtifactIfExists \/ WriteArtifact \/ Succeed \/ CutShort
           \/ \E m \in Modules, text \in Texts : Edit(m, text)
           \/ EditRuntime \/ UNCHANGED vars
    PROVE  CacheInv'
<1>1. CASE RemoveArtifactIfExists
  <2>1. /\ job # Idle /\ job.queue # << >> /\ Head(job.queue).do = "remove"
        /\ job' = [job EXCEPT !.queue = Tail(job.queue)]
    BY <1>1 DEF RemoveArtifactIfExists
  <2>2. SameCommand /\ job'.queue = Tail(job.queue) BY <2>1, QueueChanged
  <2>3. Drops BY <1>1, <2>1, <2>2 DEF RemoveArtifactIfExists, Drops
  <2>4. QED BY <2>1, <2>2, <2>3, DropKeeps DEF FileItem
<1>2. CASE WriteArtifact
  <2>1. /\ job # Idle /\ job.queue # << >> /\ Head(job.queue).do = "write"
        /\ job' = [job EXCEPT !.queue = Tail(job.queue)]
    BY <1>2 DEF WriteArtifact
  <2>2. SameCommand /\ job'.queue = Tail(job.queue) BY <2>1, QueueChanged
  <2>3. Drops BY <1>2, <2>1, <2>2 DEF WriteArtifact, Drops
  <2>4. QED BY <2>1, <2>2, <2>3, DropKeeps DEF FileItem
<1>3. CASE Succeed
  <2>1. job' = Idle /\ disk' = disk BY <1>3 DEF Succeed, Finish
  <2>2. DiskTypes' BY <2>1 DEF CacheInv, DiskTypes
  <2>3. QED BY <2>1, <2>2, EndKeeps
<1>4. CASE CutShort
  <2>1. job' = Idle BY <1>4 DEF CutShort, Finish
  <2>2. DiskTypes'
    <3>1. PICK key, v, w : disk' \in {disk, [disk EXCEPT !["mci"][key] = v],
                                      [disk EXCEPT !["state"][key] = w]}
      BY <1>4 DEF CutShort, Put
    <3>2. DiskTypes BY DEF CacheInv
    <3>3. QED BY <3>1, <3>2 DEF DiskTypes, Areas
  <2>3. QED BY <2>1, <2>2, EndKeeps
<1>5. CASE UNCHANGED << disk, job >>
  <2>1. DiskTypes' /\ JobTypes' BY <1>5 DEF CacheInv, DiskTypes, JobTypes
  <2>2. ASSUME NEW n, NEW f, Progress(n, f) PROVE Progress(n, f)'
    BY <1>5, <2>2 DEF Progress, OwnFile, OnDisk, Announced, Matches, Exists
  <2>3. QED BY <1>5, <2>1, <2>2 DEF CacheInv
<1>6. CASE \/ \E m \in Modules, text \in Texts : Edit(m, text)
           \/ EditRuntime \/ UNCHANGED vars
  BY <1>5, <1>6 DEF Edit, EditRuntime, vars
<1>7. QED BY <1>1, <1>2, <1>3, <1>4, <1>6

-----------------------------------------------------------------------------
(* What a module is compiled against.                                      *)

\* The invariant of the build directory and the queue, whatever the project,
\* the edits and the commands cut short.
LEMMA CacheInvariant == Spec => []CacheInv
<1>1. Init => CacheInv
  <2> SUFFICES ASSUME Init PROVE CacheInv
    OBVIOUS
  <2>1. job = Idle BY DEF Init
  <2>2. DiskTypes BY DEF Init, DiskTypes, Areas
  <2>3. QED BY <2>1, <2>2 DEF CacheInv, JobTypes
<1>2. CacheInv /\ [Next]_vars => CacheInv'
  <2> SUFFICES ASSUME CacheInv, [Next]_vars PROVE CacheInv'
    OBVIOUS
  <2>1. CASE \E t \in DOMAIN Targets, mode \in Modes : RunBuild(t, mode) \/ RunCheck(t, mode)
    <3>1. PICK t \in DOMAIN Targets, mode \in Modes : RunBuild(t, mode) \/ RunCheck(t, mode)
      BY <2>1
    <3>2. CASE RunBuild(t, mode) BY <3>2, StartKeeps DEF RunBuild, Commands
    <3>3. CASE RunCheck(t, mode) BY <3>3, StartKeeps DEF RunCheck, Commands
    <3>4. QED BY <3>1, <3>2, <3>3
  <2>2. CASE CompileModule BY <2>2, CompileKeeps
  <2>3. CASE CloseTarget BY <2>3, CloseKeeps
  <2>4. CASE \/ RemoveArtifactIfExists \/ WriteArtifact \/ Succeed \/ CutShort
             \/ \E m \in Modules, text \in Texts : Edit(m, text)
             \/ EditRuntime \/ UNCHANGED vars
    BY <2>4, OthersKeep
  <2>5. QED BY <2>1, <2>2, <2>3, <2>4 DEF Next
<1>3. QED BY <1>1, <1>2, PTL DEF Spec

\* A module is never compiled against an interface that an earlier command
\* left behind for another text, or against none at all: the list is in import
\* order, each module on it leaves its interface before the next one is taken,
\* and no host tool touches an interface (CompileModuleGraph).
THEOREM CompiledAgainstThisCommand == Spec => []FreshInterfaces
<1>1. CacheInv => FreshInterfaces
  <2> SUFFICES ASSUME CacheInv, job # Idle, job.queue # << >>, Head(job.queue).do = "compile",
                      NEW i \in Imports[Head(job.queue).mod]
               PROVE  /\ Exists(disk.mci[i])
                      /\ disk.mci[i].what.values = job.parsed[i].values
                      /\ disk.mci[i].what.types[i] = job.parsed[i].types
    BY DEF FreshInterfaces
  <2>1. OnDisk(i) BY AtCompile
  <2>2. QED BY <2>1 DEF OnDisk, Matches
<1>2. QED BY <1>1, CacheInvariant, PTL

-----------------------------------------------------------------------------
(* The work of a command.                                                  *)

\* What FlattenSeq joins: the last sequence, after elements of the others.
LEMMA FlattenedLast ==
    ASSUME NEW seqs, IsSequence(seqs), \A i \in 1 .. Len(seqs) : IsSequence(seqs[i]),
           seqs # << >>
    PROVE  \E before :
              /\ IsSequence(before) /\ FlattenSeq(seqs) = before \o seqs[Len(seqs)]
              /\ \A p \in 1 .. Len(before) :
                    \E i \in 1 .. Len(seqs) - 1 : before[p] \in Range(seqs[i])
<1> DEFINE n == Len(seqs)
           Within(s, k) == /\ IsSequence(s)
                           /\ \A p \in 1 .. Len(s) : \E i \in 1 .. k : s[p] \in Range(seqs[i])
           f == CHOOSE f : Flattens(seqs, f, n)
<1>1. n \in Nat \ {0} BY Shortened
<1>2. Flattens(seqs, f, n) BY <1>1, FlattensExists
<1>3. FlattenSeq(seqs) = f[n] BY <1>1 DEF FlattenSeq, Flattens
<1> HIDE DEF f
<1>4. \A i \in 1 .. n : f[i] = IF i = 1 THEN seqs[i] ELSE f[i - 1] \o seqs[i]
  BY <1>2 DEF Flattens
<1>5. \A i \in 1 .. n : IsSequence(seqs[i]) OBVIOUS
<1> HIDE DEF n
<1>6. \A i \in 1 .. n : \A p \in 1 .. Len(seqs[i]) : seqs[i][p] \in Range(seqs[i])
  BY <1>5, SequenceFacts DEF Range
<1> DEFINE S == {k \in Nat : k + 1 <= n => Within(f[k + 1], k + 1)}
<1>7. 0 \in S
  <2>1. 1 \in 1 .. n /\ 1 \in 1 .. 1 BY <1>1
  <2>2. f[1] = seqs[1] BY <1>4, <2>1
  <2>3. Within(seqs[1], 1) BY <1>5, <1>6, <2>1
  <2>4. QED BY <2>2, <2>3
<1>8. ASSUME NEW k \in Nat, k \in S PROVE k + 1 \in S
  <2> SUFFICES ASSUME k + 1 + 1 <= n PROVE Within(f[k + 1 + 1], k + 1 + 1)
    OBVIOUS
  <2>1. PICK i \in 1 .. n : i = k + 1 + 1 /\ i # 1 /\ i - 1 = k + 1 BY <1>1
  <2>2. f[i] = f[i - 1] \o seqs[i] BY <1>4, <2>1
  <2>3. Within(f[i - 1], k + 1) BY <1>1, <1>8, <2>1
  <2> DEFINE s == f[i - 1]
             t == seqs[i]
  <2>4. IsSequence(s) /\ IsSequence(t) BY <1>5, <2>3
  <2>5. \A p \in 1 .. Len(s) : \E j \in 1 .. k + 1 : s[p] \in Range(seqs[j]) BY <2>3
  <2>6. \A p \in 1 .. Len(t) : t[p] \in Range(seqs[i]) BY <1>6
  <2> HIDE DEF s, t
  <2>7. /\ IsSequence(s \o t) /\ Len(s \o t) = Len(s) + Len(t)
        /\ \A p \in 1 .. Len(s) : (s \o t)[p] = s[p]
        /\ \A p \in 1 .. Len(t) : (s \o t)[Len(s) + p] = t[p]
        /\ Len(s) \in Nat /\ Len(t) \in Nat
    BY <2>4, Joined, SequenceFacts
  <2>8. ASSUME NEW p \in 1 .. Len(s \o t)
        PROVE  \E j \in 1 .. k + 1 + 1 : (s \o t)[p] \in Range(seqs[j])
    <3>1. CASE p <= Len(s)
      <4>1. p \in 1 .. Len(s) BY <2>7, <3>1
      <4>2. PICK j \in 1 .. k + 1 : s[p] \in Range(seqs[j]) BY <2>5, <4>1
      <4>3. j \in 1 .. k + 1 + 1 /\ (s \o t)[p] = s[p] BY <2>7, <4>1
      <4>4. QED BY <4>2, <4>3
    <3>2. CASE ~(p <= Len(s))
      <4>1. PICK q \in 1 .. Len(t) : p = Len(s) + q
        <5>1. p - Len(s) \in 1 .. Len(t) /\ p = Len(s) + (p - Len(s)) BY <2>7, <3>2
        <5>2. QED BY <5>1
      <4>2. (s \o t)[p] = t[q] BY <2>7, <4>1
      <4>3. i \in 1 .. k + 1 + 1 BY <2>1
      <4>4. QED BY <2>6, <4>2, <4>3
    <3>3. QED BY <3>1, <3>2
  <2>9. Within(s \o t, k + 1 + 1) BY <2>7, <2>8
  <2>10. QED BY <2>1, <2>2, <2>9 DEF s, t
<1>9. Nat \subseteq S
  <2> HIDE DEF S
  <2>1. QED BY <1>7, <1>8, NatSet
<1>10. CASE n = 1
  <2>1. f[n] = seqs[n] BY <1>4, <1>10
  <2>2. IsSequence(seqs[n]) BY <1>5, <1>10
  <2>3. seqs[n] = << >> \o seqs[n]
    <3> DEFINE t == seqs[n]
    <3>1. t \in Seq(Range(t)) BY <2>2 DEF IsSequence
    <3> HIDE DEF t
    <3>2. t = << >> \o t BY <3>1
    <3>3. QED BY <3>2 DEF t
  <2>4. IsSequence(<< >>) /\ \A p \in 1 .. Len(<< >>) : FALSE BY Single
  <2>5. FlattenSeq(seqs) = << >> \o seqs[n] BY <1>3, <2>1, <2>3
  <2>6. QED BY <2>4, <2>5 DEF n
<1>11. CASE n # 1
  <2>1. PICK k \in Nat : n = k + 1 + 1 /\ k + 1 = n - 1
    <3>1. n - 2 \in Nat /\ n = n - 2 + 1 + 1 /\ n - 2 + 1 = n - 1 BY <1>1, <1>11
    <3>2. QED BY <3>1
  <2>2. k \in S BY <1>9
  <2>3. Within(f[n - 1], n - 1) BY <2>1, <2>2
  <2>4. f[n] = f[n - 1] \o seqs[n]
    <3>1. n \in 1 .. n BY <1>1
    <3>2. QED BY <1>4, <1>11, <3>1
  <2>5. QED BY <1>3, <2>3, <2>4 DEF n
<1>12. QED BY <1>10, <1>11

\* What a command does about one target: it compiles its modules and closes it.
WorkOn(cmd, u) ==
    [i \in DOMAIN Targets[u].mods |-> Compile(u, Targets[u].mods[i])]
    \o IF cmd = "build" THEN << Close(u) >> ELSE << >>

\* The items of the work on a target.
LEMMA TargetWork ==
    ASSUME NEW cmd, NEW u \in DOMAIN Targets
    PROVE  LET w == WorkOn(cmd, u)
               n == Len(Targets[u].mods)
           IN  /\ IsSequence(w) /\ n \in Nat \ {0} /\ DOMAIN Targets[u].mods = 1 .. n
               /\ Len(w) = n + IF cmd = "build" THEN 1 ELSE 0
               /\ \A i \in 1 .. n : w[i] = Compile(u, Targets[u].mods[i])
               /\ cmd = "build" => w[n + 1] = Close(u)
<1> DEFINE mods == Targets[u].mods
           n == Len(mods)
           parts == [i \in DOMAIN mods |-> Compile(u, mods[i])]
           end == IF cmd = "build" THEN << Close(u) >> ELSE << >>
<1>1. mods \in Seq(Modules) \ {<< >>} BY TargetsAssumption
<1>2. n \in Nat \ {0} /\ DOMAIN mods = 1 .. n
  <2> HIDE DEF mods
  <2>1. QED BY <1>1
<1>3. IsSequence(parts) /\ Len(parts) = n
  <2>1. parts = [i \in 1 .. n |-> parts[i]] BY <1>2
  <2> HIDE DEF parts
  <2>2. QED BY <1>2, <2>1, Listed
<1>4. \A i \in 1 .. n : parts[i] = Compile(u, mods[i]) BY <1>2
<1>5. IsSequence(end) /\ Len(end) = IF cmd = "build" THEN 1 ELSE 0
  BY Single
<1>6. cmd = "build" => end[1] = Close(u) BY Single
<1> HIDE DEF parts, end, n
<1>7. /\ IsSequence(parts \o end) /\ Len(parts \o end) = n + Len(end)
      /\ \A i \in 1 .. n : (parts \o end)[i] = parts[i]
      /\ \A i \in 1 .. Len(end) : (parts \o end)[n + i] = end[i]
  <2>1. /\ IsSequence(parts \o end) /\ Len(parts \o end) = Len(parts) + Len(end)
        /\ \A i \in 1 .. Len(parts) : (parts \o end)[i] = parts[i]
        /\ \A i \in 1 .. Len(end) : (parts \o end)[Len(parts) + i] = end[i]
    <3>1. IsSequence(parts) /\ IsSequence(end) BY <1>3, <1>5
    <3>2. QED BY <3>1, Joined
  <2>2. Len(parts) = n BY <1>3
  <2>3. QED BY <2>1, <2>2, Zenon
<1>8. cmd = "build" => (parts \o end)[n + 1] = Close(u)
  <2> SUFFICES ASSUME cmd = "build" PROVE (parts \o end)[n + 1] = end[1]
    BY <1>6
  <2>1. 1 \in 1 .. Len(end) BY <1>5
  <2>2. QED BY <1>7, <2>1
<1>9. WorkOn(cmd, u) = parts \o end BY DEF WorkOn, parts, end
<1>10. QED BY <1>2, <1>4, <1>5, <1>7, <1>8, <1>9 DEF n

\* The part a target plays in a list of work: each item compiles a module of its
\* target, or closes it after all of them.
LEMMA WorkItems ==
    ASSUME NEW cmd, NEW u \in DOMAIN Targets, NEW w, w = WorkOn(cmd, u), NEW q \in 1 .. Len(w)
    PROVE  /\ w[q].target = u
           /\ \/ w[q].do = "compile" /\ w[q].mod \in Range(Targets[u].mods)
              \/ /\ w[q] = Close(u) /\ cmd = "build" /\ q = Len(w)
                 /\ \A m \in Range(Targets[u].mods) :
                       \E j \in 1 .. q - 1 : w[j] = Compile(u, m)
<1> DEFINE mods == Targets[u].mods
           n == Len(mods)
<1>1. /\ n \in Nat \ {0} /\ DOMAIN mods = 1 .. n
      /\ Len(w) = n + IF cmd = "build" THEN 1 ELSE 0
      /\ \A i \in 1 .. n : w[i] = Compile(u, mods[i])
      /\ cmd = "build" => w[n + 1] = Close(u)
  BY TargetWork
<1> HIDE DEF mods, n
<1>2. CASE q <= n
  <2>1. q \in DOMAIN mods /\ w[q] = Compile(u, mods[q]) BY <1>1, <1>2
  <2>2. QED BY <2>1 DEF Compile, Range, mods
<1>3. CASE ~(q <= n)
  <2>1. q = n + 1 /\ cmd = "build" /\ q = Len(w) /\ w[q] = Close(u) /\ q - 1 = n BY <1>1, <1>3
  <2>2. ASSUME NEW m \in Range(mods) PROVE \E j \in 1 .. q - 1 : w[j] = Compile(u, m)
    <3>1. PICK i \in 1 .. n : mods[i] = m BY <1>1 DEF Range
    <3>2. QED BY <1>1, <2>1, <3>1
  <2>3. QED BY <2>1, <2>2 DEF Close, mods
<1>4. QED BY <1>2, <1>3

\* The list of a command is made of the lists of the targets it works on.
LEMMA WorkBlocks ==
    ASSUME NEW cmd \in Commands, NEW t \in DOMAIN Targets
    PROVE  LET order == BuildOrder(t)
               seqs == [i \in DOMAIN order |-> WorkOn(cmd, order[i])]
               L == Len(Targets[t].links)
           IN  /\ L \in Nat /\ DOMAIN order = 1 .. L + 1 /\ IsSequence(seqs) /\ Len(seqs) = L + 1
               /\ \A i \in 1 .. L + 1 : /\ order[i] \in DOMAIN Targets
                                        /\ seqs[i] = WorkOn(cmd, order[i])
                                        /\ IsSequence(seqs[i])
               /\ order[L + 1] = t
               /\ \A i \in 1 .. L : /\ order[i] = Targets[t].links[i]
                                    /\ Targets[order[i]].kind = "staticlib"
               /\ WorkOf(cmd, t) = FlattenSeq(seqs)
<1> DEFINE links == Targets[t].links
           order == BuildOrder(t)
           seqs == [i \in DOMAIN order |-> WorkOn(cmd, order[i])]
           libs == {l \in DOMAIN Targets : Targets[l].kind = "staticlib"}
<1>1. links \in Seq(libs) BY TargetsAssumption
<1> HIDE DEF libs
<1>2. /\ IsSequence(links) /\ Len(links) \in Nat
      /\ \A i \in 1 .. Len(links) : links[i] \in libs
  <2> HIDE DEF links
  <2>1. QED BY <1>1, SequenceFacts
<1>3. order = links \o << t >> BY DEF BuildOrder
<1> DEFINE L == Len(links)
<1> HIDE DEF links, order
<1>4. /\ IsSequence(order) /\ Len(order) = L + 1
      /\ \A i \in 1 .. L : order[i] = links[i]
      /\ order[L + 1] = t
  <2>1. IsSequence(<< t >>) /\ Len(<< t >>) = 1 /\ << t >>[1] = t BY Single
  <2>2. /\ IsSequence(links \o << t >>) /\ Len(links \o << t >>) = Len(links) + Len(<< t >>)
        /\ \A i \in 1 .. Len(links) : (links \o << t >>)[i] = links[i]
        /\ \A i \in 1 .. Len(<< t >>) : (links \o << t >>)[Len(links) + i] = << t >>[i]
    BY <1>2, <2>1, Joined
  <2>3. QED BY <1>3, <2>1, <2>2
<1>5. DOMAIN order = 1 .. L + 1 BY <1>4, SequenceFacts
<1> HIDE DEF L
<1>6. \A i \in 1 .. L : order[i] \in libs BY <1>2, <1>4 DEF L
<1>7. \A i \in 1 .. L + 1 : order[i] \in DOMAIN Targets
  <2> SUFFICES ASSUME NEW i \in 1 .. L + 1 PROVE order[i] \in DOMAIN Targets
    OBVIOUS
  <2>1. CASE i = L + 1 BY <1>4, <2>1
  <2>2. CASE i # L + 1
    <3>1. i \in 1 .. L BY <1>2, <2>2 DEF L
    <3>2. QED BY <1>6, <3>1 DEF libs
  <2>3. QED BY <2>1, <2>2
<1>8. \A i \in 1 .. L + 1 : seqs[i] = WorkOn(cmd, order[i]) /\ IsSequence(seqs[i])
  <2> SUFFICES ASSUME NEW i \in 1 .. L + 1
               PROVE seqs[i] = WorkOn(cmd, order[i]) /\ IsSequence(seqs[i])
    OBVIOUS
  <2>1. seqs[i] = WorkOn(cmd, order[i]) BY <1>5
  <2>2. IsSequence(WorkOn(cmd, order[i])) BY <1>7, TargetWork
  <2>3. QED BY <2>1, <2>2
<1>9. IsSequence(seqs) /\ Len(seqs) = L + 1
  <2>1. seqs = [i \in 1 .. L + 1 |-> seqs[i]] BY <1>5
  <2>2. L + 1 \in Nat BY <1>2 DEF L
  <2> HIDE DEF seqs
  <2>3. QED BY <2>1, <2>2, Listed
<1>10. WorkOf(cmd, t) = FlattenSeq(seqs) BY DEF WorkOf, WorkOn, seqs, order
<1>11. \A i \in 1 .. L : Targets[order[i]].kind = "staticlib" BY <1>6 DEF libs
<1>12. L \in Nat BY <1>2 DEF L
<1>13. QED BY <1>4, <1>5, <1>7, <1>8, <1>9, <1>10, <1>11, <1>12 DEF L, links, order

\* What a command's list holds: each item compiles a module of its target, or
\* closes a target all of whose modules come before; a build closes every
\* library below its target and then the target itself.
PartsOf(cmd, t, W) ==
    /\ Len(W) \in Nat
    /\ \A k \in 1 .. Len(W) :
          /\ W[k].target \in DOMAIN Targets
          /\ \/ W[k].do = "compile" /\ W[k].mod \in Range(Targets[W[k].target].mods)
             \/ /\ W[k].do = "close" /\ cmd = "build"
                /\ Targets[W[k].target].kind = "exe" => k = Len(W)
                /\ \A m \in Range(Targets[W[k].target].mods) :
                      \E j \in 1 .. k - 1 : W[j] = Compile(W[k].target, m)
    /\ \A m \in Range(Targets[t].mods) : \E k \in 1 .. Len(W) : W[k] = Compile(t, m)
    /\ cmd = "build" =>
          /\ Len(W) > 0 /\ W[Len(W)] = Close(t)
          /\ \A l \in Range(Targets[t].links) : \E k \in 1 .. Len(W) : W[k] = Close(l)

\* The list of a command is of that kind.
LEMMA WorkParts ==
    ASSUME NEW cmd \in Commands, NEW t \in DOMAIN Targets
    PROVE  PartsOf(cmd, t, WorkOf(cmd, t))
<1> DEFINE order == BuildOrder(t)
           seqs == [i \in DOMAIN order |-> WorkOn(cmd, order[i])]
           L == Len(Targets[t].links)
           W == WorkOf(cmd, t)
<1>1. /\ L \in Nat /\ DOMAIN order = 1 .. L + 1 /\ IsSequence(seqs) /\ Len(seqs) = L + 1
      /\ \A i \in 1 .. L + 1 : /\ order[i] \in DOMAIN Targets
                               /\ seqs[i] = WorkOn(cmd, order[i])
                               /\ IsSequence(seqs[i])
      /\ order[L + 1] = t
      /\ \A i \in 1 .. L : /\ order[i] = Targets[t].links[i]
                           /\ Targets[order[i]].kind = "staticlib"
      /\ W = FlattenSeq(seqs)
  BY WorkBlocks
<1> HIDE DEF order, seqs, L, W
<1>2. Blocks(seqs, W, L + 1) BY <1>1, Flattened
<1>3. /\ IsSequence(W) /\ Len(W) \in Nat
      /\ \A i \in 1 .. L + 1 : \E d \in Nat : Block(seqs, W, i, d)
      /\ \A p \in 1 .. Len(W) :
            \E i \in 1 .. L + 1, d \in Nat : Block(seqs, W, i, d) /\ d < p /\ p <= d + Len(seqs[i])
  BY <1>2, SequenceFacts DEF Blocks
<1>4. \A i \in 1 .. L + 1 : Len(seqs[i]) \in Nat BY <1>1, SequenceFacts
<1>5. seqs # << >>
  <2>1. Len(seqs) # 0 BY <1>1
  <2>2. QED BY <2>1, Single
<1>6. PICK before :
         /\ IsSequence(before) /\ W = before \o seqs[L + 1]
         /\ \A p \in 1 .. Len(before) :
               \E i \in 1 .. L : before[p] \in Range(seqs[i])
  <2>1. \A i \in 1 .. Len(seqs) : IsSequence(seqs[i]) BY <1>1
  <2>2. PICK before :
           /\ IsSequence(before) /\ FlattenSeq(seqs) = before \o seqs[Len(seqs)]
           /\ \A p \in 1 .. Len(before) :
                 \E i \in 1 .. Len(seqs) - 1 : before[p] \in Range(seqs[i])
    <3>1. IsSequence(seqs) BY <1>1
    <3>2. QED BY <1>5, <2>1, <3>1, FlattenedLast
  <2>3. Len(seqs) = L + 1 /\ Len(seqs) - 1 = L BY <1>1
  <2>4. W = before \o seqs[L + 1]
    <3>1. W = FlattenSeq(seqs) BY <1>1
    <3>2. QED BY <2>2, <2>3, <3>1
  <2>5. \A p \in 1 .. Len(before) : \E i \in 1 .. L : before[p] \in Range(seqs[i])
    BY <2>2, <2>3
  <2>6. IsSequence(before) BY <2>2
  <2>7. QED BY <2>4, <2>5, <2>6
<1> DEFINE end == seqs[L + 1]
           b == Len(before)
<1>e. L + 1 \in 1 .. L + 1 BY <1>1
<1>7. /\ Len(W) = b + Len(end) /\ b \in Nat /\ Len(end) \in Nat
      /\ \A p \in 1 .. b : W[p] = before[p]
      /\ \A p \in 1 .. Len(end) : W[b + p] = end[p]
  <2>1. IsSequence(end) BY <1>1, <1>e
  <2> HIDE DEF end
  <2>2. QED BY <1>6, <2>1, Joined, SequenceFacts DEF end
<1>8. end = WorkOn(cmd, t) BY <1>1, <1>e
<1> HIDE DEF end, b
<1>9. ASSUME NEW k \in 1 .. Len(W), NEW u \in DOMAIN Targets, W[k] = Close(u),
             Targets[u].kind = "exe"
      PROVE  k = Len(W)
  <2>1. CASE k <= b
    <3>1. k \in 1 .. b BY <1>7, <2>1
    <3>2. PICK i \in 1 .. L : before[k] \in Range(seqs[i]) BY <1>6, <3>1 DEF b
    <3>3. i \in 1 .. L + 1 BY <1>1
    <3>4. PICK q \in 1 .. Len(seqs[i]) : before[k] = seqs[i][q]
      BY <1>1, <3>2, <3>3, SequenceFacts DEF Range
    <3>5. seqs[i][q].target = order[i] BY <1>1, <3>3, WorkItems
    <3>6. W[k].target = u BY <1>9 DEF Close
    <3>7. Targets[order[i]].kind = "staticlib" BY <1>1
    <3>8. QED BY <1>7, <1>9, <3>1, <3>4, <3>5, <3>6, <3>7
  <2>2. CASE ~(k <= b)
    <3>1. PICK q \in 1 .. Len(end) : k = b + q
      <4>1. k - b \in 1 .. Len(end) /\ k = b + (k - b) BY <1>7, <2>2
      <4>2. QED BY <4>1
    <3>2. end[q] = Close(u) BY <1>7, <1>9, <3>1
    <3>3. end[q].do = "close" BY <3>2 DEF Close
    <3>4. q = Len(end) BY <1>8, <3>3, WorkItems
    <3>5. QED BY <1>7, <3>1, <3>4
  <2>3. QED BY <2>1, <2>2
<1>10. ASSUME NEW k \in 1 .. Len(W)
       PROVE  /\ W[k].target \in DOMAIN Targets
              /\ \/ W[k].do = "compile" /\ W[k].mod \in Range(Targets[W[k].target].mods)
                 \/ /\ W[k].do = "close" /\ cmd = "build"
                    /\ Targets[W[k].target].kind = "exe" => k = Len(W)
                    /\ \A m \in Range(Targets[W[k].target].mods) :
                          \E j \in 1 .. k - 1 : W[j] = Compile(W[k].target, m)
  <2>1. PICK i \in 1 .. L + 1, d \in Nat :
           Block(seqs, W, i, d) /\ d < k /\ k <= d + Len(seqs[i])
    BY <1>3
  <2> DEFINE w == seqs[i]
             u == order[i]
  <2>2. u \in DOMAIN Targets /\ w = WorkOn(cmd, u) BY <1>1
  <2>3. \A p \in 1 .. Len(w) : W[d + p] = w[p] BY <2>1 DEF Block
  <2>4. Len(w) \in Nat BY <1>4
  <2>q. PICK q \in 1 .. Len(w) : k = d + q
    <3>1. k - d \in 1 .. Len(w) /\ k = d + (k - d) BY <2>1, <2>4
    <3>2. QED BY <3>1
  <2>5. W[k] = w[q] BY <2>3, <2>q
  <2> HIDE DEF w, u
  <2>6. /\ w[q].target = u
        /\ \/ w[q].do = "compile" /\ w[q].mod \in Range(Targets[u].mods)
           \/ /\ w[q] = Close(u) /\ cmd = "build" /\ q = Len(w)
              /\ \A m \in Range(Targets[u].mods) :
                    \E j \in 1 .. q - 1 : w[j] = Compile(u, m)
    BY <2>2, WorkItems
  <2>7. CASE w[q].do = "compile" /\ w[q].mod \in Range(Targets[u].mods)
    BY <2>2, <2>5, <2>6, <2>7
  <2>8. CASE /\ w[q] = Close(u) /\ cmd = "build"
             /\ \A m \in Range(Targets[u].mods) : \E j \in 1 .. q - 1 : w[j] = Compile(u, m)
    <3>1. W[k].do = "close" /\ W[k].target = u BY <2>5, <2>8 DEF Close
    <3>2. Targets[u].kind = "exe" => k = Len(W) BY <1>9, <2>2, <2>5, <2>8
    <3>3. ASSUME NEW m \in Range(Targets[u].mods)
          PROVE  \E j \in 1 .. k - 1 : W[j] = Compile(u, m)
      <4>1. PICK j \in 1 .. q - 1 : w[j] = Compile(u, m) BY <2>8
      <4>2. j \in 1 .. Len(w) /\ d + j \in 1 .. k - 1 BY <2>4, <2>q
      <4>3. W[d + j] = w[j] BY <2>3, <4>2
      <4>4. QED BY <4>1, <4>2, <4>3
    <3>4. QED BY <2>2, <2>8, <3>1, <3>2, <3>3
  <2>9. QED BY <2>6, <2>7, <2>8
<1>11. ASSUME NEW m \in Range(Targets[t].mods)
       PROVE  \E k \in 1 .. Len(W) : W[k] = Compile(t, m)
  <2> DEFINE n == Len(Targets[t].mods)
  <2>1. /\ n \in Nat \ {0} /\ DOMAIN Targets[t].mods = 1 .. n
        /\ Len(end) = n + IF cmd = "build" THEN 1 ELSE 0
        /\ \A i \in 1 .. n : end[i] = Compile(t, Targets[t].mods[i])
    BY <1>8, TargetWork
  <2> HIDE DEF n
  <2>2. PICK i \in 1 .. n : Targets[t].mods[i] = m BY <2>1 DEF Range
  <2>3. i \in 1 .. Len(end) /\ b + i \in 1 .. Len(W) BY <1>7, <2>1
  <2>4. W[b + i] = end[i] BY <1>7, <2>3
  <2>5. QED BY <2>1, <2>2, <2>3, <2>4
<1>12. ASSUME cmd = "build" PROVE Len(W) > 0 /\ W[Len(W)] = Close(t)
  <2> DEFINE n == Len(Targets[t].mods)
  <2>1. n \in Nat \ {0} /\ Len(end) = n + 1 /\ end[n + 1] = Close(t)
    BY <1>8, <1>12, TargetWork
  <2> HIDE DEF n
  <2>2. n + 1 \in 1 .. Len(end) /\ Len(W) = b + (n + 1) BY <1>7, <2>1
  <2>3. W[b + (n + 1)] = end[n + 1] BY <1>7, <2>2
  <2>4. QED BY <1>7, <2>1, <2>2, <2>3
<1>13. ASSUME cmd = "build", NEW l \in Range(Targets[t].links)
       PROVE  \E k \in 1 .. Len(W) : W[k] = Close(l)
  <2>1. PICK i \in 1 .. L : order[i] = l
    <3> DEFINE links == Targets[t].links
    <3>1. links \in Seq({x \in DOMAIN Targets : Targets[x].kind = "staticlib"})
      BY TargetsAssumption
    <3>2. IsSequence(links) BY <3>1, SequenceFacts
    <3> HIDE DEF links
    <3>3. DOMAIN links = 1 .. L BY <3>2, SequenceFacts DEF L, links
    <3>4. QED BY <1>1, <3>3 DEF Range, links
  <2>2. i \in 1 .. L + 1 BY <1>1
  <2>3. PICK d \in Nat : Block(seqs, W, i, d) BY <1>3, <2>2
  <2> DEFINE w == seqs[i]
             n == Len(Targets[l].mods)
  <2>4. w = WorkOn(cmd, l) /\ l \in DOMAIN Targets BY <1>1, <2>1, <2>2
  <2>5. d + Len(w) <= Len(W) /\ \A p \in 1 .. Len(w) : W[d + p] = w[p] BY <2>3 DEF Block
  <2>6. n \in Nat \ {0} /\ Len(w) = n + 1 /\ w[n + 1] = Close(l)
    BY <1>13, <2>4, TargetWork
  <2> HIDE DEF w, n
  <2>7. n + 1 \in 1 .. Len(w) /\ d + (n + 1) \in 1 .. Len(W) BY <1>3, <2>5, <2>6
  <2>8. W[d + (n + 1)] = Close(l) BY <2>5, <2>6, <2>7
  <2>9. QED BY <2>7, <2>8
<1>14. PartsOf(cmd, t, W) BY <1>3, <1>10, <1>11, <1>12, <1>13 DEF PartsOf
<1>15. QED BY <1>14 DEF W

-----------------------------------------------------------------------------
(* Interfaces of a set of texts.                                           *)

\* The interface of m, from those of its imports.
InterfaceFrom(texts, f, m) == InterfaceOf(m, texts[m], [i \in Imports[m] |-> f[i]])

\* What a build from an empty directory makes of the texts (CleanInterface).
Clean(texts) == CHOOSE f : f = [m \in Modules |-> InterfaceFrom(texts, f, m)]

\* The modules among the first k of a list.
Below(k) ==
    {m \in Modules : \E t \in DOMAIN Targets, j \in 1 .. k :
        LET W == WorkOf("check", t)
        IN  j <= Len(W) /\ W[j].do = "compile" /\ W[j].mod = m}

\* Imports come from further below, and every module is somewhere.
LEMMA BelowFacts ==
    /\ Below(0) = {}
    /\ \A k \in Nat : Below(k) \subseteq Below(k + 1)
    /\ \A k \in Nat : \A m \in Below(k + 1) : Imports[m] \subseteq Below(k)
    /\ \A m \in Modules : \E k \in Nat : m \in Below(k)
<1>1. Below(0) = {} BY DEF Below
<1>2. \A k \in Nat : Below(k) \subseteq Below(k + 1) BY DEF Below
<1>c. "check" \in Commands BY DEF Commands
<1>3. ASSUME NEW k \in Nat, NEW m \in Below(k + 1), NEW i \in Imports[m]
      PROVE  i \in Below(k)
  <2>1. PICK t \in DOMAIN Targets, j \in 1 .. k + 1 :
           LET W == WorkOf("check", t)
           IN  j <= Len(W) /\ W[j].do = "compile" /\ W[j].mod = m
    BY DEF Below
  <2> DEFINE W == WorkOf("check", t)
  <2>w. /\ Len(W) \in Nat
        /\ \A l \in 1 .. Len(W) :
              W[l].do = "compile" =>
                  /\ W[l].mod \in Modules
                  /\ \A x \in Imports[W[l].mod] :
                        \E h \in 1 .. l - 1 : W[h].do = "compile" /\ W[h].mod = x
    BY <1>c, WorkFacts
  <2>j. j <= Len(W) /\ W[j].do = "compile" /\ W[j].mod = m BY <2>1
  <2> HIDE DEF W
  <2>2. j \in 1 .. Len(W) BY <2>w, <2>j
  <2>3. PICK h \in 1 .. j - 1 : W[h].do = "compile" /\ W[h].mod = i
    BY <2>w, <2>j, <2>2
  <2>4. h \in 1 .. k /\ h \in 1 .. Len(W) /\ h <= Len(W) BY <2>w, <2>2
  <2>5. i \in Modules BY <2>w, <2>3, <2>4
  <2>6. QED BY <2>3, <2>4, <2>5 DEF Below, W
<1>4. ASSUME NEW m \in Modules PROVE \E k \in Nat : m \in Below(k)
  <2>1. PICK t \in DOMAIN Targets : m \in Range(Targets[t].mods) BY TargetsAssumption
  <2> DEFINE W == WorkOf("check", t)
  <2>2. PICK k \in 1 .. Len(W) : W[k] = Compile(t, m) BY <1>c, <2>1, WorkParts DEF PartsOf
  <2>3. Len(W) \in Nat BY <1>c, WorkFacts
  <2>4. W[k].do = "compile" /\ W[k].mod = m BY <2>2 DEF Compile
  <2>5. k \in Nat /\ k \in 1 .. k /\ k <= Len(W)
    <3> HIDE DEF W
    <3>1. QED BY <2>3
  <2>6. m \in Below(k) BY <2>1, <2>4, <2>5 DEF Below
  <2>7. QED BY <2>5, <2>6
<1>5. QED BY <1>1, <1>2, <1>3, <1>4

\* f has the interfaces of the modules in S.
CleanOn(texts, f, S) == \A m \in S : f[m] = InterfaceFrom(texts, f, m)

\* The interface of a module depends on those of its imports only.
LEMMA SameInterface ==
    ASSUME NEW texts, NEW f, NEW g, NEW m, \A i \in Imports[m] : f[i] = g[i]
    PROVE  InterfaceFrom(texts, f, m) = InterfaceFrom(texts, g, m)
BY DEF InterfaceFrom

\* There is one way, and only one, to give every module its interface.
LEMMA CleanExists ==
    ASSUME NEW texts
    PROVE  /\ Clean(texts) = [m \in Modules |-> InterfaceFrom(texts, Clean(texts), m)]
           /\ \A m \in Modules : Clean(texts)[m] =
                 InterfaceOf(m, texts[m], [i \in Imports[m] |-> Clean(texts)[i]])
<1> DEFINE On(f, k) == CleanOn(texts, f, Below(k))
           S == {k \in Nat : \E f : On(f, k)}
           U == {k \in Nat : \A f, g : On(f, k) /\ On(g, k) => \A m \in Below(k) : f[m] = g[m]}
<1>b. \A k \in Nat : Below(k) \subseteq Modules BY DEF Below
<1>1. 0 \in S BY BelowFacts DEF CleanOn
<1>2. ASSUME NEW k \in Nat, k \in S PROVE k + 1 \in S
  <2>1. PICK f : On(f, k) BY <1>2
  <2> DEFINE g == [m \in Modules |-> IF m \in Below(k) THEN f[m] ELSE InterfaceFrom(texts, f, m)]
  <2>2. ASSUME NEW m \in Below(k + 1) PROVE g[m] = InterfaceFrom(texts, g, m)
    <3>1. m \in Modules BY DEF Below
    <3>2. g[m] = InterfaceFrom(texts, f, m) BY <2>1, <3>1 DEF CleanOn
    <3>3. \A i \in Imports[m] : f[i] = g[i] BY <1>b, BelowFacts
    <3> HIDE DEF g
    <3>4. InterfaceFrom(texts, f, m) = InterfaceFrom(texts, g, m) BY <3>3, SameInterface
    <3>5. QED BY <3>2, <3>4
  <2>3. On(g, k + 1) BY <2>2 DEF CleanOn
  <2>4. QED BY <2>3
<1>3. Nat \subseteq S
  <2> HIDE DEF S
  <2>1. QED BY <1>1, <1>2, NatSet
<1>4. 0 \in U BY BelowFacts
<1>5. ASSUME NEW k \in Nat, k \in U PROVE k + 1 \in U
  <2>1. ASSUME NEW f, NEW g, On(f, k + 1), On(g, k + 1), NEW m \in Below(k + 1)
        PROVE  f[m] = g[m]
    <3>1. On(f, k) /\ On(g, k) BY <2>1, BelowFacts DEF CleanOn
    <3>2. \A i \in Imports[m] : f[i] = g[i] BY <1>5, <3>1, BelowFacts
    <3>3. InterfaceFrom(texts, f, m) = InterfaceFrom(texts, g, m) BY <3>2, SameInterface
    <3>4. f[m] = InterfaceFrom(texts, f, m) /\ g[m] = InterfaceFrom(texts, g, m) BY <2>1 DEF CleanOn
    <3>5. QED BY <3>3, <3>4
  <2>2. QED BY <2>1
<1>6. Nat \subseteq U
  <2> HIDE DEF U
  <2>1. QED BY <1>4, <1>5, NatSet
<1> DEFINE Pick(k) == CHOOSE f : On(f, k)
<1>7. \A k \in Nat : On(Pick(k), k) BY <1>3
<1> DEFINE Level(m) == CHOOSE k \in Nat : m \in Below(k)
           h == [m \in Modules |-> Pick(Level(m))[m]]
<1>8. \A m \in Modules : Level(m) \in Nat /\ m \in Below(Level(m)) BY BelowFacts
<1> HIDE DEF S, U, Pick, Level
<1>9. \A k, l \in Nat : k <= l => Below(k) \subseteq Below(l) BY DEF Below
<1>10. ASSUME NEW k \in Nat, NEW l \in Nat, NEW m \in Below(k), m \in Below(l)
       PROVE  Pick(k)[m] = Pick(l)[m]
  <2>1. ASSUME NEW a \in Nat, NEW b \in Nat, a <= b, m \in Below(a) PROVE Pick(a)[m] = Pick(b)[m]
    <3>1. On(Pick(a), a) /\ On(Pick(b), a) BY <1>7, <1>9, <2>1 DEF CleanOn
    <3>2. a \in U BY <1>6
    <3>3. \A f, g : On(f, a) /\ On(g, a) => \A x \in Below(a) : f[x] = g[x] BY <3>2 DEF U
    <3>4. QED BY <2>1, <3>1, <3>3
  <2>2. k <= l \/ l <= k OBVIOUS
  <2>3. QED BY <1>10, <2>1, <2>2
<1>11. ASSUME NEW m \in Modules PROVE h[m] = InterfaceFrom(texts, h, m)
  <2> DEFINE k == Level(m)
  <2>1. k \in Nat /\ m \in Below(k) BY <1>8
  <2> HIDE DEF k
  <2>2. h[m] = Pick(k)[m] BY DEF k
  <2>3. Pick(k)[m] = InterfaceFrom(texts, Pick(k), m) BY <1>7, <2>1 DEF CleanOn
  <2>4. ASSUME NEW i \in Imports[m] PROVE Pick(k)[i] = h[i]
    <3>1. i \in Below(k) /\ i \in Modules
      <4>1. m \in Below(k + 1) BY <2>1, BelowFacts
      <4>2. QED BY <1>b, <2>1, <4>1, BelowFacts
    <3>2. QED BY <1>8, <1>10, <2>1, <3>1
  <2> DEFINE f == Pick(k)
  <2> HIDE DEF f, h
  <2>5. InterfaceFrom(texts, f, m) = InterfaceFrom(texts, h, m) BY <2>4, SameInterface DEF f
  <2>6. QED BY <2>2, <2>3, <2>5 DEF f
<1>12. h = [m \in Modules |-> InterfaceFrom(texts, h, m)]
  <2>1. h = [m \in Modules |-> h[m]] OBVIOUS
  <2> HIDE DEF h
  <2>2. QED BY <1>11, <2>1
<1> HIDE DEF h
<1>13. \E f : f = [m \in Modules |-> InterfaceFrom(texts, f, m)] BY <1>12
<1>14. Clean(texts) = [m \in Modules |-> InterfaceFrom(texts, Clean(texts), m)] BY <1>13 DEF Clean
<1>15. \A m \in Modules : Clean(texts)[m] = InterfaceFrom(texts, Clean(texts), m)
  <2> DEFINE f == Clean(texts)
  <2>1. f = [m \in Modules |-> InterfaceFrom(texts, f, m)] BY <1>14
  <2> HIDE DEF f
  <2>2. \A m \in Modules : f[m] = InterfaceFrom(texts, f, m) BY <2>1
  <2>3. QED BY <2>2 DEF f
<1>16. QED BY <1>14, <1>15 DEF InterfaceFrom

-----------------------------------------------------------------------------
(* What the build directory is good for.                                   *)

Marked(m) == m \in torn \cup raced

Mods(t) == Range(Targets[t].mods)

IsExe(t) == Targets[t].kind = "exe"

\* Whether the record of m says that it carries the wrapped main.
Wrap(t, m) == Hosted /\ Role(t, m) = "main"

\* The code of the text and of the interfaces on record.
RecordCode(t, m) ==
    LET r == disk.state[m].what IN Code(r.source, r.imported, r.mode, Role(t, m))

\* The record of m is about the part that m plays in t.
OnRecord(t, m) ==
    /\ ~Marked(m) /\ Exists(disk.state[m]) /\ Exists(disk.obj[m])
    /\ disk.state[m].what.wrap = Wrap(t, m)

OutCode(t, v) == IF IsExe(t) THEN v.code ELSE v

Shaped(t, v) ==
    /\ OutCode(t, v) = [m \in Mods(t) |-> OutCode(t, v)[m]]
    /\ IsExe(t) => v = [code |-> v.code, runtime |-> v.runtime,
                        libs |-> [l \in Range(Targets[t].links) |-> v.libs[l]]]

\* Every file has its time.
DiskTimed ==
    /\ DOMAIN disk = Areas
    /\ \A a \in {"mci", "obj", "state"} : DOMAIN disk[a] = Modules
    /\ \A a \in {"out", "rtobj"} : DOMAIN disk[a] = DOMAIN Targets
    /\ clock \in Nat
    /\ \A a \in Areas : \A k \in DOMAIN disk[a] : disk[a][k].time \in 0 .. clock
    /\ DOMAIN runtime = {"ver", "time"} /\ runtime.time \in 0 .. clock

\* An object holds the code on record.
ObjectRecorded(t, m) ==
    ~IsMerged(t) /\ OnRecord(t, m) => disk.obj[m].what = RecordCode(t, m)

\* And so does what was linked or archived from it.
OutRecorded(t, m) ==
    Exists(disk.out[t]) /\ OnRecord(t, m) /\ disk.obj[m].time <= disk.out[t].time =>
        OutCode(t, disk.out[t].what)[m] = RecordCode(t, m)

RuntimeRecorded(t) ==
    Exists(disk.rtobj[t]) /\ runtime.time <= disk.rtobj[t].time =>
        /\ disk.rtobj[t].what = runtime.ver
        /\ IsExe(t) /\ Exists(disk.out[t]) /\ disk.rtobj[t].time <= disk.out[t].time =>
               disk.out[t].what.runtime = runtime.ver

LibraryRecorded(t, l) ==
    /\ Exists(disk.out[l]) /\ Exists(disk.out[t])
    /\ disk.out[l].time <= disk.out[t].time
    => disk.out[t].what.libs[l] = disk.out[l].what

DiskInv ==
    /\ DiskTimed
    /\ \A t \in DOMAIN Targets :
          /\ \A m \in Mods(t) : ObjectRecorded(t, m) /\ OutRecorded(t, m)
          /\ Exists(disk.out[t]) => Shaped(t, disk.out[t].what)
          /\ RuntimeRecorded(t)
          /\ IsExe(t) => \A l \in Range(Targets[t].links) : LibraryRecorded(t, l)

\* What may be written where.
MayWrite(a, k, v) ==
    /\ a = "obj" => \A t \in DOMAIN Targets :
          k \in Mods(t) /\ ~IsMerged(t) /\ OnRecord(t, k)' => v = RecordCode(t, k)
    /\ a = "state" => \A t \in DOMAIN Targets :
          k \in Mods(t) /\ OnRecord(t, k)' =>
              /\ ~IsMerged(t) => disk.obj[k].what = RecordCode(t, k)'
              /\ Exists(disk.out[t]) => disk.out[t].time < disk.obj[k].time
    /\ a = "rtobj" => v = runtime.ver
    /\ a = "out" =>
          /\ Shaped(k, v)
          /\ \A m \in Mods(k) : OnRecord(k, m) => OutCode(k, v)[m] = RecordCode(k, m)
          /\ IsExe(k) =>
                /\ v.runtime = runtime.ver
                /\ \A l \in Range(Targets[k].links) :
                      Exists(disk.out[l]) => v.libs[l] = disk.out[l].what

\* What is known of a target's modules and links.
LEMMA TargetFacts ==
    ASSUME NEW t \in DOMAIN Targets
    PROVE  /\ Mods(t) \subseteq Modules /\ Entry(t) \in Mods(t)
           /\ \A l \in Range(Targets[t].links) : l \in DOMAIN Targets /\ ~IsExe(l)
<1> DEFINE mods == Targets[t].mods
           links == Targets[t].links
           libs == {l \in DOMAIN Targets : Targets[l].kind = "staticlib"}
<1>1. mods \in Seq(Modules) \ {<< >>} /\ links \in Seq(libs) BY TargetsAssumption
<1> HIDE DEF mods, links, libs
<1>2. Range(mods) \subseteq Modules /\ mods[Len(mods)] \in Range(mods) BY <1>1 DEF Range
<1>3. Range(links) \subseteq libs BY <1>1 DEF Range
<1>4. QED BY <1>2, <1>3 DEF Mods, Entry, Last, IsExe, mods, links, libs

\* A file is replaced, and the rest of the build directory is not.
LEMMA AreasChanged ==
    ASSUME DiskTimed, NEW a \in Areas, NEW k \in DOMAIN disk[a], NEW file,
           disk' = [disk EXCEPT ![a][k] = file]
    PROVE  /\ DOMAIN disk' = Areas
           /\ \A b \in Areas : /\ DOMAIN disk'[b] = DOMAIN disk[b]
                               /\ b # a => disk'[b] = disk[b]
           /\ disk'[a][k] = file
           /\ \A y \in DOMAIN disk[a] : y # k => disk'[a][y] = disk[a][y]
<1>1. DOMAIN disk = Areas BY DEF DiskTimed
<1>2. disk'[a] = [disk[a] EXCEPT ![k] = file] BY <1>1
<1>3. \A b \in Areas : b # a => disk'[b] = disk[b] BY <1>1
<1>4. QED BY <1>1, <1>2, <1>3

\* The step of one file keeps what the directory is good for.
LEMMA FileChanged ==
    ASSUME DiskInv, NEW a \in Areas, NEW k \in DOMAIN disk[a], NEW file,
           disk' = [disk EXCEPT ![a][k] = file],
           UNCHANGED runtime, clock' \in Nat, clock <= clock',
           \/ file = NoFile
           \/ file.time = clock + 1 /\ clock + 1 <= clock' /\ MayWrite(a, k, file.what),
           \A m \in Modules : Marked(m) => Marked(m)' \/ (a = "state" /\ k = m)
    PROVE  DiskInv'
<1>1. DiskTimed BY DEF DiskInv
<1>2. /\ DOMAIN disk' = Areas
      /\ \A b \in Areas : /\ DOMAIN disk'[b] = DOMAIN disk[b]
                          /\ b # a => disk'[b] = disk[b]
      /\ disk'[a][k] = file
      /\ \A y \in DOMAIN disk[a] : y # k => disk'[a][y] = disk[a][y]
  BY <1>1, AreasChanged
<1>3. clock \in Nat /\ \A b \in Areas : \A y \in DOMAIN disk[b] : disk[b][y].time \in 0 .. clock
  BY <1>1 DEF DiskTimed
<1>4. DiskTimed'
  <2>1. file.time \in 0 .. clock' BY <1>3 DEF NoFile
  <2>2. \A b \in Areas : \A y \in DOMAIN disk'[b] : disk'[b][y].time \in 0 .. clock'
    BY <1>2, <1>3, <2>1
  <2>3. QED BY <1>1, <1>2, <1>3, <2>2 DEF DiskTimed, Areas
<1>d. \A m \in Modules : m \in DOMAIN disk.obj /\ m \in DOMAIN disk.state
  BY <1>1 DEF DiskTimed
<1>t. \A t \in DOMAIN Targets : t \in DOMAIN disk.out /\ t \in DOMAIN disk.rtobj
  BY <1>1 DEF DiskTimed
<1>5. ASSUME NEW t \in DOMAIN Targets, NEW m \in Mods(t)
      PROVE  ObjectRecorded(t, m)' /\ OutRecorded(t, m)'
  <2>1. m \in Modules BY TargetFacts
  <2>2. ObjectRecorded(t, m) /\ OutRecorded(t, m) BY DEF DiskInv
  <2>3. CASE a = "obj" /\ k = m
    <3>1. disk'.obj[m] = file /\ disk'.state = disk.state /\ disk'.out = disk.out
      BY <1>2, <2>3 DEF Areas
    <3>2. CASE file = NoFile
      BY <3>1, <3>2 DEF ObjectRecorded, OutRecorded, OnRecord, Exists
    <3>3. CASE file.time = clock + 1 /\ MayWrite(a, k, file.what)
      <4>1. ObjectRecorded(t, m)'
        <5>1. RecordCode(t, m)' = RecordCode(t, m) BY <3>1 DEF RecordCode
        <5>2. IsMerged(t)' = IsMerged(t) OBVIOUS
        <5>3. QED BY <2>3, <3>1, <3>3, <5>1, <5>2 DEF ObjectRecorded, MayWrite
      <4>3. OutRecorded(t, m)'
        <5> SUFFICES ASSUME disk'.obj[m].time <= disk'.out[t].time PROVE FALSE
          BY DEF OutRecorded
        <5>1. disk.out[t].time \in 0 .. clock BY <1>3, <1>t DEF Areas
        <5>2. clock + 1 <= disk.out[t].time BY <3>1, <3>3
        <5>3. QED BY <1>3, <5>1, <5>2
      <4>4. QED BY <4>1, <4>3
    <3>4. QED BY <3>2, <3>3
  <2>4. CASE a = "state" /\ k = m
    <3>1. disk'.state[m] = file /\ disk'.obj = disk.obj /\ disk'.out = disk.out
      BY <1>2, <2>4 DEF Areas
    <3>2. CASE file = NoFile
      BY <3>1, <3>2 DEF ObjectRecorded, OutRecorded, OnRecord, Exists
    <3>3. CASE MayWrite(a, k, file.what)
      <4>1. ObjectRecorded(t, m)'
        BY <2>4, <3>1, <3>3 DEF ObjectRecorded, MayWrite
      <4>2. disk.out[t].time \in Nat /\ disk.obj[m].time \in Nat BY <1>3, <1>d, <1>t, <2>1 DEF Areas
      <4>3. OutRecorded(t, m)'
        <5> SUFFICES ASSUME Exists(disk.out[t])', OnRecord(t, m)',
                            disk'.obj[m].time <= disk'.out[t].time
                     PROVE  FALSE
          BY DEF OutRecorded
        <5>1. Exists(disk.out[t]) BY <3>1 DEF Exists
        <5>2. disk.out[t].time < disk.obj[m].time BY <2>4, <3>3, <5>1 DEF MayWrite
        <5>3. QED BY <3>1, <4>2, <5>2
      <4>4. QED BY <4>1, <4>3
    <3>4. QED BY <3>2, <3>3
  <2>5. CASE ~(a = "obj" /\ k = m) /\ ~(a = "state" /\ k = m)
    <3>1. disk'.obj[m] = disk.obj[m] /\ disk'.state[m] = disk.state[m]
      BY <1>2, <1>d, <2>1, <2>5 DEF Areas
    <3>2. Marked(m) => Marked(m)' BY <2>1, <2>5
    <3>3. /\ OnRecord(t, m)' => OnRecord(t, m)
          /\ RecordCode(t, m)' = RecordCode(t, m)
      BY <3>1, <3>2 DEF OnRecord, RecordCode, Exists
    <3>4. ObjectRecorded(t, m)' BY <2>2, <3>1, <3>3 DEF ObjectRecorded
    <3>5. OutRecorded(t, m)'
      <4>1. CASE a = "out" /\ k = t
        <5>1. disk'.out[t] = file BY <1>2, <4>1
        <5>2. CASE file = NoFile BY <5>1, <5>2 DEF OutRecorded, Exists
        <5>3. CASE MayWrite(a, k, file.what)
          BY <3>3, <4>1, <5>1, <5>3 DEF OutRecorded, MayWrite
        <5>4. QED BY <5>2, <5>3
      <4>2. CASE ~(a = "out" /\ k = t)
        <5>1. disk'.out[t] = disk.out[t] BY <1>2, <1>t, <4>2 DEF Areas
        <5>2. QED BY <2>2, <3>1, <3>3, <5>1 DEF OutRecorded, Exists
      <4>3. QED BY <4>1, <4>2
    <3>6. QED BY <3>4, <3>5
  <2>6. QED BY <2>3, <2>4, <2>5
<1>6. ASSUME NEW t \in DOMAIN Targets, Exists(disk.out[t])' PROVE Shaped(t, disk.out[t].what)'
  <2>1. CASE a = "out" /\ k = t
    <3>1. disk'.out[t] = file BY <1>2, <2>1
    <3>2. MayWrite(a, k, file.what) BY <1>6, <3>1 DEF Exists
    <3>3. QED BY <2>1, <3>1, <3>2 DEF MayWrite
  <2>2. CASE ~(a = "out" /\ k = t)
    <3>1. disk'.out[t] = disk.out[t] BY <1>2, <1>t, <2>2 DEF Areas
    <3>2. Exists(disk.out[t]) BY <1>6, <3>1 DEF Exists
    <3>3. Shaped(t, disk.out[t].what) BY <3>2 DEF DiskInv
    <3>4. QED BY <3>1, <3>3
  <2>3. QED BY <2>1, <2>2
<1>7. ASSUME NEW t \in DOMAIN Targets PROVE RuntimeRecorded(t)'
  <2>1. RuntimeRecorded(t) BY DEF DiskInv
  <2>2. disk.out[t].time \in 0 .. clock /\ disk.rtobj[t].time \in 0 .. clock
    BY <1>3, <1>t DEF Areas
  <2>3. CASE a = "rtobj" /\ k = t
    <3>1. disk'.rtobj[t] = file /\ disk'.out = disk.out BY <1>2, <2>3 DEF Areas
    <3>2. CASE file = NoFile BY <3>1, <3>2 DEF RuntimeRecorded, Exists
    <3>3. CASE file.time = clock + 1 /\ MayWrite(a, k, file.what)
      <4>1. file.what = runtime.ver BY <2>3, <3>3 DEF MayWrite
      <4>2. ~(file.time <= disk.out[t].time) BY <1>3, <2>2, <3>3
      <4>3. QED BY <3>1, <4>1, <4>2 DEF RuntimeRecorded
    <3>4. QED BY <3>2, <3>3
  <2>4. CASE a = "out" /\ k = t
    <3>1. disk'.out[t] = file /\ disk'.rtobj = disk.rtobj BY <1>2, <2>4 DEF Areas
    <3>2. CASE file = NoFile BY <2>1, <3>1, <3>2 DEF RuntimeRecorded, Exists
    <3>3. CASE MayWrite(a, k, file.what)
      <4>1. IsExe(t) => file.what.runtime = runtime.ver BY <2>4, <3>3 DEF MayWrite
      <4>2. QED BY <2>1, <3>1, <4>1 DEF RuntimeRecorded, Exists
    <3>4. QED BY <3>2, <3>3
  <2>5. CASE ~(a = "rtobj" /\ k = t) /\ ~(a = "out" /\ k = t)
    <3>1. disk'.out[t] = disk.out[t] /\ disk'.rtobj[t] = disk.rtobj[t]
      BY <1>2, <1>t, <2>5 DEF Areas
    <3>2. QED BY <2>1, <3>1 DEF RuntimeRecorded, Exists
  <2>6. QED BY <2>3, <2>4, <2>5
<1>8. ASSUME NEW t \in DOMAIN Targets, IsExe(t), NEW l \in Range(Targets[t].links)
      PROVE  LibraryRecorded(t, l)'
  <2>1. LibraryRecorded(t, l) BY <1>8 DEF DiskInv
  <2>2. l \in DOMAIN Targets /\ l # t BY <1>8, TargetFacts
  <2>3. disk.out[t].time \in 0 .. clock /\ disk.out[l].time \in 0 .. clock
    BY <1>3, <1>t, <2>2 DEF Areas
  <2>4. CASE a = "out" /\ k = l
    <3>1. disk'.out[l] = file /\ disk'.out[t] = disk.out[t] BY <1>2, <1>t, <2>2, <2>4
    <3>2. CASE file = NoFile BY <3>1, <3>2 DEF LibraryRecorded, Exists
    <3>3. CASE file.time = clock + 1
      <4>1. ~(file.time <= disk.out[t].time) BY <1>3, <2>3, <3>3
      <4>2. QED BY <3>1, <4>1 DEF LibraryRecorded
    <3>4. QED BY <3>2, <3>3
  <2>5. CASE a = "out" /\ k = t
    <3>1. disk'.out[t] = file /\ disk'.out[l] = disk.out[l] BY <1>2, <1>t, <2>2, <2>5
    <3>2. CASE file = NoFile BY <3>1, <3>2 DEF LibraryRecorded, Exists
    <3>3. CASE MayWrite(a, k, file.what)
      <4>1. Exists(disk.out[l]) => file.what.libs[l] = disk.out[l].what
        BY <1>8, <2>5, <3>3 DEF MayWrite
      <4>2. QED BY <3>1, <4>1 DEF LibraryRecorded, Exists
    <3>4. QED BY <3>2, <3>3
  <2>6. CASE ~(a = "out" /\ k = l) /\ ~(a = "out" /\ k = t)
    <3>1. disk'.out[t] = disk.out[t] /\ disk'.out[l] = disk.out[l]
      BY <1>2, <1>t, <2>2, <2>6 DEF Areas
    <3>2. QED BY <2>1, <3>1 DEF LibraryRecorded, Exists
  <2>7. QED BY <2>4, <2>5, <2>6
<1>9. QED BY <1>4, <1>5, <1>6, <1>7, <1>8 DEF DiskInv

\* No file changes, or only the runtime source.
LEMMA FilesUnchanged ==
    ASSUME DiskInv, UNCHANGED disk, clock' \in Nat, clock <= clock',
           \A m \in Modules : Marked(m) => Marked(m)',
           \/ UNCHANGED runtime
           \/ /\ DOMAIN runtime' = {"ver", "time"}
              /\ runtime'.time = clock + 1 /\ clock + 1 <= clock'
    PROVE  DiskInv'
<1>1. DiskTimed BY DEF DiskInv
<1>2. /\ clock \in Nat
      /\ \A b \in Areas : \A y \in DOMAIN disk[b] : disk[b][y].time \in 0 .. clock
      /\ runtime.time \in 0 .. clock
  BY <1>1 DEF DiskTimed
<1>3. DiskTimed'
  <2>1. runtime'.time \in 0 .. clock' BY <1>2
  <2>2. \A b \in Areas : \A y \in DOMAIN disk'[b] : disk'[b][y].time \in 0 .. clock'
    BY <1>2
  <2>3. QED BY <1>1, <2>1, <2>2 DEF DiskTimed, Areas
<1>4. ASSUME NEW t \in DOMAIN Targets, NEW m \in Mods(t)
      PROVE  ObjectRecorded(t, m)' /\ OutRecorded(t, m)'
  <2>1. m \in Modules BY TargetFacts
  <2>2. ObjectRecorded(t, m) /\ OutRecorded(t, m) BY DEF DiskInv
  <2>3. Marked(m) => Marked(m)' BY <2>1
  <2>4. /\ OnRecord(t, m)' => OnRecord(t, m)
        /\ RecordCode(t, m)' = RecordCode(t, m)
    BY <2>3 DEF OnRecord, RecordCode, Exists
  <2>5. QED BY <2>2, <2>4 DEF ObjectRecorded, OutRecorded, Exists
<1>5. \A t \in DOMAIN Targets : (Exists(disk.out[t]))' => Shaped(t, disk.out[t].what)'
  BY DEF DiskInv, Exists
<1>6. ASSUME NEW t \in DOMAIN Targets PROVE RuntimeRecorded(t)'
  <2>1. RuntimeRecorded(t) BY DEF DiskInv
  <2>2. CASE UNCHANGED runtime BY <2>1, <2>2 DEF RuntimeRecorded, Exists
  <2>3. CASE runtime'.time = clock + 1
    <3>1. t \in DOMAIN disk.rtobj BY <1>1 DEF DiskTimed
    <3>2. disk.rtobj[t].time \in 0 .. clock BY <1>2, <3>1 DEF Areas
    <3>3. ~(runtime'.time <= disk.rtobj[t].time) BY <1>2, <2>3, <3>2
    <3>4. QED BY <3>3 DEF RuntimeRecorded
  <2>4. QED BY <2>2, <2>3
<1>7. \A t \in DOMAIN Targets :
         IsExe(t) => \A l \in Range(Targets[t].links) : LibraryRecorded(t, l)'
  BY DEF DiskInv, LibraryRecorded, Exists
<1>8. QED BY <1>3, <1>4, <1>5, <1>6, <1>7 DEF DiskInv

-----------------------------------------------------------------------------
(* What a command has done so far.                                         *)

JobWork == WorkOf(job.cmd, job.target)

\* What a build from an empty directory makes of the sources of this command.
CleanImports(m) == [i \in Imports[m] |-> Clean(job.parsed)[i]]

CodeFor(t, m) == Code(job.parsed[m], CleanImports(m), job.mode, Role(t, m))

\* The write of a file is among the first f items of the queue.
Awaits(f, a, k) ==
    \E j \in 1 .. f : /\ job.queue[j].do = "write" /\ job.queue[j].area = a
                      /\ job.queue[j].key = k

InterfaceStands(m, f) ==
    \/ Exists(disk.mci[m]) /\ disk.mci[m].what = Clean(job.parsed)[m]
    \/ \E j \in 1 .. f : job.queue[j] = Write("mci", m, Clean(job.parsed)[m])

UnitStands(t, m) == m \in DOMAIN job.units /\ job.units[m].code = CodeFor(t, m)

\* A record that this command has written or accepted.
RecordFor(t, m, r) ==
    /\ r.mode = job.mode /\ r.imported = CleanImports(m) /\ r.wrap = Wrap(t, m)
    /\ r.source = job.parsed[m] \/ m \in raced

RecordStands(t, m, f) ==
    \/ Exists(disk.state[m]) /\ RecordFor(t, m, disk.state[m].what)
    \/ Awaits(f, "state", m)

ObjectStands(m, f) == Exists(disk.obj[m]) \/ Awaits(f, "obj", m)

\* What may be linked or archived of t.
OutFor(t, v) ==
    /\ Shaped(t, v)
    /\ \A m \in Mods(t) : ~Marked(m) => OutCode(t, v)[m] = CodeFor(t, m)
    /\ IsExe(t) => /\ v.runtime = runtime.ver
                   /\ \A l \in Range(Targets[t].links) : v.libs[l] = disk.out[l].what

OutStands(t, f) ==
    \/ Exists(disk.out[t]) /\ OutFor(t, disk.out[t].what)
    \/ Awaits(f, "out", t)

ItemStands(w, f) ==
    /\ w.do = "compile" =>
          /\ InterfaceStands(w.mod, f)
          /\ job.cmd = "build" => /\ UnitStands(w.target, w.mod)
                                  /\ RecordStands(w.target, w.mod, f)
                                  /\ ObjectStands(w.mod, f)
    /\ w.do = "close" => OutStands(w.target, f)

\* The object of m was written after everything that was linked from it.
ObjectFresh(t, m) ==
    /\ Exists(disk.obj[m]) /\ disk.obj[m].what = CodeFor(t, m)
    /\ \A u \in DOMAIN Targets : Exists(disk.out[u]) => disk.out[u].time < disk.obj[m].time

\* The j-th of f files that a module leaves to be dealt with.
ModuleFile(t, m, f, j) ==
    \/ job.queue[j] = Write("mci", m, Clean(job.parsed)[m])
    \/ /\ job.cmd = "build"
       /\ \/ /\ job.queue[j] = Unlink("obj", m)
             /\ j < f /\ job.queue[j + 1] = Write("obj", m, CodeFor(t, m))
          \/ job.queue[j] = Write("obj", m, CodeFor(t, m))
          \/ /\ j = f /\ \E r : job.queue[j] = Write("state", m, r) /\ RecordFor(t, m, r)
             /\ IF j = 1 THEN ObjectFresh(t, m)
                ELSE job.queue[j - 1] = Write("obj", m, CodeFor(t, m))

\* And a target.
TargetFile(t, f, j) ==
    \/ /\ IsMerged(t)
       /\ \/ /\ job.queue[j] = Unlink("obj", Entry(t))
             /\ j < f /\ \E v : job.queue[j + 1] = Write("obj", Entry(t), v)
          \/ \E v : job.queue[j] = Write("obj", Entry(t), v)
    \/ job.queue[j] = Unlink("rtobj", t)
    \/ job.queue[j] = Write("rtobj", t, runtime.ver)
    \/ /\ job.queue[j] = Unlink("out", t)
       /\ j < f /\ \E v : job.queue[j + 1] = Write("out", t, v)
    \/ \E v : job.queue[j] = Write("out", t, v) /\ OutFor(t, v)

FileFor(w, f, j) ==
    \/ w.do = "compile" /\ ModuleFile(w.target, w.mod, f, j)
    \/ w.do = "close" /\ TargetFile(w.target, f, j)

\* n items of the list W have been taken, f files are left of the last one.
Stands(W, n, f) ==
    /\ f > 0 => n > 0
    /\ \A k \in 1 .. n : ItemStands(W[k], f)
    /\ \A j \in 1 .. f : FileFor(W[n], f, j)

BuildInv ==
    /\ DiskTypes /\ JobTypes /\ DiskInv
    /\ job # Idle =>
          /\ done = None
          /\ \E W : /\ W = JobWork
                    /\ \E n \in 0 .. Len(W), f \in Nat : Progress(n, f) /\ Stands(W, n, f)
    /\ job = Idle => BuildIsClean

\* The same command goes on, with the same sources.
Continues ==
    /\ SameCommand /\ job'.mode = job.mode /\ UNCHANGED runtime

\* What an item says of the command itself.
LEMMA SameTexts ==
    ASSUME Continues
    PROVE  /\ JobWork' = JobWork /\ Clean(job.parsed)' = Clean(job.parsed)
           /\ \A t, m : CodeFor(t, m)' = CodeFor(t, m)
           /\ \A m : CleanImports(m)' = CleanImports(m)
BY DEF Continues, SameCommand, JobWork, CleanImports, CodeFor, Clean

\* The list of the command under way.
JobList(W) ==
    /\ Len(W) \in Nat
    /\ \A k \in 1 .. Len(W) :
          /\ W[k].target \in DOMAIN Targets
          /\ \/ /\ W[k].do = "compile" /\ W[k].mod \in Mods(W[k].target)
                /\ W[k].mod \in Modules
                /\ \A i \in Imports[W[k].mod] :
                      \E j \in 1 .. k - 1 : W[j].do = "compile" /\ W[j].mod = i
             \/ /\ W[k].do = "close" /\ job.cmd = "build"
                /\ IsExe(W[k].target) => k = Len(W)
                /\ \A m \in Mods(W[k].target) :
                      \E j \in 1 .. k - 1 : /\ W[j].do = "compile" /\ W[j].mod = m
                                            /\ W[j].target = W[k].target
    /\ \A i, j \in 1 .. Len(W) :
          W[i].do = "compile" /\ W[j].do = "compile" /\ W[i].mod = W[j].mod => i = j
    /\ job.cmd = "build" =>
          /\ Len(W) > 0 /\ W[Len(W)].do = "close" /\ W[Len(W)].target = job.target
          /\ \A l \in Range(Targets[job.target].links) :
                \E k \in 1 .. Len(W) : W[k].do = "close" /\ W[k].target = l

\* In a plain project no module is on it twice.
LEMMA JobWorkFacts ==
    ASSUME PlainProject, JobTypes, job # Idle
    PROVE  JobList(JobWork)
<1> DEFINE how == job.cmd
           top == job.target
           W == WorkOf(how, top)
<1>1. JobWork = W BY DEF JobWork
<1>2. how \in Commands /\ top \in DOMAIN Targets BY DEF JobTypes
<1> HIDE DEF how, top
<1>3. /\ Len(W) \in Nat /\ DOMAIN W = 1 .. Len(W)
      /\ \A k \in 1 .. Len(W) :
            /\ W[k].do \in {"compile", "close"}
            /\ W[k].do = "compile" =>
                  /\ W[k].mod \in Modules
                  /\ \A i \in Imports[W[k].mod] :
                        \E j \in 1 .. k - 1 : W[j].do = "compile" /\ W[j].mod = i
  BY <1>2, WorkFacts
<1>a. PartsOf(how, top, W) BY <1>2, WorkParts
<1> HIDE DEF W
<1>4. /\ Len(W) \in Nat
      /\ \A k \in 1 .. Len(W) :
            /\ W[k].target \in DOMAIN Targets
            /\ \/ W[k].do = "compile" /\ W[k].mod \in Range(Targets[W[k].target].mods)
               \/ /\ W[k].do = "close" /\ how = "build"
                  /\ Targets[W[k].target].kind = "exe" => k = Len(W)
                  /\ \A m \in Range(Targets[W[k].target].mods) :
                        \E j \in 1 .. k - 1 : W[j] = Compile(W[k].target, m)
      /\ \A m \in Range(Targets[top].mods) : \E k \in 1 .. Len(W) : W[k] = Compile(top, m)
      /\ how = "build" =>
            /\ Len(W) > 0 /\ W[Len(W)] = Close(top)
            /\ \A l \in Range(Targets[top].links) : \E k \in 1 .. Len(W) : W[k] = Close(l)
  BY <1>a DEF PartsOf
<1>5. \A i, j \in 1 .. Len(W) :
         W[i].do = "compile" /\ W[j].do = "compile" /\ W[i].mod = W[j].mod => i = j
  BY <1>2, <1>3 DEF PlainProject, CompiledOnce, W
<1>6. \A u, m : /\ Compile(u, m).do = "compile" /\ Compile(u, m).mod = m
                /\ Compile(u, m).target = u
  BY DEF Compile
<1>7. \A u : Close(u).do = "close" /\ Close(u).target = u BY DEF Close
<1>8. ASSUME NEW k \in 1 .. Len(W), W[k].do = "close"
      PROVE  \A m \in Mods(W[k].target) :
                \E j \in 1 .. k - 1 : /\ W[j].do = "compile" /\ W[j].mod = m
                                      /\ W[j].target = W[k].target
  <2> SUFFICES ASSUME NEW m \in Mods(W[k].target)
               PROVE  \E j \in 1 .. k - 1 : /\ W[j].do = "compile" /\ W[j].mod = m
                                            /\ W[j].target = W[k].target
    OBVIOUS
  <2>1. PICK j \in 1 .. k - 1 : W[j] = Compile(W[k].target, m) BY <1>4, <1>8 DEF Mods
  <2>2. QED BY <1>6, <2>1
<1>9. \A k \in 1 .. Len(W) :
         /\ W[k].target \in DOMAIN Targets
         /\ \/ /\ W[k].do = "compile" /\ W[k].mod \in Mods(W[k].target)
               /\ W[k].mod \in Modules
               /\ \A i \in Imports[W[k].mod] :
                     \E j \in 1 .. k - 1 : W[j].do = "compile" /\ W[j].mod = i
            \/ /\ W[k].do = "close" /\ how = "build"
               /\ IsExe(W[k].target) => k = Len(W)
               /\ \A m \in Mods(W[k].target) :
                     \E j \in 1 .. k - 1 : /\ W[j].do = "compile" /\ W[j].mod = m
                                           /\ W[j].target = W[k].target
  <2> SUFFICES ASSUME NEW k \in 1 .. Len(W)
               PROVE  /\ W[k].target \in DOMAIN Targets
                      /\ \/ /\ W[k].do = "compile" /\ W[k].mod \in Mods(W[k].target)
                            /\ W[k].mod \in Modules
                            /\ \A i \in Imports[W[k].mod] :
                                  \E j \in 1 .. k - 1 : W[j].do = "compile" /\ W[j].mod = i
                         \/ /\ W[k].do = "close" /\ how = "build"
                            /\ IsExe(W[k].target) => k = Len(W)
                            /\ \A m \in Mods(W[k].target) :
                                  \E j \in 1 .. k - 1 : /\ W[j].do = "compile" /\ W[j].mod = m
                                                        /\ W[j].target = W[k].target
    OBVIOUS
  <2>1. CASE W[k].do = "compile" BY <1>3, <1>4, <2>1 DEF Mods
  <2>2. CASE W[k].do = "close"
    <3>1. IsExe(W[k].target) => k = Len(W) BY <1>4, <2>2 DEF IsExe
    <3>2. W[k].target \in DOMAIN Targets /\ how = "build" BY <1>4, <2>2
    <3>3. QED BY <1>8, <2>2, <3>1, <3>2
  <2>3. QED BY <1>3, <2>1, <2>2
<1>10. ASSUME how = "build"
       PROVE  /\ Len(W) > 0 /\ W[Len(W)].do = "close" /\ W[Len(W)].target = top
              /\ \A l \in Range(Targets[top].links) :
                    \E k \in 1 .. Len(W) : W[k].do = "close" /\ W[k].target = l
  <2>1. Len(W) > 0 /\ W[Len(W)].do = "close" /\ W[Len(W)].target = top BY <1>4, <1>7, <1>10
  <2>2. ASSUME NEW l \in Range(Targets[top].links)
        PROVE  \E k \in 1 .. Len(W) : W[k].do = "close" /\ W[k].target = l
    <3>1. PICK k \in 1 .. Len(W) : W[k] = Close(l) BY <1>4, <1>10
    <3>2. QED BY <1>7, <3>1
  <2>3. QED BY <2>1, <2>2
<1>11. JobList(W) BY <1>3, <1>5, <1>9, <1>10 DEF how, top, JobList
<1>12. QED BY <1>1, <1>11

\* A module whose records say the same of two targets plays the same part in
\* both, and a program of several modules is entered by no module that another
\* program is linked from.
LEMMA SameRole ==
    ASSUME PlainProject, NEW t \in DOMAIN Targets, NEW u \in DOMAIN Targets,
           NEW m, m \in Mods(t), m \in Mods(u), Wrap(t, m) = Wrap(u, m)
    PROVE  /\ Role(t, m) = Role(u, m)
           /\ IsMerged(t) /\ m = Entry(t) => IsMerged(u)
<1>1. \A v : Role(v, m) \in {"main", "namespaced"} BY DEF Role
<1>2. Role(t, m) = Role(u, m)
  <2>1. CASE Hosted
    <3>1. (Role(t, m) = "main") <=> (Role(u, m) = "main")
      <4>1. Wrap(t, m) <=> (Role(t, m) = "main") BY <2>1 DEF Wrap
      <4>2. Wrap(u, m) <=> (Role(u, m) = "main") BY <2>1 DEF Wrap
      <4>3. QED BY <4>1, <4>2
    <3>2. QED BY <1>1, <3>1
  <2>2. CASE ~Hosted
    <3>1. m \in Range(Targets[t].mods) \cap Range(Targets[u].mods) BY DEF Mods
    <3>2. QED BY <2>2, <3>1 DEF PlainProject, RolesOnRecord
  <2>3. QED BY <2>1, <2>2
<1>3. ASSUME IsMerged(t), m = Entry(t) PROVE IsMerged(u)
  <2>1. Role(t, m) = "main" BY <1>3 DEF Role, IsMerged
  <2>2. m = Entry(u) /\ Targets[u].kind = "exe"
    <3>1. Role(u, m) = "main" BY <1>2, <2>1
    <3>2. QED BY <3>1 DEF Role
  <2>3. QED BY <1>3, <2>2 DEF PlainProject, MergedApart
<1>4. QED BY <1>2, <1>3

\* The code on record is the code this command would make.
LEMMA RecordIsCode ==
    ASSUME NEW t, NEW m, NEW r, RecordFor(t, m, r), m \notin raced
    PROVE  \A u : Code(r.source, r.imported, r.mode, Role(u, m))
                  = Code(job.parsed[m], CleanImports(m), job.mode, Role(u, m))
BY DEF RecordFor

\* What stands of the modules of a target whose turn it is, or was.
LEMMA MembersStand ==
    ASSUME NEW W, JobList(W), NEW n \in 0 .. Len(W), NEW f, Stands(W, n, f),
           NEW k \in 1 .. Len(W), k <= n + 1, W[k].do = "close",
           NEW m, m \in Mods(W[k].target)
    PROVE  LET t == W[k].target
           IN  /\ t \in DOMAIN Targets /\ job.cmd = "build" /\ m \in Modules
               /\ UnitStands(t, m) /\ RecordStands(t, m, f) /\ ObjectStands(m, f)
<1>s. \A j \in 1 .. n : ItemStands(W[j], f) BY DEF Stands
<1>2. Len(W) \in Nat BY DEF JobList
<1>3. W[k].target \in DOMAIN Targets /\ job.cmd = "build" BY DEF JobList
<1>4. PICK j \in 1 .. k - 1 : W[j].do = "compile" /\ W[j].mod = m /\ W[j].target = W[k].target
  <2>1. \/ W[k].do = "compile"
        \/ \A y \in Mods(W[k].target) :
              \E j \in 1 .. k - 1 : W[j].do = "compile" /\ W[j].mod = y /\ W[j].target = W[k].target
    BY DEF JobList
  <2>2. "close" # "compile" OBVIOUS
  <2>3. QED BY <2>1, <2>2
<1>5. j \in 1 .. n /\ j \in 1 .. Len(W) BY <1>2
<1>6. ItemStands(W[j], f) BY <1>5, <1>s
<1>7. m \in Modules
  <2>1. "close" # "compile" OBVIOUS
  <2>2. W[j].mod \in Modules BY <1>4, <1>5, <2>1 DEF JobList
  <2>3. QED BY <1>4, <2>2
<1>8. UnitStands(W[k].target, m) /\ RecordStands(W[k].target, m, f) /\ ObjectStands(m, f)
  BY <1>3, <1>4, <1>6 DEF ItemStands
<1>9. QED BY <1>3, <1>7, <1>8

-----------------------------------------------------------------------------
(* A file is dealt with.                                                   *)

\* RemoveArtifactIfExists and WriteArtifact, with the marks they set.
Deals ==
    /\ Continues /\ Drops /\ job'.units = job.units /\ done' = done
    /\ LET x == Head(job.queue)
       IN  IF x.do = "write"
           THEN /\ clock' = clock + 1
                /\ torn' = IF x.area = "obj" /\ x.what = job.units[x.key].code
                           THEN torn \cup {x.key}
                           ELSE IF x.area = "state" THEN torn \ {x.key} ELSE torn
                /\ raced' = IF x.area = "state" /\ x.what.source = job.parsed[x.key]
                            THEN raced \ {x.key} ELSE raced
           ELSE UNCHANGED << clock, torn, raced >>

\* What the marks become.
LEMMA MarksDealt ==
    ASSUME Deals, NEW x, x = Head(job.queue)
    PROVE  /\ \A m : Marked(m) => Marked(m)' \/ (x.do = "write" /\ x.area = "state" /\ x.key = m)
           /\ \A m : m \in raced' => m \in raced
           /\ \A m : m \in raced => \/ m \in raced'
                                    \/ /\ x.do = "write" /\ x.area = "state" /\ x.key = m
                                       /\ x.what.source = job.parsed[m]
           /\ x.do = "write" /\ x.area = "obj" /\ x.what = job.units[x.key].code
                => x.key \in torn'
BY DEF Deals, Marked

\* A file for a module, or for a target, is what it is.
LEMMA ItemFields ==
    /\ \A a, k : /\ Unlink(a, k).do = "remove" /\ Unlink(a, k).area = a /\ Unlink(a, k).key = k
    /\ \A a, k, v : /\ Write(a, k, v).do = "write" /\ Write(a, k, v).area = a
                    /\ Write(a, k, v).key = k /\ Write(a, k, v).what = v
BY DEF Unlink, Write

\* No record is pending while a target is closed.
LEMMA NoRecordAwaited ==
    ASSUME NEW t, NEW f \in Nat, \A j \in 1 .. f : TargetFile(t, f, j), NEW m
    PROVE  ~Awaits(f, "state", m)
<1> SUFFICES ASSUME NEW j \in 1 .. f, job.queue[j].do = "write", job.queue[j].area = "state"
             PROVE  FALSE
  BY DEF Awaits
<1>1. TargetFile(t, f, j) OBVIOUS
<1>2. QED BY <1>1, ItemFields DEF TargetFile

\* The driver removes a file.
LEMMA RemovalKeepsDisk ==
    ASSUME DiskInv, Deals, NEW x, x = Head(job.queue), NEW a \in Areas, NEW k \in DOMAIN disk[a],
           x = Unlink(a, k)
    PROVE  DiskInv'
<1>1. x.do = "remove" /\ x.area = a /\ x.key = k BY ItemFields
<1>2. disk' = [disk EXCEPT ![a][k] = NoFile] BY <1>1 DEF Deals, Drops
<1>3. clock' = clock BY <1>1 DEF Deals
<1>4. \A m \in Modules : Marked(m) => Marked(m)' BY <1>1, MarksDealt
<1>5. clock \in Nat BY DEF DiskInv, DiskTimed
<1>6. clock' \in Nat /\ clock <= clock' BY <1>3, <1>5
<1>7. UNCHANGED runtime BY DEF Deals, Continues
<1>8. QED BY <1>2, <1>4, <1>6, <1>7, FileChanged

\* A file that may be written is.
LEMMA WriteKeepsDisk ==
    ASSUME DiskInv, Deals, NEW x, x = Head(job.queue), NEW a \in Areas, NEW k \in DOMAIN disk[a],
           NEW v, x = Write(a, k, v), MayWrite(a, k, v)
    PROVE  DiskInv'
<1> DEFINE file == [what |-> v, time |-> clock + 1]
<1>1. x.do = "write" /\ x.area = a /\ x.key = k /\ x.what = v BY ItemFields
<1>2. disk' = [disk EXCEPT ![a][k] = file] BY <1>1 DEF Deals, Drops, Put
<1>3. clock' = clock + 1 BY <1>1 DEF Deals
<1>4. \A m \in Modules : Marked(m) => Marked(m)' \/ (a = "state" /\ k = m)
  BY <1>1, MarksDealt
<1>5. clock \in Nat BY DEF DiskInv, DiskTimed
<1>6. /\ clock' \in Nat /\ clock <= clock' /\ clock + 1 <= clock'
      /\ file.time = clock + 1 /\ file.what = v
  BY <1>3, <1>5
<1>7. UNCHANGED runtime BY DEF Deals, Continues
<1> HIDE DEF file
<1>8. QED BY <1>2, <1>4, <1>6, <1>7, FileChanged

\* What the directory is made of.
LEMMA DiskFields ==
    ASSUME DiskInv
    PROVE  /\ clock \in Nat /\ DOMAIN disk = Areas
           /\ \A a \in {"mci", "obj", "state"} : a \in Areas /\ DOMAIN disk[a] = Modules
           /\ \A a \in {"out", "rtobj"} : a \in Areas /\ DOMAIN disk[a] = DOMAIN Targets
BY DEF DiskInv, DiskTimed, Areas

\* What a write leaves behind.
LEMMA WrittenFile ==
    ASSUME DiskInv, Deals, NEW x, x = Head(job.queue), NEW a \in Areas, NEW k \in DOMAIN disk[a],
           NEW v, x = Write(a, k, v)
    PROVE  /\ disk'[a][k].what = v /\ disk'[a][k].time = clock + 1
           /\ Exists(disk[a][k])'
           /\ \A b \in Areas : b # a => disk'[b] = disk[b]
           /\ \A y \in DOMAIN disk[a] : y # k => disk'[a][y] = disk[a][y]
<1> DEFINE file == [what |-> v, time |-> clock + 1]
<1>1. x.do = "write" /\ x.area = a /\ x.key = k /\ x.what = v BY ItemFields
<1>2. disk' = [disk EXCEPT ![a][k] = file] BY <1>1 DEF Deals, Drops, Put
<1>3. file.what = v /\ file.time = clock + 1 /\ file # NoFile
  <2>1. DOMAIN file = {"what", "time"} /\ DOMAIN NoFile = {"time"} BY DEF NoFile
  <2>2. QED BY <2>1
<1>4. DiskTimed BY DEF DiskInv
<1> HIDE DEF file
<1>5. /\ disk'[a][k] = file
      /\ \A b \in Areas : b # a => disk'[b] = disk[b]
      /\ \A y \in DOMAIN disk[a] : y # k => disk'[a][y] = disk[a][y]
  BY <1>2, <1>4, AreasChanged
<1>6. QED BY <1>3, <1>5 DEF Exists

\* The object of a module is written: it is on no record yet.
LEMMA ObjectWriteKeepsDisk ==
    ASSUME DiskInv, Deals, NEW x, x = Head(job.queue), NEW t, NEW m \in Modules,
           x = Write("obj", m, CodeFor(t, m)), UnitStands(t, m)
    PROVE  DiskInv' /\ m \in torn'
<1>1. m \in torn' BY MarksDealt, ItemFields DEF UnitStands
<1>2. \A u : ~OnRecord(u, m)'
  <2> TAKE u
  <2>1. Marked(m)' BY <1>1 DEF Marked
  <2>2. QED BY <2>1 DEF OnRecord
<1> DEFINE v == CodeFor(t, m)
<1>3. \A y : MayWrite("obj", m, y) BY <1>2 DEF MayWrite
<1>4. "obj" \in Areas /\ m \in DOMAIN disk["obj"] BY DiskFields
<1>5. DiskInv'
  <2>1. x = Write("obj", m, v) OBVIOUS
  <2> HIDE DEF v
  <2>2. QED BY <1>3, <1>4, <2>1, WriteKeepsDisk
<1>6. QED BY <1>1, <1>5

\* The record of a module is written.
LEMMA RecordWriteKeepsDisk ==
    ASSUME PlainProject, DiskInv, Deals, NEW x, x = Head(job.queue), NEW t \in DOMAIN Targets,
           NEW m \in Modules, m \in Mods(t), NEW r, x = Write("state", m, r),
           RecordFor(t, m, r), ObjectFresh(t, m)
    PROVE  DiskInv'
<1>1. x.do = "write" /\ x.area = "state" /\ x.key = m /\ x.what = r BY ItemFields
<1>2. "state" \in Areas /\ m \in DOMAIN disk["state"] BY DiskFields
<1>3. disk'.state[m].what = r BY <1>2, WrittenFile
<1>4. ASSUME NEW u \in DOMAIN Targets, m \in Mods(u), OnRecord(u, m)'
      PROVE  /\ disk.obj[m].what = RecordCode(u, m)'
             /\ Exists(disk.out[u]) => disk.out[u].time < disk.obj[m].time
  <2>1. r.wrap = Wrap(u, m) /\ m \notin raced' BY <1>3, <1>4 DEF OnRecord, Marked
  <2>2. r.wrap = Wrap(t, m) BY DEF RecordFor
  <2>a. Wrap(t, m) = Wrap(u, m) BY <2>1, <2>2
  <2>3. Role(t, m) = Role(u, m) BY <1>4, <2>a, SameRole
  <2>4. r.source = job.parsed[m]
    <3>1. m \in raced => \/ m \in raced'
                         \/ /\ x.do = "write" /\ x.area = "state" /\ x.key = m
                            /\ x.what.source = job.parsed[m]
      BY MarksDealt
    <3>2. QED BY <1>1, <2>1, <3>1 DEF RecordFor
  <2>5. RecordCode(u, m)' = Code(r.source, r.imported, r.mode, Role(u, m))
    BY <1>3 DEF RecordCode
  <2>6. r.imported = CleanImports(m) /\ r.mode = job.mode BY DEF RecordFor
  <2>7. RecordCode(u, m)' = CodeFor(t, m) BY <2>3, <2>4, <2>5, <2>6 DEF CodeFor
  <2>8. QED BY <2>7 DEF ObjectFresh
<1>5. MayWrite("state", m, r) BY <1>4 DEF MayWrite
<1>6. QED BY <1>2, <1>5, WriteKeepsDisk

\* The first file of a module is dealt with.
LEMMA ModuleFileKeepsDisk ==
    ASSUME PlainProject, DiskInv, Deals, Head(job.queue) = job.queue[1],
           NEW t \in DOMAIN Targets, NEW m \in Modules, m \in Mods(t), NEW f,
           job.cmd = "build" => UnitStands(t, m), ModuleFile(t, m, f, 1)
    PROVE  DiskInv'
<1> DEFINE x == Head(job.queue)
<1>1. "mci" \in Areas /\ m \in DOMAIN disk["mci"] /\ "obj" \in Areas /\ m \in DOMAIN disk["obj"]
  BY DiskFields
<1>2. CASE x = Write("mci", m, Clean(job.parsed)[m])
  <2>1. \A y : MayWrite("mci", m, y) BY DEF MayWrite
  <2>2. QED BY <1>1, <1>2, <2>1, WriteKeepsDisk
<1>3. CASE x = Unlink("obj", m) BY <1>1, <1>3, RemovalKeepsDisk
<1>4. CASE job.cmd = "build" /\ x = Write("obj", m, CodeFor(t, m))
  BY <1>4, ObjectWriteKeepsDisk
<1>5. ASSUME NEW r, x = Write("state", m, r), RecordFor(t, m, r), ObjectFresh(t, m) PROVE DiskInv'
  BY <1>5, RecordWriteKeepsDisk
<1>6. QED BY <1>2, <1>3, <1>4, <1>5 DEF ModuleFile

\* The merged object of a program is written: no object that is linked by
\* itself is lost, for no such program is entered by the same module.
LEMMA MergedWriteKeepsDisk ==
    ASSUME PlainProject, DiskInv, Deals, NEW x, x = Head(job.queue), NEW t \in DOMAIN Targets,
           NEW m \in Modules, m \in Mods(t), m = Entry(t), IsMerged(t),
           RecordFor(t, m, disk.state[m].what), NEW v, x = Write("obj", m, v)
    PROVE  DiskInv'
<1>1. "obj" \in Areas /\ "state" \in Areas /\ m \in DOMAIN disk["obj"] BY DiskFields
<1>2. disk'.state = disk.state
  <2>1. \A b \in Areas : b # "obj" => disk'[b] = disk[b] BY <1>1, WrittenFile
  <2>2. QED BY <1>1, <2>1
<1>3. ASSUME NEW u \in DOMAIN Targets, m \in Mods(u), ~IsMerged(u), OnRecord(u, m)'
      PROVE  FALSE
  <2>1. disk.state[m].what.wrap = Wrap(u, m) BY <1>2, <1>3 DEF OnRecord
  <2>2. Wrap(t, m) = Wrap(u, m) BY <2>1 DEF RecordFor
  <2>3. QED BY <1>3, <2>2, SameRole
<1>4. MayWrite("obj", m, v) BY <1>3 DEF MayWrite
<1>5. QED BY <1>1, <1>4, WriteKeepsDisk

\* What may be linked may be written.
LEMMA OutWriteKeepsDisk ==
    ASSUME DiskInv, Deals, NEW x, x = Head(job.queue), NEW t \in DOMAIN Targets,
           \A m \in Mods(t) : RecordFor(t, m, disk.state[m].what),
           NEW v, x = Write("out", t, v), OutFor(t, v)
    PROVE  DiskInv'
<1>1. "out" \in Areas /\ t \in DOMAIN disk["out"] BY DiskFields
<1>2. ASSUME NEW m \in Mods(t), OnRecord(t, m) PROVE OutCode(t, v)[m] = RecordCode(t, m)
  <2>1. ~Marked(m) /\ m \notin raced BY <1>2 DEF OnRecord, Marked
  <2>2. OutCode(t, v)[m] = CodeFor(t, m) BY <2>1 DEF OutFor
  <2>3. RecordCode(t, m) = CodeFor(t, m) BY <2>1, RecordIsCode DEF RecordCode, CodeFor
  <2>4. QED BY <2>2, <2>3
<1>3. MayWrite("out", t, v) BY <1>2 DEF MayWrite, OutFor
<1>4. QED BY <1>1, <1>3, WriteKeepsDisk

\* The first file of a target is dealt with.
LEMMA TargetFileKeepsDisk ==
    ASSUME PlainProject, DiskInv, Deals, Head(job.queue) = job.queue[1],
           NEW t \in DOMAIN Targets, NEW f, TargetFile(t, f, 1),
           \A m \in Mods(t) : RecordFor(t, m, disk.state[m].what)
    PROVE  DiskInv'
<1> DEFINE x == Head(job.queue)
<1>1. /\ "rtobj" \in Areas /\ t \in DOMAIN disk["rtobj"] /\ "out" \in Areas /\ t \in DOMAIN disk["out"]
      /\ "obj" \in Areas /\ DOMAIN disk["obj"] = Modules
  BY DiskFields
<1>2. Entry(t) \in Mods(t) /\ Entry(t) \in Modules BY TargetFacts
<1>3. CASE x = Unlink("obj", Entry(t)) BY <1>1, <1>2, <1>3, RemovalKeepsDisk
<1>4. ASSUME NEW v, IsMerged(t), x = Write("obj", Entry(t), v) PROVE DiskInv'
  BY <1>2, <1>4, MergedWriteKeepsDisk
<1>5. CASE x = Unlink("rtobj", t) BY <1>1, <1>5, RemovalKeepsDisk
<1>6. CASE x = Write("rtobj", t, runtime.ver)
  <2>1. MayWrite("rtobj", t, runtime.ver) BY DEF MayWrite
  <2>2. QED BY <1>1, <1>6, <2>1, WriteKeepsDisk
<1>7. CASE x = Unlink("out", t) BY <1>1, <1>7, RemovalKeepsDisk
<1>8. ASSUME NEW v, x = Write("out", t, v), OutFor(t, v) PROVE DiskInv'
  BY <1>8, OutWriteKeepsDisk
<1>9. QED BY <1>3, <1>4, <1>5, <1>6, <1>7, <1>8 DEF TargetFile

\* The first of f files of the n-th item is dealt with.
Dealing(W, n, f) ==
    /\ PlainProject /\ JobList(W) /\ DiskInv /\ Deals
    /\ Head(job.queue) = job.queue[1]
    /\ n \in 1 .. Len(W) /\ f \in Nat \ {0} /\ Stands(W, n, f)
    /\ \A i \in 1 .. f - 1 : job'.queue[i] = job.queue[i + 1]

\* What the item of the list is.
LEMMA ItemTaken ==
    ASSUME NEW W, JobList(W), NEW n \in 1 .. Len(W)
    PROVE  /\ W[n].target \in DOMAIN Targets /\ W[n].do \in {"compile", "close"}
           /\ W[n].do = "compile" => W[n].mod \in Modules /\ W[n].mod \in Mods(W[n].target)
           /\ W[n].do = "close" /\ IsExe(W[n].target) => n = Len(W)
<1>1. /\ W[n].target \in DOMAIN Targets
      /\ \/ W[n].do = "compile" /\ W[n].mod \in Mods(W[n].target) /\ W[n].mod \in Modules
         \/ W[n].do = "close" /\ (IsExe(W[n].target) => n = Len(W))
  BY DEF JobList
<1>2. "close" # "compile" OBVIOUS
<1>3. QED BY <1>1, <1>2

\* The list of a target that is being closed has its records on the disk.
LEMMA RecordsThere ==
    ASSUME NEW W, JobList(W), NEW n \in 1 .. Len(W), NEW f \in Nat, Stands(W, n, f),
           W[n].do = "close", NEW m, m \in Mods(W[n].target)
    PROVE  RecordFor(W[n].target, m, disk.state[m].what)
<1> DEFINE t == W[n].target
<1>1. n \in 0 .. Len(W) /\ n <= n + 1 BY DEF JobList
<1>2. RecordStands(t, m, f) BY <1>1, MembersStand
<1>3. \A j \in 1 .. f : TargetFile(t, f, j)
  <2>1. "close" # "compile" OBVIOUS
  <2>2. QED BY <2>1 DEF Stands, FileFor
<1>4. ~Awaits(f, "state", m)
  <2> HIDE DEF t
  <2>1. QED BY <1>3, NoRecordAwaited
<1>5. QED BY <1>2, <1>4 DEF RecordStands

\* What the build directory is good for, a file later.
LEMMA DealKeepsDisk ==
    ASSUME NEW W, NEW n, NEW f, Dealing(W, n, f)
    PROVE  DiskInv'
<1>1. /\ PlainProject /\ JobList(W) /\ DiskInv /\ Deals /\ Head(job.queue) = job.queue[1]
      /\ n \in 1 .. Len(W) /\ f \in Nat \ {0} /\ Stands(W, n, f)
  BY DEF Dealing
<1> DEFINE t == W[n].target
           m == W[n].mod
<1>2. /\ t \in DOMAIN Targets
      /\ W[n].do = "compile" => m \in Modules /\ m \in Mods(t)
  BY <1>1, ItemTaken
<1>3. FileFor(W[n], f, 1) /\ ItemStands(W[n], f) BY <1>1 DEF Stands, JobList
<1>4. CASE W[n].do = "compile"
  <2>1. ModuleFile(t, m, f, 1)
    <3>1. "close" # "compile" OBVIOUS
    <3>2. QED BY <1>3, <1>4, <3>1 DEF FileFor
  <2>2. job.cmd = "build" => UnitStands(t, m) BY <1>3, <1>4 DEF ItemStands
  <2> HIDE DEF t, m
  <2>3. QED BY <1>1, <1>2, <1>4, <2>1, <2>2, ModuleFileKeepsDisk
<1>5. CASE W[n].do = "close"
  <2>1. TargetFile(t, f, 1)
    <3>1. "close" # "compile" OBVIOUS
    <3>2. QED BY <1>3, <1>5, <3>1 DEF FileFor
  <2>2. \A y \in Mods(t) : RecordFor(t, y, disk.state[y].what) BY <1>1, <1>5, RecordsThere
  <2> HIDE DEF t, m
  <2>3. QED BY <1>1, <1>2, <2>1, <2>2, TargetFileKeepsDisk
<1>6. QED BY <1>3, <1>4, <1>5 DEF FileFor

\* What the first file is.
LEMMA FirstFile ==
    ASSUME NEW W, NEW n, NEW f, Dealing(W, n, f), NEW x, x = Head(job.queue)
    PROVE  /\ x.area \in Areas /\ x.key \in DOMAIN disk[x.area]
           /\ x.area = "mci" => x = Write("mci", x.key, Clean(job.parsed)[x.key])
           /\ x.area = "state" =>
                 /\ W[n].do = "compile" /\ x.key = W[n].mod /\ f = 1
                 /\ \E r : x = Write("state", x.key, r) /\ RecordFor(W[n].target, x.key, r)
           /\ x.area = "obj" =>
                 \/ \E v : x = Write("obj", x.key, v)
                 \/ 1 < f /\ \E v : job.queue[2] = Write("obj", x.key, v)
           /\ x.area = "out" =>
                 /\ W[n].do = "close" /\ x.key = W[n].target
                 /\ \/ \E v : x = Write("out", x.key, v) /\ OutFor(x.key, v)
                    \/ 1 < f /\ \E v : job.queue[2] = Write("out", x.key, v)
<1>1. /\ JobList(W) /\ DiskInv /\ x = job.queue[1]
      /\ n \in 1 .. Len(W) /\ f \in Nat \ {0} /\ Stands(W, n, f)
  BY DEF Dealing
<1> DEFINE t == W[n].target
           m == W[n].mod
<1>2. /\ t \in DOMAIN Targets
      /\ W[n].do = "compile" => m \in Modules
  BY <1>1, ItemTaken
<1>3. FileFor(W[n], f, 1) BY <1>1 DEF Stands, JobList
<1>4. /\ \A a \in {"mci", "obj", "state"} : a \in Areas /\ DOMAIN disk[a] = Modules
      /\ \A a \in {"out", "rtobj"} : a \in Areas /\ DOMAIN disk[a] = DOMAIN Targets
  BY <1>1, DiskFields
<1>5. CASE W[n].do = "compile" /\ ModuleFile(t, m, f, 1)
  <2> HIDE DEF t, m
  <2>1. CASE x = Write("mci", m, Clean(job.parsed)[m])
    <3>1. x.area = "mci" /\ x.key = m BY <2>1, ItemFields
    <3>2. QED BY <1>2, <1>4, <1>5, <2>1, <3>1
  <2>2. CASE x = Unlink("obj", m) /\ 1 < f /\ job.queue[2] = Write("obj", m, CodeFor(t, m))
    <3>1. x.area = "obj" /\ x.key = m BY <2>2, ItemFields
    <3>2. QED BY <1>2, <1>4, <1>5, <2>2, <3>1
  <2>3. CASE x = Write("obj", m, CodeFor(t, m))
    <3>1. x.area = "obj" /\ x.key = m BY <2>3, ItemFields
    <3>2. QED BY <1>2, <1>4, <1>5, <2>3, <3>1
  <2>4. ASSUME NEW r, x = Write("state", m, r), RecordFor(t, m, r), 1 = f
        PROVE  /\ x.area = "state" /\ x.key = m /\ f = 1
               /\ \E s : x = Write("state", m, s) /\ RecordFor(t, m, s)
    BY <2>4, ItemFields
  <2>5. ASSUME x.area = "state", x.key = m, f = 1,
               \E s : x = Write("state", m, s) /\ RecordFor(t, m, s)
        PROVE  /\ x.area \in Areas /\ x.key \in DOMAIN disk[x.area]
               /\ W[n].do = "compile" /\ x.key = W[n].mod /\ f = 1
               /\ \E s : x = Write("state", x.key, s) /\ RecordFor(W[n].target, x.key, s)
    BY <1>2, <1>4, <1>5, <2>5 DEF t, m
  <2>6. QED BY <1>1, <1>5, <2>1, <2>2, <2>3, <2>4, <2>5 DEF ModuleFile
<1>6. CASE W[n].do = "close" /\ TargetFile(t, f, 1)
  <2>0. Entry(t) \in Modules BY <1>2, TargetFacts
  <2>1. CASE x = Unlink("obj", Entry(t)) /\ 1 < f /\ \E v : job.queue[2] = Write("obj", Entry(t), v)
    <3>1. x.area = "obj" /\ x.key = Entry(t) BY <2>1, ItemFields
    <3>2. QED BY <2>0, <1>4, <1>6, <2>1, <3>1
  <2>2. CASE \E v : x = Write("obj", Entry(t), v)
    <3>1. x.area = "obj" /\ x.key = Entry(t) BY <2>2, ItemFields
    <3>2. QED BY <2>0, <1>4, <1>6, <2>2, <3>1
  <2>3. CASE x = Unlink("rtobj", t) \/ x = Write("rtobj", t, runtime.ver)
    <3>1. x.area = "rtobj" /\ x.key = t BY <2>3, ItemFields
    <3>2. QED BY <1>2, <1>4, <1>6, <2>3, <3>1
  <2>4. CASE x = Unlink("out", t) /\ 1 < f /\ \E v : job.queue[2] = Write("out", t, v)
    <3>1. x.area = "out" /\ x.key = t BY <2>4, ItemFields
    <3>2. QED BY <1>2, <1>4, <1>6, <2>4, <3>1
  <2>5. CASE \E v : x = Write("out", t, v) /\ OutFor(t, v)
    <3>1. x.area = "out" /\ x.key = t BY <2>5, ItemFields
    <3>2. QED BY <1>2, <1>4, <1>6, <2>5, <3>1
  <2>6. job.queue[1] = x /\ 1 + 1 = 2 BY <1>1
  <2>7. QED BY <1>6, <2>1, <2>2, <2>3, <2>4, <2>5, <2>6 DEF TargetFile
<1>7. QED BY <1>3, <1>5, <1>6 DEF FileFor

\* The other files stay.
LEMMA OtherFiles ==
    ASSUME NEW W, NEW n, NEW f, Dealing(W, n, f), NEW x, x = Head(job.queue),
           NEW a \in Areas, NEW k \in DOMAIN disk[a], ~(x.area = a /\ x.key = k)
    PROVE  disk'[a][k] = disk[a][k]
<1>1. x.area \in Areas /\ x.key \in DOMAIN disk[x.area] BY FirstFile
<1>2. DiskTimed BY DEF Dealing, DiskInv
<1>3. \E file : disk' = [disk EXCEPT ![x.area][x.key] = file]
  BY DEF Dealing, Deals, Drops, Put
<1>4. PICK file : disk' = [disk EXCEPT ![x.area][x.key] = file] BY <1>3
<1>5. /\ \A b \in Areas : b # x.area => disk'[b] = disk[b]
      /\ \A y \in DOMAIN disk[x.area] : y # x.key => disk'[x.area][y] = disk[x.area][y]
  BY <1>1, <1>2, <1>4, AreasChanged
<1>6. QED BY <1>5

\* What is awaited comes a place nearer.
LEMMA AwaitsShift ==
    ASSUME NEW W, NEW n, NEW f, Dealing(W, n, f), NEW x, x = Head(job.queue), NEW a, NEW k
    PROVE  /\ Awaits(f, a, k) => \/ Awaits(f - 1, a, k)'
                                 \/ x.do = "write" /\ x.area = a /\ x.key = k
           /\ 1 < f /\ (\E v : job.queue[2] = Write(a, k, v)) => Awaits(f - 1, a, k)'
<1>1. /\ x = job.queue[1] /\ f \in Nat \ {0}
      /\ \A i \in 1 .. f - 1 : job'.queue[i] = job.queue[i + 1]
  BY DEF Dealing
<1>2. ASSUME NEW j \in 1 .. f, job.queue[j].do = "write", job.queue[j].area = a,
             job.queue[j].key = k, j # 1
      PROVE  Awaits(f - 1, a, k)'
  <2>1. j - 1 \in 1 .. f - 1 /\ (j - 1) + 1 = j BY <1>1, <1>2
  <2>2. job'.queue[j - 1] = job.queue[j] BY <1>1, <2>1
  <2>3. QED BY <1>2, <2>1, <2>2 DEF Awaits
<1>3. Awaits(f, a, k) => \/ Awaits(f - 1, a, k)'
                         \/ x.do = "write" /\ x.area = a /\ x.key = k
  BY <1>1, <1>2 DEF Awaits
<1>4. ASSUME 1 < f, NEW v, job.queue[2] = Write(a, k, v) PROVE Awaits(f - 1, a, k)'
  <2>1. 2 \in 1 .. f BY <1>1, <1>4
  <2>2. QED BY <1>2, <1>4, <2>1, ItemFields
<1>5. QED BY <1>3, <1>4

\* What may be linked of t may still be.
LEMMA OutForStays ==
    ASSUME Continues, NEW t, \A m \in Mods(t) : Marked(m) => Marked(m)',
           IsExe(t) => \A l \in Range(Targets[t].links) : disk'.out[l] = disk.out[l],
           NEW v, OutFor(t, v)
    PROVE  OutFor(t, v)'
<1>1. \A m : CodeFor(t, m)' = CodeFor(t, m) BY SameTexts
<1>2. UNCHANGED runtime BY DEF Continues
<1>3. Shaped(t, v)' BY DEF OutFor, Shaped, OutCode
<1>4. QED BY <1>1, <1>2, <1>3 DEF OutFor, OutCode

\* And of a record.
LEMMA RecordForStays ==
    ASSUME NEW W, NEW n, NEW f, Dealing(W, n, f), NEW t, NEW m, NEW r, RecordFor(t, m, r),
           LET x == Head(job.queue) IN x.do = "write" /\ x.area = "state" /\ x.key = m => x.what = r
    PROVE  RecordFor(t, m, r)'
<1>1. Continues /\ Deals BY DEF Dealing, Deals
<1>2. job'.mode = job.mode /\ job'.parsed = job.parsed BY <1>1 DEF Continues, SameCommand
<1>3. CleanImports(m)' = CleanImports(m) BY <1>1, SameTexts
<1>4. m \in raced => m \in raced' \/ r.source = job.parsed[m] BY <1>1, MarksDealt
<1>5. Wrap(t, m)' = Wrap(t, m) BY DEF Wrap
<1>6. QED BY <1>2, <1>3, <1>4, <1>5 DEF RecordFor

\* A module that has left the list, a file later.
LEMMA ModuleStays ==
    ASSUME NEW W, NEW n, NEW f, Dealing(W, n, f), NEW k \in 1 .. n, W[k].do = "compile",
           ItemStands(W[k], f)
    PROVE  ItemStands(W[k], f - 1)'
<1> DEFINE x == Head(job.queue)
<1>1. /\ PlainProject /\ JobList(W) /\ DiskInv /\ Deals /\ x = job.queue[1]
      /\ n \in 1 .. Len(W) /\ f \in Nat \ {0} /\ Stands(W, n, f)
      /\ \A i \in 1 .. f - 1 : job'.queue[i] = job.queue[i + 1]
  BY DEF Dealing
<1>2. Continues /\ job'.units = job.units BY <1>1 DEF Deals
<1>c. Clean(job.parsed)' = Clean(job.parsed) /\ \A u, y : CodeFor(u, y)' = CodeFor(u, y)
  BY <1>2, SameTexts
<1>3. k \in 1 .. Len(W) BY <1>1 DEF JobList
<1>4. PICK m, t : m = W[k].mod /\ t = W[k].target OBVIOUS
<1>5. m \in Modules /\ t \in DOMAIN Targets BY <1>1, <1>3, <1>4, ItemTaken
<1>6. /\ \A a \in {"mci", "obj", "state"} : a \in Areas /\ m \in DOMAIN disk[a]
  BY <1>1, <1>5, DiskFields
<1>7. InterfaceStands(m, f) BY <1>4 DEF ItemStands
<1>8. InterfaceStands(m, f - 1)'
  <2>1. CASE x.area = "mci" /\ x.key = m
    <3>1. x = Write("mci", m, Clean(job.parsed)[m]) BY <2>1, FirstFile
    <3> DEFINE c == Clean(job.parsed)[m]
    <3>2. x = Write("mci", m, c) BY <3>1
    <3> HIDE DEF c
    <3>3. disk'["mci"][m].what = c /\ (Exists(disk["mci"][m]))'
      BY <1>1, <1>6, <3>2, WrittenFile
    <3>4. QED BY <1>c, <3>3 DEF InterfaceStands, c
  <2>2. CASE ~(x.area = "mci" /\ x.key = m)
    <3>1. disk'["mci"][m] = disk["mci"][m] BY <1>6, <2>2, OtherFiles
    <3>2. CASE Exists(disk.mci[m]) /\ disk.mci[m].what = Clean(job.parsed)[m]
      BY <1>c, <3>1, <3>2 DEF InterfaceStands, Exists
    <3>3. ASSUME NEW j \in 1 .. f, job.queue[j] = Write("mci", m, Clean(job.parsed)[m])
          PROVE  InterfaceStands(m, f - 1)'
      <4>1. job.queue[j].area = "mci" /\ job.queue[j].key = m BY <3>3, ItemFields
      <4>2. j # 1 BY <1>1, <2>2, <4>1
      <4>3. j - 1 \in 1 .. f - 1 /\ (j - 1) + 1 = j BY <1>1, <4>2
      <4>4. job'.queue[j - 1] = job.queue[j] BY <1>1, <4>3
      <4>5. QED BY <1>c, <3>3, <4>3, <4>4 DEF InterfaceStands
    <3>4. QED BY <1>7, <3>2, <3>3 DEF InterfaceStands
  <2>3. QED BY <2>1, <2>2
<1>9. ASSUME job.cmd = "build" PROVE RecordStands(t, m, f - 1)'
  <2>1. RecordStands(t, m, f) BY <1>4, <1>9 DEF ItemStands
  <2>2. CASE x.area = "state" /\ x.key = m
    <3>1. /\ W[n].do = "compile" /\ m = W[n].mod
          /\ \E r : x = Write("state", m, r) /\ RecordFor(W[n].target, m, r)
      BY <2>2, FirstFile
    <3>2. k = n
      <4>1. \A i, j \in 1 .. Len(W) :
               W[i].do = "compile" /\ W[j].do = "compile" /\ W[i].mod = W[j].mod => i = j
        BY <1>1 DEF JobList
      <4>2. QED BY <1>1, <1>3, <1>4, <3>1, <4>1
    <3>3. PICK r : x = Write("state", m, r) /\ RecordFor(t, m, r) BY <1>4, <3>1, <3>2
    <3>4. disk'["state"][m].what = r /\ (Exists(disk["state"][m]))'
      BY <1>1, <1>6, <3>3, WrittenFile
    <3>5. RecordFor(t, m, r)'
      <4>1. x.what = r BY <3>3, ItemFields
      <4>2. QED BY <3>3, <4>1, RecordForStays
    <3>6. QED BY <3>4, <3>5 DEF RecordStands
  <2>3. CASE ~(x.area = "state" /\ x.key = m)
    <3>1. disk'["state"][m] = disk["state"][m] BY <1>6, <2>3, OtherFiles
    <3>2. CASE Exists(disk.state[m]) /\ RecordFor(t, m, disk.state[m].what)
      <4>1. PICK r : r = disk.state[m].what OBVIOUS
      <4>2. RecordFor(t, m, r)' BY <2>3, <3>2, <4>1, RecordForStays
      <4>3. (Exists(disk.state[m]))' /\ disk'.state[m].what = r BY <3>1, <3>2, <4>1 DEF Exists
      <4>4. QED BY <4>2, <4>3 DEF RecordStands
    <3>3. CASE Awaits(f, "state", m)
      <4>1. Awaits(f - 1, "state", m)' BY <2>3, <3>3, AwaitsShift
      <4>2. QED BY <4>1 DEF RecordStands
    <3>4. QED BY <2>1, <3>2, <3>3 DEF RecordStands
  <2>4. QED BY <2>2, <2>3
<1>10. ASSUME job.cmd = "build" PROVE ObjectStands(m, f - 1)'
  <2>1. ObjectStands(m, f) BY <1>4, <1>10 DEF ItemStands
  <2>2. CASE x.area = "obj" /\ x.key = m
    <3>1. ASSUME NEW v, x = Write("obj", m, v) PROVE ObjectStands(m, f - 1)'
      <4>1. (Exists(disk["obj"][m]))' BY <1>1, <1>6, <3>1, WrittenFile
      <4>2. QED BY <4>1 DEF ObjectStands
    <3>2. CASE 1 < f /\ \E v : job.queue[2] = Write("obj", m, v)
      <4>1. Awaits(f - 1, "obj", m)' BY <3>2, AwaitsShift
      <4>2. QED BY <4>1 DEF ObjectStands
    <3>3. QED BY <2>2, <3>1, <3>2, FirstFile
  <2>3. CASE ~(x.area = "obj" /\ x.key = m)
    <3>1. disk'["obj"][m] = disk["obj"][m] BY <1>6, <2>3, OtherFiles
    <3>2. Awaits(f, "obj", m) => Awaits(f - 1, "obj", m)' BY <2>3, AwaitsShift
    <3>3. QED BY <2>1, <3>1, <3>2 DEF ObjectStands, Exists
  <2>4. QED BY <2>2, <2>3
<1>11. job.cmd = "build" => UnitStands(t, m)'
  <2>1. job.cmd = "build" => UnitStands(t, m) BY <1>4 DEF ItemStands
  <2>2. QED BY <1>2, <1>c, <2>1 DEF UnitStands
<1>12. job'.cmd = job.cmd BY <1>2 DEF Continues, SameCommand
<1>13. "close" # "compile" OBVIOUS
<1>14. QED BY <1>4, <1>8, <1>9, <1>10, <1>11, <1>12, <1>13 DEF ItemStands

\* A target that has left the list, a file later.
LEMMA TargetStays ==
    ASSUME NEW W, NEW n, NEW f, Dealing(W, n, f), NEW k \in 1 .. n, W[k].do = "close",
           ItemStands(W[k], f)
    PROVE  ItemStands(W[k], f - 1)'
<1> DEFINE x == Head(job.queue)
<1>1. /\ JobList(W) /\ DiskInv /\ Deals /\ x = job.queue[1]
      /\ n \in 1 .. Len(W) /\ f \in Nat \ {0} /\ Stands(W, n, f)
  BY DEF Dealing
<1>2. Continues BY <1>1 DEF Deals
<1>3. k \in 1 .. Len(W) /\ Len(W) \in Nat BY <1>1 DEF JobList
<1>4. PICK t : t = W[k].target OBVIOUS
<1>5. t \in DOMAIN Targets /\ (IsExe(t) => k = Len(W)) BY <1>1, <1>3, <1>4, ItemTaken
<1>6. "out" \in Areas /\ DOMAIN disk["out"] = DOMAIN Targets BY <1>1, DiskFields
<1>d. "close" # "compile" OBVIOUS
<1>7. \A m \in Mods(t) : Marked(m) => Marked(m)'
  <2> SUFFICES ASSUME NEW m \in Mods(t), x.area = "state", x.key = m PROVE FALSE
    BY <1>1, MarksDealt
  <2>1. W[n].do = "compile" /\ m = W[n].mod BY FirstFile
  <2>2. PICK j \in 1 .. k - 1 : W[j].do = "compile" /\ W[j].mod = m
    <3>1. \/ W[k].do = "compile"
          \/ \A y \in Mods(W[k].target) :
                \E j \in 1 .. k - 1 : /\ W[j].do = "compile" /\ W[j].mod = y
                                      /\ W[j].target = W[k].target
      BY <1>1, <1>3 DEF JobList
    <3>2. QED BY <1>4, <1>d, <3>1
  <2>3. j \in 1 .. Len(W) /\ j < n BY <1>1, <1>3
  <2>4. \A i, l \in 1 .. Len(W) :
           W[i].do = "compile" /\ W[l].do = "compile" /\ W[i].mod = W[l].mod => i = l
    BY <1>1 DEF JobList
  <2>5. j = n BY <1>1, <2>1, <2>2, <2>3, <2>4
  <2>6. QED BY <1>1, <1>3, <2>3, <2>5
<1>8. IsExe(t) => \A l \in Range(Targets[t].links) : disk'["out"][l] = disk["out"][l]
  <2> SUFFICES ASSUME IsExe(t), NEW l \in Range(Targets[t].links)
               PROVE  disk'["out"][l] = disk["out"][l]
    OBVIOUS
  <2>1. l \in DOMAIN Targets /\ l # t BY <1>5, TargetFacts
  <2>2. k = n BY <1>1, <1>3, <1>5
  <2>3. ~(x.area = "out" /\ x.key = l)
    <3>1. x.area = "out" => x.key = t BY <1>4, <2>2, FirstFile
    <3>2. QED BY <2>1, <3>1
  <2>4. QED BY <1>6, <2>1, <2>3, OtherFiles
<1>9. \A v : OutFor(t, v) => OutFor(t, v)' BY <1>2, <1>7, <1>8, OutForStays
<1>10. OutStands(t, f) BY <1>4 DEF ItemStands
<1>11. OutStands(t, f - 1)'
  <2>1. CASE x.area = "out" /\ x.key = t
    <3>1. ASSUME NEW v, x = Write("out", t, v), OutFor(t, v) PROVE OutStands(t, f - 1)'
      <4>1. disk'["out"][t].what = v /\ (Exists(disk["out"][t]))'
        BY <1>1, <1>5, <1>6, <3>1, WrittenFile
      <4>2. QED BY <1>9, <3>1, <4>1 DEF OutStands
    <3>2. CASE 1 < f /\ \E v : job.queue[2] = Write("out", t, v)
      <4>1. Awaits(f - 1, "out", t)' BY <3>2, AwaitsShift
      <4>2. QED BY <4>1 DEF OutStands
    <3>3. QED BY <2>1, <3>1, <3>2, FirstFile
  <2>2. CASE ~(x.area = "out" /\ x.key = t)
    <3>1. disk'["out"][t] = disk["out"][t] BY <1>5, <1>6, <2>2, OtherFiles
    <3>2. CASE Exists(disk.out[t]) /\ OutFor(t, disk.out[t].what)
      <4>1. PICK v : v = disk.out[t].what OBVIOUS
      <4>2. OutFor(t, v)' BY <1>9, <3>2, <4>1
      <4>3. (Exists(disk.out[t]))' /\ disk'.out[t].what = v BY <3>1, <3>2, <4>1 DEF Exists
      <4>4. QED BY <4>2, <4>3 DEF OutStands
    <3>3. CASE Awaits(f, "out", t)
      <4>1. Awaits(f - 1, "out", t)' BY <2>2, <3>3, AwaitsShift
      <4>2. QED BY <4>1 DEF OutStands
    <3>4. QED BY <1>10, <3>2, <3>3 DEF OutStands
  <2>3. QED BY <2>1, <2>2
<1>12. QED BY <1>4, <1>11, <1>d DEF ItemStands

\* The files of a module that are left, a file later.
LEMMA ModuleFilesStay ==
    ASSUME NEW W, NEW n, NEW f, Dealing(W, n, f), NEW t, NEW m \in Modules,
           W[n].do = "compile", t = W[n].target, m = W[n].mod,
           NEW j \in 1 .. f - 1, ModuleFile(t, m, f, j + 1), ModuleFile(t, m, f, 1)
    PROVE  ModuleFile(t, m, f - 1, j)'
<1> DEFINE x == Head(job.queue)
<1>1. /\ DiskInv /\ Deals /\ x = job.queue[1] /\ f \in Nat \ {0}
      /\ \A i \in 1 .. f - 1 : job'.queue[i] = job.queue[i + 1]
  BY DEF Dealing
<1>2. Continues BY <1>1 DEF Deals
<1>c. Clean(job.parsed)' = Clean(job.parsed) /\ \A u, y : CodeFor(u, y)' = CodeFor(u, y)
  BY <1>2, SameTexts
<1>3. job'.queue[j] = job.queue[j + 1] /\ job'.cmd = job.cmd
  BY <1>1, <1>2 DEF Continues, SameCommand
<1>4. CASE job.queue[j + 1] = Write("mci", m, Clean(job.parsed)[m])
  BY <1>c, <1>3, <1>4 DEF ModuleFile
<1>5. CASE /\ job.cmd = "build" /\ job.queue[j + 1] = Unlink("obj", m)
           /\ j + 1 < f /\ job.queue[(j + 1) + 1] = Write("obj", m, CodeFor(t, m))
  <2>1. j + 1 \in 1 .. f - 1 /\ j < f - 1 BY <1>1, <1>5
  <2>2. job'.queue[j + 1] = job.queue[(j + 1) + 1] BY <1>1, <2>1
  <2>3. QED BY <1>c, <1>3, <1>5, <2>1, <2>2 DEF ModuleFile
<1>6. CASE job.cmd = "build" /\ job.queue[j + 1] = Write("obj", m, CodeFor(t, m))
  BY <1>c, <1>3, <1>6 DEF ModuleFile
<1>7. ASSUME job.cmd = "build", j + 1 = f, NEW r, job.queue[j + 1] = Write("state", m, r),
             RecordFor(t, m, r),
             IF j + 1 = 1 THEN ObjectFresh(t, m)
             ELSE job.queue[(j + 1) - 1] = Write("obj", m, CodeFor(t, m))
      PROVE  ModuleFile(t, m, f - 1, j)'
  <2>1. f # 1 /\ j + 1 # 1 /\ (j + 1) - 1 = j /\ j = f - 1 BY <1>1, <1>7
  <2>2. job.queue[j] = Write("obj", m, CodeFor(t, m)) BY <1>7, <2>1
  <2>3. RecordFor(t, m, r)'
    <3>1. x.area # "state" BY <2>1, FirstFile
    <3>2. QED BY <1>7, <3>1, RecordForStays
  <2>4. CASE j # 1
    <3>1. j - 1 \in 1 .. f - 1 /\ (j - 1) + 1 = j BY <1>1, <2>4
    <3>2. job'.queue[j - 1] = job.queue[j] BY <1>1, <3>1
    <3>3. QED BY <1>c, <1>3, <1>7, <2>1, <2>2, <2>3, <2>4, <3>2 DEF ModuleFile
  <2>5. CASE j = 1
    <3> DEFINE v == CodeFor(t, m)
    <3>1. x = Write("obj", m, v) BY <1>1, <2>2, <2>5
    <3> HIDE DEF v
    <3>2. "obj" \in Areas /\ m \in DOMAIN disk["obj"] /\ "out" \in Areas
          /\ DOMAIN disk["out"] = DOMAIN Targets /\ clock \in Nat
      BY <1>1, DiskFields
    <3>3. /\ disk'["obj"][m].what = v /\ disk'["obj"][m].time = clock + 1
          /\ (Exists(disk["obj"][m]))' /\ disk'["out"] = disk["out"]
      <4>1. "out" # "obj" OBVIOUS
      <4>2. QED BY <1>1, <3>1, <3>2, <4>1, WrittenFile
    <3>4. \A u \in DOMAIN Targets : disk.out[u].time < clock + 1
      <4> SUFFICES ASSUME NEW u \in DOMAIN Targets PROVE disk.out[u].time < clock + 1
        OBVIOUS
      <4>1. disk.out[u].time \in 0 .. clock BY <1>1, <3>2 DEF DiskInv, DiskTimed
      <4>2. QED BY <3>2, <4>1
    <3>5. ObjectFresh(t, m)'
      <4>1. \A u \in DOMAIN Targets : disk'.out[u].time < disk'.obj[m].time BY <3>3, <3>4
      <4>2. disk'.obj[m].what = CodeFor(t, m)' BY <1>c, <3>3 DEF v
      <4>3. QED BY <3>3, <4>1, <4>2 DEF ObjectFresh
    <3>6. QED BY <1>3, <1>7, <2>1, <2>3, <2>5, <3>5 DEF ModuleFile
  <2>6. QED BY <2>4, <2>5
<1>8. QED BY <1>4, <1>5, <1>6, <1>7 DEF ModuleFile

\* The files of a target that are left, a file later.
LEMMA TargetFilesStay ==
    ASSUME NEW W, NEW n, NEW f, Dealing(W, n, f), NEW t \in DOMAIN Targets,
           W[n].do = "close", t = W[n].target,
           NEW j \in 1 .. f - 1, TargetFile(t, f, j + 1)
    PROVE  TargetFile(t, f - 1, j)'
<1> DEFINE x == Head(job.queue)
<1>1. /\ DiskInv /\ Deals /\ f \in Nat \ {0}
      /\ \A i \in 1 .. f - 1 : job'.queue[i] = job.queue[i + 1]
  BY DEF Dealing
<1>2. Continues /\ UNCHANGED runtime BY <1>1 DEF Deals, Continues
<1>3. job'.queue[j] = job.queue[j + 1] BY <1>1
<1>4. ASSUME j + 1 < f
      PROVE  j < f - 1 /\ job'.queue[j + 1] = job.queue[(j + 1) + 1]
  <2>1. j + 1 \in 1 .. f - 1 /\ j < f - 1 BY <1>1, <1>4
  <2>2. QED BY <1>1, <2>1
<1>5. CASE /\ IsMerged(t)
           /\ \/ /\ job.queue[j + 1] = Unlink("obj", Entry(t))
                 /\ j + 1 < f /\ \E v : job.queue[(j + 1) + 1] = Write("obj", Entry(t), v)
              \/ \E v : job.queue[j + 1] = Write("obj", Entry(t), v)
  BY <1>3, <1>4, <1>5 DEF TargetFile
<1>6. CASE job.queue[j + 1] = Unlink("rtobj", t) \/ job.queue[j + 1] = Write("rtobj", t, runtime.ver)
  BY <1>2, <1>3, <1>6 DEF TargetFile
<1>7. CASE /\ job.queue[j + 1] = Unlink("out", t)
           /\ j + 1 < f /\ \E v : job.queue[(j + 1) + 1] = Write("out", t, v)
  BY <1>3, <1>4, <1>7 DEF TargetFile
<1>8. ASSUME NEW v, job.queue[j + 1] = Write("out", t, v), OutFor(t, v)
      PROVE  TargetFile(t, f - 1, j)'
  <2>1. "out" \in Areas /\ DOMAIN disk["out"] = DOMAIN Targets BY <1>1, DiskFields
  <2>2. x.area # "state"
    <3>1. "close" # "compile" OBVIOUS
    <3>2. QED BY <3>1, FirstFile
  <2>3. \A m \in Mods(t) : Marked(m) => Marked(m)' BY <1>1, <2>2, MarksDealt
  <2>4. IsExe(t) => \A l \in Range(Targets[t].links) : disk'["out"][l] = disk["out"][l]
    <3> SUFFICES ASSUME IsExe(t), NEW l \in Range(Targets[t].links)
                 PROVE  disk'["out"][l] = disk["out"][l]
      OBVIOUS
    <3>1. l \in DOMAIN Targets /\ l # t BY TargetFacts
    <3>2. x.area = "out" => x.key = t BY FirstFile
    <3>3. QED BY <2>1, <3>1, <3>2, OtherFiles
  <2>5. OutFor(t, v)' BY <1>2, <1>8, <2>3, <2>4, OutForStays
  <2>6. QED BY <1>3, <1>8, <2>5 DEF TargetFile
<1>9. QED BY <1>5, <1>6, <1>7, <1>8 DEF TargetFile

\* What a command has done so far, a file later.
LEMMA DealKeepsStands ==
    ASSUME NEW W, NEW n, NEW f, Dealing(W, n, f)
    PROVE  Stands(W, n, f - 1)'
<1>1. /\ JobList(W) /\ n \in 1 .. Len(W) /\ f \in Nat \ {0} /\ Stands(W, n, f)
  BY DEF Dealing
<1>2. ASSUME NEW k \in 1 .. n PROVE ItemStands(W[k], f - 1)'
  <2>1. k \in 1 .. Len(W) BY <1>1 DEF JobList
  <2>2. ItemStands(W[k], f) BY <1>1 DEF Stands
  <2>3. W[k].do \in {"compile", "close"} BY <1>1, <2>1, ItemTaken
  <2>4. QED BY <2>2, <2>3, ModuleStays, TargetStays
<1>3. ASSUME NEW j \in 1 .. f - 1 PROVE FileFor(W[n], f - 1, j)'
  <2>1. FileFor(W[n], f, j + 1) /\ FileFor(W[n], f, 1) BY <1>1 DEF Stands
  <2>2. PICK t, m : t = W[n].target /\ m = W[n].mod OBVIOUS
  <2>3. /\ t \in DOMAIN Targets
        /\ W[n].do = "compile" => m \in Modules /\ m \in Mods(t)
    BY <1>1, <2>2, ItemTaken
  <2>d. "close" # "compile" OBVIOUS
  <2>4. CASE W[n].do = "compile"
    <3>1. ModuleFile(t, m, f, j + 1) /\ ModuleFile(t, m, f, 1)
      BY <2>1, <2>2, <2>4, <2>d DEF FileFor
    <3>2. ModuleFile(t, m, f - 1, j)' BY <2>2, <2>3, <2>4, <3>1, ModuleFilesStay
    <3>3. QED BY <2>2, <2>4, <3>2 DEF FileFor
  <2>5. CASE W[n].do = "close"
    <3>1. TargetFile(t, f, j + 1) BY <2>1, <2>2, <2>5, <2>d DEF FileFor
    <3>2. TargetFile(t, f - 1, j)' BY <2>2, <2>3, <2>5, <3>1, TargetFilesStay
    <3>3. QED BY <2>2, <2>5, <3>2 DEF FileFor
  <2>6. QED BY <2>1, <2>4, <2>5 DEF FileFor
<1>4. QED BY <1>1, <1>2, <1>3 DEF Stands

\* A file is dealt with (RemoveArtifactIfExists, WriteArtifact).
LEMMA DealKeeps ==
    ASSUME PlainProject, BuildInv, job # Idle, job.queue # << >>, Deals,
           Head(job.queue).do \in FileItem
    PROVE  BuildInv'
<1>1. PICK W : /\ W = JobWork
               /\ \E n \in 0 .. Len(W), f \in Nat : Progress(n, f) /\ Stands(W, n, f)
  BY DEF BuildInv
<1>2. PICK n \in 0 .. Len(W), f \in Nat : Progress(n, f) /\ Stands(W, n, f) BY <1>1
<1>3. DiskTypes /\ JobTypes /\ DiskInv BY DEF BuildInv
<1>4. JobList(W) BY <1>1, <1>3, JobWorkFacts
<1>5. n \in 0 .. Len(WorkOf(job.cmd, job.target)) BY <1>1 DEF JobWork
<1>6. Head(job.queue) = job.queue[1] /\ f > 0 BY <1>2, <1>3, <1>5, HeadPlace
<1>7. Continues /\ SameCommand /\ Drops BY DEF Deals, Continues
<1>8. f \in Nat \ {0} /\ n \in 1 .. Len(W) BY <1>2, <1>4, <1>6 DEF Stands, JobList
<1>9. /\ DiskTypes' /\ JobTypes' /\ Progress(n, f - 1)'
      /\ \A i \in 1 .. f - 1 : job'.queue[i] = job.queue[i + 1]
  BY <1>2, <1>3, <1>5, <1>7, <1>8, DropProgress
<1>10. Dealing(W, n, f) BY <1>2, <1>3, <1>4, <1>6, <1>8, <1>9 DEF Dealing
<1>11. DiskInv' /\ Stands(W, n, f - 1)' BY <1>10, DealKeepsDisk, DealKeepsStands
<1>12. W = JobWork' BY <1>1, <1>7, SameTexts
<1>13. job' # Idle /\ done' = None BY <1>7 DEF SameCommand, BuildInv, Deals
<1>14. f - 1 \in Nat /\ n \in 0 .. Len(W) BY <1>8
<1>15. QED BY <1>9, <1>11, <1>12, <1>13, <1>14 DEF BuildInv

-----------------------------------------------------------------------------
(* A module is compiled.                                                   *)

\* The list is part of what a command has done.
LEMMA QueueIsInOrder ==
    ASSUME BuildInv
    PROVE  CacheInv
<1>1. DiskTypes /\ JobTypes BY DEF BuildInv
<1>2. ASSUME job # Idle
      PROVE  \E n \in 0 .. Len(WorkOf(job.cmd, job.target)), f \in Nat : Progress(n, f)
  <2>1. PICK W : W = JobWork /\ \E n \in 0 .. Len(W), f \in Nat : Progress(n, f) /\ Stands(W, n, f)
    BY <1>2 DEF BuildInv
  <2>2. QED BY <2>1 DEF JobWork
<1>3. QED BY <1>1, <1>2 DEF CacheInv

\* The next item of the list is taken.
LEMMA AtItem ==
    ASSUME PlainProject, BuildInv, job # Idle, job.queue # << >>,
           Head(job.queue).do \in {"compile", "close"}
    PROVE  \E W : /\ W = JobWork /\ JobList(W)
                  /\ \E n \in 0 .. Len(W) :
                        /\ n < Len(W) /\ Progress(n, 0) /\ Stands(W, n, 0)
                        /\ Head(job.queue) = W[n + 1]
<1>1. PICK W : /\ W = JobWork
               /\ \E n \in 0 .. Len(W), f \in Nat : Progress(n, f) /\ Stands(W, n, f)
  BY DEF BuildInv
<1>2. PICK n \in 0 .. Len(W), f \in Nat : Progress(n, f) /\ Stands(W, n, f) BY <1>1
<1>3. JobTypes BY DEF BuildInv
<1>4. JobList(W) BY <1>1, <1>3, JobWorkFacts
<1>5. WorkOf(job.cmd, job.target) = W BY <1>1 DEF JobWork
<1>6. Head(job.queue).do \notin FileItem BY DEF FileItem
<1>7. f = 0 /\ n < Len(W) /\ Head(job.queue) = W[n + 1]
  BY <1>2, <1>3, <1>5, <1>6, HeadPlace
<1>8. QED BY <1>1, <1>2, <1>4, <1>7

\* Nothing is left of the items that have been taken.
LEMMA ImportsAreClean ==
    ASSUME NEW W, JobList(W), NEW n \in 0 .. Len(W), n < Len(W), Stands(W, n, 0),
           W[n + 1].do = "compile"
    PROVE  LoadImportedInterfaces(W[n + 1].mod) = CleanImports(W[n + 1].mod)
<1> DEFINE m == W[n + 1].mod
<1>1. n + 1 \in 1 .. Len(W) /\ (n + 1) - 1 = n BY DEF JobList
<1>2. ASSUME NEW i \in Imports[m] PROVE disk.mci[i].what = Clean(job.parsed)[i]
  <2>d. "close" # "compile" OBVIOUS
  <2>1. PICK j \in 1 .. n : W[j].do = "compile" /\ W[j].mod = i
    <3>1. \/ \A y \in Imports[W[n + 1].mod] :
                \E j \in 1 .. (n + 1) - 1 : W[j].do = "compile" /\ W[j].mod = y
          \/ W[n + 1].do = "close"
      BY <1>1 DEF JobList
    <3>2. QED BY <1>1, <2>d, <3>1
  <2>2. ItemStands(W[j], 0) BY DEF Stands
  <2>3. QED BY <2>1, <2>2 DEF ItemStands, InterfaceStands
<1> HIDE DEF m
<1>3. LoadImportedInterfaces(m) = CleanImports(m)
  BY <1>2 DEF LoadImportedInterfaces, CleanImports
<1>4. QED BY <1>3 DEF m

\* Two files and a third.
Three(s, a, b, c) == IsSequence(s) /\ Len(s) = 3 /\ s[1] = a /\ s[2] = b /\ s[3] = c

\* It is the sequence of a host tool's two steps and another one.
LEMMA ThreeFiles ==
    ASSUME NEW a, NEW b, NEW c
    PROVE  Three(<< a, b >> \o << c >>, a, b, c)
<1> DEFINE p == << a, b >>
           q == << c >>
<1>0. IsSequence(p) /\ IsSequence(q) BY DEF IsSequence, Range
<1>1. Len(p) = 2 /\ p[1] = a /\ p[2] = b /\ Len(q) = 1 /\ q[1] = c OBVIOUS
<1> HIDE DEF p, q
<1>2. /\ IsSequence(p \o q) /\ Len(p \o q) = Len(p) + Len(q)
      /\ \A i \in 1 .. Len(p) : (p \o q)[i] = p[i]
      /\ \A i \in 1 .. Len(q) : (p \o q)[Len(p) + i] = q[i]
  BY <1>0, Joined
<1>3. 1 \in 1 .. Len(p) /\ 2 \in 1 .. Len(p) /\ 1 \in 1 .. Len(q) /\ Len(p) + 1 = 3 BY <1>1
<1>4. (p \o q)[3] = c BY <1>1, <1>2, <1>3
<1>5. << a, b >> \o << c >> = p \o q BY DEF p, q
<1>6. Len(p \o q) = 3 /\ (p \o q)[1] = a /\ (p \o q)[2] = b BY <1>1, <1>2, <1>3
<1>7. Three(p \o q, a, b, c) BY <1>2, <1>4, <1>6 DEF Three
<1>8. QED BY <1>5, <1>7

\* The record that a module gets (CurrentState).
NewRecord(t, m) ==
    [mode |-> job.mode, source |-> src[m], interface |-> Clean(job.parsed)[m],
     imported |-> CleanImports(m), wrap |-> Wrap(t, m)]

\* What a module leaves to be written.
Leaves(t, m, first, second) ==
    /\ \/ first = << Write("mci", m, Clean(job.parsed)[m]) >>
       \/ first = << >> /\ Exists(disk.mci[m]) /\ disk.mci[m].what = Clean(job.parsed)[m]
    /\ \/ /\ second = ByTool("obj", m, CodeFor(t, m)) \o << Write("state", m, NewRecord(t, m)) >>
          /\ job.cmd = "build"
       \/ /\ second = << >>
          /\ job.cmd = "build" => /\ Exists(disk.state[m]) /\ Exists(disk.obj[m])
                                  /\ disk.state[m].what = NewRecord(t, m)

\* The step of CompileModule that does not fail.
Compiles(t, m, first, second) ==
    /\ SameCommand /\ job'.mode = job.mode
    /\ job'.queue = first \o second \o Tail(job.queue)
    /\ UNCHANGED << runtime, disk, clock, done, torn >>
    /\ raced' = IF src[m] = job.parsed[m] THEN raced ELSE raced \cup {m}
    /\ m \in DOMAIN job'.units /\ job'.units[m].code = CodeFor(t, m)
    /\ \A y \in DOMAIN job.units \ {m} :
          y \in DOMAIN job'.units /\ job'.units[y] = job.units[y]

\* What CompileModule does to a module whose imports are clean.
LEMMA CompileResult ==
    ASSUME CacheInv, CompileModule, NEW t, t = Head(job.queue).target,
           NEW m \in Modules, m = Head(job.queue).mod,
           LoadImportedInterfaces(m) = CleanImports(m)
    PROVE  \/ Finish(FALSE)
           \/ \E first, second : Leaves(t, m, first, second) /\ Compiles(t, m, first, second)
<1> DEFINE imported == LoadImportedInterfaces(m)
           text     == job.parsed[m]
           iface    == InterfaceOf(m, text, imported)
           current  == CurrentState(t, m, iface, imported)
           code     == Code(text, imported, job.mode, Role(t, m))
           first    == IF InterfaceChanged(m, iface) THEN << Write("mci", m, iface) >> ELSE << >>
           object   == ByTool("obj", m, code) \o << Write("state", m, current) >>
           previous == LoadModuleBuildState(m)
           reuse    == /\ job.cmd = "build" /\ previous # None
                       /\ ShouldReuseModuleObject(m, previous, current)
           second   == IF job.cmd = "build" /\ ~reuse THEN object ELSE << >>
           units    == [n \in {m} \cup DOMAIN job.units |->
                           IF n = m THEN [code |-> code, reused |-> reuse] ELSE job.units[n]]
           queue    == first \o second \o Tail(job.queue)
<1>1. job # Idle /\ job.queue # << >> /\ UNCHANGED << runtime, disk, clock, torn >>
  BY DEF CompileModule
<1>2. \/ Finish(FALSE)
      \/ job' = [job EXCEPT !.queue = queue, !.units = units] /\ done' = done
  BY DEF CompileModule
<1>3. raced' = IF src[m] = text THEN raced ELSE raced \cup {m} BY DEF CompileModule
<1>4. iface = Clean(job.parsed)[m]
  <2>1. Clean(job.parsed)[m] = InterfaceOf(m, job.parsed[m], [i \in Imports[m] |-> Clean(job.parsed)[i]])
    BY CleanExists
  <2>2. QED BY <2>1 DEF CleanImports
<1>5. code = CodeFor(t, m) BY DEF CodeFor
<1>6. current = NewRecord(t, m) BY <1>4 DEF CurrentState, NewRecord, Wrap
<1>7. object = ByTool("obj", m, CodeFor(t, m)) \o << Write("state", m, NewRecord(t, m)) >>
  BY <1>5, <1>6
<1>8. Leaves(t, m, first, second)
  <2> HIDE DEF iface, current, object, code, imported
  <2>1. \/ first = << Write("mci", m, Clean(job.parsed)[m]) >>
        \/ first = << >> /\ Exists(disk.mci[m]) /\ disk.mci[m].what = Clean(job.parsed)[m]
    BY <1>4 DEF InterfaceChanged
  <2>2. CASE job.cmd = "build" /\ ~reuse
    <3>1. second = object BY <2>2
    <3> HIDE DEF second, first
    <3>2. QED BY <1>7, <2>1, <2>2, <3>1 DEF Leaves
  <2>3. CASE ~(job.cmd = "build" /\ ~reuse)
    <3>1. second = << >> BY <2>3
    <3>2. job.cmd = "build" => /\ Exists(disk.state[m]) /\ Exists(disk.obj[m])
                               /\ disk.state[m].what = NewRecord(t, m)
      BY <1>6, <2>3 DEF LoadModuleBuildState, ShouldReuseModuleObject
    <3> HIDE DEF second, first
    <3>3. QED BY <2>1, <3>1, <3>2 DEF Leaves
  <2>4. QED BY <2>2, <2>3
<1>9. ASSUME job' = [job EXCEPT !.queue = queue, !.units = units], done' = done
      PROVE  Compiles(t, m, first, second)
  <2>1. m \in DOMAIN units /\ units[m].code = CodeFor(t, m) BY <1>5
  <2>2. \A y \in DOMAIN job.units \ {m} : y \in DOMAIN units /\ units[y] = job.units[y] OBVIOUS
  <2> HIDE DEF units, queue
  <2>3. SameCommand /\ job'.queue = queue BY <1>1, <1>9, QueueChanged
  <2>4. job'.units = units /\ job'.mode = job.mode
    <3>1. DOMAIN job = JobFields BY <1>1 DEF CacheInv, JobTypes
    <3>2. QED BY <1>9, <3>1 DEF JobFields
  <2>5. job'.queue = first \o second \o Tail(job.queue) BY <2>3 DEF queue
  <2> HIDE DEF first, second
  <2>6. QED BY <1>1, <1>3, <1>9, <2>1, <2>2, <2>3, <2>4, <2>5 DEF Compiles
<1>10. QED BY <1>2, <1>8, <1>9

\* What stands needs no more, while no file changes and no mark is lost.
LEMMA ItemKept ==
    ASSUME Continues, UNCHANGED disk, UNCHANGED torn, \A y : y \in raced => y \in raced',
           NEW w, ItemStands(w, 0), NEW F \in Nat,
           w.do = "compile" /\ job.cmd = "build" => UnitStands(w.target, w.mod)'
    PROVE  ItemStands(w, F)'
<1> PICK t, m : t = w.target /\ m = w.mod OBVIOUS
<1>1. /\ job'.cmd = job.cmd /\ job'.mode = job.mode /\ job'.parsed = job.parsed
      /\ UNCHANGED runtime
  BY DEF Continues, SameCommand
<1>2. /\ Clean(job.parsed)' = Clean(job.parsed) /\ CleanImports(m)' = CleanImports(m)
      /\ \A y : CodeFor(t, y)' = CodeFor(t, y)
  BY SameTexts
<1>3. \A y : Marked(y) => Marked(y)' BY DEF Marked
<1>4. \A a, k : ~Awaits(0, a, k) BY DEF Awaits
<1>5. CASE w.do = "compile"
  <2>1. /\ InterfaceStands(m, 0)
        /\ job.cmd = "build" => RecordStands(t, m, 0) /\ ObjectStands(m, 0)
    BY <1>5 DEF ItemStands
  <2>2. InterfaceStands(m, F)' BY <1>2, <2>1 DEF InterfaceStands, Exists
  <2>3. job.cmd = "build" => RecordStands(t, m, F)'
    <3>1. \A r : RecordFor(t, m, r) => RecordFor(t, m, r)'
      BY <1>1, <1>2 DEF RecordFor, Wrap
    <3>2. PICK r : r = disk.state[m].what OBVIOUS
    <3>3. job.cmd = "build" => Exists(disk.state[m]) /\ RecordFor(t, m, r)
      BY <1>4, <2>1, <3>2 DEF RecordStands
    <3>4. r = disk'.state[m].what BY <3>2
    <3>5. QED BY <3>1, <3>3, <3>4 DEF RecordStands, Exists
  <2>4. job.cmd = "build" => ObjectStands(m, F)'
    BY <1>4, <2>1 DEF ObjectStands, Exists
  <2>5. job.cmd = "build" => UnitStands(t, m)' BY <1>5
  <2>6. "close" # "compile" OBVIOUS
  <2>7. QED BY <1>1, <1>5, <2>2, <2>3, <2>4, <2>5, <2>6 DEF ItemStands
<1>6. CASE w.do = "close"
  <2>1. OutStands(t, 0) BY <1>6 DEF ItemStands
  <2>2. PICK v : v = disk.out[t].what OBVIOUS
  <2>3. Exists(disk.out[t]) /\ OutFor(t, v) BY <1>4, <2>1, <2>2 DEF OutStands
  <2>4. OutFor(t, v)' BY <1>3, <2>3, OutForStays
  <2>5. v = disk'.out[t].what BY <2>2
  <2>6. OutStands(t, F)' BY <2>3, <2>4, <2>5 DEF OutStands, Exists
  <2>7. "close" # "compile" OBVIOUS
  <2>8. QED BY <1>6, <2>6, <2>7 DEF ItemStands
<1>7. CASE w.do # "compile" /\ w.do # "close" BY <1>7 DEF ItemStands
<1>8. QED BY <1>5, <1>6, <1>7

\* The files of a compiled module, one after the other.
LEMMA LeftFiles ==
    ASSUME NEW t, NEW m, NEW first, NEW second, Leaves(t, m, first, second)
    PROVE  LET files == first \o second
               F == Len(files)
           IN  /\ IsSequence(first) /\ IsSequence(second) /\ IsSequence(files) /\ F \in Nat
               /\ \/ /\ F > 0 /\ files[1] = Write("mci", m, Clean(job.parsed)[m])
                  \/ Exists(disk.mci[m]) /\ disk.mci[m].what = Clean(job.parsed)[m]
               /\ \/ /\ job.cmd = "build" /\ F \in {3, 4}
                     /\ files[F - 2] = Unlink("obj", m)
                     /\ files[F - 1] = Write("obj", m, CodeFor(t, m))
                     /\ files[F] = Write("state", m, NewRecord(t, m))
                     /\ F = 4 => files[1] = Write("mci", m, Clean(job.parsed)[m])
                  \/ /\ F \in {0, 1}
                     /\ F = 1 => files[1] = Write("mci", m, Clean(job.parsed)[m])
                     /\ job.cmd = "build" => /\ Exists(disk.state[m]) /\ Exists(disk.obj[m])
                                             /\ disk.state[m].what = NewRecord(t, m)
<1> DEFINE i == Write("mci", m, Clean(job.parsed)[m])
           a == Unlink("obj", m)
           b == Write("obj", m, CodeFor(t, m))
           c == Write("state", m, NewRecord(t, m))
           files == first \o second
           F == Len(files)
<1>1. \/ first = << i >>
      \/ first = << >> /\ Exists(disk.mci[m]) /\ disk.mci[m].what = Clean(job.parsed)[m]
  BY DEF Leaves
<1>2. \/ second = << a, b >> \o << c >> /\ job.cmd = "build"
      \/ /\ second = << >>
         /\ job.cmd = "build" => /\ Exists(disk.state[m]) /\ Exists(disk.obj[m])
                                 /\ disk.state[m].what = NewRecord(t, m)
  BY DEF Leaves, ByTool
<1> HIDE DEF i, a, b, c
<1>3. /\ IsSequence(first)
      /\ \/ Len(first) = 1 /\ first[1] = i
         \/ Len(first) = 0 /\ Exists(disk.mci[m]) /\ disk.mci[m].what = Clean(job.parsed)[m]
  <2>1. \A x : IsSequence(<< x >>) BY DEF IsSequence, Range
  <2>2. IsSequence(<< >>) BY DEF IsSequence, Range
  <2>3. IsSequence(first) BY <1>1, <2>1, <2>2
  <2>4. QED BY <1>1, <2>3
<1>4. /\ IsSequence(second)
      /\ \/ /\ Len(second) = 3 /\ second[1] = a /\ second[2] = b /\ second[3] = c
            /\ job.cmd = "build"
         \/ /\ Len(second) = 0
            /\ job.cmd = "build" => /\ Exists(disk.state[m]) /\ Exists(disk.obj[m])
                                    /\ disk.state[m].what = NewRecord(t, m)
  <2>1. CASE second = << a, b >> \o << c >> /\ job.cmd = "build"
    <3>1. IsSequence(second) /\ Len(second) = 3 /\ second[1] = a /\ second[2] = b /\ second[3] = c
      <4>1. Three(<< a, b >> \o << c >>, a, b, c) BY ThreeFiles
      <4>2. Three(second, a, b, c) BY <2>1, <4>1
      <4>3. QED BY <4>2 DEF Three
    <3>2. QED BY <2>1, <3>1
  <2>2. CASE second = << >>
    <3>1. IsSequence(second) BY <2>2 DEF IsSequence, Range
    <3>2. Len(second) = 0 BY <2>2
    <3>3. second # << a, b >> \o << c >>
      <4>1. Three(<< a, b >> \o << c >>, a, b, c) BY ThreeFiles
      <4>2. Len(<< a, b >> \o << c >>) = 3 BY <4>1 DEF Three
      <4>3. QED BY <3>2, <4>2
    <3>4. QED BY <1>2, <3>1, <3>2, <3>3
  <2>3. QED BY <1>2, <2>1, <2>2
<1>5. /\ IsSequence(files) /\ Len(files) = Len(first) + Len(second)
      /\ \A j \in 1 .. Len(first) : files[j] = first[j]
      /\ \A j \in 1 .. Len(second) : files[Len(first) + j] = second[j]
  BY <1>3, <1>4, Joined
<1> HIDE DEF files, F
<1>f. F = Len(first) + Len(second) BY <1>5 DEF F
<1>6. \/ F > 0 /\ files[1] = i
      \/ Exists(disk.mci[m]) /\ disk.mci[m].what = Clean(job.parsed)[m]
  <2>1. CASE Len(first) = 1 /\ first[1] = i
    <3>1. files[1] = i BY <1>5, <2>1
    <3>2. F > 0 BY <1>4, <1>f, <2>1
    <3>3. QED BY <3>1, <3>2
  <2>2. QED BY <1>3, <2>1
<1>7. \/ /\ job.cmd = "build" /\ F \in {3, 4}
         /\ files[F - 2] = a /\ files[F - 1] = b /\ files[F] = c
         /\ F = 4 => files[1] = i
      \/ /\ F \in {0, 1}
         /\ F = 1 => files[1] = i
         /\ job.cmd = "build" => /\ Exists(disk.state[m]) /\ Exists(disk.obj[m])
                                 /\ disk.state[m].what = NewRecord(t, m)
  <2>0. Len(first) \in {0, 1} /\ (Len(first) = 1 => files[1] = i)
    <3>1. Len(first) = 1 => files[1] = first[1] BY <1>5
    <3>2. QED BY <1>3, <3>1
  <2>1. CASE /\ Len(second) = 3 /\ second[1] = a /\ second[2] = b /\ second[3] = c
             /\ job.cmd = "build"
    <3>1. F = Len(first) + 3 BY <1>f, <2>1
    <3>a. \A l \in {0, 1} : \A g : g = l + 3 =>
             g \in {3, 4} /\ (g = 4 => l = 1) /\ g - 2 = l + 1 /\ g - 1 = l + 2
      OBVIOUS
    <3>2. F \in {3, 4} /\ (F = 4 => Len(first) = 1) /\ F - 2 = Len(first) + 1
          /\ F - 1 = Len(first) + 2
      BY <2>0, <3>1, <3>a
    <3>3. /\ files[Len(first) + 1] = a /\ files[Len(first) + 2] = b /\ files[Len(first) + 3] = c
      BY <1>5, <2>1
    <3>4. QED BY <2>0, <2>1, <3>1, <3>2, <3>3
  <2>2. CASE /\ Len(second) = 0
             /\ job.cmd = "build" => /\ Exists(disk.state[m]) /\ Exists(disk.obj[m])
                                     /\ disk.state[m].what = NewRecord(t, m)
    <3>1. F = Len(first) BY <1>f, <2>0, <2>2
    <3>2. QED BY <2>0, <2>2, <3>1
  <2>3. QED BY <1>4, <2>1, <2>2
<1>8. F \in Nat BY <1>7
<1>9. QED BY <1>3, <1>4, <1>5, <1>6, <1>7, <1>8 DEF files, F, i, a, b, c

\* A clean interface is one of the texts of this command.
LEMMA CleanMatches ==
    ASSUME NEW m \in Modules
    PROVE  Matches(m, Clean(job.parsed)[m])
<1> DEFINE imported == [y \in Imports[m] |-> Clean(job.parsed)[y]]
           iface == InterfaceOf(m, job.parsed[m], imported)
<1>1. Clean(job.parsed)[m] = iface BY CleanExists
<1> HIDE DEF imported
<1>2. Matches(m, iface) BY DEF Matches, InterfaceOf
<1> HIDE DEF iface
<1>3. QED BY <1>1, <1>2

\* They are files that a command may deal with.
LEMMA LeftAreOwn ==
    ASSUME NEW t, NEW m \in Modules, NEW first, NEW second, Leaves(t, m, first, second)
    PROVE  OwnFiles(first \o second)
<1> DEFINE i == Write("mci", m, Clean(job.parsed)[m])
           c == Write("state", m, NewRecord(t, m))
           tool == ByTool("obj", m, CodeFor(t, m))
<1>1. OwnFile(i)
  <2>2. Matches(m, Clean(job.parsed)[m]) BY CleanMatches
  <2>3. QED BY <2>2 DEF OwnFile, Write
<1>2. OwnFile(c) BY DEF OwnFile, Write, FileItem, Areas
<1>3. OwnFiles(tool) BY ToolFiles DEF Areas
<1>4. OwnFiles(<< >>) /\ OwnFiles(<< i >>) /\ OwnFiles(<< c >>) BY <1>1, <1>2, FewFiles
<1>5. OwnFiles(tool \o << c >>) BY <1>3, <1>4, FilesJoined
<1>6. /\ first = << i >> \/ first = << >>
      /\ second = tool \o << c >> \/ second = << >>
  BY DEF Leaves
<1> HIDE DEF i, c, tool
<1>7. OwnFiles(first) /\ OwnFiles(second) BY <1>4, <1>5, <1>6
<1>8. QED BY <1>7, FilesJoined

\* The interface of m is among the files.
Announces(m, files) ==
    \E j \in 1 .. Len(files) :
        files[j].do = "write" /\ files[j].area = "mci" /\ files[j].key = m

\* A module that is taken leaves its interface.
LEMMA LeftInterface ==
    ASSUME NEW t, NEW m \in Modules, NEW first, NEW second, Leaves(t, m, first, second)
    PROVE  OnDisk(m) \/ Announces(m, first \o second)
<1> DEFINE files == first \o second
           F == Len(files)
<1>1. /\ F \in Nat
      /\ \/ F > 0 /\ files[1] = Write("mci", m, Clean(job.parsed)[m])
         \/ Exists(disk.mci[m]) /\ disk.mci[m].what = Clean(job.parsed)[m]
  BY LeftFiles
<1>2. CASE F > 0 /\ files[1] = Write("mci", m, Clean(job.parsed)[m])
  <2>1. 1 \in 1 .. F BY <1>1, <1>2
  <2>2. files[1].do = "write" /\ files[1].area = "mci" /\ files[1].key = m BY <1>2, ItemFields
  <2>3. \E j \in 1 .. F : files[j].do = "write" /\ files[j].area = "mci" /\ files[j].key = m
    BY <2>1, <2>2
  <2>4. Announces(m, files) BY <2>3 DEF Announces
  <2>5. QED BY <2>4
<1>3. CASE Exists(disk.mci[m]) /\ disk.mci[m].what = Clean(job.parsed)[m]
  <2>2. Matches(m, Clean(job.parsed)[m]) BY CleanMatches
  <2>3. QED BY <1>3, <2>2 DEF OnDisk
<1>4. QED BY <1>1, <1>2, <1>3

\* The files of a module that has just been taken.
LEMMA LeftFilesStand ==
    ASSUME NEW t, NEW m, NEW first, NEW second, Leaves(t, m, first, second),
           Compiles(t, m, first, second), NEW F, F = Len(first \o second),
           \A i \in 1 .. F : job'.queue[i] = (first \o second)[i]
    PROVE  /\ \A j \in 1 .. F : ModuleFile(t, m, F, j)'
           /\ InterfaceStands(m, F)'
           /\ job.cmd = "build" =>
                 UnitStands(t, m)' /\ RecordStands(t, m, F)' /\ ObjectStands(m, F)'
<1> PICK files, c, code, r : /\ files = first \o second /\ c = Clean(job.parsed)[m]
                             /\ code = CodeFor(t, m) /\ r = NewRecord(t, m)
  OBVIOUS
<1>1. /\ F \in Nat
      /\ \/ F > 0 /\ files[1] = Write("mci", m, c)
         \/ Exists(disk.mci[m]) /\ disk.mci[m].what = c
      /\ \/ /\ job.cmd = "build" /\ F \in {3, 4}
            /\ files[F - 2] = Unlink("obj", m)
            /\ files[F - 1] = Write("obj", m, code)
            /\ files[F] = Write("state", m, r)
            /\ F = 4 => files[1] = Write("mci", m, c)
         \/ /\ F \in {0, 1}
            /\ F = 1 => files[1] = Write("mci", m, c)
            /\ job.cmd = "build" => /\ Exists(disk.state[m]) /\ Exists(disk.obj[m])
                                    /\ disk.state[m].what = r
  BY SMTT(30), LeftFiles
<1>2. \A i \in 1 .. F : job'.queue[i] = files[i] OBVIOUS
<1>3. SameCommand /\ job'.mode = job.mode /\ UNCHANGED << runtime, disk >> BY DEF Compiles
<1>4. Continues BY <1>3 DEF Continues
<1>5. /\ Clean(job.parsed)'[m] = c /\ CodeFor(t, m)' = code /\ CleanImports(m)' = CleanImports(m)
      /\ job'.cmd = job.cmd /\ job'.parsed = job.parsed
  BY <1>3, <1>4, SameTexts DEF SameCommand
<1>6. RecordFor(t, m, r)'
  <2>1. r.source = job.parsed[m] \/ m \in raced' BY DEF Compiles, NewRecord
  <2>2. r.mode = job.mode /\ r.imported = CleanImports(m) /\ r.wrap = Wrap(t, m) BY DEF NewRecord
  <2>3. QED BY <1>3, <1>5, <2>1, <2>2 DEF RecordFor, Wrap
<1>u. UnitStands(t, m)' BY <1>5 DEF UnitStands, Compiles
<1>7. ASSUME NEW j \in 1 .. F, files[j] = Write("mci", m, c) PROVE ModuleFile(t, m, F, j)'
  BY <1>2, <1>5, <1>7 DEF ModuleFile
<1>8. InterfaceStands(m, F)'
  <2>1. CASE F > 0 /\ files[1] = Write("mci", m, c)
    <3>1. 1 \in 1 .. F BY <1>1, <2>1
    <3>2. QED BY <1>2, <1>5, <2>1, <3>1 DEF InterfaceStands
  <2>2. CASE Exists(disk.mci[m]) /\ disk.mci[m].what = c
    BY <1>3, <1>5, <2>2 DEF InterfaceStands, Exists
  <2>3. QED BY <1>1, <2>1, <2>2
<1>9. CASE /\ job.cmd = "build" /\ F \in {3, 4}
           /\ files[F - 2] = Unlink("obj", m)
           /\ files[F - 1] = Write("obj", m, code)
           /\ files[F] = Write("state", m, r)
           /\ F = 4 => files[1] = Write("mci", m, c)
  <2>1. /\ F - 2 \in 1 .. F /\ F - 1 \in 1 .. F /\ F \in 1 .. F /\ F - 2 < F /\ F # 1
        /\ (F - 2) + 1 = F - 1
    BY <1>9
  <2>2. PICK a, b : a = F - 2 /\ b = F - 1 OBVIOUS
  <2>3. /\ a \in 1 .. F /\ b \in 1 .. F /\ a < F /\ a + 1 = b /\ F \in 1 .. F
        /\ job'.queue[a] = Unlink("obj", m) /\ job'.queue[b] = Write("obj", m, code)
        /\ job'.queue[F] = Write("state", m, r)
    BY <1>2, <1>9, <2>1, <2>2
  <2>4. ModuleFile(t, m, F, a)' BY <1>5, <1>9, <2>3 DEF ModuleFile
  <2>5. ModuleFile(t, m, F, b)' BY <1>5, <1>9, <2>3 DEF ModuleFile
  <2>6. ModuleFile(t, m, F, F)'
    <3>1. \E s : job'.queue[F] = Write("state", m, s) /\ RecordFor(t, m, s)' BY <1>6, <2>3
    <3>2. F # 1 /\ job'.queue[F - 1] = Write("obj", m, code) BY <2>1, <2>2, <2>3
    <3>3. QED BY <1>5, <1>9, <3>1, <3>2 DEF ModuleFile
  <2>7. ASSUME NEW j \in 1 .. F PROVE ModuleFile(t, m, F, j)'
    <3>1. j = a \/ j = b \/ j = F \/ (F = 4 /\ j = 1)
      <4>1. F = 3 => j = F - 2 \/ j = F - 1 \/ j = F OBVIOUS
      <4>2. F = 4 => j = F - 2 \/ j = F - 1 \/ j = F \/ j = 1 OBVIOUS
      <4>3. QED BY <1>9, <2>2, <4>1, <4>2
    <3>2. QED BY <1>7, <1>9, <2>4, <2>5, <2>6, <3>1
  <2>8. RecordStands(t, m, F)' /\ ObjectStands(m, F)'
    <3>0. /\ job'.queue[b].do = "write" /\ job'.queue[b].area = "obj" /\ job'.queue[b].key = m
          /\ job'.queue[F].do = "write" /\ job'.queue[F].area = "state" /\ job'.queue[F].key = m
      BY <2>3, ItemFields
    <3>1. Awaits(F, "state", m)' /\ Awaits(F, "obj", m)' BY <2>3, <3>0 DEF Awaits
    <3>2. QED BY <3>1 DEF RecordStands, ObjectStands
  <2>9. QED BY <1>8, <1>u, <2>7, <2>8
<1>10. CASE /\ F \in {0, 1}
            /\ F = 1 => files[1] = Write("mci", m, c)
            /\ job.cmd = "build" => /\ Exists(disk.state[m]) /\ Exists(disk.obj[m])
                                    /\ disk.state[m].what = r
  <2>1. ASSUME NEW j \in 1 .. F PROVE ModuleFile(t, m, F, j)'
    <3>1. j = 1 /\ F = 1 BY <1>10
    <3>2. QED BY <1>7, <1>10, <3>1
  <2>2. job.cmd = "build" => RecordStands(t, m, F)' /\ ObjectStands(m, F)'
    <3>1. disk'.state[m] = disk.state[m] /\ disk'.obj[m] = disk.obj[m] BY <1>3
    <3>2. job.cmd = "build" => disk'.state[m].what = r BY <1>10, <3>1
    <3>3. QED BY <1>6, <1>10, <3>1, <3>2 DEF RecordStands, ObjectStands, Exists
  <2>3. QED BY <1>8, <1>u, <2>1, <2>2
<1>11. QED BY <1>1, <1>9, <1>10

\* A module is compiled (CompileModule).
LEMMA CompileStands ==
    ASSUME PlainProject, BuildInv, CompileModule
    PROVE  BuildInv'
<1>1. /\ job # Idle /\ job.queue # << >> /\ Head(job.queue).do = "compile"
      /\ UNCHANGED << src, runtime, disk, clock, torn >>
  BY DEF CompileModule
<1>2. DiskTypes /\ JobTypes /\ DiskInv /\ CacheInv BY QueueIsInOrder DEF BuildInv
<1>3. \A m : m \in raced => m \in raced' BY DEF CompileModule
<1>4. DiskTypes' /\ DiskInv'
  <2>1. clock \in Nat BY <1>2, DiskFields
  <2>2. clock' \in Nat /\ clock <= clock' BY <1>1, <2>1
  <2>3. \A m \in Modules : Marked(m) => Marked(m)' BY <1>1, <1>3 DEF Marked
  <2>4. DiskInv' BY <1>1, <1>2, <2>2, <2>3, FilesUnchanged
  <2>5. QED BY <1>1, <1>2, <2>4 DEF DiskTypes
<1>5. CASE Finish(FALSE)
  <2>1. job' = Idle /\ ~done'.ok BY <1>5 DEF Finish
  <2>2. QED BY <1>4, <2>1 DEF BuildInv, JobTypes, BuildIsClean
<1>6. CASE ~Finish(FALSE)
  <2>1. PICK W : /\ W = JobWork /\ JobList(W)
                 /\ \E n \in 0 .. Len(W) : /\ n < Len(W) /\ Progress(n, 0) /\ Stands(W, n, 0)
                                           /\ Head(job.queue) = W[n + 1]
    BY <1>1, AtItem
  <2>2. PICK n \in 0 .. Len(W) : /\ n < Len(W) /\ Progress(n, 0) /\ Stands(W, n, 0)
                                 /\ Head(job.queue) = W[n + 1]
    BY <2>1
  <2>3. PICK t, m : t = W[n + 1].target /\ m = W[n + 1].mod OBVIOUS
  <2>4. n + 1 \in 1 .. Len(W) /\ n \in Nat BY <2>1, <2>2 DEF JobList
  <2>5. t \in DOMAIN Targets /\ m \in Modules BY <1>1, <2>1, <2>2, <2>3, <2>4, ItemTaken
  <2>6. LoadImportedInterfaces(m) = CleanImports(m) BY <1>1, <2>1, <2>2, <2>3, ImportsAreClean
  <2>7. PICK first, second : Leaves(t, m, first, second) /\ Compiles(t, m, first, second)
    BY <1>1, <1>2, <1>6, <2>2, <2>3, <2>5, <2>6, CompileResult
  <2>8. PICK files, F : files = first \o second /\ F = Len(files) OBVIOUS
  <2>9. SameCommand /\ Continues /\ UNCHANGED done BY <2>7 DEF Compiles, Continues
  <2>10. Takes(files)
    <3>1. OwnFiles(files) BY <1>2, <2>5, <2>7, <2>8, LeftAreOwn
    <3>2. job'.queue = files \o Tail(job.queue) BY <2>7, <2>8 DEF Compiles
    <3>3. \/ OnDisk(m)
          \/ \E j \in 1 .. Len(files) :
                files[j].do = "write" /\ files[j].area = "mci" /\ files[j].key = m
      <4>1. OnDisk(m) \/ Announces(m, files) BY <2>5, <2>7, <2>8, LeftInterface
      <4>2. QED BY <4>1 DEF Announces
    <3>4. Head(job.queue).mod = m BY <2>2, <2>3
    <3>5. QED BY <2>8, <3>1, <3>2, <3>3, <3>4 DEF Takes
  <2>11. n < Len(WorkOf(job.cmd, job.target)) BY <2>1, <2>2 DEF JobWork
  <2>12. /\ JobTypes' /\ F \in Nat /\ Progress(n + 1, F)'
         /\ \A i \in 1 .. F : job'.queue[i] = files[i]
    <3>1. /\ JobTypes' /\ Len(files) \in Nat /\ Progress(n + 1, Len(files))'
          /\ \A i \in 1 .. Len(files) : job'.queue[i] = files[i]
      BY <1>1, <1>2, <2>2, <2>4, <2>9, <2>10, <2>11, TakeProgress
    <3>2. QED BY <2>8, <3>1
  <2>13. /\ \A j \in 1 .. F : ModuleFile(t, m, F, j)'
         /\ InterfaceStands(m, F)'
         /\ job.cmd = "build" =>
               UnitStands(t, m)' /\ RecordStands(t, m, F)' /\ ObjectStands(m, F)'
    BY <2>7, <2>8, <2>12, LeftFilesStand
  <2>14. Stands(W, n + 1, F)'
    <3>1. ASSUME NEW k \in 1 .. n PROVE ItemStands(W[k], F)'
      <4>1. ItemStands(W[k], 0) BY <2>2 DEF Stands
      <4>2. k \in 1 .. Len(W) BY <2>1, <2>2 DEF JobList
      <4>3. W[k].do = "compile" /\ job.cmd = "build" => UnitStands(W[k].target, W[k].mod)'
        <5> SUFFICES ASSUME W[k].do = "compile", job.cmd = "build"
                     PROVE  UnitStands(W[k].target, W[k].mod)'
          OBVIOUS
        <5>1. PICK u, y : u = W[k].target /\ y = W[k].mod OBVIOUS
        <5>2. UnitStands(u, y) BY <4>1, <5>1 DEF ItemStands
        <5>3. y # m
          <6>1. \A i, j \in 1 .. Len(W) :
                   W[i].do = "compile" /\ W[j].do = "compile" /\ W[i].mod = W[j].mod => i = j
            BY <2>1 DEF JobList
          <6>2. k # n + 1 BY <2>4
          <6>3. QED BY <1>1, <2>2, <2>3, <2>4, <4>2, <5>1, <6>1, <6>2
        <5>4. CodeFor(u, y)' = CodeFor(u, y) BY <2>9, SameTexts
        <5>5. UnitStands(u, y)' BY <2>7, <5>2, <5>3, <5>4 DEF UnitStands, Compiles
        <5>6. QED BY <5>1, <5>5
      <4>4. QED BY <1>1, <1>3, <2>9, <2>12, <4>1, <4>3, ItemKept
    <3>2. ItemStands(W[n + 1], F)'
      <4>1. "close" # "compile" OBVIOUS
      <4>2. job'.cmd = job.cmd BY <2>9 DEF SameCommand
      <4>3. QED BY <1>1, <2>2, <2>3, <2>13, <4>1, <4>2 DEF ItemStands
    <3>3. \A j \in 1 .. F : FileFor(W[n + 1], F, j)'
      BY <1>1, <2>2, <2>3, <2>13 DEF FileFor
    <3>4. \A k \in 1 .. n + 1 : ItemStands(W[k], F)'
      <4> SUFFICES ASSUME NEW k \in 1 .. n + 1 PROVE ItemStands(W[k], F)'
        OBVIOUS
      <4>1. k \in 1 .. n \/ k = n + 1 BY <2>4
      <4>2. QED BY <3>1, <3>2, <4>1
    <3>5. n + 1 > 0 BY <2>4
    <3>6. QED BY <3>3, <3>4, <3>5 DEF Stands
  <2>15. W = JobWork' BY <2>1, <2>9, SameTexts
  <2>16. job' # Idle /\ done' = None BY <1>1, <2>9 DEF SameCommand, BuildInv
  <2>17. n + 1 \in 0 .. Len(W) BY <2>2, <2>4
  <2>18. QED BY <1>4, <2>12, <2>14, <2>15, <2>16, <2>17 DEF BuildInv
<1>7. QED BY <1>5, <1>6

-----------------------------------------------------------------------------
(* A target is closed.                                                     *)

\* The j-th file that a target leaves, among all of them.
Good(t, s, j) ==
    \/ /\ IsMerged(t)
       /\ \/ /\ s[j] = Unlink("obj", Entry(t))
             /\ j < Len(s) /\ \E v : s[j + 1] = Write("obj", Entry(t), v)
          \/ \E v : s[j] = Write("obj", Entry(t), v)
    \/ s[j] = Unlink("rtobj", t)
    \/ s[j] = Write("rtobj", t, runtime.ver)
    \/ /\ s[j] = Unlink("out", t)
       /\ j < Len(s) /\ \E v : s[j + 1] = Write("out", t, v)
    \/ \E v : s[j] = Write("out", t, v) /\ OutFor(t, v)

GoodFiles(t, s) == IsSequence(s) /\ \A j \in 1 .. Len(s) : Good(t, s, j)

\* The output of t is among the files.
OutAmong(t, s) ==
    \E j \in 1 .. Len(s) : s[j].do = "write" /\ s[j].area = "out" /\ s[j].key = t

\* One list after another.
LEMMA GoodJoined ==
    ASSUME NEW t, NEW a, NEW b, GoodFiles(t, a), GoodFiles(t, b)
    PROVE  GoodFiles(t, a \o b) /\ (OutAmong(t, b) => OutAmong(t, a \o b))
<1> PICK s : s = a \o b OBVIOUS
<1>1. IsSequence(a) /\ IsSequence(b) BY DEF GoodFiles
<1>2. /\ IsSequence(s) /\ Len(s) = Len(a) + Len(b)
      /\ \A i \in 1 .. Len(a) : s[i] = a[i]
      /\ \A i \in 1 .. Len(b) : s[Len(a) + i] = b[i]
  BY <1>1, Joined
<1>3. Len(a) \in Nat /\ Len(b) \in Nat BY <1>1, SequenceFacts
<1>4. ASSUME NEW j \in 1 .. Len(a) PROVE Good(t, s, j)
  <2>1. Good(t, a, j) BY DEF GoodFiles
  <2>2. s[j] = a[j] BY <1>2
  <2>3. j < Len(a) => j < Len(s) /\ s[j + 1] = a[j + 1]
    <3> SUFFICES ASSUME j < Len(a) PROVE j < Len(s) /\ s[j + 1] = a[j + 1]
      OBVIOUS
    <3>1. j + 1 \in 1 .. Len(a) /\ j < Len(s) BY <1>2, <1>3
    <3>2. QED BY <1>2, <3>1
  <2>4. QED BY <2>1, <2>2, <2>3 DEF Good
<1>5. ASSUME NEW i \in 1 .. Len(b) PROVE Good(t, s, Len(a) + i)
  <2>1. Good(t, b, i) BY DEF GoodFiles
  <2>2. s[Len(a) + i] = b[i] BY <1>2
  <2>3. i < Len(b) => Len(a) + i < Len(s) /\ s[(Len(a) + i) + 1] = b[i + 1]
    <3> SUFFICES ASSUME i < Len(b)
                 PROVE  Len(a) + i < Len(s) /\ s[(Len(a) + i) + 1] = b[i + 1]
      OBVIOUS
    <3>1. i + 1 \in 1 .. Len(b) /\ Len(a) + i < Len(s) /\ (Len(a) + i) + 1 = Len(a) + (i + 1)
      BY <1>2, <1>3
    <3>2. s[Len(a) + (i + 1)] = b[i + 1] BY <1>2, <3>1
    <3>3. QED BY <3>1, <3>2
  <2>4. QED BY <2>1, <2>2, <2>3 DEF Good
<1>6. ASSUME NEW j \in 1 .. Len(s) PROVE Good(t, s, j)
  <2>1. CASE j <= Len(a) BY <1>3, <1>4, <2>1
  <2>2. CASE ~(j <= Len(a))
    <3>1. PICK i : i = j - Len(a) OBVIOUS
    <3>2. i \in 1 .. Len(b) /\ j = Len(a) + i BY <1>2, <1>3, <2>2, <3>1
    <3>3. Good(t, s, Len(a) + i) BY <1>5, <3>2
    <3>4. QED BY <3>2, <3>3
  <2>3. QED BY <2>1, <2>2
<1>7. ASSUME NEW i \in 1 .. Len(b), b[i].do = "write", b[i].area = "out", b[i].key = t
      PROVE  OutAmong(t, s)
  <2>1. Len(a) + i \in 1 .. Len(s) BY <1>2, <1>3
  <2>2. PICK j : j = Len(a) + i OBVIOUS
  <2>3. j \in 1 .. Len(s) /\ s[j] = b[i] BY <1>2, <2>1, <2>2
  <2>4. QED BY <1>7, <2>3 DEF OutAmong
<1>8. OutAmong(t, b) => OutAmong(t, s) BY <1>7 DEF OutAmong
<1>9. QED BY <1>2, <1>6, <1>8 DEF GoodFiles

\* The pairs of a host tool.
LEMMA ToolPair ==
    ASSUME NEW a, NEW k, NEW v
    PROVE  /\ IsSequence(ByTool(a, k, v)) /\ Len(ByTool(a, k, v)) = 2
           /\ ByTool(a, k, v)[1] = Unlink(a, k) /\ ByTool(a, k, v)[2] = Write(a, k, v)
<1> DEFINE x == Unlink(a, k)
           y == Write(a, k, v)
<1>1. ByTool(a, k, v) = << x, y >> BY DEF ByTool
<1> HIDE DEF x, y
<1>2. IsSequence(<< x, y >>) BY DEF IsSequence, Range
<1>3. Len(<< x, y >>) = 2 /\ << x, y >>[1] = x /\ << x, y >>[2] = y OBVIOUS
<1>4. QED BY <1>1, <1>2, <1>3 DEF x, y

\* Each of them is good for the target.
LEMMA GoodPairs ==
    ASSUME NEW t
    PROVE  /\ GoodFiles(t, << >>)
           /\ \A v : IsMerged(t) => GoodFiles(t, ByTool("obj", Entry(t), v))
           /\ GoodFiles(t, ByTool("rtobj", t, runtime.ver))
           /\ \A v : OutFor(t, v) => /\ GoodFiles(t, ByTool("out", t, v))
                                     /\ OutAmong(t, ByTool("out", t, v))
<1>1. GoodFiles(t, << >>)
  <2>1. IsSequence(<< >>) BY DEF IsSequence, Range
  <2>2. Len(<< >>) = 0 OBVIOUS
  <2>3. QED BY <2>1, <2>2 DEF GoodFiles
<1>2. ASSUME NEW a, NEW k, NEW v, NEW s, s = ByTool(a, k, v), Good(t, s, 1), Good(t, s, 2)
      PROVE  GoodFiles(t, s)
  <2>1. IsSequence(s) /\ Len(s) = 2 BY <1>2, ToolPair
  <2>2. \A j \in 1 .. Len(s) : j = 1 \/ j = 2 BY <2>1
  <2>3. QED BY <1>2, <2>1, <2>2 DEF GoodFiles
<1>3. ASSUME NEW v, IsMerged(t) PROVE GoodFiles(t, ByTool("obj", Entry(t), v))
  <2>1. PICK s : s = ByTool("obj", Entry(t), v) OBVIOUS
  <2>2. Len(s) = 2 /\ s[1] = Unlink("obj", Entry(t)) /\ s[2] = Write("obj", Entry(t), v)
    BY <2>1, ToolPair
  <2>3. 1 < Len(s) /\ 1 + 1 = 2 BY <2>2
  <2>4. Good(t, s, 1) /\ Good(t, s, 2) BY <1>3, <2>2, <2>3 DEF Good
  <2>5. QED BY <1>2, <2>1, <2>4
<1>4. GoodFiles(t, ByTool("rtobj", t, runtime.ver))
  <2>1. PICK s : s = ByTool("rtobj", t, runtime.ver) OBVIOUS
  <2>2. s[1] = Unlink("rtobj", t) /\ s[2] = Write("rtobj", t, runtime.ver) BY <2>1, ToolPair
  <2>3. Good(t, s, 1) /\ Good(t, s, 2) BY <2>2 DEF Good
  <2>4. QED BY <1>2, <2>1, <2>3
<1>5. ASSUME NEW v, OutFor(t, v)
      PROVE  GoodFiles(t, ByTool("out", t, v)) /\ OutAmong(t, ByTool("out", t, v))
  <2>1. PICK s : s = ByTool("out", t, v) OBVIOUS
  <2>2. Len(s) = 2 /\ s[1] = Unlink("out", t) /\ s[2] = Write("out", t, v) BY <2>1, ToolPair
  <2>3. 1 < Len(s) /\ 1 + 1 = 2 /\ 2 \in 1 .. Len(s) BY <2>2
  <2>4. Good(t, s, 1) /\ Good(t, s, 2) BY <1>5, <2>2, <2>3 DEF Good
  <2>5. OutAmong(t, s) BY <2>2, <2>3, ItemFields DEF OutAmong
  <2>6. QED BY <1>2, <2>1, <2>4, <2>5
<1>6. QED BY <1>1, <1>3, <1>4, <1>5

\* The files are good for the target when they are the first of the queue.
LEMMA GoodAreTargetFiles ==
    ASSUME Continues, UNCHANGED << disk, torn, raced >>, NEW t, NEW files, NEW F, F = Len(files),
           GoodFiles(t, files), \A i \in 1 .. F : job'.queue[i] = files[i], F \in Nat
    PROVE  /\ \A j \in 1 .. F : TargetFile(t, F, j)'
           /\ OutAmong(t, files) => OutStands(t, F)'
<1>1. UNCHANGED runtime BY DEF Continues
<1>2. \A v : OutFor(t, v) => OutFor(t, v)' BY OutForStays DEF Marked
<1>3. ASSUME NEW j \in 1 .. F PROVE TargetFile(t, F, j)'
  <2>1. Good(t, files, j) BY DEF GoodFiles
  <2>2. job'.queue[j] = files[j] OBVIOUS
  <2>3. j < F => job'.queue[j + 1] = files[j + 1]
    <3> SUFFICES ASSUME j < F PROVE job'.queue[j + 1] = files[j + 1]
      OBVIOUS
    <3>1. j + 1 \in 1 .. F OBVIOUS
    <3>2. QED BY <3>1
  <2>4. QED BY <1>1, <1>2, <2>1, <2>2, <2>3 DEF Good, TargetFile
<1>4. OutAmong(t, files) => OutStands(t, F)'
  <2> SUFFICES ASSUME NEW j \in 1 .. F, files[j].do = "write", files[j].area = "out", files[j].key = t
               PROVE  OutStands(t, F)'
    BY DEF OutAmong
  <2>1. job'.queue[j] = files[j] OBVIOUS
  <2>2. Awaits(F, "out", t)' BY <2>1 DEF Awaits
  <2>3. QED BY <2>2 DEF OutStands
<1>5. QED BY <1>3, <1>4

\* A target whose modules have all been dealt with.
Ready(t) ==
    /\ t \in DOMAIN Targets
    /\ \A m \in Mods(t) :
          /\ m \in Modules /\ job.units[m].code = CodeFor(t, m) /\ Exists(disk.obj[m])
          /\ ~Marked(m) => OnRecord(t, m) /\ RecordCode(t, m) = CodeFor(t, m)
    /\ IsExe(t) => \A l \in Range(Targets[t].links) : Exists(disk.out[l])

\* That is what a target is when its turn comes.
LEMMA CloseReady ==
    ASSUME NEW W, JobList(W), NEW n \in 0 .. Len(W), n < Len(W), Stands(W, n, 0),
           W[n + 1].do = "close", NEW t, t = W[n + 1].target
    PROVE  Ready(t) /\ job.cmd = "build"
<1>1. n + 1 \in 1 .. Len(W) /\ n + 1 <= n + 1 /\ Len(W) \in Nat /\ n \in Nat BY DEF JobList
<1>2. t \in DOMAIN Targets /\ (IsExe(t) => n + 1 = Len(W)) BY <1>1, ItemTaken
<1>d. "close" # "compile" OBVIOUS
<1>3. job.cmd = "build"
  <2>1. W[n + 1].do = "compile" \/ job.cmd = "build" BY <1>1 DEF JobList
  <2>2. QED BY <1>d, <2>1
<1>4. \A a, k : ~Awaits(0, a, k) BY DEF Awaits
<1>5. ASSUME NEW m \in Mods(t)
      PROVE  /\ m \in Modules /\ job.units[m].code = CodeFor(t, m) /\ Exists(disk.obj[m])
             /\ ~Marked(m) => OnRecord(t, m) /\ RecordCode(t, m) = CodeFor(t, m)
  <2>1. /\ m \in Modules /\ UnitStands(t, m) /\ RecordStands(t, m, 0) /\ ObjectStands(m, 0)
    BY <1>1, MembersStand
  <2>2. /\ job.units[m].code = CodeFor(t, m) /\ Exists(disk.obj[m]) /\ Exists(disk.state[m])
        /\ RecordFor(t, m, disk.state[m].what)
    BY <1>4, <2>1 DEF UnitStands, RecordStands, ObjectStands
  <2>3. ~Marked(m) => OnRecord(t, m) BY <2>2 DEF OnRecord, RecordFor
  <2>4. ~Marked(m) => RecordCode(t, m) = CodeFor(t, m)
    BY <2>2, RecordIsCode DEF RecordCode, CodeFor, Marked
  <2>5. QED BY <2>1, <2>2, <2>3, <2>4
<1>6. ASSUME IsExe(t), NEW l \in Range(Targets[t].links) PROVE Exists(disk.out[l])
  <2>1. W[n + 1].target = job.target
    <3>1. job.cmd = "build" => W[Len(W)].target = job.target BY DEF JobList
    <3>2. QED BY <1>2, <1>3, <1>6, <3>1
  <2>2. PICK k \in 1 .. Len(W) : W[k].do = "close" /\ W[k].target = l
    <3>1. job.cmd = "build" =>
             \A y \in Range(Targets[job.target].links) :
                \E k \in 1 .. Len(W) : W[k].do = "close" /\ W[k].target = y
      BY DEF JobList
    <3>2. QED BY <1>3, <2>1, <3>1
  <2>3. l # t BY <1>2, <1>6, TargetFacts
  <2>4. k \in 1 .. n
    <3>1. k # n + 1 BY <2>2, <2>3
    <3>2. QED BY <1>1, <1>2, <1>6, <3>1
  <2>5. ItemStands(W[k], 0) BY <2>4 DEF Stands
  <2>6. QED BY <1>4, <2>2, <2>5 DEF ItemStands, OutStands
<1>7. QED BY <1>2, <1>3, <1>5, <1>6 DEF Ready

\* The objects of a target that is not merged hold its code.
LEMMA ObjectsAreCode ==
    ASSUME DiskInv, NEW t, Ready(t), ~IsMerged(t)
    PROVE  \A m \in Mods(t) : ~Marked(m) => Objects(t)[m] = CodeFor(t, m)
<1> SUFFICES ASSUME NEW m \in Mods(t), ~Marked(m) PROVE Objects(t)[m] = CodeFor(t, m)
  OBVIOUS
<1>1. OnRecord(t, m) /\ RecordCode(t, m) = CodeFor(t, m) BY DEF Ready
<1>2. ObjectRecorded(t, m) BY DEF DiskInv, Ready
<1>3. disk.obj[m].what = CodeFor(t, m) BY <1>1, <1>2 DEF ObjectRecorded
<1>4. QED BY <1>3 DEF Objects, Mods

\* An archive of them may be kept for the target.
LEMMA ArchiveIsGood ==
    ASSUME DiskInv, NEW t, Ready(t), ~IsExe(t)
    PROVE  OutFor(t, Objects(t))
<1> PICK v : v = Objects(t) OBVIOUS
<1>1. Shaped(t, v) BY DEF Shaped, OutCode, Objects, Mods
<1>2. \A m \in Mods(t) : ~Marked(m) => v[m] = CodeFor(t, m)
  BY ObjectsAreCode DEF IsMerged, IsExe
<1>3. QED BY <1>1, <1>2 DEF OutFor, OutCode

\* And a program of the code.
LEMMA ProgramIsGood ==
    ASSUME NEW t, Ready(t), IsExe(t), NEW code, code = [m \in Mods(t) |-> code[m]],
           \A m \in Mods(t) : ~Marked(m) => code[m] = CodeFor(t, m),
           NEW v, v = [code |-> code, runtime |-> runtime.ver,
                       libs |-> [l \in Range(Targets[t].links) |-> disk.out[l].what]]
    PROVE  OutFor(t, v)
<1>1. /\ v.code = code /\ v.runtime = runtime.ver
      /\ \A l \in Range(Targets[t].links) : v.libs[l] = disk.out[l].what
  OBVIOUS
<1>2. v = [code |-> v.code, runtime |-> v.runtime,
           libs |-> [l \in Range(Targets[t].links) |-> v.libs[l]]]
  <2>1. v.libs = [l \in Range(Targets[t].links) |-> v.libs[l]] OBVIOUS
  <2>2. v = [code |-> v.code, runtime |-> v.runtime, libs |-> v.libs] OBVIOUS
  <2>3. QED BY <2>1, <2>2
<1>3. QED BY <1>1, <1>2 DEF OutFor, OutCode, Shaped

\* A file that is not older than another.
LEMMA NotOlder ==
    ASSUME NEW o, NEW i, ~IsOutputOlderThan(o, i), o.time \in Nat, i.time \in Nat
    PROVE  Exists(o) /\ Exists(i) /\ i.time <= o.time
BY DEF IsOutputOlderThan

\* Times can be compared.
LEMMA TimesAreNat ==
    ASSUME DiskInv
    PROVE  /\ \A m \in Modules : disk.obj[m].time \in Nat
           /\ \A t \in DOMAIN Targets : disk.out[t].time \in Nat /\ disk.rtobj[t].time \in Nat
           /\ runtime.time \in Nat
<1>1. DiskTimed BY DEF DiskInv
<1>2. clock \in Nat BY <1>1 DEF DiskTimed
<1>3. /\ DOMAIN disk["obj"] = Modules /\ "obj" \in Areas
      /\ DOMAIN disk["out"] = DOMAIN Targets /\ "out" \in Areas
      /\ DOMAIN disk["rtobj"] = DOMAIN Targets /\ "rtobj" \in Areas
  BY <1>1 DEF DiskTimed, Areas
<1>4. /\ \A a \in Areas : \A k \in DOMAIN disk[a] : disk[a][k].time \in 0 .. clock
      /\ runtime.time \in 0 .. clock
  BY <1>1 DEF DiskTimed
<1>5. \A m \in Modules : disk["obj"][m].time \in 0 .. clock BY <1>3, <1>4
<1>6. \A t \in DOMAIN Targets : disk["out"][t].time \in 0 .. clock /\ disk["rtobj"][t].time \in 0 .. clock
  BY <1>3, <1>4
<1>7. QED BY <1>2, <1>4, <1>5, <1>6

\* What was linked or archived before, if nothing newer went into it.
LEMMA KeptCode ==
    ASSUME DiskInv, NEW t, Ready(t), Exists(disk.out[t]),
           \A m \in Mods(t) : ~IsOutputOlderThan(disk.out[t], disk.obj[m])
    PROVE  /\ Shaped(t, disk.out[t].what)
           /\ \A m \in Mods(t) : ~Marked(m) => OutCode(t, disk.out[t].what)[m] = CodeFor(t, m)
<1>1. t \in DOMAIN Targets BY DEF Ready
<1>2. Shaped(t, disk.out[t].what) BY <1>1 DEF DiskInv
<1>3. ASSUME NEW m \in Mods(t), ~Marked(m)
      PROVE  OutCode(t, disk.out[t].what)[m] = CodeFor(t, m)
  <2>1. OnRecord(t, m) /\ RecordCode(t, m) = CodeFor(t, m) /\ m \in Modules BY <1>3 DEF Ready
  <2>2. OutRecorded(t, m) BY <1>1 DEF DiskInv
  <2>3. disk.out[t].time \in Nat /\ disk.obj[m].time \in Nat BY <1>1, <2>1, TimesAreNat
  <2>4. disk.obj[m].time <= disk.out[t].time BY <2>3, NotOlder
  <2>5. QED BY <2>1, <2>2, <2>4 DEF OutRecorded
<1>4. QED BY <1>2, <1>3

\* The runtime support object is that of the runtime source, or is made first.
LEMMA LinkIsGood ==
    ASSUME DiskInv, NEW t, Ready(t), IsExe(t), NEW code, code = [m \in Mods(t) |-> code[m]],
           \A m \in Mods(t) : ~Marked(m) => code[m] = CodeFor(t, m)
    PROVE  GoodFiles(t, LinkExecutable(t, code)) /\ OutAmong(t, LinkExecutable(t, code))
<1> DEFINE stale == IsOutputOlderThan(disk.rtobj[t], runtime)
           support == IF stale THEN runtime.ver ELSE disk.rtobj[t].what
           out == [code |-> code, runtime |-> support,
                   libs |-> [l \in Range(Targets[t].links) |-> disk.out[l].what]]
           first == IF stale THEN ByTool("rtobj", t, support) ELSE << >>
           second == ByTool("out", t, out)
<1>1. LinkExecutable(t, code) = first \o second BY DEF LinkExecutable
<1>2. t \in DOMAIN Targets BY DEF Ready
<1>3. support = runtime.ver
  <2>1. CASE stale BY <2>1
  <2>2. CASE ~stale
    <3>1. disk.rtobj[t].time \in Nat /\ runtime.time \in Nat BY <1>2, TimesAreNat
    <3>2. Exists(disk.rtobj[t]) /\ runtime.time <= disk.rtobj[t].time BY <2>2, <3>1, NotOlder
    <3>3. RuntimeRecorded(t) BY <1>2 DEF DiskInv
    <3>4. QED BY <2>2, <3>2, <3>3 DEF RuntimeRecorded
  <2>3. QED BY <2>1, <2>2
<1>4. OutFor(t, out) BY <1>3, ProgramIsGood
<1>5. GoodFiles(t, second) /\ OutAmong(t, second) BY <1>4, GoodPairs
<1>6. GoodFiles(t, first) BY <1>3, GoodPairs
<1> HIDE DEF first, second
<1>7. QED BY <1>1, <1>5, <1>6, GoodJoined

\* A program that is not linked again is the one that linking would make.
LEMMA ProgramKept ==
    ASSUME DiskInv, NEW t, Ready(t), IsExe(t), ~ShouldRelinkProjectExecutable(t)
    PROVE  Exists(disk.out[t]) /\ OutFor(t, disk.out[t].what)
<1>1. /\ Exists(disk.out[t]) /\ ~IsOutputOlderThan(disk.rtobj[t], runtime)
      /\ ~IsOutputOlderThan(disk.out[t], disk.rtobj[t])
      /\ \A m \in Mods(t) : ~IsOutputOlderThan(disk.out[t], disk.obj[m])
      /\ \A l \in Range(Targets[t].links) : ~IsOutputOlderThan(disk.out[t], disk.out[l])
  BY DEF ShouldRelinkProjectExecutable, Mods
<1>2. t \in DOMAIN Targets BY DEF Ready
<1>3. /\ Shaped(t, disk.out[t].what)
      /\ \A m \in Mods(t) : ~Marked(m) => OutCode(t, disk.out[t].what)[m] = CodeFor(t, m)
  BY <1>1, KeptCode
<1>4. disk.out[t].what.runtime = runtime.ver
  <2>1. disk.rtobj[t].time \in Nat /\ runtime.time \in Nat /\ disk.out[t].time \in Nat
    BY <1>2, TimesAreNat
  <2>2. Exists(disk.rtobj[t]) /\ runtime.time <= disk.rtobj[t].time BY <1>1, <2>1, NotOlder
  <2>3. disk.rtobj[t].time <= disk.out[t].time BY <1>1, <2>1, NotOlder
  <2>4. RuntimeRecorded(t) BY <1>2 DEF DiskInv
  <2>5. QED BY <1>1, <2>2, <2>3, <2>4 DEF RuntimeRecorded
<1>5. ASSUME NEW l \in Range(Targets[t].links)
      PROVE  disk.out[t].what.libs[l] = disk.out[l].what
  <2>1. l \in DOMAIN Targets BY <1>2, TargetFacts
  <2>2. disk.out[t].time \in Nat /\ disk.out[l].time \in Nat BY <1>2, <2>1, TimesAreNat
  <2>3. Exists(disk.out[l]) /\ disk.out[l].time <= disk.out[t].time BY <1>1, <2>2, NotOlder
  <2>4. LibraryRecorded(t, l) BY <1>2 DEF DiskInv
  <2>5. QED BY <1>1, <2>3, <2>4 DEF LibraryRecorded
<1>6. QED BY <1>1, <1>3, <1>4, <1>5 DEF OutFor

\* So is an archive.
LEMMA ArchiveKept ==
    ASSUME DiskInv, NEW t, Ready(t), ~IsExe(t), ~ShouldArchiveProjectStaticLibrary(t)
    PROVE  Exists(disk.out[t]) /\ OutFor(t, disk.out[t].what)
<1>1. /\ Exists(disk.out[t])
      /\ \A m \in Mods(t) : ~IsOutputOlderThan(disk.out[t], disk.obj[m])
  BY DEF ShouldArchiveProjectStaticLibrary, Mods
<1>2. QED BY <1>1, KeptCode DEF OutFor

\* What CloseTarget leaves to be done.
LEMMA CloseResult ==
    ASSUME DiskInv, NEW t, Ready(t), t = Head(job.queue).target, CloseTarget
    PROVE  \E work : /\ job' = [job EXCEPT !.queue = work \o Tail(job.queue)]
                     /\ GoodFiles(t, work)
                     /\ \/ OutAmong(t, work)
                        \/ Exists(disk.out[t]) /\ OutFor(t, disk.out[t].what)
<1>1. t \in DOMAIN Targets BY DEF Ready
<1>2. Targets[t].kind = "staticlib" <=> ~IsExe(t) BY <1>1, TargetsAssumption DEF IsExe
<1>3. Len(Targets[t].mods) > 1 /\ IsExe(t) <=> IsMerged(t) BY DEF IsExe, IsMerged
<1> DEFINE work ==
             IF Targets[t].kind = "staticlib"
             THEN IF ShouldArchiveProjectStaticLibrary(t)
                  THEN ArchiveStaticLibrary(t) ELSE << >>
             ELSE IF ~ShouldRelinkProjectExecutable(t) THEN << >>
             ELSE IF Len(Targets[t].mods) > 1
             THEN ByTool("obj", Entry(t), Merged(t)) \o LinkExecutable(t, Merged(t))
             ELSE LinkExecutable(t, Objects(t))
<1>4. job' = [job EXCEPT !.queue = work \o Tail(job.queue)] BY DEF CloseTarget
<1>5. GoodFiles(t, << >>) BY GoodPairs
<1>6. /\ GoodFiles(t, work)
      /\ OutAmong(t, work) \/ (Exists(disk.out[t]) /\ OutFor(t, disk.out[t].what))
  <2>1. CASE ~IsExe(t) /\ ShouldArchiveProjectStaticLibrary(t)
    <3>1. work = ByTool("out", t, Objects(t)) BY <1>2, <2>1 DEF ArchiveStaticLibrary
    <3>2. OutFor(t, Objects(t)) BY <2>1, ArchiveIsGood
    <3> HIDE DEF work
    <3>3. QED BY <3>1, <3>2, GoodPairs
  <2>2. CASE ~IsExe(t) /\ ~ShouldArchiveProjectStaticLibrary(t)
    <3>1. work = << >> BY <1>2, <2>2
    <3>2. Exists(disk.out[t]) /\ OutFor(t, disk.out[t].what) BY <2>2, ArchiveKept
    <3> HIDE DEF work
    <3>3. QED BY <1>5, <3>1, <3>2
  <2>3. CASE IsExe(t) /\ ~ShouldRelinkProjectExecutable(t)
    <3>1. work = << >> BY <1>2, <2>3
    <3>2. Exists(disk.out[t]) /\ OutFor(t, disk.out[t].what) BY <2>3, ProgramKept
    <3> HIDE DEF work
    <3>3. QED BY <1>5, <3>1, <3>2
  <2>4. CASE IsExe(t) /\ ShouldRelinkProjectExecutable(t) /\ IsMerged(t)
    <3>1. work = ByTool("obj", Entry(t), Merged(t)) \o LinkExecutable(t, Merged(t))
      BY <1>2, <1>3, <2>4
    <3>2. /\ Merged(t) = [m \in Mods(t) |-> Merged(t)[m]]
          /\ \A m \in Mods(t) : Merged(t)[m] = CodeFor(t, m)
      BY DEF Merged, Mods, Ready
    <3>3. GoodFiles(t, LinkExecutable(t, Merged(t))) /\ OutAmong(t, LinkExecutable(t, Merged(t)))
      BY <2>4, <3>2, LinkIsGood
    <3>4. GoodFiles(t, ByTool("obj", Entry(t), Merged(t))) BY <2>4, GoodPairs
    <3> HIDE DEF work
    <3>5. QED BY <3>1, <3>3, <3>4, GoodJoined
  <2>5. CASE IsExe(t) /\ ShouldRelinkProjectExecutable(t) /\ ~IsMerged(t)
    <3>1. work = LinkExecutable(t, Objects(t)) BY <1>2, <1>3, <2>5
    <3>2. Objects(t) = [m \in Mods(t) |-> Objects(t)[m]] BY DEF Objects, Mods
    <3>3. \A m \in Mods(t) : ~Marked(m) => Objects(t)[m] = CodeFor(t, m) BY <2>5, ObjectsAreCode
    <3>4. GoodFiles(t, LinkExecutable(t, Objects(t))) /\ OutAmong(t, LinkExecutable(t, Objects(t)))
      BY <2>5, <3>2, <3>3, LinkIsGood
    <3> HIDE DEF work
    <3>5. QED BY <3>1, <3>4
  <2>6. QED BY <2>1, <2>2, <2>3, <2>4, <2>5
<1> HIDE DEF work
<1>7. QED BY <1>4, <1>6

\* Such files are dealt with like any other.
LEMMA GoodAreOwn ==
    ASSUME NEW t, NEW s, GoodFiles(t, s)
    PROVE  OwnFiles(s)
<1>1. \A a \in {"obj", "rtobj", "out"} : \A k, v :
         OwnFile(Unlink(a, k)) /\ OwnFile(Write(a, k, v))
  BY DEF OwnFile, Unlink, Write, FileItem, Areas
<1>2. ASSUME NEW j \in 1 .. Len(s) PROVE OwnFile(s[j])
  <2>1. Good(t, s, j) BY DEF GoodFiles
  <2>2. \/ s[j] = Unlink("obj", Entry(t)) \/ \E v : s[j] = Write("obj", Entry(t), v)
        \/ s[j] = Unlink("rtobj", t) \/ \E v : s[j] = Write("rtobj", t, v)
        \/ s[j] = Unlink("out", t) \/ \E v : s[j] = Write("out", t, v)
    BY <2>1 DEF Good
  <2>3. QED BY <1>1, <2>2
<1>3. QED BY <1>2 DEF GoodFiles, OwnFiles

\* A target is closed (CloseTarget).
LEMMA CloseStands ==
    ASSUME PlainProject, BuildInv, CloseTarget
    PROVE  BuildInv'
<1>1. /\ job # Idle /\ job.queue # << >> /\ Head(job.queue).do = "close"
      /\ UNCHANGED << src, runtime, disk, clock, done, torn, raced >>
  BY DEF CloseTarget
<1>2. DiskTypes /\ JobTypes /\ DiskInv /\ CacheInv BY QueueIsInOrder DEF BuildInv
<1>3. DiskTypes' /\ DiskInv'
  <2>1. clock \in Nat BY <1>2, DiskFields
  <2>2. clock' \in Nat /\ clock <= clock' BY <1>1, <2>1
  <2>3. \A m \in Modules : Marked(m) => Marked(m)' BY <1>1 DEF Marked
  <2>4. DiskInv' BY <1>1, <1>2, <2>2, <2>3, FilesUnchanged
  <2>5. QED BY <1>1, <1>2, <2>4 DEF DiskTypes
<1>4. PICK W : /\ W = JobWork /\ JobList(W)
               /\ \E n \in 0 .. Len(W) : /\ n < Len(W) /\ Progress(n, 0) /\ Stands(W, n, 0)
                                         /\ Head(job.queue) = W[n + 1]
  BY <1>1, AtItem
<1>5. PICK n \in 0 .. Len(W) : /\ n < Len(W) /\ Progress(n, 0) /\ Stands(W, n, 0)
                               /\ Head(job.queue) = W[n + 1]
  BY <1>4
<1>6. PICK t : t = W[n + 1].target OBVIOUS
<1>7. n + 1 \in 1 .. Len(W) /\ n \in Nat BY <1>4, <1>5 DEF JobList
<1>8. Ready(t) BY <1>1, <1>4, <1>5, <1>6, CloseReady
<1>9. PICK work : /\ job' = [job EXCEPT !.queue = work \o Tail(job.queue)]
                  /\ GoodFiles(t, work)
                  /\ \/ OutAmong(t, work)
                     \/ Exists(disk.out[t]) /\ OutFor(t, disk.out[t].what)
  BY <1>2, <1>5, <1>6, <1>8, CloseResult
<1>10. SameCommand /\ job'.queue = work \o Tail(job.queue) BY <1>1, <1>2, <1>9, QueueChanged
<1>11. job'.mode = job.mode /\ job'.units = job.units
  <2>1. DOMAIN job = JobFields BY <1>1, <1>2 DEF JobTypes
  <2>2. QED BY <1>9, <2>1 DEF JobFields
<1>12. Continues BY <1>1, <1>10, <1>11 DEF Continues
<1>13. OwnFiles(work) BY <1>9, GoodAreOwn
<1>14. Takes(work) BY <1>1, <1>10, <1>13 DEF Takes
<1>15. n < Len(WorkOf(job.cmd, job.target)) BY <1>4, <1>5 DEF JobWork
<1>16. PICK F : F = Len(work) OBVIOUS
<1>17. /\ JobTypes' /\ F \in Nat /\ Progress(n + 1, F)'
       /\ \A i \in 1 .. F : job'.queue[i] = work[i]
  <2>1. /\ JobTypes' /\ Len(work) \in Nat /\ Progress(n + 1, Len(work))'
        /\ \A i \in 1 .. Len(work) : job'.queue[i] = work[i]
    BY <1>1, <1>2, <1>5, <1>7, <1>10, <1>14, <1>15, TakeProgress
  <2>2. QED BY <1>16, <2>1
<1>18. /\ \A j \in 1 .. F : TargetFile(t, F, j)'
       /\ OutAmong(t, work) => OutStands(t, F)'
  BY <1>1, <1>9, <1>12, <1>16, <1>17, GoodAreTargetFiles
<1>19. OutStands(t, F)'
  <2>1. CASE OutAmong(t, work) BY <1>18, <2>1
  <2>2. CASE Exists(disk.out[t]) /\ OutFor(t, disk.out[t].what)
    <3>1. PICK v : v = disk.out[t].what OBVIOUS
    <3>2. OutFor(t, v)' BY <1>1, <1>12, <2>2, <3>1, OutForStays DEF Marked
    <3>3. v = disk'.out[t].what BY <1>1, <3>1
    <3>4. QED BY <1>1, <2>2, <3>2, <3>3 DEF OutStands, Exists
  <2>3. QED BY <1>9, <2>1, <2>2
<1>20. Stands(W, n + 1, F)'
  <2>d. "close" # "compile" OBVIOUS
  <2>1. ASSUME NEW k \in 1 .. n PROVE ItemStands(W[k], F)'
    <3>1. ItemStands(W[k], 0) BY <1>5 DEF Stands
    <3>2. W[k].do = "compile" /\ job.cmd = "build" => UnitStands(W[k].target, W[k].mod)'
      <4>1. PICK u, y : u = W[k].target /\ y = W[k].mod OBVIOUS
      <4>2. CodeFor(u, y)' = CodeFor(u, y) BY <1>12, SameTexts
      <4>3. W[k].do = "compile" /\ job.cmd = "build" => UnitStands(u, y)
        BY <3>1, <4>1 DEF ItemStands
      <4>4. W[k].do = "compile" /\ job.cmd = "build" => UnitStands(u, y)'
        BY <1>11, <4>2, <4>3 DEF UnitStands
      <4>5. QED BY <4>1, <4>4
    <3>3. QED BY <1>1, <1>12, <1>17, <3>1, <3>2, ItemKept
  <2>2. ItemStands(W[n + 1], F)' BY <1>1, <1>5, <1>6, <1>19, <2>d DEF ItemStands
  <2>3. \A j \in 1 .. F : FileFor(W[n + 1], F, j)' BY <1>1, <1>5, <1>6, <1>18 DEF FileFor
  <2>4. \A k \in 1 .. n + 1 : ItemStands(W[k], F)'
    <3> SUFFICES ASSUME NEW k \in 1 .. n + 1 PROVE ItemStands(W[k], F)'
      OBVIOUS
    <3>1. k \in 1 .. n \/ k = n + 1 BY <1>7
    <3>2. QED BY <2>1, <2>2, <3>1
  <2>5. n + 1 > 0 BY <1>7
  <2>6. QED BY <2>3, <2>4, <2>5 DEF Stands
<1>21. W = JobWork' BY <1>4, <1>12, SameTexts
<1>22. job' # Idle /\ done' = None BY <1>1, <1>10 DEF SameCommand, BuildInv
<1>23. n + 1 \in 0 .. Len(W) BY <1>5, <1>7
<1>24. QED BY <1>3, <1>17, <1>20, <1>21, <1>22, <1>23 DEF BuildInv

-----------------------------------------------------------------------------
(* A command begins.                                                       *)

\* A command begins (RunBuild, RunCheck).
LEMMA StartStands ==
    ASSUME BuildInv, NEW cmd \in Commands, NEW t \in DOMAIN Targets, NEW mode, Start(cmd, t, mode)
    PROVE  BuildInv'
<1>1. /\ job' = [cmd |-> cmd, target |-> t, mode |-> mode, parsed |-> src,
                 units |-> [m \in {} |-> 0], queue |-> WorkOf(cmd, t)]
      /\ UNCHANGED << src, runtime, disk, clock, torn, raced >> /\ done' = None
  BY DEF Start
<1> PICK W : W = WorkOf(cmd, t) OBVIOUS
<1>2. DiskTypes /\ DiskInv BY DEF BuildInv
<1>3. DiskTypes' /\ DiskInv'
  <2>1. clock \in Nat BY <1>2, DiskFields
  <2>2. clock' \in Nat /\ clock <= clock' BY <1>1, <2>1
  <2>3. \A m \in Modules : Marked(m) => Marked(m)' BY <1>1 DEF Marked
  <2>4. DiskInv' BY <1>1, <1>2, <2>2, <2>3, FilesUnchanged
  <2>5. QED BY <1>1, <1>2, <2>4 DEF DiskTypes
<1>4. IsSequence(W) /\ Len(W) \in Nat BY WorkFacts
<1>5. DOMAIN job' = JobFields /\ job'.queue = W /\ job'.cmd = cmd /\ job'.target = t
  BY <1>1 DEF JobFields
<1>6. JobTypes' BY <1>4, <1>5 DEF JobTypes
<1>7. WorkOf(job'.cmd, job'.target) = W BY <1>5
<1>8. Len(W) = 0 + (Len(W) - 0) /\ \A k \in 0 + 1 .. Len(W) : 0 + (k - 0) = k BY <1>4
<1>9. Progress(0, 0)' BY <1>5, <1>7, <1>8 DEF Progress
<1>10. Stands(W, 0, 0)' BY DEF Stands
<1>11. 0 \in 0 .. Len(W) /\ 0 \in Nat BY <1>4
<1>12. W = JobWork' BY <1>7 DEF JobWork
<1>13. job' # Idle
  <2>1. Idle.cmd = "idle" BY DEF Idle
  <2>2. job'.cmd # "idle" BY <1>5 DEF Commands
  <2>3. QED BY <2>1, <2>2
<1>14. QED BY <1>1, <1>3, <1>6, <1>9, <1>10, <1>11, <1>12, <1>13 DEF BuildInv

-----------------------------------------------------------------------------
(* A command succeeds.                                                     *)

\* The targets that a target is built from.
LEMMA BelowTarget ==
    ASSUME NEW t \in DOMAIN Targets
    PROVE  /\ Mods(t) \subseteq ModulesBelow(t)
           /\ \A l \in Range(Targets[t].links) : Mods(l) \subseteq ModulesBelow(t)
<1> DEFINE links == Targets[t].links
           last == << t >>
           libs == {l \in DOMAIN Targets : Targets[l].kind = "staticlib"}
<1>1. links \in Seq(libs) BY TargetsAssumption
<1>2. IsSequence(last) /\ Len(last) = 1 /\ last[1] = t BY Single
<1> HIDE DEF links, last, libs
<1>3. IsSequence(links) BY <1>1, SequenceFacts
<1>4. Len(links) \in Nat /\ DOMAIN links = 1 .. Len(links) BY <1>3, SequenceFacts
<1> PICK order : order = links \o last OBVIOUS
<1>5. /\ IsSequence(order) /\ Len(order) = Len(links) + Len(last)
      /\ \A i \in 1 .. Len(links) : order[i] = links[i]
      /\ \A i \in 1 .. Len(last) : order[Len(links) + i] = last[i]
  <2>1. IsSequence(last) BY <1>2
  <2>2. /\ IsSequence(links \o last) /\ Len(links \o last) = Len(links) + Len(last)
        /\ \A i \in 1 .. Len(links) : (links \o last)[i] = links[i]
        /\ \A i \in 1 .. Len(last) : (links \o last)[Len(links) + i] = last[i]
    BY <1>3, <2>1, Joined
  <2>3. QED BY <2>2
<1>6. DOMAIN order = 1 .. Len(order) BY <1>5, SequenceFacts
<1>7. t \in Range(order)
  <2>1. 1 \in 1 .. Len(last) BY <1>2
  <2>2. PICK p : p = Len(links) + 1 OBVIOUS
  <2>3. order[p] = t BY <1>2, <1>5, <2>1, <2>2
  <2>4. p \in DOMAIN order BY <1>2, <1>4, <1>5, <1>6, <2>2
  <2>5. QED BY <2>3, <2>4 DEF Range
<1>8. ASSUME NEW l \in Range(links) PROVE l \in Range(order)
  <2>1. PICK i \in DOMAIN links : links[i] = l BY <1>8 DEF Range
  <2>2. i \in 1 .. Len(links) /\ i \in DOMAIN order BY <1>2, <1>4, <1>5, <1>6
  <2>3. order[i] = l BY <1>5, <2>1, <2>2
  <2>4. QED BY <2>2, <2>3 DEF Range
<1>9. ModulesBelow(t) = UNION {Mods(u) : u \in Range(order)}
  BY DEF ModulesBelow, Mods, BuildOrder, links, last
<1>10. QED BY <1>7, <1>8, <1>9 DEF links

\* Of unmarked modules, what may be linked is what a clean build makes.
LEMMA OutIsClean ==
    ASSUME NEW t, NEW v, OutFor(t, v), \A m \in Mods(t) : ~Marked(m)
    PROVE  OutCode(t, v) = [m \in Mods(t) |-> CodeFor(t, m)]
<1> PICK c : c = OutCode(t, v) OBVIOUS
<1>1. c = [m \in Mods(t) |-> c[m]] BY DEF OutFor, Shaped
<1>2. \A m \in Mods(t) : c[m] = CodeFor(t, m) BY DEF OutFor
<1>3. QED BY <1>1, <1>2

\* The targets that a command has closed.
LEMMA AllClosed ==
    ASSUME PlainProject, BuildInv, job # Idle, job.queue = << >>, job.cmd = "build"
    PROVE  /\ job.target \in DOMAIN Targets
           /\ \A u \in {job.target} \cup Range(Targets[job.target].links) :
                 Exists(disk.out[u]) /\ OutFor(u, disk.out[u].what)
<1>1. PICK W : /\ W = JobWork
               /\ \E n \in 0 .. Len(W), f \in Nat : Progress(n, f) /\ Stands(W, n, f)
  BY DEF BuildInv
<1>2. PICK n \in 0 .. Len(W), f \in Nat : Progress(n, f) /\ Stands(W, n, f) BY <1>1
<1>3. JobTypes BY DEF BuildInv
<1>4. JobList(W) BY <1>1, <1>3, JobWorkFacts
<1>5. f = 0 /\ n = Len(W)
  <2>1. Len(job.queue) = f + (Len(WorkOf(job.cmd, job.target)) - n) BY <1>2 DEF Progress
  <2>2. WorkOf(job.cmd, job.target) = W BY <1>1 DEF JobWork
  <2>3. Len(job.queue) = 0 OBVIOUS
  <2>4. Len(W) \in Nat BY <1>4 DEF JobList
  <2>5. 0 = f + (Len(W) - n) BY <2>1, <2>2, <2>3
  <2>6. QED BY <2>4, <2>5
<1>6. \A a, k : ~Awaits(0, a, k) BY DEF Awaits
<1>7. ASSUME NEW k \in 1 .. Len(W), W[k].do = "close", NEW u, u = W[k].target
      PROVE  Exists(disk.out[u]) /\ OutFor(u, disk.out[u].what)
  <2>1. ItemStands(W[k], 0) BY <1>2, <1>5 DEF Stands
  <2>2. QED BY <1>6, <1>7, <2>1 DEF ItemStands, OutStands
<1>8. /\ Len(W) > 0 /\ W[Len(W)].do = "close" /\ W[Len(W)].target = job.target
      /\ \A l \in Range(Targets[job.target].links) :
            \E k \in 1 .. Len(W) : W[k].do = "close" /\ W[k].target = l
      /\ Len(W) \in Nat
  BY <1>4 DEF JobList
<1>9. Len(W) \in 1 .. Len(W) BY <1>8
<1>10. QED BY <1>3, <1>7, <1>8, <1>9 DEF JobTypes

\* The queue is empty (Succeed).
LEMMA SucceedStands ==
    ASSUME PlainProject, BuildInv, Succeed
    PROVE  BuildInv'
<1>1. /\ job # Idle /\ job.queue = << >> /\ job' = Idle
      /\ done' = [cmd |-> job.cmd, target |-> job.target, mode |-> job.mode,
                  ok |-> TRUE, src |-> job.parsed]
      /\ UNCHANGED << src, runtime, disk, clock, torn, raced >>
  BY DEF Succeed, Finish
<1>2. DiskTypes /\ DiskInv BY DEF BuildInv
<1>3. DiskTypes' /\ DiskInv'
  <2>1. clock \in Nat BY <1>2, DiskFields
  <2>2. clock' \in Nat /\ clock <= clock' BY <1>1, <2>1
  <2>3. \A m \in Modules : Marked(m) => Marked(m)' BY <1>1 DEF Marked
  <2>4. DiskInv' BY <1>1, <1>2, <2>2, <2>3, FilesUnchanged
  <2>5. QED BY <1>1, <1>2, <2>4 DEF DiskTypes
<1>4. BuildIsClean'
  <2> PICK t : t = job.target OBVIOUS
  <2>1. SUFFICES ASSUME job.cmd = "build", ModulesBelow(t) \cap (torn \cup raced) = {}
                 PROVE  disk'.out[t].what = CleanOutput(t)'
    BY <1>1 DEF BuildIsClean, ModulesBelow, BuildOrder
  <2>2. /\ t \in DOMAIN Targets
        /\ \A u \in {t} \cup Range(Targets[t].links) :
              Exists(disk.out[u]) /\ OutFor(u, disk.out[u].what)
    BY <1>1, <2>1, AllClosed
  <2>3. \A u \in {t} \cup Range(Targets[t].links) : \A m \in Mods(u) : ~Marked(m)
    BY <2>1, <2>2, BelowTarget DEF Marked
  <2>4. \A u \in {t} \cup Range(Targets[t].links) :
           OutCode(u, disk.out[u].what) = [m \in Mods(u) |-> CodeFor(u, m)]
    BY <2>2, <2>3, OutIsClean
  <2>5. \A u, m : CleanCode(u, m)' = CodeFor(u, m)
    <3>1. CleanInterface' = Clean(done'.src) BY DEF CleanInterface, Clean, InterfaceFrom
    <3>2. CleanInterface' = Clean(job.parsed) BY <1>1, <3>1
    <3>3. done'.src = job.parsed /\ done'.mode = job.mode BY <1>1
    <3>4. QED BY <3>2, <3>3 DEF CleanCode, CodeFor, CleanImports
  <2>6. \A u : [m \in Mods(u) |-> CleanCode(u, m)]' = [m \in Mods(u) |-> CodeFor(u, m)]
    BY <2>5
  <2> DEFINE code(u) == [m \in Mods(u) |-> CodeFor(u, m)]
             v == disk.out[t].what
  <2>7. CleanOutput(t)' = IF Targets[t].kind = "staticlib" THEN code(t)
                          ELSE [code |-> code(t), runtime |-> runtime.ver,
                                libs |-> [l \in Range(Targets[t].links) |-> code(l)]]
    BY <1>1, <2>5 DEF CleanOutput, Mods
  <2>8. OutFor(t, v) /\ OutCode(t, v) = code(t) BY <2>2, <2>4
  <2>9. \A l \in Range(Targets[t].links) : ~IsExe(l) /\ OutCode(l, disk.out[l].what) = code(l)
    BY <2>2, <2>4, TargetFacts
  <2>10. Targets[t].kind = "exe" \/ Targets[t].kind = "staticlib" BY <2>2, TargetsAssumption
  <2> HIDE DEF code, v
  <2>11. v = CleanOutput(t)'
    <3>1. CASE ~IsExe(t)
      <4>1. v = code(t) BY <2>8, <3>1 DEF OutCode
      <4>2. QED BY <2>7, <2>10, <3>1, <4>1 DEF IsExe
    <3>2. CASE IsExe(t)
      <4>1. "exe" # "staticlib" OBVIOUS
      <4>2. v = [code |-> v.code, runtime |-> v.runtime,
                 libs |-> [l \in Range(Targets[t].links) |-> v.libs[l]]]
        BY <2>8, <3>2 DEF OutFor, Shaped
      <4>3. v.code = code(t) BY <2>8, <3>2 DEF OutCode
      <4>4. v.runtime = runtime.ver BY <2>8, <3>2 DEF OutFor
      <4>5. ASSUME NEW l \in Range(Targets[t].links) PROVE v.libs[l] = code(l)
        <5>1. v.libs[l] = disk.out[l].what BY <2>8, <3>2 DEF OutFor
        <5>2. QED BY <2>9, <5>1 DEF OutCode
      <4>6. [l \in Range(Targets[t].links) |-> v.libs[l]]
            = [l \in Range(Targets[t].links) |-> code(l)]
        BY <4>5
      <4>7. v = [code |-> code(t), runtime |-> runtime.ver,
                 libs |-> [l \in Range(Targets[t].links) |-> code(l)]]
        BY <4>2, <4>3, <4>4, <4>6
      <4>8. QED BY <2>7, <3>2, <4>1, <4>7 DEF IsExe
    <3>3. QED BY <3>1, <3>2
  <2>12. disk'.out[t].what = v BY <1>1 DEF v
  <2>13. QED BY <2>11, <2>12
<1>5. QED BY <1>1, <1>3, <1>4 DEF BuildInv, JobTypes

-----------------------------------------------------------------------------
(* The other steps, and the theorem.                                       *)

\* The files that the driver writes itself are those of modules.
LEMMA DriverFile ==
    ASSUME PlainProject, BuildInv, job # Idle, job.queue # << >>,
           NEW x, x = Head(job.queue), x.do = "write", x.area \in {"mci", "state"}
    PROVE  x.key \in Modules
<1>1. PICK W : /\ W = JobWork
               /\ \E n \in 0 .. Len(W), f \in Nat : Progress(n, f) /\ Stands(W, n, f)
  BY DEF BuildInv
<1>2. PICK n \in 0 .. Len(W), f \in Nat : Progress(n, f) /\ Stands(W, n, f) BY <1>1
<1>3. JobTypes BY DEF BuildInv
<1>4. JobList(W) BY <1>1, <1>3, JobWorkFacts
<1>5. n \in 0 .. Len(WorkOf(job.cmd, job.target)) BY <1>1 DEF JobWork
<1>6. Head(job.queue).do \in FileItem BY DEF FileItem
<1>7. x = job.queue[1] /\ f > 0 BY <1>2, <1>3, <1>5, <1>6, HeadPlace
<1>8. f \in Nat \ {0} /\ n \in 1 .. Len(W) /\ 1 \in 1 .. f
  BY <1>2, <1>4, <1>7 DEF Stands, JobList
<1>9. FileFor(W[n], f, 1) BY <1>2, <1>8 DEF Stands
<1>10. W[n].do = "compile" => W[n].mod \in Modules BY <1>4, <1>8, ItemTaken
<1>11. CASE W[n].do = "compile" /\ ModuleFile(W[n].target, W[n].mod, f, 1)
  <2>1. x.key = W[n].mod BY <1>7, <1>11, ItemFields DEF ModuleFile
  <2>2. QED BY <1>10, <1>11, <2>1
<1>12. CASE TargetFile(W[n].target, f, 1)
  BY <1>7, <1>12, ItemFields DEF TargetFile
<1>13. QED BY <1>9, <1>11, <1>12 DEF FileFor

\* A host tool fails or the command is killed, and the directory is left as it
\* is (CutShort).
LEMMA CutStands ==
    ASSUME PlainProject, BuildInv, CutShort
    PROVE  BuildInv'
<1>1. /\ job # Idle /\ job.queue # << >> /\ job' = Idle /\ done'.ok = FALSE
      /\ clock' = clock + 1 /\ UNCHANGED << src, runtime, torn, raced >>
  BY DEF CutShort, Finish
<1>2. DiskTypes /\ DiskInv BY DEF BuildInv
<1>3. clock' \in Nat /\ clock <= clock' /\ clock + 1 <= clock'
  <2>1. clock \in Nat BY <1>2, DiskFields
  <2>2. QED BY <1>1, <2>1
<1>4. \A m \in Modules : Marked(m) => Marked(m)' BY <1>1 DEF Marked
<1>5. DiskInv'
  <2>1. CASE UNCHANGED disk BY <1>1, <1>2, <1>3, <1>4, <2>1, FilesUnchanged
  <2> PICK x : x = Head(job.queue) OBVIOUS
  <2>2. ASSUME NEW a \in {"mci", "state"}, x.do = "write", x.area = a,
               NEW file, disk' = [disk EXCEPT ![a][x.key] = file],
               \/ file = NoFile
               \/ a = "mci" /\ file = [what |-> Torn, time |-> clock + 1]
        PROVE  DiskInv'
    <3>1. x.key \in Modules BY <1>1, <2>2, DriverFile
    <3>2. a \in Areas /\ x.key \in DOMAIN disk[a] BY <1>2, <3>1, DiskFields
    <3>3. \/ file = NoFile
          \/ file.time = clock + 1 /\ clock + 1 <= clock' /\ MayWrite(a, x.key, file.what)
      <4>1. CASE file = NoFile BY <4>1
      <4>2. CASE a = "mci" /\ file = [what |-> Torn, time |-> clock + 1]
        <5>1. a # "obj" /\ a # "state" /\ a # "rtobj" /\ a # "out" BY <4>2
        <5>2. MayWrite(a, x.key, file.what) BY <5>1 DEF MayWrite
        <5>3. file.time = clock + 1 BY <4>2
        <5>4. QED BY <1>3, <5>2, <5>3
      <4>3. QED BY <2>2, <4>1, <4>2
    <3>4. QED BY <1>1, <1>2, <1>3, <1>4, <2>2, <3>2, <3>3, FileChanged
  <2>3. CASE x.do = "write" /\ x.area = "mci" /\ disk' = Put("mci", x.key, Torn)
    <3>1. PICK file : file = [what |-> Torn, time |-> clock + 1] OBVIOUS
    <3>2. disk' = [disk EXCEPT !["mci"][x.key] = file] BY <2>3, <3>1 DEF Put
    <3>3. QED BY <2>2, <2>3, <3>1, <3>2
  <2>4. CASE /\ x.do = "write" /\ x.area = "state"
             /\ disk' = [disk EXCEPT !["state"][x.key] = NoFile]
    BY <2>2, <2>4
  <2>5. QED BY <2>1, <2>3, <2>4 DEF CutShort
<1>6. DiskTypes' BY <1>5 DEF DiskInv, DiskTimed, DiskTypes, Areas
<1>7. BuildIsClean' BY <1>1 DEF BuildIsClean
<1>8. QED BY <1>1, <1>5, <1>6, <1>7 DEF BuildInv, JobTypes

\* A file is dealt with (RemoveArtifactIfExists, WriteArtifact).
LEMMA FileStands ==
    ASSUME PlainProject, BuildInv, RemoveArtifactIfExists \/ WriteArtifact
    PROVE  BuildInv'
<1>1. /\ job # Idle /\ job.queue # << >> /\ Head(job.queue).do \in FileItem
      /\ job' = [job EXCEPT !.queue = Tail(job.queue)]
      /\ UNCHANGED << runtime, done >>
  BY DEF RemoveArtifactIfExists, WriteArtifact, FileItem
<1>2. CacheInv BY QueueIsInOrder
<1>3. SameCommand /\ job'.queue = Tail(job.queue) BY <1>1, <1>2, QueueChanged
<1>4. job'.mode = job.mode /\ job'.units = job.units
  <2>1. DOMAIN job = JobFields BY <1>1 DEF BuildInv, JobTypes
  <2>2. QED BY <1>1, <2>1 DEF JobFields
<1>5. Continues BY <1>1, <1>3, <1>4 DEF Continues
<1>6. Deals
  <2>1. "write" # "remove" OBVIOUS
  <2>2. CASE RemoveArtifactIfExists
    BY <1>1, <1>3, <1>4, <1>5, <2>1, <2>2 DEF RemoveArtifactIfExists, Deals, Drops
  <2>3. CASE WriteArtifact
    BY <1>1, <1>3, <1>4, <1>5, <2>3 DEF WriteArtifact, Deals, Drops
  <2>4. QED BY <2>2, <2>3
<1>7. QED BY <1>1, <1>6, DealKeeps

\* The programmer edits a source, or nothing happens (Edit).
LEMMA EditStands ==
    ASSUME BuildInv, UNCHANGED << runtime, disk, clock, job, done, torn, raced >>
    PROVE  BuildInv'
<1>1. DiskTypes' /\ JobTypes' BY DEF BuildInv, DiskTypes, JobTypes
<1>2. DiskInv'
  <2>1. DiskInv BY DEF BuildInv
  <2>2. clock \in Nat BY <2>1, DiskFields
  <2>3. clock' \in Nat /\ clock <= clock' BY <2>2
  <2>4. \A m \in Modules : Marked(m) => Marked(m)' BY DEF Marked
  <2>5. QED BY <2>1, <2>3, <2>4, FilesUnchanged
<1>3. /\ Clean(job.parsed)' = Clean(job.parsed) /\ JobWork' = JobWork
      /\ \A t, m : CodeFor(t, m)' = CodeFor(t, m)
      /\ \A m : CleanImports(m)' = CleanImports(m) /\ (Marked(m)' <=> Marked(m))
      /\ \A file : Exists(file)' <=> Exists(file)
  BY DEF Clean, CodeFor, CleanImports, JobWork, Marked, Exists
<1>4. ASSUME NEW n, NEW f, Progress(n, f) PROVE Progress(n, f)'
  BY <1>4 DEF Progress, OwnFile, OnDisk, Announced, Matches, Exists
<1>5. /\ \A f, a, k : Awaits(f, a, k)' <=> Awaits(f, a, k)
      /\ \A t, v : OutFor(t, v)' <=> OutFor(t, v)
      /\ \A t, m, r : RecordFor(t, m, r)' <=> RecordFor(t, m, r)
      /\ \A t, m : ObjectFresh(t, m)' <=> ObjectFresh(t, m)
  BY <1>3 DEF Awaits, OutFor, RecordFor, ObjectFresh, Marked, Exists
<1>6. ASSUME NEW w, NEW f, ItemStands(w, f) PROVE ItemStands(w, f)'
  BY <1>3, <1>5, <1>6 DEF ItemStands, InterfaceStands, UnitStands, RecordStands,
                          ObjectStands, OutStands, Exists
<1>7. ASSUME NEW w, NEW f, NEW j, FileFor(w, f, j) PROVE FileFor(w, f, j)'
  <2>1. \A t, m : ModuleFile(t, m, f, j) => ModuleFile(t, m, f, j)'
    BY <1>3, <1>5 DEF ModuleFile
  <2>2. \A t : TargetFile(t, f, j) => TargetFile(t, f, j)' BY <1>5 DEF TargetFile
  <2>3. QED BY <1>7, <2>1, <2>2 DEF FileFor
<1>8. ASSUME NEW W, NEW n, NEW f, Stands(W, n, f) PROVE Stands(W, n, f)'
  BY <1>6, <1>7, <1>8 DEF Stands
<1>9. ASSUME job # Idle
      PROVE  \E W : /\ W = JobWork'
                    /\ \E n \in 0 .. Len(W), f \in Nat : Progress(n, f)' /\ Stands(W, n, f)'
  <2>1. PICK W : /\ W = JobWork
                 /\ \E n \in 0 .. Len(W), f \in Nat : Progress(n, f) /\ Stands(W, n, f)
    BY <1>9 DEF BuildInv
  <2>2. W = JobWork' BY <1>3, <2>1
  <2>3. QED BY <1>4, <1>8, <2>1, <2>2
<1>10. (job # Idle => done = None) /\ (job = Idle => BuildIsClean) BY DEF BuildInv
<1>11. job = Idle => BuildIsClean'
  <2>1. \A t : CleanOutput(t)' = CleanOutput(t)
    BY DEF CleanOutput, CleanCode, CleanInterface
  <2>2. QED BY <1>10, <2>1 DEF BuildIsClean
<1>12. QED BY <1>1, <1>2, <1>9, <1>10, <1>11 DEF BuildInv

\* The runtime support source is edited (EditRuntime).
LEMMA RuntimeStands ==
    ASSUME BuildInv, EditRuntime
    PROVE  BuildInv'
<1>1. /\ job = Idle /\ runtime' = [ver |-> runtime.ver + 1, time |-> clock + 1]
      /\ clock' = clock + 1 /\ done' = None /\ UNCHANGED << disk, job, torn, raced >>
  BY DEF EditRuntime
<1>2. DiskTypes /\ DiskInv BY DEF BuildInv
<1>3. clock' \in Nat /\ clock <= clock' /\ clock + 1 <= clock'
  <2>1. clock \in Nat BY <1>2, DiskFields
  <2>2. QED BY <1>1, <2>1
<1>4. \A m \in Modules : Marked(m) => Marked(m)' BY <1>1 DEF Marked
<1>5. DOMAIN runtime' = {"ver", "time"} /\ runtime'.time = clock + 1 BY <1>1
<1>6. DiskInv' BY <1>1, <1>2, <1>3, <1>4, <1>5, FilesUnchanged
<1>7. DiskTypes' BY <1>1, <1>2 DEF DiskTypes
<1>8. BuildIsClean' BY <1>1 DEF BuildIsClean
<1>9. QED BY <1>1, <1>6, <1>7, <1>8 DEF BuildInv, JobTypes

\* In an empty build directory nothing is recorded (Init).
LEMMA EmptyStands == Init => BuildInv
<1> SUFFICES ASSUME Init PROVE BuildInv
  OBVIOUS
<1>1. /\ job = Idle /\ done = None /\ clock = 0 /\ runtime = [ver |-> 0, time |-> 0]
      /\ disk = [mci |-> [m \in Modules |-> NoFile],
                 obj |-> [m \in Modules |-> NoFile],
                 state |-> [m \in Modules |-> NoFile],
                 out |-> [t \in DOMAIN Targets |-> NoFile],
                 rtobj |-> [t \in DOMAIN Targets |-> NoFile]]
  BY DEF Init
<1>2. DiskTypes BY <1>1 DEF DiskTypes, Areas
<1>3. DiskTimed
  <2>1. NoFile.time \in 0 .. clock BY <1>1 DEF NoFile
  <2>2. \A a \in Areas : \A k \in DOMAIN disk[a] : disk[a][k] = NoFile
    BY <1>1 DEF Areas
  <2>3. clock \in Nat /\ DOMAIN runtime = {"ver", "time"} /\ runtime.time \in 0 .. clock
    BY <1>1
  <2>4. QED BY <1>1, <2>1, <2>2, <2>3 DEF DiskTimed, Areas
<1>4. /\ \A t \in DOMAIN Targets : ~Exists(disk.out[t]) /\ ~Exists(disk.rtobj[t])
      /\ \A m \in Modules : ~Exists(disk.obj[m])
  BY <1>1 DEF Exists
<1>5. DiskInv
  <2>1. \A t \in DOMAIN Targets : \A m \in Mods(t) : ~OnRecord(t, m)
    BY <1>4, TargetFacts DEF OnRecord
  <2>2. \A t \in DOMAIN Targets : \A m \in Mods(t) : ObjectRecorded(t, m) /\ OutRecorded(t, m)
    BY <2>1 DEF ObjectRecorded, OutRecorded
  <2>3. \A t \in DOMAIN Targets : RuntimeRecorded(t) BY <1>4 DEF RuntimeRecorded
  <2>4. \A t \in DOMAIN Targets : \A l : LibraryRecorded(t, l) BY <1>4 DEF LibraryRecorded
  <2>5. QED BY <1>3, <1>4, <2>2, <2>3, <2>4 DEF DiskInv
<1>6. BuildIsClean BY <1>1 DEF BuildIsClean
<1>7. QED BY <1>1, <1>2, <1>5, <1>6 DEF BuildInv, JobTypes

\* What a plain project keeps, whatever is edited, built, cut short or fails.
LEMMA BuildInvariant == PlainProject => (Spec => []BuildInv)
<1> SUFFICES ASSUME PlainProject PROVE Spec => []BuildInv
  OBVIOUS
<1>1. Init => BuildInv BY EmptyStands
<1>2. BuildInv /\ [Next]_vars => BuildInv'
  <2> SUFFICES ASSUME BuildInv, [Next]_vars PROVE BuildInv'
    OBVIOUS
  <2>1. CASE \E t \in DOMAIN Targets, mode \in Modes : RunBuild(t, mode) \/ RunCheck(t, mode)
    <3>1. PICK t \in DOMAIN Targets, mode \in Modes : RunBuild(t, mode) \/ RunCheck(t, mode)
      BY <2>1
    <3>2. CASE RunBuild(t, mode) BY <3>2, StartStands DEF RunBuild, Commands
    <3>3. CASE RunCheck(t, mode) BY <3>3, StartStands DEF RunCheck, Commands
    <3>4. QED BY <3>1, <3>2, <3>3
  <2>2. CASE CompileModule BY <2>2, CompileStands
  <2>3. CASE CloseTarget BY <2>3, CloseStands
  <2>4. CASE RemoveArtifactIfExists \/ WriteArtifact BY <2>4, FileStands
  <2>5. CASE Succeed BY <2>5, SucceedStands
  <2>6. CASE CutShort BY <2>6, CutStands
  <2>7. CASE \E m \in Modules, text \in Texts : Edit(m, text) BY <2>7, EditStands DEF Edit
  <2>8. CASE EditRuntime BY <2>8, RuntimeStands
  <2>9. CASE UNCHANGED vars BY <2>9, EditStands DEF vars
  <2>10. QED BY <2>1, <2>2, <2>3, <2>4, <2>5, <2>6, <2>7, <2>8, <2>9 DEF Next
<1>3. QED BY <1>1, <1>2, PTL DEF Spec

\* A build of a plain project that reports success leaves the program that a
\* build from an empty directory would have made of the sources it parsed,
\* whatever earlier commands built, checked, failed at or were killed in, but
\* for the marked modules that BuildIsClean leaves out: the reuse of objects
\* and the decisions to archive and to link again let nothing stale through
\* (BuildProjectTarget).
THEOREM BuildsAreClean == PlainProject => (Spec => []BuildIsClean)
<1> SUFFICES ASSUME PlainProject PROVE Spec => []BuildIsClean
  OBVIOUS
<1>1. Spec => []BuildInv BY BuildInvariant
<1>2. BuildInv => BuildIsClean
  <2> SUFFICES ASSUME BuildInv, job # Idle PROVE BuildIsClean
    BY DEF BuildInv
  <2>1. done = None BY DEF BuildInv
  <2>2. QED BY <2>1 DEF BuildIsClean
<1>3. QED BY <1>1, <1>2, PTL
=============================================================================
