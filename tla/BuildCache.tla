----------------------------- MODULE BuildCache -----------------------------
(***************************************************************************)
(* Incremental project builds (compiler/driver/builder.cpp,                *)
(* build_support.cpp, builder_merge.cpp, compiler/mci/mci.cpp and          *)
(* codegen_llvm/backend_host.cpp).  A command walks the targets below the  *)
(* selected one, libraries first, and the modules of each in import order; *)
(* what it leaves in the build directory decides what the next one reuses. *)
(* Sources change and commands are cut short at any point in between.      *)
(*                                                                         *)
(* A text is abstracted to what the rest of the build can tell apart: the  *)
(* types and the values it exports, its bodies, and whether it passes the  *)
(* checker.  Hashes are the values they hash.  Host tools (clang, libtool) *)
(* write their output in one step, after the driver has removed the old    *)
(* one; the driver's own files can be cut in the middle.                   *)
(***************************************************************************)
EXTENDS Naturals, FiniteSets, Sequences, SequencesExt

CONSTANTS
    Targets,     \* name -> [kind, mods, links]; mods in compile order
    Imports,     \* module -> modules it imports
    Texts,       \* source texts: records [types, values, body, bad]
    FirstText,   \* what every source holds at first
    Modes,       \* build modes a command may ask for
    Hosted,      \* env = "hosted": the entry main is wrapped
    None, Torn,  \* no record or outcome; a file cut in the middle of a write
    MaxBuilds,   \* commands explored
    MaxUpsets    \* edits and cut commands explored

Modules == DOMAIN Imports

\* What discovery hands over: every module belongs to a target, a target has at
\* least its entry among its modules, and only libraries among its links
\* (BuildResolvedTargetGraph refuses others).  "exe" stands for every kind
\* that is executable.
ASSUME TargetsAssumption ==
    /\ \A m \in Modules : Imports[m] \subseteq Modules
    /\ Modules = UNION {Range(Targets[t].mods) : t \in DOMAIN Targets}
    /\ \A t \in DOMAIN Targets :
          /\ Targets[t].kind \in {"exe", "staticlib"}
          /\ Targets[t].mods \in Seq(Modules) \ {<< >>}
          /\ Targets[t].links \in Seq({l \in DOMAIN Targets :
                                          Targets[l].kind = "staticlib"})

VARIABLES
    src,      \* module -> text on disk
    runtime,  \* [ver, time] of the runtime support source
    disk,     \* [mci, obj, state, out, rtobj]: the build directory
    clock,    \* source of file times; every write gets a later one
    job,      \* the command under way
    done,     \* outcome of the last command
    torn,     \* modules whose object is newer than their state record
    raced,    \* modules edited between being parsed and being hashed
    spent     \* [builds, upsets] used up

vars == <<src, runtime, disk, clock, job, done, torn, raced, spent>>

Idle == [cmd |-> "idle", queue |-> <<>>]

-----------------------------------------------------------------------------
(* What is compiled from what.                                             *)

\* A checked module exports its own declarations and, because imported type
\* declarations are seeded into the importing module, the types it imports.
\* MakeModuleInterfaceArtifact, ComputeInterfaceHash.
InterfaceOf(m, text, imported) ==
    LET seeded == FoldSet(LAMBDA i, acc : imported[i].types @@ acc,
                          [n \in {} |-> 0], DOMAIN imported)
    IN  [types  |-> [n \in {m} \cup DOMAIN seeded |->
                        IF n = m THEN text.types ELSE seeded[n]],
         values |-> text.values]

\* What code generation puts into an object: the text, the interfaces it was
\* compiled against, the build mode and the part the module plays (an entry
\* is not namespaced and, when hosted, carries the wrapped main).
Code(text, imported, mode, role) ==
    [text |-> text, imported |-> imported, mode |-> mode, role |-> role]

Entry(t) == Last(Targets[t].mods)

\* NamespaceImportedBuildUnit is applied to every module but the entry of an
\* executable.
Role(t, m) ==
    IF m = Entry(t) /\ Targets[t].kind = "exe" THEN "main" ELSE "namespaced"

\* The order of BuildProjectTarget: linked targets before the target.
BuildOrder(t) == Targets[t].links \o <<t>>

ModulesBelow(t) ==
    UNION {Range(Targets[u].mods) : u \in Range(BuildOrder(t))}

-----------------------------------------------------------------------------
(* Files.                                                                  *)

NoFile == [time |-> 0]
Exists(file) == file # NoFile

\* Missing on either side counts as older; equal times do not.
IsOutputOlderThan(output, input) ==
    \/ ~Exists(output) \/ ~Exists(input)
    \/ output.time < input.time

Put(area, key, value) ==
    [disk EXCEPT ![area][key] = [what |-> value, time |-> clock + 1]]

\* A missing or cut record is no record.
LoadModuleBuildState(m) == IF Exists(disk.state[m]) THEN disk.state[m].what ELSE None

ShouldReuseModuleObject(m, previous, current) ==
    /\ Exists(disk.obj[m]) /\ Exists(disk.mci[m])
    /\ previous = current

\* LoadInterfaceArtifact and ValidateInterfaceArtifactMetadata: a cut file
\* fails the hash comparison.
Readable(m) == Exists(disk.mci[m]) /\ disk.mci[m].what # Torn

LoadImportedInterfaces(m) == [i \in Imports[m] |-> disk.mci[i].what]

-----------------------------------------------------------------------------
(* Steps of a command.                                                     *)

Finish(ok) ==
    /\ job' = Idle
    /\ done' = [cmd |-> job.cmd, target |-> job.target, mode |-> job.mode,
                ok |-> ok, src |-> job.parsed]

\* Queue items.
Compile(t, m)  == [do |-> "compile", target |-> t, mod |-> m]
Close(t)       == [do |-> "close", target |-> t]
Unlink(a, k)   == [do |-> "remove", area |-> a, key |-> k]
Write(a, k, v) == [do |-> "write", area |-> a, key |-> k, what |-> v]

\* A host tool's output: the old file is removed before the tool runs.
ByTool(a, k, v) == <<Unlink(a, k), Write(a, k, v)>>

\* The work of a command on a target: the modules of every target below it,
\* and of the target itself, in compile order; a build closes each target.
WorkOf(cmd, t) ==
    LET order   == BuildOrder(t)
        Work(u) == [i \in DOMAIN Targets[u].mods |-> Compile(u, Targets[u].mods[i])]
                   \o IF cmd = "build" THEN <<Close(u)>> ELSE <<>>
    IN  FlattenSeq([i \in DOMAIN order |-> Work(order[i])])

Commands == {"build", "check"}

WorkItem == [do : {"compile"}, target : DOMAIN Targets, mod : Modules]
            \cup [do : {"close"}, target : DOMAIN Targets]

ImportsComeFirst(work) ==
    /\ work \in Seq(WorkItem)
    /\ \A k \in 1 .. Len(work) :
          work[k].do = "compile" =>
              \A i \in Imports[work[k].mod] :
                  \E j \in 1 .. k - 1 : work[j].do = "compile" /\ work[j].mod = i

\* What discovery hands over: every module comes after the modules it imports,
\* in its own target or in one below it (InterfacesComeFirst of BuildGraph).
ASSUME ImportsAssumption ==
    \A cmd \in Commands, t \in DOMAIN Targets : ImportsComeFirst(WorkOf(cmd, t))

\* A command on one target.  The graph discovery has parsed every source by the
\* time the first module is compiled.
Start(cmd, t, mode) ==
    /\ job = Idle /\ spent.builds < MaxBuilds
    /\ job' = [cmd |-> cmd, target |-> t, mode |-> mode, parsed |-> src,
               units |-> [m \in {} |-> 0], queue |-> WorkOf(cmd, t)]
    /\ spent' = [spent EXCEPT !.builds = @ + 1]
    /\ done' = None
    /\ UNCHANGED <<src, runtime, disk, clock, torn, raced>>

RunBuild(t, mode) == Start("build", t, mode)

\* mc check compiles without emitting objects and links nothing.
RunCheck(t, mode) == Start("check", t, mode)

\* The ModuleBuildState of a module: everything its object depends on.  The
\* source is hashed as it is on disk now.
CurrentState(t, m, iface, imported) ==
    [mode |-> job.mode, source |-> src[m], interface |-> iface,
     imported |-> imported, wrap |-> Hosted /\ Role(t, m) = "main"]

\* Mutant: an interface file that is there is not written again.
InterfaceMissing(m, iface) == ~Exists(disk.mci[m])

\* An interface file is written again only if its contents changed.
InterfaceChanged(m, iface) == ~Exists(disk.mci[m]) \/ disk.mci[m].what # iface

\* One node of CompileModuleGraph: load the interfaces it imports, hash the
\* source text as it is on disk now, check what was parsed, and decide which
\* files are written; any failure ends the command.
CompileModule ==
    /\ job # Idle /\ job.queue # <<>> /\ Head(job.queue).do = "compile"
    /\ LET t        == Head(job.queue).target
           m        == Head(job.queue).mod
           imported == LoadImportedInterfaces(m)
           text     == job.parsed[m]
           iface    == InterfaceOf(m, text, imported)
           emit     == job.cmd = "build"
           current  == CurrentState(t, m, iface, imported)
           previous == LoadModuleBuildState(m)
           reuse    == /\ emit /\ previous # None
                       /\ ShouldReuseModuleObject(m, previous, current)
           changed  == InterfaceChanged(m, iface)
           code     == Code(text, imported, job.mode, Role(t, m))
       IN  /\ IF \/ \E i \in Imports[m] : ~Readable(i)
                 \/ text.bad
                 \/ Exists(disk.mci[m]) /\ ~Readable(m)
              THEN Finish(FALSE)
              ELSE
                /\ job' = [job EXCEPT
                     !.queue =
                        (IF changed THEN <<Write("mci", m, iface)>> ELSE <<>>)
                        \o (IF emit /\ ~reuse
                            THEN ByTool("obj", m, code)
                                 \o <<Write("state", m, current)>>
                            ELSE <<>>)
                        \o Tail(@),
                     !.units = [n \in {m} \cup DOMAIN @ |->
                                   IF n = m THEN [code |-> code, reused |-> reuse]
                                   ELSE @[n]]]
                /\ UNCHANGED done
           /\ raced' = IF src[m] = text THEN raced ELSE raced \cup {m}
    /\ UNCHANGED <<src, runtime, disk, clock, torn, spent>>

\* MergeBuildUnits puts the code of every unit, as lowered by this command,
\* into one module; a single unit is linked from its object file.
Merged(t) ==
    [m \in Range(Targets[t].mods) |-> job.units[m].code]

ShouldArchiveProjectStaticLibrary(t) ==
    \/ ~Exists(disk.out[t])
    \/ \E m \in Range(Targets[t].mods) :
          ~job.units[m].reused \/ IsOutputOlderThan(disk.out[t], disk.obj[m])

\* Mutant: only objects rebuilt by this command cause a relink.
ShouldRelinkIfRebuilt(t) ==
    \/ ~Exists(disk.out[t]) \/ ~Exists(disk.rtobj[t])
    \/ IsOutputOlderThan(disk.rtobj[t], runtime)
    \/ \E m \in Range(Targets[t].mods) : ~job.units[m].reused
    \/ \E l \in Range(Targets[t].links) :
          IsOutputOlderThan(disk.out[t], disk.out[l])

ShouldRelinkProjectExecutable(t) ==
    \/ ~Exists(disk.out[t]) \/ ~Exists(disk.rtobj[t])
    \/ IsOutputOlderThan(disk.rtobj[t], runtime)
    \/ IsOutputOlderThan(disk.out[t], disk.rtobj[t])
    \/ \E m \in Range(Targets[t].mods) :
          ~job.units[m].reused \/ IsOutputOlderThan(disk.out[t], disk.obj[m])
    \/ \E l \in Range(Targets[t].links) :
          IsOutputOlderThan(disk.out[t], disk.out[l])

\* Objects as the linker or the archiver finds them.
Objects(t) == [m \in Range(Targets[t].mods) |-> disk.obj[m].what]

\* The runtime source is compiled first when its object is missing or older.
LinkExecutable(t, code) ==
    LET stale   == IsOutputOlderThan(disk.rtobj[t], runtime)
        support == IF stale THEN runtime.ver ELSE disk.rtobj[t].what
    IN  (IF stale THEN ByTool("rtobj", t, support) ELSE <<>>)
        \o ByTool("out", t, [code |-> code, runtime |-> support,
                             libs |-> [l \in Range(Targets[t].links) |->
                                          disk.out[l].what]])

ArchiveStaticLibrary(t) == ByTool("out", t, Objects(t))

\* The end of BuildProjectTarget for one target: archive or link if an input
\* is newer or was rebuilt.  The merged module of a program of several modules
\* is built into the object file of its entry.
CloseTarget ==
    /\ job # Idle /\ job.queue # <<>> /\ Head(job.queue).do = "close"
    /\ LET t     == Head(job.queue).target
           merge == Len(Targets[t].mods) > 1
           work  ==
             IF Targets[t].kind = "staticlib"
             THEN IF ShouldArchiveProjectStaticLibrary(t)
                  THEN ArchiveStaticLibrary(t) ELSE <<>>
             ELSE IF ~ShouldRelinkProjectExecutable(t) THEN <<>>
             ELSE IF merge
             THEN ByTool("obj", Entry(t), Merged(t)) \o LinkExecutable(t, Merged(t))
             ELSE LinkExecutable(t, Objects(t))
       IN  job' = [job EXCEPT !.queue = work \o Tail(@)]
    /\ UNCHANGED <<src, runtime, disk, clock, done, torn, raced, spent>>

\* The removal that precedes a host tool.
RemoveArtifactIfExists ==
    /\ job # Idle /\ job.queue # <<>> /\ Head(job.queue).do = "remove"
    /\ disk' = [disk EXCEPT ![Head(job.queue).area][Head(job.queue).key] = NoFile]
    /\ job' = [job EXCEPT !.queue = Tail(@)]
    /\ UNCHANGED <<src, runtime, clock, done, torn, raced, spent>>

\* One file is completed: WriteInterfaceArtifact, WriteModuleBuildState or a
\* host tool.
WriteArtifact ==
    /\ job # Idle /\ job.queue # <<>> /\ Head(job.queue).do = "write"
    /\ LET w == Head(job.queue)
           single == w.area = "obj" /\ w.what = job.units[w.key].code
       IN  /\ disk' = Put(w.area, w.key, w.what)
           /\ torn' = IF single THEN torn \cup {w.key}
                      ELSE IF w.area = "state" THEN torn \ {w.key} ELSE torn
           /\ raced' = IF w.area = "state" /\ w.what.source = job.parsed[w.key]
                       THEN raced \ {w.key} ELSE raced
    /\ clock' = clock + 1
    /\ job' = [job EXCEPT !.queue = Tail(@)]
    /\ UNCHANGED <<src, runtime, done, spent>>

\* The queue is empty: the command reports success.
Succeed ==
    /\ job # Idle /\ job.queue = <<>>
    /\ Finish(TRUE)
    /\ UNCHANGED <<src, runtime, disk, clock, torn, raced, spent>>

\* A host tool fails, or the command is killed: nothing after this point
\* happens, and a file the driver itself was writing may be left cut.
CutShort ==
    /\ job # Idle /\ job.queue # <<>> /\ spent.upsets < MaxUpsets
    /\ \/ UNCHANGED disk
       \/ /\ Head(job.queue).do = "write" /\ Head(job.queue).area = "mci"
          /\ disk' = Put("mci", Head(job.queue).key, Torn)
       \/ /\ Head(job.queue).do = "write" /\ Head(job.queue).area = "state"
          /\ disk' = [disk EXCEPT !.state[Head(job.queue).key] = NoFile]
    /\ clock' = clock + 1
    /\ spent' = [spent EXCEPT !.upsets = @ + 1]
    /\ Finish(FALSE)
    /\ UNCHANGED <<src, runtime, torn, raced>>

-----------------------------------------------------------------------------
(* The programmer.                                                         *)

\* An edit while a command runs matters only until the command has hashed the
\* source; a later one commutes with the rest of the command.
Edit(m, text) ==
    /\ job = Idle \/ \E i \in DOMAIN job.queue :
                        job.queue[i].do = "compile" /\ job.queue[i].mod = m
    /\ spent.upsets < MaxUpsets /\ src[m] # text
    /\ src' = [src EXCEPT ![m] = text]
    /\ spent' = [spent EXCEPT !.upsets = @ + 1]
    /\ UNCHANGED <<runtime, disk, clock, job, done, torn, raced>>

EditRuntime ==
    /\ job = Idle /\ spent.upsets < MaxUpsets
    /\ runtime' = [ver |-> runtime.ver + 1, time |-> clock + 1]
    /\ clock' = clock + 1
    /\ spent' = [spent EXCEPT !.upsets = @ + 1]
    /\ done' = None
    /\ UNCHANGED <<src, disk, job, torn, raced>>

Init ==
    /\ src = [m \in Modules |-> FirstText]
    /\ runtime = [ver |-> 0, time |-> 0]
    /\ disk = [mci |-> [m \in Modules |-> NoFile],
               obj |-> [m \in Modules |-> NoFile],
               state |-> [m \in Modules |-> NoFile],
               out |-> [t \in DOMAIN Targets |-> NoFile],
               rtobj |-> [t \in DOMAIN Targets |-> NoFile]]
    /\ clock = 0 /\ job = Idle /\ done = None /\ torn = {} /\ raced = {}
    /\ spent = [builds |-> 0, upsets |-> 0]

Next ==
    \/ \E t \in DOMAIN Targets, mode \in Modes :
          RunBuild(t, mode) \/ RunCheck(t, mode)
    \/ CompileModule \/ CloseTarget \/ RemoveArtifactIfExists
    \/ WriteArtifact \/ Succeed \/ CutShort
    \/ \E m \in Modules, text \in Texts : Edit(m, text)
    \/ EditRuntime

Spec == Init /\ [][Next]_vars

-----------------------------------------------------------------------------
(* Properties.                                                             *)

\* Interfaces and code as a build from an empty directory would make them.
CleanInterface[m \in Modules] ==
    InterfaceOf(m, done.src[m], [i \in Imports[m] |-> CleanInterface[i]])

CleanCode(t, m) ==
    Code(done.src[m], [i \in Imports[m] |-> CleanInterface[i]], done.mode,
         Role(t, m))

CleanOutput(t) ==
    LET code(u) == [m \in Range(Targets[u].mods) |-> CleanCode(u, m)]
    IN  IF Targets[t].kind = "staticlib" THEN code(t)
        ELSE [code |-> code(t), runtime |-> runtime.ver,
              libs |-> [l \in Range(Targets[t].links) |-> code(l)]]

\* A build that reports success leaves the program a build from an empty
\* directory would have made of the sources it parsed, whatever earlier
\* commands built, checked, failed at or were killed in: no stale object,
\* archive or executable survives the reuse and relink decisions.  Left out
\* are modules whose object was completed by a command that was killed before
\* it wrote their state record, and modules edited between being parsed and
\* being hashed that were not rebuilt since: what was lowered and what is on
\* record for those are two different texts.
BuildIsClean ==
    (done # None /\ done.ok /\ done.cmd = "build"
       /\ ModulesBelow(done.target) \cap (torn \cup raced) = {}) =>
        disk.out[done.target].what = CleanOutput(done.target)

\* A module is compiled once by a command; a second compilation would take its
\* raced mark away after a library was archived from the first.
CompiledOnce ==
    \A cmd \in Commands, t \in DOMAIN Targets :
        LET work == WorkOf(cmd, t)
        IN  \A i, j \in DOMAIN work :
                work[i].do = "compile" /\ work[j].do = "compile"
                /\ work[i].mod = work[j].mod => i = j

\* The state record tells parts apart only where an entry is wrapped: elsewhere a
\* module must play the same part in each of its targets, or its object may be
\* reused for the other one.
RolesOnRecord ==
    Hosted \/ \A t, u \in DOMAIN Targets :
                 \A m \in Range(Targets[t].mods) \cap Range(Targets[u].mods) :
                     Role(t, m) = Role(u, m)

IsMerged(t) == Targets[t].kind = "exe" /\ Len(Targets[t].mods) > 1

\* The merged module of a program is built over the object of its entry, so no
\* other program may be linked from that object alone.
MergedApart ==
    \A t, u \in DOMAIN Targets :
        IsMerged(t) /\ Targets[u].kind = "exe" /\ Entry(t) = Entry(u) => IsMerged(u)

\* The projects for which BuildIsClean holds however their sources are edited
\* and their builds cut short.  Without any one of the three it does not hold.
PlainProject == CompiledOnce /\ RolesOnRecord /\ MergedApart

\* A module is compiled against the interfaces of the sources this command
\* parsed: LoadImportedInterfaces never meets a missing interface or one that
\* an earlier command left behind for another text.
FreshInterfaces ==
    (job # Idle /\ job.queue # <<>> /\ Head(job.queue).do = "compile") =>
        \A i \in Imports[Head(job.queue).mod] :
            Exists(disk.mci[i]) /\
            (Readable(i) => disk.mci[i].what.values = job.parsed[i].values
                            /\ disk.mci[i].what.types[i] = job.parsed[i].types)
=============================================================================
