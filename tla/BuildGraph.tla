----------------------------- MODULE BuildGraph -----------------------------
(***************************************************************************)
(* How the driver turns a project into compile graphs                      *)
(* (compiler/driver/build_graph.cpp, project.cpp, build_support.cpp): a    *)
(* target is resolved after the static libraries it links, and its modules *)
(* are discovered depth first from its root source.  Both recursions are   *)
(* stacks here, one frame per active call of the code.                     *)
(*                                                                         *)
(* A path is a sequence of components whose last one is the file stem.  A  *)
(* world is what the driver reads and never writes: the loaded build.toml, *)
(* the command line and the source files with the imports they declare.    *)
(***************************************************************************)
EXTENDS Naturals, FiniteSets, Sequences, SequencesExt

CONSTANTS Worlds,   \* the projects a run explores
          NullOpt      \* std::nullopt

VARIABLES
    world,      \* the project, its files and the command line
    phase,      \* "start", "resolve", "discover", "built" or "failed"
    frames,     \* active BuildResolvedTargetGraph calls, innermost last
    calls,      \* active DiscoverModuleGraphRecursive calls, innermost last
    visited,    \* artifact keys of the finished modules of this discovery
    nodes,      \* CompileGraph::nodes of this discovery
    diags,      \* kinds of the errors reported so far
    result      \* the TargetBuildGraph returned, flattened

graphVars == <<world, phase, frames, calls, visited, nodes, diags, result>>

\* The elements of a sequence that belong to a set, in their order.
Among(s, kept) ==
    FlattenSeq([i \in DOMAIN s |-> IF s[i] \in kept THEN <<s[i]>> ELSE <<>>])

-----------------------------------------------------------------------------
(* Paths, packages and import roots.                                       *)

IsPathWithinRoot(path, root) == IsPrefix(root, path)

IsInternalModulePath(path) == Last(path) = "internal"

\* The deepest of a set of directories; equal depth means equal directory.
Deepest(dirs) == CHOOSE d \in dirs : \A e \in dirs : Len(e) <= Len(d)

\* package_roots maps a package to its source roots; the deepest root that
\* holds the source decides, and the target's own package is the default.
ResolveTargetPackageIdentity(target, path) ==
    LET holding == {r \in target.packageRoots : IsPathWithinRoot(path, r.dir)}
    IN  IF holding = {} THEN target.package
        ELSE (CHOOSE r \in holding :
                  r.dir = Deepest({s.dir : s \in holding})).package

\* Sources outside the project belong to the deepest import root above them.
ResolveExternalSourcePackageIdentity(path, roots) ==
    LET holding == {r \in Range(roots) : IsPathWithinRoot(path, r)}
    IN  <<"external">> \o IF holding = {} THEN Front(path) ELSE Deepest(holding)

PackageIdentityForSource(target, roots, path) ==
    IF IsPathWithinRoot(path, world.rootDir)
    THEN ResolveTargetPackageIdentity(target, path)
    ELSE ResolveExternalSourcePackageIdentity(path, roots)

\* Command-line roots first, then the target's search paths, or the root
\* source's directory when it declares none; no root twice.
ComputeProjectImportRoots(target) ==
    LET all == world.cliRoots \o IF target.search = <<>>
                                 THEN <<Front(target.root)>>
                                 ELSE target.search
    IN  FlattenSeq([i \in DOMAIN all |->
            IF \E j \in 1 .. i - 1 : all[j] = all[i] THEN <<>> ELSE <<all[i]>>])

-----------------------------------------------------------------------------
(* Modules and import resolution.                                          *)

Kind(path) == IF IsInternalModulePath(path) THEN "internal" ELSE "ordinary"

\* A source found under a search root, or the entry source: its artifact key
\* is its path.
FileModule(path, package) ==
    [name |-> Last(path), key |-> path, primary |-> path,
     sources |-> <<path>>, package |-> package, kind |-> Kind(path)]

\* A module of a module set: its artifact key is its package and name, its
\* primary source the target's root if the set holds it, else its first file.
SetModule(target, name) ==
    LET files   == target.moduleSets[name]
        primary == IF target.root \in Range(files) THEN target.root
                   ELSE files[1]
        package == ResolveTargetPackageIdentity(target, primary)
    IN  [name |-> name, key |-> package \o <<"::", name>>, primary |-> primary,
         sources |-> files, package |-> package, kind |-> "ordinary"]

SetModules(target, name) ==
    IF name \in DOMAIN target.moduleSets
    THEN <<SetModule(target, name)>> ELSE <<>>

\* LookupKnownProjectModuleSources: the target's own module set, then, for
\* every linked graph, its compiled modules, its module set and, nested, its
\* own linked graphs.  A graph is flattened in that same order.
KnownModuleSources(target, linked, name) ==
    LET Named(ns)  == Among(ns, {n \in Range(ns) : n.name = name})
        ofGraph(g) == FlattenSeq([i \in DOMAIN g |->
                          Named(g[i].nodes) \o SetModules(g[i].target, name)])
    IN  SetModules(target, name)
        \o FlattenSeq([i \in DOMAIN linked |-> ofGraph(linked[i])])

\* Candidates in the order the code appends them, one per primary source.
ImportCandidates(target, linked, name) ==
    LET roots == ComputeProjectImportRoots(target)
        found == Among([i \in DOMAIN roots |-> Append(roots[i], name)],
                       DOMAIN world.imports)
        all   == KnownModuleSources(target, linked, name)
                 \o [i \in DOMAIN found |->
                        FileModule(found[i],
                          PackageIdentityForSource(target, roots, found[i]))]
    IN  {all[i] : i \in {k \in DOMAIN all :
             \A j \in 1 .. k - 1 : all[j].primary # all[k].primary}}

\* An internal module is visible only inside its own package.
Visible(m, importerPackage) ==
    \/ m.kind = "ordinary"
    \/ importerPackage # NullOpt /\ m.package # NullOpt
       /\ m.package = importerPackage

\* Exactly one visible candidate resolves an import.
ResolveImportPathWithPackageRules(target, linked, importerPackage, name) ==
    LET candidates == ImportCandidates(target, linked, name)
        matches    == {m \in candidates : Visible(m, importerPackage)}
    IN  IF Cardinality(matches) = 1
        THEN [ok |-> TRUE, module |-> CHOOSE m \in matches : TRUE, why |-> ""]
        ELSE [ok |-> FALSE, module |-> NullOpt,
              why |-> IF matches # {} THEN "ambiguous import"
                      ELSE IF candidates # {} THEN "internal module"
                      ELSE "unresolved import"]

\* The imports of a logical module: those of its parts, each name once and
\* in name order, as the parts are merged.
MergedImports(m) ==
    Among(world.names, UNION {world.imports[s] : s \in Range(m.sources)})

\* ParseLogicalModuleSources: all parts are read and parse, and none of them
\* mixes internal with ordinary files.
Parses(m) ==
    /\ Range(m.sources) \subseteq DOMAIN world.imports \ world.broken
    /\ Cardinality({Kind(s) : s \in Range(m.sources)}) = 1

-----------------------------------------------------------------------------
(* Targets.                                                                *)

SupportsBootstrapTarget(target) ==
    IF target.triple = NullOpt THEN target.env # "freestanding"
    ELSE target.triple \in {"triple", "family"}

\* The explicit target, else the default one, else the only one.
SelectProjectTarget ==
    IF world.explicit # NullOpt
    THEN IF world.explicit \in DOMAIN world.targets THEN world.explicit
         ELSE NullOpt
    ELSE IF world.default # NullOpt THEN world.default
    ELSE IF Cardinality(DOMAIN world.targets) = 1
         THEN CHOOSE t \in DOMAIN world.targets : TRUE
    ELSE NullOpt

\* Primary sources that a target compiles, and those of a linked graph.
Sources(part) == {n.primary : n \in Range(part.nodes)}

OwnedSources(graph) == UNION {Sources(graph[i]) : i \in DOMAIN graph}

\* Two linked libraries of different names may not provide one source.
CollectOwnedSourcePathsForLink(linked) ==
    [clash |-> \E i, j \in DOMAIN linked :
                  /\ linked[i][1].target.name # linked[j][1].target.name
                  /\ OwnedSources(linked[i]) \cap OwnedSources(linked[j]) # {},
     paths |-> UNION {OwnedSources(linked[i]) : i \in DOMAIN linked}]

\* The entry is the root source, or the module set of its name that owns it.
EntryModule(target, linked) ==
    LET plain == FileModule(target.root,
                     PackageIdentityForSource(target,
                         ComputeProjectImportRoots(target), target.root))
        known == KnownModuleSources(target, linked, plain.name)
        sets  == Among(known, {m \in Range(known) :
                                   target.root \in Range(m.sources)})
    IN  IF sets = <<>> THEN plain ELSE sets[1]

\* What LoadProjectFile hands over, whatever the file says: the targets by
\* their names, and lists as lists.
Loaded(w) ==
    /\ w.names \in Seq(Range(w.names))
    /\ w.default \in DOMAIN w.targets \cup {NullOpt}
    /\ \A n \in DOMAIN w.targets :
           /\ {"name", "links"} \subseteq DOMAIN w.targets[n]
           /\ w.targets[n].name = n
           /\ w.targets[n].links \in Seq(Range(w.targets[n].links))

-----------------------------------------------------------------------------
Top == Last(frames)

Fail(why) ==
    /\ phase' = "failed"
    /\ diags' = diags \cup {why}
    /\ frames' = <<>> /\ calls' = <<>>
    /\ UNCHANGED <<world, visited, nodes, result>>

\* The checks and the insertion that open BuildResolvedTargetGraph.
EnterTarget(target, outer) ==
    IF ~SupportsBootstrapTarget(target) THEN Fail("unsupported target")
    ELSE IF \E i \in DOMAIN outer : outer[i].target.name = target.name
    THEN Fail("target cycle")
    ELSE /\ frames' = Append(outer, [target |-> target,
                                     todo |-> target.links, linked |-> <<>>])
         /\ phase' = "resolve"
         /\ UNCHANGED <<world, calls, visited, nodes, diags, result>>

\* BuildTargetGraph: choose the target, apply and check the overrides.
BuildTargetGraph ==
    /\ phase = "start"
    /\ LET name == SelectProjectTarget
           mode == IF world.mode = NullOpt THEN world.targets[name].mode
                   ELSE world.mode
           env  == IF world.env = NullOpt THEN world.targets[name].env
                   ELSE world.env
       IN  IF name = NullOpt THEN Fail("no target")
           ELSE IF mode \notin {"debug", "checked", "release"}
           THEN Fail("unsupported mode")
           ELSE IF env \notin {"hosted", "freestanding"}
           THEN Fail("unsupported environment")
           ELSE EnterTarget([world.targets[name] EXCEPT !.mode = mode,
                                                        !.env = env], <<>>)

\* One entry of target.links: an unknown or non-library link is reported and
\* skipped, a library is resolved with this target's mode and environment.
ResolveLink ==
    /\ phase = "resolve"
    /\ Top.todo # <<>>
    /\ LET link == Head(Top.todo)
           rest == [frames EXCEPT ![Len(frames)].todo = Tail(@)]
           Skip(why) == /\ frames' = rest
                        /\ diags' = diags \cup {why}
                        /\ UNCHANGED <<world, phase, calls, visited, nodes,
                                       result>>
       IN  IF link \notin DOMAIN world.targets THEN Skip("unknown link")
           ELSE IF world.targets[link].kind # "staticlib"
           THEN Skip("link kind")
           ELSE EnterTarget([world.targets[link] EXCEPT
                                 !.mode = Top.target.mode,
                                 !.env = Top.target.env], rest)

\* Mutant: a finished module is never forgotten by the visiting set.
VisitKeepsVisiting(m, active) ==
    IF m.key \in visited \cup {active[i].module.key : i \in DOMAIN active}
    THEN Fail("import cycle")
    ELSE IF ~Parses(m) THEN Fail("parse error")
    ELSE /\ calls' = Append(active, [module |-> m, imports |-> <<>>,
                                     todo |-> MergedImports(m)])
         /\ phase' = "discover"
         /\ UNCHANGED <<world, frames, visited, nodes, diags, result>>

\* The checks that open one DiscoverModuleGraphRecursive call for m, with the
\* calls and finished nodes that surround it.
Visit(m, active) ==
    IF m.key \in visited
    THEN /\ calls' = active
         /\ phase' = "discover"
         /\ UNCHANGED <<world, frames, visited, nodes, diags, result>>
    ELSE IF \E i \in DOMAIN active : active[i].module.key = m.key
    THEN Fail("import cycle")
    ELSE IF ~Parses(m) THEN Fail("parse error")
    ELSE IF m.kind = "internal" /\ m.package = NullOpt
    THEN Fail("internal root")
    ELSE /\ calls' = Append(active, [module |-> m, imports |-> <<>>,
                                     todo |-> MergedImports(m)])
         /\ phase' = "discover"
         /\ UNCHANGED <<world, frames, visited, nodes, diags, result>>

\* All links are done: reported errors and doubly owned sources stop the
\* target, otherwise its entry module is visited.
DiscoverModuleGraph ==
    /\ phase = "resolve"
    /\ Top.todo = <<>>
    /\ IF diags # {} THEN Fail("unresolved links")
       ELSE IF CollectOwnedSourcePathsForLink(Top.linked).clash
       THEN Fail("source owned twice")
       ELSE Visit(EntryModule(Top.target, Top.linked), <<>>)

\* One import of the innermost call: resolve it, record it, and visit it
\* unless a linked library already compiles it.
VisitImport ==
    /\ phase = "discover" /\ calls # <<>>
    /\ Last(calls).todo # <<>>
    /\ LET call     == Last(calls)
           name     == Head(call.todo)
           found    == ResolveImportPathWithPackageRules(
                           Top.target, Top.linked, call.module.package, name)
           external == CollectOwnedSourcePathsForLink(Top.linked).paths
           rest     == [calls EXCEPT
                           ![Len(calls)].todo = Tail(@),
                           ![Len(calls)].imports = Append(@, found.module)]
       IN  IF ~found.ok THEN Fail(found.why)
           ELSE IF found.module.primary \in external
           THEN /\ calls' = rest
                /\ UNCHANGED <<world, phase, frames, visited, nodes, diags,
                               result>>
           ELSE Visit(found.module, rest)

\* CompileNode: the module and what its imports resolved to.
Node(m, imports) ==
    [name |-> m.name, key |-> m.key, primary |-> m.primary,
     sources |-> m.sources, package |-> m.package, kind |-> m.kind,
     imports |-> imports]

\* Mutant: the node is appended when it is entered, before its imports.
FinishModuleFirst ==
    /\ phase = "discover" /\ calls # <<>>
    /\ Last(calls).todo = <<>>
    /\ LET m == Last(calls).module
       IN  /\ visited' = visited \cup {m.key}
           /\ nodes' = <<Node(m, Last(calls).imports)>> \o nodes
           /\ calls' = Front(calls)
    /\ UNCHANGED <<world, phase, frames, diags, result>>

\* The innermost call has visited its imports: its node is appended.
FinishModule ==
    /\ phase = "discover" /\ calls # <<>>
    /\ Last(calls).todo = <<>>
    /\ LET m == Last(calls).module
       IN  /\ visited' = visited \cup {m.key}
           /\ nodes' = Append(nodes, Node(m, Last(calls).imports))
           /\ calls' = Front(calls)
    /\ UNCHANGED <<world, phase, frames, diags, result>>

\* The target's graph is returned to the target that links it, or is the
\* answer.
FinishTarget ==
    /\ phase = "discover" /\ calls = <<>>
    /\ LET graph == <<[target |-> Top.target, nodes |-> nodes]>>
                    \o FlattenSeq(Top.linked)
           outer == Front(frames)
       IN  IF outer = <<>>
           THEN phase' = "built" /\ result' = graph /\ frames' = <<>>
           ELSE /\ phase' = "resolve"
                /\ frames' = [outer EXCEPT ![Len(outer)].linked =
                                  Append(@, graph)]
                /\ UNCHANGED result
    /\ visited' = {} /\ nodes' = <<>>
    /\ UNCHANGED <<world, calls, diags>>

GraphInit ==
    /\ world \in {w \in Worlds : Loaded(w)}
    /\ phase = "start"
    /\ frames = <<>> /\ calls = <<>> /\ visited = {} /\ nodes = <<>>
    /\ diags = {} /\ result = <<>>

GraphNext ==
    \/ BuildTargetGraph \/ ResolveLink \/ DiscoverModuleGraph
    \/ VisitImport \/ FinishModule \/ FinishTarget

GraphSpec == GraphInit /\ [][GraphNext]_graphVars

-----------------------------------------------------------------------------
(* Properties.                                                             *)

\* Index of the node that compiles the module with this key, 0 if none.
NodeIndex(ns, key) ==
    IF \E i \in DOMAIN ns : ns[i].key = key
    THEN CHOOSE i \in DOMAIN ns : ns[i].key = key ELSE 0

\* A target compiles a module once and after the modules it imports, ends with
\* its entry, and every import is compiled, earlier by the same target or by a
\* target whose graph comes later in the result: a library linked below it or
\* beside it.
InOrder(part, below) ==
    LET ns == part.nodes
    IN  /\ \A i, j \in DOMAIN ns : ns[i].key = ns[j].key => i = j
        /\ ns # <<>>
        /\ \/ Last(ns).primary = part.target.root
           \/ part.target.root \in Range(Last(ns).sources)
        /\ \A i \in DOMAIN ns : \A m \in Range(ns[i].imports) :
               NodeIndex(ns, m.key) \in 1 .. i - 1 \/ m.primary \in below

InImportOrder(graph) ==
    \A g \in DOMAIN graph :
        InOrder(graph[g], UNION {Sources(graph[h]) : h \in g + 1 .. Len(graph)})

\* No source is compiled into two targets of one link, however deep below it
\* the libraries are nested, except a target's own entry.
OneOwner(graph) ==
    \A g, h \in DOMAIN graph :
        graph[g].target.name # graph[h].target.name =>
            \A i \in DOMAIN graph[g].nodes, j \in DOMAIN graph[h].nodes :
                graph[g].nodes[i].primary = graph[h].nodes[j].primary =>
                    i = Len(graph[g].nodes) \/ j = Len(graph[h].nodes)

\* What CompileModuleGraph needs when it loads the interface of each import,
\* and what AssertCompileGraphTopologicalOrder asserts in debug builds only;
\* and CollectOwnedSourcePathsForLink keeps two libraries from providing one
\* source.  The one exception the code leaves is a target's entry, which
\* DiscoverModuleGraph enters without asking whether a linked library already
\* compiles it, even as a file of a module set of that library.
InterfacesComeFirst ==
    phase = "built" => InImportOrder(result) /\ OneOwner(result)

\* The modules that m imports, as this target resolves them.
Imported(target, linked, m) ==
    {f.module : f \in {x \in {ResolveImportPathWithPackageRules(target, linked,
                                 m.package, n) : n \in Range(MergedImports(m))} :
                          x.ok}}

\* An import cycle is reported only for modules that really import each other
\* in a ring, never for a module reached twice along different paths: each
\* module of the ring resolves an import to the next one.
CyclesAreReal ==
    [][ (phase' = "failed" /\ "import cycle" \in diags') =>
          \E i \in DOMAIN calls : \A j \in i .. Len(calls) :
              LET next == IF j = Len(calls) THEN i ELSE j + 1
              IN  \E m \in Imported(Top.target, Top.linked, calls[j].module) :
                      m.key = calls[next].module.key ]_graphVars
=============================================================================
