---------------------------- MODULE ProjectFile ----------------------------
(***************************************************************************)
(* How build.toml is read (compiler/driver/project.cpp): physical lines    *)
(* are joined into logical ones while an array is open, table headers set  *)
(* the current section, entries assign keys of the current section, and    *)
(* what was collected is validated as a whole.  An error is reported and   *)
(* reading goes on; any error rejects the file.                            *)
(*                                                                         *)
(* A line is what is left of it after StripComment and Trim: a header, a   *)
(* complete entry, an entry that opens an array and leaves it open, a line *)
(* of further items, a line of items that closes the array, or junk.  A    *)
(* value is a tagged scalar or sequence; a path is a sequence of           *)
(* components, its last one the file stem.                                 *)
(***************************************************************************)
EXTENDS Integers, FiniteSets, Sequences, SequencesExt

CONSTANTS Preamble,  \* lines every file of a run starts with
          Lines,     \* the lines a file may go on with
          MaxLines,  \* how many of them
          PathOrder, \* the paths of a run in the order of their spelling
          IntMax     \* the largest value of a C++ int

VARIABLES
    text,      \* the lines read so far
    pending,   \* the array being joined, or Closed
    section,   \* the current table path
    project,   \* the ProjectFile under construction
    errors,    \* kinds of the errors reported
    phase      \* "reading", "accepted" or "rejected"

projectVars == <<text, pending, section, project, errors, phase>>

Closed == [key |-> "", items |-> <<>>, depth |-> 0, ok |-> TRUE]

Unset == ""
NoFun == [n \in {} |-> <<>>]

NewTarget ==
    [kind |-> "exe", package |-> Unset, root |-> <<>>, mode |-> "debug",
     env |-> "hosted", target |-> Unset, links |-> <<>>, inputs |-> <<>>,
     search |-> <<>>, packages |-> NoFun, sets |-> NoFun,
     startup |-> "default",
     tests |-> [enabled |-> FALSE, roots |-> <<>>, mode |-> "checked",
                timeout_ms |-> -1]]

NewProject == [name |-> Unset, default |-> Unset, build_dir |-> <<"build">>,
               targets |-> [n \in {} |-> NewTarget]]

-----------------------------------------------------------------------------
(* Values and keys.                                                        *)

\* lexically_normal: "." disappears and ".." takes its parent with it.
Normal(path) ==
    FoldLeft(LAMBDA done, c : IF c = "." THEN done
                              ELSE IF c = ".." /\ done # <<>> /\ Last(done) # ".."
                              THEN Front(done)
                              ELSE Append(done, c), <<>>, path)

NormalAll(paths) == [i \in DOMAIN paths |-> Normal(paths[i])]

\* ParseValue accumulates digits in an int with no overflow check: beyond
\* IntMax the result is undefined, and the outcomes that matter are the
\* ones validation or the timeout tell apart.
ParseInteger(v) == IF v <= IntMax THEN {v} ELSE {-1, 0, 1}

ParseValue(val) ==
    IF val.is = "integer"
    THEN {[val EXCEPT !.v = n] : n \in ParseInteger(val.v)} ELSE {val}

Scalars(keys) == [k \in keys |-> "string"]
Arrays(keys)  == [k \in keys |-> "array"]

\* The keys of a section and the kind of value each takes.
TopLevelKeys == ("schema" :> "integer")
                @@ Scalars({"project", "default", "build_dir"})
TargetKeys   == ("links" :> "array")
                @@ Scalars({"kind", "package", "root", "mode", "env", "target"})
NestedKeys   ==
    [search_paths |-> Arrays({"modules"}), packages |-> Arrays({"roots"}),
     module_sets |-> Arrays({"files"}), runtime |-> Scalars({"startup"}),
     link |-> Arrays({"inputs"}),
     tests |-> [enabled |-> "bool", roots |-> "array", mode |-> "string",
                timeout_ms |-> "integer"]]

IsNested(path) ==
    /\ Len(path) >= 3 /\ path[3] \in DOMAIN NestedKeys
    /\ Len(path) = IF path[3] \in {"packages", "module_sets"} THEN 4 ELSE 3

KeysOf(path) ==
    IF path = <<>> THEN TopLevelKeys
    ELSE IF Len(path) = 2 THEN TargetKeys
    ELSE IF IsNested(path) THEN NestedKeys[path[3]] ELSE NoFun

\* What a key of a target's section assigns; a whole value is replaced.
AssignTarget(t, path, key, v) ==
    IF Len(path) = 2 THEN [t EXCEPT ![key] = v]
    ELSE CASE path[3] = "search_paths" -> [t EXCEPT !.search = v]
           [] path[3] = "runtime"      -> [t EXCEPT !.startup = v]
           [] path[3] = "link"         -> [t EXCEPT !.inputs = v]
           [] path[3] = "tests"        -> [t EXCEPT !.tests[key] = v]
           [] path[3] = "packages"     -> [t EXCEPT !.packages = (path[4] :> v) @@ @]
           [] path[3] = "module_sets"  -> [t EXCEPT !.sets = (path[4] :> v) @@ @]

-----------------------------------------------------------------------------
(* Validation.                                                             *)

IsSupportedMode(mode) == mode \in {"debug", "checked", "release"}
IsExecutableTargetKind(kind) == kind \in {"exe", "test"}

HasDuplicates(paths) == ~IsInjective(paths)

\* A path that two entries of a map from names to path lists share.
SharedByTwo(lists) ==
    \E m, n \in DOMAIN lists :
        m # n /\ Range(lists[m]) \cap Range(lists[n]) # {}

\* std::sort by the spelling of the paths.
SortPaths(paths) ==
    LET Rank(p) == CHOOSE i \in DOMAIN PathOrder : PathOrder[i] = p
    IN  SortSeq(paths, LAMBDA a, b : Rank(a) < Rank(b))

NormalTarget(name, t) ==
    [t EXCEPT !.package = IF @ = Unset THEN name ELSE @,
              !.root = Normal(@), !.inputs = NormalAll(@),
              !.search = NormalAll(@), !.tests.roots = NormalAll(@),
              !.packages = [p \in DOMAIN @ |-> NormalAll(@[p])],
              !.sets = [m \in DOMAIN @ |-> SortPaths(NormalAll(@[m]))]]

IsPlainStartupName(name) == name \notin {Unset, "not plain"}

\* Startup and target rules of the two environments.
EnvironmentErrors(t) ==
    CASE t.env = "hosted" ->
            {e \in {"hosted startup"} : t.startup # "default"}
      [] t.env = "freestanding" ->
            {e \in {"no freestanding target"} : t.target = Unset}
            \cup {e \in {"no freestanding startup"} : t.startup = "default"}
            \cup {e \in {"startup name"} : ~IsPlainStartupName(t.startup)}
      [] OTHER -> {"environment"}

\* Module sets: no internal module or source, no empty set, no file twice.
ModuleSetErrors(t) ==
    UNION {
      {e \in {"internal module set"} : m = "internal"}
      \cup {e \in {"empty module set"} : t.sets[m] = <<>>}
      \cup {e \in {"internal source"} :
              \E i \in DOMAIN t.sets[m] : Last(t.sets[m][i]) = "internal"}
      \cup {e \in {"duplicate file"} : HasDuplicates(t.sets[m])}
      : m \in DOMAIN t.sets}

\* A file belongs to one module set, and the root source to none but the
\* set named after it, which holds it if it exists.
ModuleSetOwnerErrors(t) ==
    LET entry == IF t.root = <<>> THEN Unset ELSE Last(t.root)
        owners == {m \in DOMAIN t.sets : t.root \in Range(t.sets[m])}
    IN  {e \in {"file of two sets"} : SharedByTwo(t.sets)}
        \cup {e \in {"entry set without root"} :
                entry \in DOMAIN t.sets /\ entry \notin owners}
        \cup {e \in {"root in a foreign set"} :
                owners # {} /\ entry \notin owners}

PackageRootErrors(t) ==
    {e \in {"duplicate package root"} :
        \E p \in DOMAIN t.packages : HasDuplicates(t.packages[p])}
    \cup {e \in {"root of two packages"} : SharedByTwo(t.packages)}

TargetErrors(t) ==
    {e \in {"kind"} : t.kind \notin {"exe", "test", "staticlib"}}
    \cup {e \in {"no root"} : t.root = <<>>}
    \cup {e \in {"mode"} : ~IsSupportedMode(t.mode)}
    \cup EnvironmentErrors(t)
    \cup {e \in {"link inputs"} :
            t.inputs # <<>> /\ ~IsExecutableTargetKind(t.kind)}
    \cup {e \in {"duplicate path"} :
            \/ HasDuplicates(t.inputs) \/ HasDuplicates(t.search)
            \/ HasDuplicates(t.tests.roots)}
    \cup PackageRootErrors(t) \cup ModuleSetErrors(t)
    \cup ModuleSetOwnerErrors(t)
    \cup {e \in {"tests mode"} : ~IsSupportedMode(t.tests.mode)}

ProjectErrors(p) ==
    {e \in {"no project name"} : p.name = Unset}
    \cup {e \in {"no targets"} : DOMAIN p.targets = {}}
    \cup UNION {TargetErrors(p.targets[n]) : n \in DOMAIN p.targets}
    \cup {e \in {"shared root"} :
            \E m, n \in DOMAIN p.targets :
                /\ m # n /\ p.targets[m].root = p.targets[n].root
                /\ p.targets[m].root # <<>>}
    \cup {e \in {"unknown default"} :
            p.default # Unset /\ p.default \notin DOMAIN p.targets}

-----------------------------------------------------------------------------
(* The reader.                                                             *)

Init ==
    /\ text = <<>> /\ pending = Closed /\ section = <<>>
    /\ project = NewProject /\ errors = {} /\ phase = "reading"

Report(e) == errors' = errors \cup {e}

\* An entry of the top-level table.
TopLevelEntry(key, val) ==
    /\ project' = CASE key = "project"   -> [project EXCEPT !.name = val.v]
                    [] key = "default"   -> [project EXCEPT !.default = val.v]
                    [] key = "build_dir" -> [project EXCEPT !.build_dir = val.v]
                    [] key = "schema"    -> project
    /\ IF key = "schema" /\ val.v # 1 THEN Report("schema")
       ELSE UNCHANGED errors

\* LookupTarget creates the target a section names on its first entry.
LookupTarget(name) ==
    IF name \in DOMAIN project.targets THEN project.targets[name] ELSE NewTarget

StoreTarget(name, t) ==
    project' = [project EXCEPT !.targets = (name :> t) @@ @]

TargetEntry(key, val) ==
    /\ StoreTarget(section[2],
                   AssignTarget(LookupTarget(section[2]), section, key, val.v))
    /\ UNCHANGED errors

\* An entry of the current section, or the error it gets.
Entry(key, written) == \E val \in ParseValue(written) :
    IF val.is = "bad"
    THEN Report("invalid entry") /\ UNCHANGED project
    ELSE IF section # <<>> /\ (Len(section) < 2 \/ section[1] # "targets")
    THEN Report("table path") /\ UNCHANGED project
    ELSE IF key \notin DOMAIN KeysOf(section)
            \/ KeysOf(section)[key] # val.is
    THEN /\ Report("key or value kind")
         /\ IF section = <<>> THEN UNCHANGED project
            ELSE StoreTarget(section[2], LookupTarget(section[2]))
    ELSE IF section = <<>> THEN TopLevelEntry(key, val)
    ELSE TargetEntry(key, val)

Delta(line) == CASE line.is = "open" -> 1 [] line.is = "close" -> -1
                 [] OTHER -> 0

\* A join that looks only at the items of a line.
JoinAnyLine(line) ==
    LET depth  == pending.depth + Delta(line)
        more   == IF line.is \in {"items", "close"} THEN line.items ELSE <<>>
        joined == [pending EXCEPT !.items = @ \o more, !.depth = depth]
    IN  IF depth > 0
        THEN pending' = joined /\ UNCHANGED <<project, errors>>
        ELSE /\ pending' = Closed
             /\ Entry(joined.key, [is |-> "array", v |-> joined.items])

\* A further line of an open array.  A header or an entry swallowed by it
\* leaves characters ParseStringArray refuses.
Join(line) ==
    LET depth  == pending.depth + Delta(line)
        joined == IF line.is \in {"items", "close"}
                  THEN [pending EXCEPT !.items = @ \o line.items,
                                       !.depth = depth]
                  ELSE [pending EXCEPT !.ok = FALSE, !.depth = depth]
    IN  IF depth > 0
        THEN pending' = joined /\ UNCHANGED <<project, errors>>
        ELSE /\ pending' = Closed
             /\ Entry(joined.key, IF joined.ok
                                  THEN [is |-> "array", v |-> joined.items]
                                  ELSE [is |-> "bad", v |-> <<>>])

\* A line that starts a logical line of its own.
Fresh(line) ==
    CASE line.is = "open" ->
            /\ pending' = [key |-> line.key, items |-> line.items,
                           depth |-> 1, ok |-> TRUE]
            /\ UNCHANGED <<section, project, errors>>
      [] line.is = "header" ->
            /\ IF line.path = <<>>
               THEN Report("table header") /\ UNCHANGED section
               ELSE section' = line.path /\ UNCHANGED errors
            /\ UNCHANGED <<pending, project>>
      [] line.is = "entry" ->
            Entry(line.key, line.val) /\ UNCHANGED <<pending, section>>
      [] OTHER ->
            Report("no entry") /\ UNCHANGED <<pending, section, project>>

NextLine(line) ==
    /\ text' = Append(text, line)
    /\ IF pending = Closed THEN Fresh(line)
       ELSE Join(line) /\ UNCHANGED section
    /\ UNCHANGED phase

ReadLine ==
    /\ phase = "reading" /\ Len(text) < Len(Preamble) + MaxLines
    /\ IF Len(text) < Len(Preamble) THEN NextLine(Preamble[Len(text) + 1])
       ELSE \E line \in Lines : NextLine(line)

\* The end of the file: an open array is an error, and so is anything the
\* whole project violates.
EndOfFile ==
    /\ phase = "reading" /\ Len(text) >= Len(Preamble)
    /\ LET final == [project EXCEPT !.targets =
                        [n \in DOMAIN @ |-> NormalTarget(n, @[n])],
                        !.build_dir = Normal(@)]
           found == errors \cup ProjectErrors(final)
                    \cup {e \in {"unterminated array"} : pending # Closed}
       IN  /\ errors' = found
           /\ project' = final
           /\ phase' = IF found = {} THEN "accepted" ELSE "rejected"
    /\ UNCHANGED <<text, pending, section>>

Next == ReadLine \/ EndOfFile

-----------------------------------------------------------------------------
(* Reading the accepted project.                                           *)

\* SelectProjectTarget: the explicit target, the default one, the only one.
SelectProjectTarget(p, explicit) ==
    LET wanted == IF explicit # Unset THEN explicit ELSE p.default
    IN  IF wanted # Unset THEN {wanted} \cap DOMAIN p.targets
        ELSE IF Cardinality(DOMAIN p.targets) = 1 THEN DOMAIN p.targets ELSE {}

FindProjectModuleSetForSource(t, path) ==
    {m \in DOMAIN t.sets : Normal(path) \in Range(t.sets[m])}

\* The packages the loop over an unordered map may return: of the roots that
\* hold the source, a deepest one; which of them depends on the order.
ResolveTargetPackageIdentity(t, path) ==
    LET holding == {<<p, i>> \in (DOMAIN t.packages) \X (1 .. MaxLines + 8) :
                        /\ i \in DOMAIN t.packages[p]
                        /\ IsPrefix(t.packages[p][i], path)}
        Depth(h) == Len(t.packages[h[1]][h[2]])
    IN  IF holding = {} THEN {t.package}
        ELSE {h[1] : h \in {g \in holding :
                  \A k \in holding : Depth(k) <= Depth(g)}}

-----------------------------------------------------------------------------
(* Properties.                                                             *)

PathKeys == {"root", "build_dir", "modules", "roots", "files", "inputs"}

\* What the text says at an entry: its own value, or the items of all lines
\* up to the one that closes the array.
Written(i) ==
    LET last == CHOOSE k \in i .. Len(text) :
                    /\ text[k].is = "close"
                    /\ \A l \in i .. k - 1 : text[l].is # "close"
        all  == FlattenSeq([k \in 1 .. last - i + 1 |-> text[i + k - 1].items])
        raw  == IF text[i].is = "entry" THEN text[i].val.v ELSE all
    IN  IF text[i].key = "files" THEN SortPaths(NormalAll(raw))
        ELSE IF text[i].key \in {"root", "build_dir"} THEN Normal(raw)
        ELSE IF text[i].key \in PathKeys THEN NormalAll(raw) ELSE raw

\* The header an entry stands under.
SectionAt(i) ==
    LET above == {j \in 1 .. i - 1 : text[j].is = "header"}
    IN  IF above = {} THEN <<>>
        ELSE text[CHOOSE j \in above : \A k \in above : k <= j].path

\* Where the loaded project keeps a key of a section.
Loaded(path, key) ==
    IF path = <<>>
    THEN CASE key = "project" -> project.name [] key = "default" -> project.default
           [] key = "build_dir" -> project.build_dir [] OTHER -> 1
    ELSE LET t == project.targets[path[2]]
         IN  IF Len(path) = 2 THEN t[key]
             ELSE CASE path[3] = "search_paths" -> t.search
                    [] path[3] = "runtime" -> t.startup
                    [] path[3] = "link" -> t.inputs
                    [] path[3] = "tests" -> t.tests[key]
                    [] path[3] = "packages" -> t.packages[path[4]]
                    [] path[3] = "module_sets" -> t.sets[path[4]]

Assigns(i) == text[i].is \in {"entry", "open"}

AssignedAgain(i) == \E j \in i + 1 .. Len(text) :
    Assigns(j) /\ text[j].key = text[i].key /\ SectionAt(j) = SectionAt(i)

Undefined(i) == text[i].key = "timeout_ms" /\ text[i].val.v > IntMax

\* An accepted file means what it says, line by line (LoadProjectFile and
\* ReadLogicalProjectLines): the last entry written for a key of a section
\* is the value loaded, whichever sections were reopened in between, and
\* every continuation line belongs to an array that an entry opened, so no
\* header or entry was swallowed by one.  Integers an int cannot hold are
\* left out: the parse of those is undefined.
EntriesMeanWhatTheySay ==
    /\ \A i \in DOMAIN text :
         /\ text[i].is = "open" => \E k \in i + 1 .. Len(text) :
                /\ text[k].is = "close"
                /\ \A l \in i + 1 .. k - 1 : text[l].is = "items"
         /\ text[i].is \in {"items", "close"} => \E j \in 1 .. i - 1 :
                /\ text[j].is = "open"
                /\ \A k \in j + 1 .. i - 1 : text[k].is = "items"
    /\ \A i \in DOMAIN text :
         Assigns(i) /\ ~AssignedAgain(i) /\ ~Undefined(i)
         => Loaded(SectionAt(i), text[i].key) = Written(i)

\* Nothing depends on the order in which a hash map is walked
\* (ResolveTargetPackageIdentity, FindProjectModuleSetForSource,
\* SelectProjectTarget): a source has one package and at most one module
\* set, a root source none but its entry module's, no two targets share a
\* root, and the default target that targets.at() looks up exists.
EverySourceHasOneOwner ==
    /\ \A n \in DOMAIN project.targets :
         LET t == project.targets[n]
         IN  /\ \A path \in Range(PathOrder) :
                    /\ Cardinality(ResolveTargetPackageIdentity(t, path)) = 1
                    /\ Cardinality(FindProjectModuleSetForSource(t, path)) <= 1
             /\ FindProjectModuleSetForSource(t, t.root)
                    = {Last(t.root)} \cap DOMAIN t.sets
             /\ \A m \in DOMAIN project.targets \ {n} :
                    project.targets[m].root # t.root
    /\ project.default # Unset => SelectProjectTarget(project, Unset) # {}

\* An accepted build.toml means what it says, and one thing only.
AcceptedMeansWhatItSays ==
    phase = "accepted" => EntriesMeanWhatTheySay /\ EverySourceHasOneOwner
=============================================================================
