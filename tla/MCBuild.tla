------------------------------- MODULE MCBuild -------------------------------
(***************************************************************************)
(* A command of the compiler reads build.toml, finds the modules of its    *)
(* targets and brings the build directory up to date.  A behaviour here    *)
(* explores one of the three: a file, a project of another shape, or one   *)
(* build directory through several commands.                               *)
(*                                                                         *)
(* The build directory belongs to a project of three targets: the library  *)
(* lib of module c, the program app of modules b and a that links it, and  *)
(* the program tool whose only module is b, which app imports.             *)
(***************************************************************************)
EXTENDS BuildCache, BuildGraph

CONSTANTS Preamble, Lines, MaxLines, PathOrder, IntMax \* of ProjectFile

VARIABLES part,       \* "project", "graph" or "cache"
          text, pending, section, project, errors, reading

fileVars  == <<text, pending, section, project, errors, reading>>

Project == INSTANCE ProjectFile WITH phase <- reading

-----------------------------------------------------------------------------
(* The build directory.                                                    *)

MCImports == [m \in {"a", "b", "c"} |->
    CASE m = "a" -> {"b", "c"} [] m = "b" -> {"c"} [] m = "c" -> {}]

MCTargets == [t \in {"lib", "app", "tool"} |->
    CASE t = "lib"  -> [kind |-> "staticlib", mods |-> <<"c">>, links |-> <<>>]
      [] t = "app"  -> [kind |-> "exe", mods |-> <<"b", "a">>,
                        links |-> <<"lib">>]
      [] t = "tool" -> [kind |-> "exe", mods |-> <<"b">>, links |-> <<"lib">>]]

Text(t, v, b, bad) == [types |-> t, values |-> v, body |-> b, bad |-> bad]

MCFirstText == Text(0, 0, 0, FALSE)

\* A change of a body only, a change of an exported type, and a text that the
\* checker rejects.
MCTexts == {MCFirstText, Text(0, 0, 1, FALSE), Text(1, 0, 0, FALSE),
            Text(0, 0, 0, TRUE)}

\* The project of lib, app and tool is one that BuildsAreClean speaks of.
ASSUME PlainAssumption == PlainProject

-----------------------------------------------------------------------------
(* Small projects for BuildGraph: every import relation over three modules *)
(* of one directory; modules that two roots or two packages provide,       *)
(* internal modules included; and every way three targets link each other  *)
(* while they share sources or keep module sets.                           *)

App == <<"app">>
Lib == <<"lib">>

Target(name, kind, root, links) ==
    [name |-> name, kind |-> kind, root |-> root, links |-> links,
     triple |-> NullOpt, mode |-> "debug", env |-> "hosted", search |-> <<>>,
     package |-> <<name>>, packageRoots |-> {},
     moduleSets |-> [n \in {} |-> <<>>]]

World(targets, imports) ==
    [rootDir |-> <<>>, cliRoots |-> <<>>, targets |-> targets,
     explicit |-> "exe", default |-> NullOpt, mode |-> NullOpt, env |-> NullOpt,
     imports |-> imports, broken |-> {},
     names |-> <<"a", "b", "c", "internal", "x", "y">>]

One(t) == [n \in {t.name} |-> t]

\* Every import relation over a, b and c, with one of them unparsable at most.
ImportWorlds ==
    {[World(One(Target("exe", "exe", Append(App, "a"), <<>>)),
            [p \in {Append(App, n) : n \in {"a", "b", "c"}} |-> f[Last(p)]])
        EXCEPT !.broken = bad] :
        f \in [{"a", "b", "c"} -> SUBSET {"a", "b", "c"}],
        bad \in {{}, {Append(App, "c")}}}

\* Two search roots; b and internal in either, both or none of them; the two
\* directories in one package or two, the library directory inside the
\* project or outside it; b as a module set of one or two files.
RootWorlds ==
    {[World(One([Target("exe", "exe", Append(App, "a"), <<>>) EXCEPT
                    !.search = <<App, Lib, App>>,
                    !.packageRoots = pk,
                    !.moduleSets = sets]),
            [p \in {Append(App, "a")} \cup here |->
                IF Last(p) = "a" THEN {"b", "internal"} \cap ia
                ELSE IF Last(p) = "b" THEN {"internal"} \cap ib
                ELSE {}])
        EXCEPT !.rootDir = dir] :
        here \in SUBSET {Append(d, n) : d \in {App, Lib},
                                        n \in {"b", "internal"}},
        ia \in {{"b"}, {"b", "internal"}},
        ib \in {{}, {"internal"}},
        pk \in {{}, {[package |-> <<"q">>, dir |-> Lib]}},
        sets \in {[n \in {} |-> <<>>],
                  [n \in {"b"} |-> <<Append(App, "b")>>],
                  [n \in {"b"} |-> <<Append(App, "b"), Append(Lib, "b")>>]},
        dir \in {<<>>, App}}

\* Three targets, two of them libraries (or one of them a second program),
\* every set of links between them, and entry modules that may import a
\* shared module or a library's entry.
LinkSets(S) == {SetToSeq(T) : T \in SUBSET S}

LinkWorlds ==
    {World([n \in {"exe", "x", "y"} |->
               CASE n = "exe" -> Target("exe", "exe", Append(App, "a"), le)
                 [] n = "x"   -> [Target("x", kx, Append(App, "x"), lx)
                                     EXCEPT !.triple = tr]
                 [] n = "y"   -> Target("y", "staticlib", Append(App, "y"), ly)],
           [p \in {Append(App, n) : n \in {"a", "c", "x", "y"}} |->
               CASE Last(p) = "a" -> ia
                 [] Last(p) = "x" -> ix
                 [] Last(p) = "y" -> iy
                 [] OTHER -> {}]) :
        le \in LinkSets({"x", "y", "z"}), lx \in LinkSets({"x", "y"}),
        ly \in LinkSets({"x"}), kx \in {"staticlib", "exe"},
        tr \in {NullOpt, "family", "other"},
        ia \in {{"x"}, {"c", "y"}}, ix \in {{}, {"c"}, {"y"}},
        iy \in {{}, {"c"}}}

\* A library whose module set owns the program's root source, as the first
\* file of the set or as a later one.
SetWorlds ==
    {World([n \in {"exe", "x"} |->
               IF n = "exe" THEN Target("exe", "exe", Append(dir, "a"), links)
               ELSE [Target("x", "staticlib", Append(App, "x"), <<>>) EXCEPT
                        !.moduleSets = [m \in {"a"} |->
                            <<Append(App, "a"), Append(Lib, "a")>>]]],
           [p \in {Append(App, "a"), Append(Lib, "a"), Append(App, "x"),
                    Append(dir, "b")} |->
               CASE Last(p) = "a" -> ia [] Last(p) = "x" -> ix [] OTHER -> {}]) :
        dir \in {App, Lib}, links \in {<<"x">>, <<"x", "x">>},
        ia \in {{}, {"b"}, {"x"}}, ix \in {{}, {"a"}}}

\* The target selection and the overrides of the command line.
ChoiceWorlds ==
    {[World(ts, [p \in {Append(App, "a"), Append(App, "x")} |-> {}]) EXCEPT
        !.explicit = ex, !.default = df, !.mode = md, !.env = en,
        !.cliRoots = <<Lib>>] :
        ts \in {One(Target("exe", "exe", Append(App, "a"), <<>>)),
                [n \in {"exe", "x"} |->
                    IF n = "exe" THEN Target(n, "exe", Append(App, "a"), <<>>)
                    ELSE Target(n, "test", Append(App, "x"), <<>>)]},
        ex \in {NullOpt, "exe", "z"}, df \in {NullOpt, "exe"},
        md \in {NullOpt, "release", "fast"},
        en \in {NullOpt, "freestanding", "bare"}}

MCWorlds == ImportWorlds \cup RootWorlds \cup LinkWorlds \cup SetWorlds \cup ChoiceWorlds

-----------------------------------------------------------------------------
(* Small build.toml files: a target with a root, then a few lines that     *)
(* reopen sections, spread arrays over lines, spell one path in two ways,  *)
(* give a root or a file to two owners, or are wrong.                      *)

A == <<"src", "a">>
B == <<"src", "b">>

Str(v) == [is |-> "string", v |-> v]
Arr(v) == [is |-> "array", v |-> v]
Number(n) == [is |-> "integer", v |-> n]

Header(path)     == [is |-> "header", path |-> path]
KeyLine(key, val)  == [is |-> "entry", key |-> key, val |-> val]
OpenLine(key, items) == [is |-> "open", key |-> key, items |-> items]

MCPreamble == <<KeyLine("schema", Number(1)), KeyLine("project", Str("p")),
                Header(<<"targets", "t">>), KeyLine("root", Str(A))>>

MCPathOrder == <<<<"build">>, <<"src">>, A, B, <<"src", "internal">>>>

MCLines ==
    {Header(<<"targets", "u">>), Header(<<>>), Header(<<"other">>),
     Header(<<"targets", "t">>),
     Header(<<"targets", "t", "packages", "q">>),
     Header(<<"targets", "t", "packages", "r">>),
     Header(<<"targets", "t", "module_sets", "a">>),
     Header(<<"targets", "t", "module_sets", "m">>),
     Header(<<"targets", "t", "tests">>),
     KeyLine("root", Str(<<"src", ".", "b">>)), KeyLine("root", Str(A)),
     KeyLine("env", Str("freestanding")), KeyLine("links", Arr(<<"u">>)),
     KeyLine("timeout_ms", Number(9)), KeyLine("kind", [is |-> "bad", v |-> <<>>]),
     KeyLine("roots", Arr(<<<<"src">>>>)),
     KeyLine("files", Arr(<<B, A>>)),
     OpenLine("roots", <<<<"src", "x", "..">>>>),
     OpenLine("files", <<B>>),
     [is |-> "items", items |-> <<A>>], [is |-> "close", items |-> <<>>],
     [is |-> "junk"]}

-----------------------------------------------------------------------------
NoGraph == /\ world = NullOpt /\ phase = "start" /\ frames = <<>> /\ calls = <<>>
           /\ visited = {} /\ nodes = <<>> /\ diags = {} /\ result = <<>>

BuildInit ==
    /\ Init /\ Project!Init
    /\ \/ part = "graph" /\ GraphInit
       \/ part \in {"project", "cache"} /\ NoGraph

BuildNext ==
    /\ UNCHANGED part
    /\ \/ part = "project" /\ Project!Next /\ UNCHANGED <<vars, graphVars>>
       \/ part = "graph" /\ GraphNext /\ UNCHANGED <<vars, fileVars>>
       \/ part = "cache" /\ Next /\ UNCHANGED <<graphVars, fileVars>>

BuildSpec ==
    BuildInit /\ [][BuildNext]_<<part, vars, graphVars, fileVars>>

-----------------------------------------------------------------------------
(* The property of ProjectFile, by the same name.                         *)

\* An accepted build.toml is read as it is written, and gives every source one
\* owner (ProjectFile).
AcceptedMeansWhatItSays == Project!AcceptedMeansWhatItSays
=============================================================================
