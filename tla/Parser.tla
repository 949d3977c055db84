------------------------------- MODULE Parser -------------------------------
(***************************************************************************)
(* The recursive-descent parser (src/compiler/parse), one action per       *)
(* procedure.  `todo` is the call stack read as a list of what is still to *)
(* be done: a procedure replaces itself by the calls of its body, chosen   *)
(* by the token at `index` at the moment it runs.  `nodes` is the tree     *)
(* under construction, innermost node last; a consumed token becomes a     *)
(* child of the innermost node, so that a tree shows which tokens belong   *)
(* to which operand.  Spans and texts are left out.  After the first error *)
(* the result is refused whatever the tree is, so only the kinds of the    *)
(* open nodes are kept, which later decisions still look at.               *)
(***************************************************************************)
EXTENDS Integers, Sequences, SequencesExt, FiniteSetsExt

CONSTANTS Sources,              \* token sequences, each ending in "eof"
          kMaxTypeExprDepth, kMaxUnaryExprDepth

VARIABLES tokens, index, todo, nodes, ok, agg

vars == <<tokens, index, todo, nodes, ok, agg>>

-----------------------------------------------------------------------------
(* Tokens.  "id", "_" and "u8" are identifiers: an ordinary name, the      *)
(* discard, and a built-in integer type.                                   *)
Peek(offset) == tokens[Min({index + offset, Len(tokens)})]
Current == Peek(0)
AtEnd == Current = "eof"
IsIdentifier(token) == token \in {"id", "_", "u8"}
IsLiteral(token) == token \in {"int", "float", "string", "char", "true", "false", "nil"}
IsPrefixUnaryOperator(token) == token \in {"!", "-", "&", "*"}
IsStatementTerminator(token) == token \in {"newline", "}", "eof"}
IsCaseBoundary(token) == token \in {"case", "default", "}"}
IsTypeExprStart(token) == token \in {"const", "*", "[", "(", "func"} \/ IsIdentifier(token)

(* The binary operators from the weakest level to the strongest.           *)
LadderSumFirst == << {".."}, {"||"}, {"&&"}, {"|"}, {"^"}, {"&"}, {"is"}, {"==", "!="},
                     {"<", "<=", ">", ">="}, {"+", "-"}, {"<<", ">>"}, {"*", "/", "%"} >>
Ladder == << {".."}, {"||"}, {"&&"}, {"|"}, {"^"}, {"&"}, {"is"}, {"==", "!="},
             {"<", "<=", ">", ">="}, {"<<", ">>"}, {"+", "-"}, {"*", "/", "%"} >>
LevelOf(token) ==
    LET at == {l \in DOMAIN Ladder : token \in Ladder[l]}
    IN  IF at = {} THEN 0 ELSE Max(at)

-----------------------------------------------------------------------------
(* The lookahead that tells a type from an expression.  An end of 0 means  *)
(* that no type starts at the offset.                                      *)
SkipDotted(offset) ==
    LET dots == {k \in 0 .. Len(tokens) :
                   \A j \in 0 .. (k - 1) : /\ Peek(offset + 2 * j) = "."
                                           /\ IsIdentifier(Peek(offset + 2 * j + 1))}
    IN  offset + 2 * Max(dots)

SkipArrayLengthLookahead(offset) ==
    LET count(j, k, token) == Cardinality({n \in j .. k : Peek(offset + n) = token})
        closed == {k \in 0 .. (Len(tokens) - index - offset) :
                     /\ Peek(offset + k) = "]"
                     /\ count(0, k, "]") = count(0, k, "[") + 1
                     /\ \A j \in 0 .. k : count(j, k, "(") <= count(j, k, ")")}
    IN  IF closed = {} THEN 0 ELSE offset + Min(closed) + 1

(* Body(value), with the value computed once.                             *)
Once(value, Body(_)) == CHOOSE result \in {Body(v) : v \in {value}} : TRUE

RECURSIVE SkipTypeExprLookahead(_, _), SkipTypeListLookahead(_, _, _)
SkipTypeListLookahead(offset, close, depth) ==
    IF Peek(offset) = close THEN offset + 1 ELSE
    Once(SkipTypeExprLookahead(offset, depth), LAMBDA next :
           CASE next = 0            -> 0
             [] Peek(next) = close  -> next + 1
             [] Peek(next) # "," \/ Peek(next + 1) = close -> 0
             [] OTHER               -> SkipTypeListLookahead(next + 1, close, depth))
SkipTypeExprLookahead(offset, depth) ==
    LET token == Peek(offset)
        named == SkipDotted(offset + 1)
        deeper(at) == SkipTypeExprLookahead(at, depth + 1)
    IN  CASE IsIdentifier(token) /\ Peek(named) # "<" -> named
          [] IsIdentifier(token) -> IF depth >= kMaxTypeExprDepth /\ Peek(named + 1) # ">"
                                    THEN 0 ELSE SkipTypeListLookahead(named + 1, ">", depth + 1)
          [] depth >= kMaxTypeExprDepth -> 0
          [] token \in {"const", "*"} -> deeper(offset + 1)
          [] token = "[" -> Once(SkipArrayLengthLookahead(offset + 1), LAMBDA after :
                                   IF after = 0 THEN 0 ELSE deeper(after))
          [] token = "(" -> Once(deeper(offset + 1), LAMBDA inner :
                                   IF inner # 0 /\ Peek(inner) = ")" THEN inner + 1 ELSE 0)
          [] token = "func" /\ Peek(offset + 1) = "(" ->
               Once(SkipTypeListLookahead(offset + 2, ")", depth + 1), LAMBDA next :
                      CASE next = 0                     -> 0
                        [] ~IsTypeExprStart(Peek(next)) -> next
                        [] Peek(next) = "(" -> SkipTypeListLookahead(next + 1, ")", depth + 1)
                        [] OTHER                        -> deeper(next))
          [] OTHER -> 0

LooksLikeBareIntegerConversionExpr == Current = "u8" /\ Peek(1) = "("
LooksLikeTypeCallExpr ==
    /\ Current = "("
    /\ Once(SkipTypeExprLookahead(1, 0),
            LAMBDA inner : inner # 0 /\ Peek(inner) = ")" /\ Peek(inner + 1) = "(")
LooksLikeTypeAggregateInitExpr ==
    /\ IsTypeExprStart(Current)
    /\ Once(SkipTypeExprLookahead(0, 0), LAMBDA end : end # 0 /\ Peek(end) = "{")
LooksLikePostfixTypeArgs ==
    /\ Current = "<"
    /\ Once(SkipTypeListLookahead(1, ">", 1), LAMBDA end : end # 0 /\ Peek(end) \in {"(", "{", "."})
LooksLikeBindingStmt ==
    LET names == {k \in 0 .. Len(tokens) :
                    \A j \in 0 .. (k - 1) : /\ Peek(2 * j + 1) = ","
                                            /\ IsIdentifier(Peek(2 * j + 2))}
    IN  IsIdentifier(Current) /\ Peek(2 * Max(names) + 1) \in {":", ":="}
LooksLikeVariantCasePattern ==
    /\ IsIdentifier(Current)
    /\ \/ Peek(1) = "("
       \/ /\ Peek(1) = "." /\ IsIdentifier(Peek(2))
          /\ Peek(3) = "(" \/ (Peek(3) = "." /\ IsIdentifier(Peek(4)))

-----------------------------------------------------------------------------
(* The tree.                                                               *)
Node(kind) == [kind |-> kind, typed |-> FALSE, kids |-> <<>>]
Innermost == Last(nodes)
SetInnermost(node) == [nodes EXCEPT ![Len(nodes)] = node]
AddChild(node, child) == IF ok THEN [node EXCEPT !.kids = Append(@, child)] ELSE node
Shapeless == [i \in DOMAIN nodes |-> [nodes[i] EXCEPT !.kids = <<>>]]
Leaf(token) == [kind |-> token, typed |-> FALSE, kids |-> <<>>]

IsNamed(node) == node.kind \in {"name", "qualified"}
RECURSIVE IsAssignmentTarget(_)
IsAssignmentTarget(node) ==
    \/ node.kind \in {"discard", "name", "qualified", "field", "deref", "index"}
    \/ node.kind = "paren" /\ Len(node.kids) > 1 /\ IsAssignmentTarget(node.kids[2])
NormalizeAssignmentTarget(node) ==
    IF node.kind = "name" /\ node.kids = <<Leaf("_")>>
    THEN [node EXCEPT !.kind = "discard"] ELSE node

-----------------------------------------------------------------------------
(* Single steps.                                                           *)
Calls(procedure) == todo # <<>> /\ Head(todo)[1] = procedure
Argument == Head(todo)[2]
Becomes(calls) == todo' = calls \o Tail(todo)
Pure(procedure, calls) ==
    Calls(procedure) /\ Becomes(calls) /\ UNCHANGED <<tokens, index, nodes, ok, agg>>

Take == <<"take">>
Err == <<"error">>
Skip == <<"newlines">>
Add == <<"add">>
Open(kind) == <<"open", kind>>
Wrap(kind) == <<"wrap", kind>>
Expect(token) == <<"consume", token>>
Kind(kind) == <<"kind", kind>>
Expr == <<"expr", TRUE>>
HeaderExpr == <<"expr", FALSE>>
Type(depth) == <<"type", depth>>
Ident == <<"identifier">>
Sync == <<"sync">>
Separator == <<"separator">>
Comma(procedure) == <<"comma", procedure>>
If(test, calls) == IF test THEN calls ELSE <<>>

Advanced == index' = IF AtEnd THEN index ELSE index + 1
Failed == ok' = FALSE /\ nodes' = Shapeless

Advance ==
    /\ Calls("take") /\ Becomes(<<>>) /\ Advanced
    /\ nodes' = SetInnermost(AddChild(Innermost, Leaf(Current)))
    /\ UNCHANGED <<tokens, ok, agg>>
ReportError == Calls("error") /\ Becomes(<<>>) /\ Failed /\ UNCHANGED <<tokens, index, agg>>
Consume == Pure("consume", <<IF Current = Argument THEN Take ELSE Err>>)
ParseIdentifier == Pure("identifier", <<IF IsIdentifier(Current) THEN Take ELSE Err>>)
SkipNewlines ==
    /\ Calls("newlines") /\ Becomes(<<>>)
    /\ index' = Min({j \in index .. Len(tokens) : tokens[j] # "newline"})
    /\ UNCHANGED <<tokens, nodes, ok, agg>>
Build ==
    /\ \/ /\ Calls("open") /\ nodes' = Append(nodes, Node(Argument))
       \/ /\ Calls("wrap")
          /\ nodes' = SetInnermost([AddChild(Node(Argument), Innermost) EXCEPT
                                      !.typed = Argument = "qualified" /\ Innermost.typed])
       \/ /\ Calls("kind") /\ nodes' = SetInnermost([Innermost EXCEPT !.kind = Argument])
       \/ /\ Calls("typed") /\ nodes' = SetInnermost([Innermost EXCEPT !.typed = TRUE])
       \/ /\ Calls("normalize") /\ nodes' = SetInnermost(NormalizeAssignmentTarget(Innermost))
       \/ /\ Calls("add")
          /\ nodes' = Append(Front(Front(nodes)), AddChild(Last(Front(nodes)), Innermost))
    /\ Becomes(<<>>) /\ UNCHANGED <<tokens, index, ok, agg>>

(* The comma loop of `do ... while (Match(kComma))`.                       *)
MoreAfterComma == Pure("comma", If(Current = ",", <<Take, Argument, Comma(Argument)>>))

(* The comma loop of a bracketed list: newlines and a trailing comma are   *)
(* admitted before the terminator.                                         *)
ItemsUntil ==
    Pure("items", LET item == Argument close == Head(todo)[3]
                  IN  If(Current # close, <<item, Skip, <<"moreItems", item, close>>>>)
                      \o <<Expect(close)>>)
MoreItems ==
    Pure("moreItems", If(Current = ",", <<Take, Skip, <<"nextItem", Argument, Head(todo)[3]>>>>))
NextItem ==
    Pure("nextItem", If(Current # Head(todo)[3],
                        <<Argument, Skip, <<"moreItems", Argument, Head(todo)[3]>>>>))
Listed(item, close) == <<Take, Skip, <<"items", item, close>>>>

SynchronizeTopLevel ==
    /\ Calls("syncTop") /\ Becomes(<<>>)
    /\ index' = Min({j \in index .. Len(tokens) :
                       tokens[j] \in {"func", "struct", "enum", "distinct", "type", "var",
                                      "const", "extern", "@", "eof"}})
    /\ UNCHANGED <<tokens, nodes, ok, agg>>
SynchronizeStatement ==
    /\ Calls("sync") /\ Becomes(<<>>)
    /\ LET stop == Min({j \in index .. Len(tokens) :
                          tokens[j] \in {"newline", "}", "case", "default", "eof"}})
       IN  index' = IF tokens[stop] = "newline"
                    THEN Min({j \in stop .. Len(tokens) : tokens[j] # "newline"})
                    ELSE stop
    /\ UNCHANGED <<tokens, nodes, ok, agg>>
RequireStatementSeparatorOrSync ==
    Pure("separator", CASE Current = "newline"       -> <<Skip>>
                        [] IsCaseBoundary(Current)   -> <<>>
                        [] OTHER                     -> <<Err, Sync>>)
ConsumeMemberSeparator ==
    Pure("memberSeparator", CASE Current = ","       -> <<Take, Skip>>
                              [] Current = "newline" -> <<Skip>>
                              [] Current = "}"       -> <<>>
                              [] OTHER               -> <<Err>>)
RequireSourceSeparator ==
    Pure("sourceSeparator", IF Current \in {"newline", "eof"} THEN <<Skip>> ELSE <<Err>>)

-----------------------------------------------------------------------------
(* Expressions.                                                            *)
Arg == <<"arg">>
ParseExpr ==
    /\ Calls("expr") /\ agg' = Argument
    /\ Becomes(<< <<"level", 1>>, <<"exprEnd", agg>> >>)
    /\ UNCHANGED <<tokens, index, nodes, ok>>
EndExpr ==
    /\ Calls("exprEnd") /\ Becomes(<<>>) /\ agg' = Argument
    /\ nodes' = IF Innermost.kind = "binary" /\ ok /\ Innermost.kids[2] = Leaf("..")
                THEN SetInnermost([Innermost EXCEPT !.kind = "range"]) ELSE nodes
    /\ UNCHANGED <<tokens, index, ok>>
ParseArg == Pure("arg", <<Expr, Add>>)
ParseLevel ==
    Pure("level", << <<"unary">> >> \o If(Argument <= Len(Ladder),
                                        << <<"rest", Len(Ladder), Argument>> >>))
(* The loops of the levels between `low` and `high`, which return at once  *)
(* unless the token is an operator of theirs.  `is` is not repeated.       *)
ParseRest ==
    Pure("rest", LET high == Argument low == Head(todo)[3] level == LevelOf(Current)
                 IN  If(level \in low .. high,
                        <<Wrap("binary"), Take, <<"level", level + 1>>, Add,
                          <<"rest", IF Current = "is" THEN level - 1 ELSE level, low>>>>))

(* What the lookahead promised is kept behind the call it was for: the end *)
(* and the start of the type, and whether an error had been reported yet.  *)
Promise(start, end) == <<"promised", index + end, index + start, ok>>
Promised(offset) == Promise(offset, SkipTypeExprLookahead(offset, 0))
TypePromised == Pure("promised", <<>>)
FieldInits == Listed(<<"fieldInit">>, "}")
ParseBareIntegerConversionExpr == <<Open("call"), Take>> \o Listed(Arg, ")")
ParseTypeCallExpr ==
    <<Open("call"), Take, Type(0), Promised(1), Expect(")"), Expect("("), Skip, <<"items", Arg, ")">>>>
ParseTypeAggregateInitExpr ==
    <<Open("aggregate"), Type(0), Promised(0), Expect("{"), Skip, <<"items", <<"fieldInit">>, "}">>>>
ParseBraceAggregateInitExpr == <<Open("aggregate")>> \o FieldInits
ParseEmptyCollectionExpr == <<Open("empty"), Take, Take>>
ParseUnaryExpr ==
    Pure("unary",
         CASE LooksLikeBareIntegerConversionExpr -> ParseBareIntegerConversionExpr
           [] LooksLikeTypeCallExpr -> ParseTypeCallExpr
           [] agg /\ LooksLikeTypeAggregateInitExpr -> ParseTypeAggregateInitExpr
           [] OTHER -> << <<"prefix", 0>> >>)
ParsePrefix ==
    Pure("prefix", LET close == << <<"postfix">> >> \o [i \in 1 .. Argument |-> Add]
                   IN  CASE ~IsPrefixUnaryOperator(Current)  -> close
                         [] Argument >= kMaxUnaryExprDepth -> <<Take, Err, <<"skipPrefix">>>> \o close
                         [] OTHER -> <<Open("unary"), Take, <<"prefix", Argument + 1>>>>)
SkipPrefix == Pure("skipPrefix", If(IsPrefixUnaryOperator(Current), <<Take, <<"skipPrefix">>>>))
ParsePostfixExpr == Pure("postfix", << <<"primary">>, <<"suffix">> >>)
ParseSuffix ==
    Pure("suffix",
         LET again(calls) == calls \o << <<"suffix">> >>
         IN  CASE Current = "." /\ IsIdentifier(Peek(1)) ->
                    again(<<Wrap(IF IsNamed(Innermost) THEN "qualified" ELSE "field"), Take, Take>>)
               [] Current = "." ->
                    again(<<Wrap("field"), Take, IF Peek(1) = "int" THEN Take ELSE Err>>)
               [] Current = ".*" -> again(<<Wrap("deref"), Take>>)
               [] Current = "[" -> again(<<Wrap("index"), Take, <<"bracket">>>>)
               [] ~Innermost.typed /\ LooksLikePostfixTypeArgs ->
                    again(<<Take, <<"callTypeArgs">>, Promise(1, SkipTypeListLookahead(1, ">", 1))>>)
               [] Current = "(" -> again(<<Wrap("call")>> \o Listed(Arg, ")"))
               [] agg /\ Current = "{" /\ IsNamed(Innermost) ->
                    again(<<Wrap("aggregate")>> \o FieldInits)
               [] Current = "with" ->
                    again(<<Wrap("update"), Take, Expect("{"), Skip,
                            <<"items", <<"updateInit">>, "}">>>>)
               [] OTHER -> <<>>)
ParseCallTypeArgs ==
    Pure("callTypeArgs", If(Current # ">", << <<"typed">> >>) \o << <<"list", Type(0), ">">> >>)
ParseIndexOrSlice ==
    \/ Pure("bracket", IF Current = ":" THEN << <<"sliceEnd">> >>
                       ELSE <<Expr, Add, <<"afterFirst">>>>)
    \/ Pure("afterFirst", IF Current = ":" THEN << <<"sliceEnd">> >> ELSE <<Expect("]")>>)
    \/ Pure("sliceEnd", <<Kind("slice"), Take, <<"sliceBound">>>>)
    \/ Pure("sliceBound", If(Current # "]", <<Expr, Add>>) \o <<Expect("]")>>)
ParseFieldInit ==
    \/ Pure("fieldInit", IF IsIdentifier(Current) /\ Peek(1) = ":"
                         THEN <<Take, Take, <<"initValue", TRUE>>>> ELSE <<Expr, Add>>)
    \/ Pure("updateInit", LET end == SkipDotted(1)
                          IN  IF IsIdentifier(Current) /\ Peek(end) = ":"
                              THEN [i \in 1 .. (end + 1) |-> Take] \o << <<"initValue", end = 1>> >>
                              ELSE <<Expr, Add>>)
    \/ Pure("initValue", IF Current \notin {",", "}"} THEN <<Expr, Add>>
                         ELSE If(~Argument, <<Err>>))
ParsePrimaryExprStays ==
    Pure("primary",
         CASE IsLiteral(Current) -> <<Open("literal"), Take>>
           [] IsIdentifier(Current) -> <<Open("name"), Take>>
           [] Current = "(" -> <<Open("paren"), Take, Expr, Add, Expect(")")>>
           [] OTHER -> <<Open("literal"), Err>>)
ParsePrimaryExpr ==
    Pure("primary",
         CASE Current = "[" /\ Peek(1) = "]" -> ParseEmptyCollectionExpr
           [] agg /\ Current = "{" -> ParseBraceAggregateInitExpr
           [] IsLiteral(Current) -> <<Open("literal"), Take>>
           [] IsIdentifier(Current) -> <<Open("name"), Take>>
           [] Current = "(" -> <<Open("paren"), Take, Expr, Add, Expect(")")>>
           [] OTHER -> <<Open("literal"), Err, Take>>)

-----------------------------------------------------------------------------
(* Types.                                                                  *)
ParseList ==
    Pure("list", If(Current # Head(todo)[3], <<Argument, Comma(Argument)>>)
                 \o <<Expect(Head(todo)[3])>>)
ParseProcedureParamTypes(inner) == <<Expect("("), <<"list", inner, ")">>>>
ParseTypeExpr ==
    Pure("type",
         LET inner == Type(Argument + 1)
         IN  CASE Argument >= kMaxTypeExprDepth -> <<Err>>
               [] Current \in {"const", "*"} -> <<Take, inner>>
               [] Current = "func" ->
                    <<Take>> \o ParseProcedureParamTypes(inner) \o << <<"procedureReturns", Argument>> >>
               [] Current = "[" -> <<Take, Expr, Add, Expect("]"), inner>>
               [] Current = "(" -> <<Take, inner, Expect(")")>>
               [] IsIdentifier(Current) -> <<Take, <<"dotted">>, <<"typeArgs", Argument>>>>
               [] OTHER -> <<Err>>)
ParseDotted ==
    Pure("dotted", CASE Current # "." -> <<>>
                     [] IsIdentifier(Peek(1)) -> <<Take, Take, <<"dotted">>>>
                     [] OTHER -> <<Take, Err>>)
ParseTypeArgs ==
    Pure("typeArgs", If(Current = "<", <<Take, <<"list", Type(Argument + 1), ">">>>>))
ParseProcedureReturnTypesNone == Pure("procedureReturns", <<>>)
ParseProcedureReturnTypes ==
    Pure("procedureReturns",
         CASE ~IsTypeExprStart(Current) -> <<>>
           [] Current = "(" -> <<Take, <<"list", Type(Argument + 1), ")">>>>
           [] OTHER -> <<Type(Argument + 1)>>)

-----------------------------------------------------------------------------
(* Statements.                                                             *)
Block == <<"block">>
ExprList == <<"exprList">>
Body == <<HeaderExpr, Add, Block, Add>>
Takes(count) == [i \in 1 .. count |-> Take]
BindingTail(storage, inferred, discards) == <<"bindingTail", storage, inferred, discards>>

ParseWhileStmt == <<Open("while"), Take>> \o Body
ParseSwitchStmt == <<Open("switch"), Take, HeaderExpr, Add, Expect("{"), Skip, <<"cases">>>>
ParseDeferStmt == <<Open("defer"), Take, Expr, Add>>
ParseBindingStmt(storage, inferred) ==
    <<Open("bind")>> \o If(~inferred, <<Take>>) \o <<BindingTail(storage, inferred, TRUE)>>
ParseBlockStmt ==
    \/ Pure("block", IF Current = "{" THEN <<Open("block"), Take, Skip, <<"statements">>>>
                     ELSE <<Open("block"), Err>>)
    \/ Pure("statements", IF Current \in {"}", "eof"} THEN <<Expect("}")>>
                          ELSE << <<"statement">>, Add, Separator, <<"statements">> >>)
ParseStatement ==
    Pure("statement",
         CASE Current = "{"      -> <<Block>>
           [] Current = "if"     -> << <<"if">> >>
           [] Current = "switch" -> ParseSwitchStmt
           [] Current = "for"    -> <<Open("for"), Take, <<"for">>>>
           [] Current = "while"  -> ParseWhileStmt
           [] Current = "return" -> <<Open("return"), Take, <<"return">>>>
           [] Current \in {"break", "continue"} -> <<Open(Current), Take>>
           [] Current = "defer"  -> ParseDeferStmt
           [] Current = "var"    -> ParseBindingStmt(TRUE, FALSE)
           [] Current = "const"  -> ParseBindingStmt(FALSE, FALSE)
           [] LooksLikeBindingStmt -> ParseBindingStmt(TRUE, TRUE)
           [] OTHER              -> <<Open("stmt"), Expr, <<"assignOrExpr">>>>)
ParseIfStmt ==
    \/ Pure("if", <<Open("if"), Take>> \o Body \o << <<"else">> >>)
    \/ Pure("else", CASE Current # "else" -> <<>>
                      [] Peek(1) = "if"   -> <<Take, <<"if">>, Add>>
                      [] OTHER            -> <<Take, Block, Add>>)
ParseSwitchCase == <<Take, <<"pattern">>, Expect(":"), <<"caseBody">>>>
ParseDefaultCase == <<Take, Expect(":"), <<"caseBody">>>>
ParseSwitchCases ==
    Pure("cases",
         CASE Current \in {"}", "eof"} -> <<Expect("}")>>
           [] Current = "case" -> ParseSwitchCase \o <<Separator, <<"cases">>>>
           [] Current = "default" -> ParseDefaultCase \o <<Separator, <<"cases">>>>
           [] OTHER -> <<Err, Sync, Separator, <<"cases">>>>)
ParseCaseBodyStatements ==
    \/ Pure("caseBody", If(~IsCaseBoundary(Current) /\ Current \notin {"newline", "eof"},
                           << <<"statement">>, Add>>)
                        \o <<Separator, <<"caseRest">>>>)
    \/ Pure("caseRest", If(~IsCaseBoundary(Current) /\ ~AtEnd,
                           << <<"statement">>, Add, Separator, <<"caseRest">>>>))
ParseCaseVariantName == Takes(CASE Peek(1) = "(" -> 1 [] Peek(3) = "(" -> 3 [] OTHER -> 5)
ParseCasePattern ==
    Pure("pattern", IF LooksLikeVariantCasePattern
                    THEN ParseCaseVariantName \o << <<"bindings">> >> ELSE <<Expr, Add>>)
ParseCasePatternBindings == Pure("bindings", If(Current = "(", <<Take, <<"list", Ident, ")">>>>))
ParseForStmt ==
    Pure("for", LET pair == IsIdentifier(Current) /\ Peek(1) = "," /\ IsIdentifier(Peek(2))
                IN  CASE IsIdentifier(Current) /\ Peek(1) = "in" -> Takes(2) \o Body
                      [] pair /\ Peek(3) = "in" -> Takes(4) \o Body
                      [] OTHER -> Body)
ParseReturnStmt == Pure("return", If(~IsStatementTerminator(Current), <<ExprList>>))
ParseExprList ==
    \/ Pure("exprList", <<Expr, Add, <<"moreExprs">>>>)
    \/ Pure("moreExprs", If(Current = ",", <<Take, <<"nextExpr">>>>))
    \/ Pure("nextExpr", If(~IsStatementTerminator(Current), <<ExprList>>))
ParseAssignOrExprStmt ==
    Pure("assignOrExpr",
         CASE Current = "=" -> << <<"normalize">>, Add, Take, ExprList>>
           [] Current = "," -> << <<"target">>, <<"targets">>, Expect("="), ExprList>>
           [] OTHER -> <<Add>>)
ParseAssignmentTarget ==
    \/ Pure("target", << <<"normalize">> >> \o If(~IsAssignmentTarget(Innermost), <<Err>>) \o <<Add>>)
    \/ Pure("targets", If(Current = ",", <<Take, <<"postfix">>, <<"target">>, <<"targets">>>>))
ParseBindingTail ==
    \/ Pure("bindingTail",
            LET storage == Argument inferred == Head(todo)[3] name == <<"bindingName", Head(todo)[4]>>
            IN  <<name, Comma(name), <<"bindingValue", storage, inferred>>>>)
    \/ Pure("bindingValue",
            CASE Current = ":=" -> If(~Head(todo)[3], <<Err>>) \o <<Take, ExprList>>
              [] Current = ":" -> <<Take, Type(0), <<"initializer", Argument>>>>
              [] OTHER -> <<Err>>)
    \/ Pure("initializer", CASE Current = "=" -> <<Take, ExprList>>
                             [] ~Argument -> <<Err>>
                             [] OTHER -> <<>>)
ParseBindingPattern ==
    Pure("bindingName", CASE ~IsIdentifier(Current) -> <<Err>>
                          [] Current = "_" /\ ~Argument -> <<Take, Err>>
                          [] OTHER -> <<Take>>)

-----------------------------------------------------------------------------
(* Declarations.                                                           *)
ParseAttributes ==
    \/ Pure("attributes", If(Current = "@", <<Take, Ident, <<"attributeArgs">>, <<"attributes">>>>))
    \/ Pure("attributeArgs",
            If(Current = "(", <<Take>> \o If(Peek(1) # ")", << <<"attributeArg">> >>) \o <<Expect(")")>>))
    \/ Pure("attributeArg", IF IsIdentifier(Current) \/ IsLiteral(Current)
                            THEN <<Take, Comma(<<"attributeArg">>)>> ELSE <<Err>>)
ParseImportDecl ==
    \/ Pure("imports", If(Current = "import",
                          <<Take, Ident>> \o If(IsIdentifier(Peek(1)), << <<"path">> >>)
                          \o << <<"sourceSeparator">>, <<"imports">> >>))
    \/ Pure("path", If(Current = "/", IF IsIdentifier(Peek(1)) THEN <<Take, Take, <<"path">>>>
                                      ELSE <<Take, Err>>))
ParseExternFuncDecl ==
    <<Take, Expect("("), Ident, Expect(")"), Expect("func"), <<"signature">>>>
ParseFuncDecl == <<Take, <<"signature">>, Block, Add>>
MemberList(member) == <<Expect("{"), Skip, <<"members", member>>>>
ParseStructDecl == <<Take, Ident, <<"typeParams">>>> \o MemberList(<<"field">>)
ParseEnumDecl == <<Take, Ident, <<"typeParams">>>> \o MemberList(<<"variant">>)
ParseDistinctDecl == <<Take, Ident, Expect("="), Type(0)>>
ParseTypeAliasDecl == <<Take, Ident, <<"typeParams">>, Expect("="), Type(0)>>
ParseBindingDecl(storage) == <<Take, BindingTail(storage, FALSE, FALSE)>>
ParseTopLevelDecl ==
    \/ Pure("topLevel", If(~AtEnd, <<Open("decl"), <<"attributes">>>>
                                   \o If(Current = "@", <<Skip>>)
                                   \o << <<"decl">>, Add, Skip, <<"topLevel">>>>))
    \/ Pure("decl",
            CASE Current = "export"   -> <<Take, Err, <<"exportBlock">>, <<"syncTop">>>>
              [] Current = "extern"   -> ParseExternFuncDecl
              [] Current = "func"     -> ParseFuncDecl
              [] Current = "struct"   -> ParseStructDecl
              [] Current = "enum"     -> ParseEnumDecl
              [] Current = "distinct" -> ParseDistinctDecl
              [] Current = "type"     -> ParseTypeAliasDecl
              [] Current = "var"      -> ParseBindingDecl(TRUE)
              [] Current = "const"    -> ParseBindingDecl(FALSE)
              [] OTHER                -> <<Err, <<"syncTop">>>>)
SkipExportBlock ==
    /\ Calls("exportBlock") /\ Becomes(<<>>)
    /\ LET depth(j) == Cardinality({k \in index .. j : tokens[k] = "{"})
                       - Cardinality({k \in index .. j : tokens[k] = "}"})
       IN  index' = IF Current # "{" THEN index
                    ELSE Min({Len(tokens)} \cup {j + 1 : j \in {k \in index .. (Len(tokens) - 1) : depth(k) = 0}})
    /\ UNCHANGED <<tokens, nodes, ok, agg>>
ParseTypeParams == Pure("typeParams", If(Current = "<", <<Take, <<"list", Ident, ">">>>>))
ParseFuncLikeTail ==
    Pure("signature", <<Ident, <<"typeParams">>, Expect("("), <<"list", <<"parameter">>, ")">>,
                        <<"returnTypes">>>>)
ParseParameter == Pure("parameter", << <<"attributes">>, Ident, Expect(":"), Type(0)>>)
ParseReturnTypes ==
    Pure("returnTypes", CASE Current \in {"{", "newline", "eof"} -> <<>>
                          [] Current = "(" -> <<Take, <<"list", Type(0), ")">>>>
                          [] OTHER -> <<Type(0)>>)
ParseMembers ==
    Pure("members", IF Current \in {"}", "eof"} THEN <<Expect("}")>>
                    ELSE <<Argument, <<"memberSeparator">>, <<"members", Argument>>>>)
ParseFieldDecl == Pure("field", <<Ident, Expect(":"), Type(0)>>)
ParseEnumVariantDecl ==
    \/ Pure("variant", <<Ident, <<"payload">>>>)
    \/ Pure("payload", If(Current = "(", <<Take, <<"list", <<"variantField">>, ")">>>>))
ParseVariantField ==
    Pure("variantField", If(IsIdentifier(Current) /\ Peek(1) = ":", <<Take, Take>>) \o <<Type(0)>>)

-----------------------------------------------------------------------------
Init ==
    /\ tokens \in Sources
    /\ index = 1 /\ ok = TRUE /\ agg = TRUE
    /\ nodes = <<Node("file")>>
    /\ todo = <<Skip, <<"imports">>, Skip, <<"topLevel">>>>

Infrastructure ==
    \/ Advance \/ ReportError \/ Consume \/ ParseIdentifier \/ SkipNewlines \/ Build
    \/ MoreAfterComma \/ ItemsUntil \/ MoreItems \/ NextItem \/ ParseList
    \/ SynchronizeTopLevel \/ SynchronizeStatement \/ RequireStatementSeparatorOrSync
    \/ ConsumeMemberSeparator \/ RequireSourceSeparator
Expressions ==
    \/ ParseExpr \/ EndExpr \/ ParseArg \/ ParseLevel \/ ParseRest \/ TypePromised
    \/ ParseUnaryExpr \/ ParsePrefix \/ SkipPrefix \/ ParsePostfixExpr \/ ParseSuffix
    \/ ParseCallTypeArgs \/ ParseIndexOrSlice \/ ParseFieldInit \/ ParsePrimaryExpr
Types == ParseTypeExpr \/ ParseDotted \/ ParseTypeArgs \/ ParseProcedureReturnTypes
Statements ==
    \/ ParseBlockStmt \/ ParseStatement \/ ParseIfStmt \/ ParseSwitchCases
    \/ ParseCaseBodyStatements \/ ParseCasePattern \/ ParseCasePatternBindings \/ ParseForStmt \/ ParseReturnStmt
    \/ ParseExprList \/ ParseAssignOrExprStmt \/ ParseAssignmentTarget
    \/ ParseBindingTail \/ ParseBindingPattern
Declarations ==
    \/ ParseAttributes \/ ParseImportDecl \/ ParseTopLevelDecl \/ SkipExportBlock
    \/ ParseTypeParams \/ ParseFuncLikeTail \/ ParseParameter \/ ParseReturnTypes
    \/ ParseMembers \/ ParseFieldDecl \/ ParseEnumVariantDecl \/ ParseVariantField

Next == Infrastructure \/ Expressions \/ Types \/ Statements \/ Declarations


-----------------------------------------------------------------------------
(* Properties.                                                             *)
Returned == todo = <<>>

(* The levels of grammar_spec.txt section 9, weakest first, with the shift *)
(* operators, which that document leaves out, between comparison and sum.  *)
GrammarLevels ==
    [token \in UNION {Ladder[l] : l \in DOMAIN Ladder} |->
       CASE token = ".." -> 1 [] token = "||" -> 2 [] token = "&&" -> 3 [] token = "|" -> 4
         [] token = "^" -> 5 [] token = "&" -> 6 [] token = "is" -> 7
         [] token \in {"==", "!="} -> 8 [] token \in {"<", "<=", ">", ">="} -> 9
         [] token \in {"<<", ">>"} -> 10 [] token \in {"+", "-"} -> 11 [] OTHER -> 12]

Strength(node) ==
    CASE node.kind \in {"binary", "range"} -> GrammarLevels[node.kids[2].kind]
      [] node.kind = "unary"               -> 13
      [] OTHER                             -> 14

RECURSIVE GroupedAsWritten(_)
GroupedAsWritten(node) ==
    /\ node.kind \in {"binary", "range"} =>
         LET level == GrammarLevels[node.kids[2].kind]
         IN  /\ Len(node.kids) = 3
             /\ Strength(node.kids[1]) >= level + (IF level = 7 THEN 1 ELSE 0)
             /\ Strength(node.kids[3]) > level
    /\ node.kind = "unary" => Strength(node.kids[2]) >= 13
    /\ node.kind \in {"field", "qualified", "deref", "index", "slice", "call", "aggregate", "update"} =>
         node.kids # <<>> /\ Strength(node.kids[1]) = 14
    /\ \A i \in DOMAIN node.kids : GroupedAsWritten(node.kids[i])

RECURSIVE Leaves(_)
Leaves(node) == IF node.kids = <<>> THEN <<node.kind>>
                ELSE FlattenSeq([i \in DOMAIN node.kids |-> Leaves(node.kids[i])])

(* A file that is accepted is the file that was written: the tree holds    *)
(* its tokens in order, newlines aside, and groups every operator with the *)
(* operands the grammar gives it, whatever lookahead, unary prefix,        *)
(* postfix chain or header context it was met in.                          *)
AcceptedAsWritten ==
    Returned /\ ok /\ nodes # <<>> =>
        /\ AtEnd /\ Len(nodes) = 1 /\ agg
        /\ GroupedAsWritten(nodes[1])
        /\ nodes[1].kids # <<>> =>
             Leaves(nodes[1]) = SelectSeq(tokens, LAMBDA t : t \notin {"newline", "eof"})

(* The types that lookahead takes and ParseTypeExpr may refuse: one with   *)
(* an array length of which lookahead sees only that its brackets close    *)
(* (it may be empty, or no expression), and one nested to the limit, where *)
(* only ParseTypeExpr counts the name at the bottom.                       *)
PlainLength(type, i) == /\ IsIdentifier(type[i + 1]) \/ IsLiteral(type[i + 1])
                        /\ type[i + 2] = "]"
MayBeRefused(type) ==
    \/ \E i \in DOMAIN type : type[i] = "[" /\ ~PlainLength(type, i)
    \/ Quantify(DOMAIN type, LAMBDA i : type[i] \in {"const", "*", "[", "(", "<", "func"})
          >= kMaxTypeExprDepth

(* Where the lookahead took tokens for a type, the type parser, which is   *)
(* written separately, reads the same tokens as that type, or refuses one  *)
(* of those named above; it never stops elsewhere, and refuses no other.   *)
LookaheadKeepsItsPromise ==
    Calls("promised") =>
        LET end == Argument start == Head(todo)[3] unspoilt == Head(todo)[4]
        IN  IF ok THEN index = end
            ELSE unspoilt => MayBeRefused(SubSeq(tokens, start, end - 1))

(* Nothing a field or a variant can start with, no separator and no end:   *)
(* the loops of ParseStructDecl and ParseEnumDecl turn on such a token.    *)
NoMemberHere ==
    /\ Calls("members") /\ ~IsIdentifier(Current)
    /\ Current \notin {",", "newline", "}", "eof"}
    /\ \/ Argument = <<"variant">> /\ Current # "("
       \/ Argument = <<"field">> /\ Current # ":" /\ ~IsTypeExprStart(Current)

(* Whatever the tokens, the parser gets through them, except when it meets *)
(* a member list at a token no member starts with.                         *)
ParseEnds == <>(Returned \/ NoMemberHere)

(* "The important correctness property here was compiler progress": every  *)
(* parse ends.                                                             *)
EveryParseEnds == <>Returned
=============================================================================
