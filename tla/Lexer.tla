------------------------------- MODULE Lexer -------------------------------
(***************************************************************************)
(* The lexer (src/compiler/lex/lexer.cpp): one action per branch of its    *)
(* main loop.  A character is a one-letter string and "end" the place      *)
(* behind the last one.  `lexed` keeps the kind and the place of every     *)
(* token, whether a diagnostic was reported for it, and the decoded value  *)
(* of an integer or character literal.                                     *)
(***************************************************************************)
EXTENDS Integers, Sequences, FiniteSetsExt, SequencesExt

CONSTANTS Texts, IntBits    \* texts to lex; the width of std::int64_t

VARIABLES text, at, lexed, lexOk

lexVars == <<text, at, lexed, lexOk>>

Char(i) == IF i <= Len(text) THEN text[i] ELSE "end"
Finished == at > Len(text)

Decimal == {"0", "1", "7"}
Hexadecimal == Decimal \cup {"e", "f"}
Letters == {"e", "f", "n", "x", "_"}
Blank == {" ", "\r"}
EscapedChars == {"\\", "n", "0"}
Keywords == {<<"f", "n">>}         \* stands for the keyword table
NoValue == -1
MaxInt == 2 ^ (IntBits - 1) - 1

DigitValue(c) == CASE c = "0" -> 0 [] c = "1" -> 1 [] c = "7" -> 7 [] c = "e" -> 14 [] c = "f" -> 15

(* ParseIntegerLiteralValue: separators are skipped, and a value that does *)
(* not fit is no value.                                                    *)
FitsWithDigitLoose(value, digit, base) == value * base <= MaxInt
FitsWithDigit(value, digit, base) == value <= (MaxInt - digit) \div base
ParseIntegerLiteralValue(lexeme) ==
    LET hex == Len(lexeme) >= 2 /\ lexeme[1] = "0" /\ lexeme[2] = "x"
        base == IF hex THEN 16 ELSE 10
        digits == SelectSeq(IF hex THEN SubSeq(lexeme, 3, Len(lexeme)) ELSE lexeme, LAMBDA c : c # "_")
        more(value, c) ==
            IF value = NoValue \/ ~FitsWithDigit(value, DigitValue(c), base) THEN NoValue
            ELSE value * base + DigitValue(c)
    IN  IF digits = <<>> THEN NoValue ELSE FoldLeft(more, 0, digits)

-----------------------------------------------------------------------------
(* ConsumeDigitSequence from position p: a maximal run of digits and       *)
(* underscores; each underscore must be allowed, come after a digit and be *)
(* followed by one.                                                        *)
DigitsEnd(p, digits) == Min({q \in p .. (Len(text) + 1) : Char(q) \notin digits \cup {"_"}})
DigitsOk(p, digits, separator) ==
    LET run == p .. (DigitsEnd(p, digits) - 1)
    IN  /\ \E i \in run : Char(i) \in digits
        /\ \A i \in run : Char(i) = "_" =>
             separator /\ Char(i + 1) \in digits /\ \E j \in p .. i : Char(j) \in digits

Token(kind, to, ok, value) == [kind |-> kind, from |-> at, to |-> to, ok |-> ok, value |-> value]
Lexeme(token) == SubSeq(text, token.from, token.to - 1)
Emit(token) ==
    /\ lexed' = Append(lexed, token) /\ at' = token.to /\ lexOk' = (lexOk /\ token.ok)
    /\ UNCHANGED text

LexNumber ==
    LET hex == Char(at) = "0" /\ Char(at + 1) = "x"
        whole == DigitsEnd(at, Decimal)
        dotted == Char(whole) = "." /\ Char(whole + 1) # "."
        part == IF dotted THEN DigitsEnd(whole + 1, Decimal) ELSE whole
        raised == Char(part) = "e"
        power == part + (IF Char(part + 1) \in {"+", "-"} THEN 2 ELSE 1)
        to == CASE hex -> DigitsEnd(at + 2, Hexadecimal)
                [] raised -> DigitsEnd(power, Decimal)
                [] OTHER -> part
        fine == IF hex THEN DigitsOk(at + 2, Hexadecimal, TRUE)
                ELSE /\ DigitsOk(at, Decimal, TRUE)
                     /\ dotted => DigitsOk(whole + 1, Decimal, TRUE)
                     /\ raised => DigitsOk(power, Decimal, FALSE)
        float == ~hex /\ (dotted \/ raised)
    IN  /\ ~Finished /\ Char(at) \in Decimal
        /\ Emit(Token(IF float THEN "float" ELSE "int", to, fine,
                      IF float THEN NoValue ELSE ParseIntegerLiteralValue(SubSeq(text, at, to - 1))))

(* Where the scan of a quoted literal stops: behind the closing quote, or  *)
(* behind the line break, or at the end.                                   *)
RECURSIVE QuoteScan(_, _, _, _)
QuoteScan(p, quote, items, ok) ==
    CASE Char(p) = "end"          -> [to |-> p, items |-> items, ok |-> FALSE]
      [] Char(p) \in {"\n", "\r"} -> [to |-> p + 1, items |-> items, ok |-> FALSE]
      [] Char(p) = quote          -> [to |-> p + 1, items |-> items, ok |-> ok]
      [] Char(p) # "\\"           -> QuoteScan(p + 1, quote, Append(items, Char(p)), ok)
      [] Char(p + 1) = "end"      -> [to |-> p + 1, items |-> items, ok |-> FALSE]
      [] OTHER -> LET known == Char(p + 1) \in EscapedChars \cup {quote}
                  IN  QuoteScan(p + 2, quote, IF known THEN Append(items, Char(p + 1)) ELSE items,
                                ok /\ known)
LexString ==
    /\ ~Finished /\ Char(at) = "\""
    /\ LET scan == QuoteScan(at + 1, "\"", <<>>, TRUE)
       IN  Emit(Token("string", scan.to, scan.ok, NoValue))
OneByte(items) == Len(items) = 1
LexCharLiteral ==
    /\ ~Finished /\ Char(at) = "'"
    /\ LET scan == QuoteScan(at + 1, "'", <<>>, TRUE)
       IN  Emit(Token("char", scan.to, scan.ok /\ OneByte(scan.items), NoValue))

LexIdentifier ==
    /\ Char(at) \in Letters
    /\ LET to == Min({q \in at .. (Len(text) + 1) : Char(q) \notin Letters \cup Decimal})
       IN  Emit(Token(IF SubSeq(text, at, to - 1) \in Keywords THEN "keyword" ELSE "id", to, TRUE, NoValue))

DoubleTokens == {<<":", "=">>, <<".", "*">>, <<".", ".">>, <<"=", "=">>, <<"!", "=">>, <<"<", "<">>,
                 <<"<", "=">>, <<">", ">">>, <<">", "=">>, <<"-", ">">>, <<"&", "&">>, <<"|", "|">>}
SingleTokens == {"{", "}", "(", ")", "[", "]", ",", ":", "@", ".", "=", "!", "<", ">", "+", "-", "*",
                 "/", "%", "&", "|", "^"}
LexPunctuation ==
    /\ Char(at) \in SingleTokens /\ ~(Char(at) = "/" /\ Char(at + 1) = "/")
    /\ Emit(Token("punctuation", IF <<Char(at), Char(at + 1)>> \in DoubleTokens THEN at + 2 ELSE at + 1,
                  TRUE, NoValue))

LineEnd(p) == Min({q \in p .. (Len(text) + 1) : Char(q) \in {"\n", "end"}})
IsTrivia(p) == Char(p) \in Blank \/ (Char(p) = "/" /\ Char(p + 1) = "/")
SkipTrivia ==
    /\ IsTrivia(at)
    /\ at' = IF Char(at) \in Blank THEN at + 1 ELSE LineEnd(at)
    /\ UNCHANGED <<text, lexed, lexOk>>
(* One newline token for a run of line breaks with only trivia between.    *)
RECURSIVE BreaksEnd(_)
BreaksEnd(p) ==
    CASE Char(p) \in Blank \cup {"\n"} -> BreaksEnd(p + 1)
      [] IsTrivia(p) /\ Char(p) = "/"   -> BreaksEnd(LineEnd(p))
      [] OTHER                          -> p
ConsumeNewline == Char(at) = "\n" /\ Emit(Token("newline", BreaksEnd(at), TRUE, NoValue))
UnexpectedCharacter ==
    /\ ~Finished /\ ~IsTrivia(at)
    /\ Char(at) \notin Letters \cup Decimal \cup SingleTokens \cup {"\n", "\"", "'"}
    /\ at' = at + 1 /\ lexOk' = FALSE
    /\ UNCHANGED <<text, lexed>>

LexInit == text \in Texts /\ at = 1 /\ lexed = <<>> /\ lexOk = TRUE
LexNext ==
    \/ SkipTrivia \/ ConsumeNewline \/ LexIdentifier \/ LexNumber \/ LexString
    \/ LexCharLiteral \/ LexPunctuation \/ UnexpectedCharacter

-----------------------------------------------------------------------------
(* Properties.  The literal forms of grammar_spec.txt section 1.           *)
DigitSequence(w, digits) ==
    /\ w # <<>> /\ w[1] \in digits /\ Last(w) \in digits
    /\ \A i \in DOMAIN w : w[i] \in digits \/ (w[i] = "_" /\ w[i + 1] # "_")
IntForm(w) ==
    \/ DigitSequence(w, Decimal)
    \/ Len(w) > 2 /\ w[1] = "0" /\ w[2] = "x" /\ DigitSequence(SubSeq(w, 3, Len(w)), Hexadecimal)
Exponent(w) ==
    /\ w # <<>> /\ w[1] = "e"
    /\ LET signed == Len(w) > 1 /\ w[2] \in {"+", "-"}
           digits == SubSeq(w, IF signed THEN 3 ELSE 2, Len(w))
       IN  DigitSequence(digits, Decimal) /\ "_" \notin ToSet(digits)
FloatForm(w) ==
    \E i \in 1 .. Len(w) :
       /\ DigitSequence(SubSeq(w, 1, i), Decimal)
       /\ \/ Exponent(SubSeq(w, i + 1, Len(w)))
          \/ /\ i < Len(w) /\ w[i + 1] = "."
             /\ \E j \in (i + 2) .. Len(w) :
                   /\ DigitSequence(SubSeq(w, i + 2, j), Decimal)
                   /\ j = Len(w) \/ Exponent(SubSeq(w, j + 1, Len(w)))
QuotedForm(w, quote) ==
    /\ Len(w) > 1 /\ w[1] = quote /\ Last(w) = quote
    /\ \E escapes \in SUBSET (2 .. (Len(w) - 2)) :
         /\ \A i \in escapes : i + 1 \notin escapes /\ w[i] = "\\" /\ w[i + 1] \in EscapedChars \cup {quote}
         /\ \A i \in 2 .. (Len(w) - 1) :
              i \in escapes \/ (i - 1) \in escapes \/ w[i] \notin {"\\", quote, "\n", "\r"}
OneByteForm(w) == QuotedForm(w, "'") /\ (Len(w) = 3 \/ (Len(w) = 4 /\ w[2] = "\\"))

(* The value of a well-formed integer literal as a numeral.                *)
Numeral(w) ==
    LET hex == Len(w) > 1 /\ w[2] = "x"
        digits == SelectSeq(IF hex THEN SubSeq(w, 3, Len(w)) ELSE w, LAMBDA c : c # "_")
    IN  FoldLeft(LAMBDA v, c : v * (IF hex THEN 16 ELSE 10) + DigitValue(c), 0, digits)

(* A literal is taken without a complaint exactly when it has one of the   *)
(* forms the grammar gives it, so neither a digit separator nor an escape  *)
(* slips through at the edge of a literal, and none is refused.  The value *)
(* of an integer literal is then that of its numeral, or no value when     *)
(* that is more than std::int64_t holds: never a wrapped or a rejected     *)
(* value at the limit (ConsumeDigitSequence, ParseIntegerLiteralValue).    *)
LiteralsMeanWhatTheySay ==
    \A i \in DOMAIN lexed :
       LET t == lexed[i] w == Lexeme(t)
       IN  /\ t.kind = "int" => (t.ok <=> IntForm(w))
           /\ t.kind = "float" => (t.ok <=> FloatForm(w))
           /\ t.kind = "string" => (t.ok <=> QuotedForm(w, "\""))
           /\ t.kind = "char" => (t.ok <=> OneByteForm(w))
           /\ t.kind = "int" /\ t.ok =>
                  t.value = IF Numeral(w) <= MaxInt THEN Numeral(w) ELSE NoValue
=============================================================================
