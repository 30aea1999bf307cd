-------------------------------- MODULE Lex --------------------------------
(***************************************************************************)
(* The lexer (lex.cc) and the loop of SrcFile::parse that drives it.       *)
(*                                                                         *)
(* The source is a sequence of bytes, of which only the class the lexer    *)
(* tells apart is kept.  "lead" and "badlead" begin a sequence of two      *)
(* bytes, of a letter and of a character Unicode does not assign; "trail"  *)
(* is a continuation byte.  "n" is any of n, r, t; "a" a hexadecimal       *)
(* letter other than e; "z" any other character a symbol may have.  "cr"   *)
(* is a carriage return, which is neither a blank nor a control character  *)
(* to the lexer (text.def) and so is part of a symbol.                     *)
(*                                                                         *)
(* p is _p - _begin.  A step is one call of nextChar with the switch on    *)
(* its result, or the end of a FOREACH_CHAR loop.  The reader is the C++   *)
(* function that is active.                                                *)
(***************************************************************************)
EXTENDS Integers, Sequences, FiniteSets

CONSTANT Inputs \* the sources to be parsed

Ascii == {"nl", "cr", "ws", "punct", "close", "plus", "slash", "eq", "dot", "zero",
          "dig", "nine", "quote", "dquote", "bslash", "x", "u", "U", "n", "e", "a", "z"}

Byte == Ascii \cup {"lead", "badlead", "trail"}

ASSUME InputsAssumption == \A s \in Inputs : s \in Seq(Byte)

Octal   == {"zero", "dig"}
Decimal == Octal \cup {"nine"}
Hexa    == Decimal \cup {"e", "a"}

Literal == {"DecIntLit", "OctIntLit", "HexIntLit", "FloatLit", "CharLit", "TextLit"}

Token == Literal \cup
  {"Error", "End", "Symbol", "LineComment", "nl", "punct", "close", "plus", "/", "=",
   "==", ".", "..", "..."}

VARIABLES
  src,       \* the bytes between _begin and _end
  p,         \* _p, as an offset
  tok,       \* _tok
  queued,    \* _tokIsQueued
  reader,    \* the active reader, or "idle" between calls of next()
  quote,     \* the delimiter of the literal being read
  left,      \* hexadecimal digits still to come in an escape sequence
  offset,    \* _srcLoc.offset
  line,      \* _srcLoc.line
  column,    \* _srcLoc.column
  lineBegin, \* _lineBegin, as an offset
  ret,       \* what next() returned last; "autosemi" is an inserted semicolon
  parse      \* SrcFile::parse: "parsing", or how it returned

vars == <<src, p, tok, queued, reader, quote, left, offset, line, column, lineBegin,
          ret, parse>>

Reader == {"idle", "root", "symbol", "eq", "solidus", "comment", "char", "charend",
           "text", "escape", "hexchar", "zero", "oct", "dec", "hex", "dot", "dotdot",
           "dotdotdot", "float", "exp", "expsign", "expdigits"}

TypeOK ==
  /\ src \in Seq(Byte)
  /\ p \in Int
  /\ tok \in Token
  /\ queued \in BOOLEAN
  /\ reader \in Reader
  /\ quote \in {"quote", "dquote"}
  /\ left \in 0 .. 8
  /\ {offset, line, column, lineBegin} \subseteq Int
  /\ ret \in Token \cup {"autosemi"}
  /\ parse \in {"parsing", "ok", "error"}

\* The constructor does not initialize _lineBegin: 0 stands for the address of
\* the source, -1 for any other.
Init ==
  /\ src \in Inputs
  /\ p = 0
  /\ tok = "End"
  /\ queued = FALSE
  /\ reader = "idle"
  /\ quote = "quote"
  /\ left = 0
  /\ offset = 0 /\ line = 0 /\ column = 0
  /\ lineBegin \in {0, -1}
  /\ ret = "End"
  /\ parse = "parsing"

-----------------------------------------------------------------------------
(* Decoding: utf8::unchecked::next and text::UTF8SizeOf *)

End == Len(src)

\* The byte at _end is the terminator of a string literal, or the zero that
\* fills the last page of a mapped file.  It lexes as whitespace.
ByteAt(q) == IF q = End THEN "ws" ELSE src[q + 1]

Truncated(q) == ByteAt(q) \in {"lead", "badlead"} /\ q + 2 > End

\* The character at q.  A sequence cut off by the end of the source yields
\* UCharMax, here "none", and consumes nothing.  A stray continuation byte,
\* 80 to 9F, is a control character.
CharAt(q) ==
  LET b == ByteAt(q)
  IN  IF Truncated(q) THEN "none"
      ELSE CASE b = "lead"    -> "z"
             [] b = "badlead" -> "bad"
             [] b = "trail"   -> "ws"
             [] OTHER         -> b

Width(q) ==
  IF Truncated(q) THEN 0 ELSE IF ByteAt(q) \in {"lead", "badlead"} THEN 2 ELSE 1

\* Bug: every character is given back as the longest encoding.
UTF8SizeOf_Longest(q) == 4

\* UTF8SizeOf of the decoded character, by which undoChar steps back.  It
\* depends on the character and not on the bytes read.
UTF8SizeOf(q) ==
  IF Truncated(q) THEN 4 ELSE IF ByteAt(q) \in {"lead", "badlead", "trail"} THEN 2 ELSE 1

-----------------------------------------------------------------------------
(* The outcome of a character for a reader: another reader goes on, or the *)
(* token ends, after the character or, with undoChar, before it            *)

Goes(r)       == [to |-> r, tok |-> "none", undo |-> FALSE]
Ends(t)       == [to |-> "idle", tok |-> t, undo |-> FALSE]
EndsBefore(t) == [to |-> "idle", tok |-> t, undo |-> TRUE]

Illegal == Ends("Error")

\* Bug: brackets do not end a statement.
EndsStatement_NotBrackets(t) == t \in Literal \cup {"Symbol"}

\* The tokens after which a line break is preceded by an inserted semicolon.
EndsStatement(t) == t \in Literal \cup {"Symbol", "close"}

\* The root switch of next(), when no symbol is being read ...
ReadRoot(c) ==
  CASE c = "ws"                       -> Goes("root")
    [] c \in {"nl", "punct", "close", "plus"} -> Ends(c)
    [] c = "slash"                    -> Goes("solidus")
    [] c = "eq"                       -> Goes("eq")
    [] c = "dot"                      -> Goes("dot")
    [] c = "zero"                     -> Goes("zero")
    [] c \in {"dig", "nine"}          -> Goes("dec")
    [] c = "quote"                    -> Goes("char")
    [] c = "dquote"                   -> Goes("text")
    [] c \in {"bad", "none"}          -> Illegal
    [] OTHER                          -> Goes("symbol")

\* ... and inside a symbol, which a quote does not end.
ReadSymbol(c) ==
  CASE c \in {"ws", "nl", "punct", "close", "plus", "slash", "eq", "dot"} ->
         EndsBefore("Symbol")
    [] c \in Decimal -> Goes("symbol")
    [] OTHER         -> ReadRoot(c)

ReadEq(c) ==
  CASE c = "none" -> Illegal
    [] c = "eq"   -> Ends("==")
    [] OTHER      -> EndsBefore("=")

ReadSolidus(c) ==
  CASE c = "none"  -> Illegal
    [] c = "slash" -> Goes("comment")
    [] OTHER       -> EndsBefore("/")

ReadLineComment(c) == IF c = "nl" THEN EndsBefore("LineComment") ELSE Goes("comment")

ReadCharLit(c) ==
  CASE c \in {"none", "nl", "cr", "quote"} -> Illegal
    [] c = "bslash"                        -> Goes("escape")
    [] OTHER                               -> Goes("charend")

ReadCharLitEnd(c) == IF c = "quote" THEN Ends("CharLit") ELSE Illegal

ReadTextLit(c) ==
  CASE c \in {"nl", "cr"} -> Illegal
    [] c = "dquote"       -> Ends("TextLit")
    [] c = "bslash"       -> Goes("escape")
    [] OTHER              -> Goes("text")

\* Where an escape sequence returns to.
Resumes == Goes(IF quote = "quote" THEN "charend" ELSE "text")

EscapeDigits(c) == CASE c = "x" -> 2 [] c = "u" -> 4 [] c = "U" -> 8 [] OTHER -> 0

ReadCharLitEscape(c) ==
  CASE c \in {"n", "bslash", quote} -> Resumes
    [] EscapeDigits(c) > 0          -> Goes("hexchar")
    [] OTHER                        -> Illegal

\* Whether the character the digits denote is assigned is not modelled.
ReadHexUChar(c) ==
  IF c \notin Hexa THEN {Illegal}
  ELSE IF left > 1 THEN {Goes("hexchar")} ELSE {Resumes, Illegal}

ReadZeroLeadingNumLit(c) ==
  CASE c = "x"     -> Goes("hex")
    [] c = "dot"   -> Goes("float")
    [] c \in Octal -> Goes("oct")
    [] OTHER       -> EndsBefore("DecIntLit")

\* Bug: any decimal digit continues an octal literal.
ReadOctIntLit_Decimal(c) ==
  CASE c \in Decimal -> Goes("oct")
    [] c = "dot"     -> Goes("float")
    [] OTHER         -> EndsBefore("OctIntLit")

ReadOctIntLit(c) ==
  CASE c \in Octal -> Goes("oct")
    [] c = "dot"   -> Goes("float")
    [] OTHER       -> EndsBefore("OctIntLit")

ReadDecIntLit(c) ==
  CASE c \in Decimal -> Goes("dec")
    [] c = "e"       -> Goes("exp")
    [] c = "dot"     -> Goes("float")
    [] OTHER         -> EndsBefore("DecIntLit")

ReadHexIntLit(c) == IF c \in Hexa THEN Goes("hex") ELSE EndsBefore("HexIntLit")

ReadDot(c) ==
  CASE c = "none"    -> Illegal
    [] c = "dot"     -> Goes("dotdot")
    [] c \in Decimal -> Goes("float")
    [] OTHER         -> EndsBefore(".")

ReadDotDot(c) == IF c = "dot" THEN Goes("dotdotdot") ELSE EndsBefore("..")

ReadDotDotDot(c) == IF c = "dot" THEN Illegal ELSE EndsBefore("...")

ReadFloatLitAtDot(c) ==
  CASE c \in Decimal -> Goes("float")
    [] c = "e"       -> Goes("exp")
    [] OTHER         -> EndsBefore("FloatLit")

ReadFloatLitAtExp(c) ==
  CASE c = "plus"    -> Goes("expsign")
    [] c \in Decimal -> Goes("expdigits")
    [] OTHER         -> EndsBefore("Error")

ReadExpSign(c) == IF c \in Decimal THEN Goes("expdigits") ELSE EndsBefore("Error")

ReadExpDigits(c) == IF c \in Decimal THEN Goes("expdigits") ELSE EndsBefore("FloatLit")

Outcomes(r, c) ==
  CASE r = "root"      -> {ReadRoot(c)}
    [] r = "symbol"    -> {ReadSymbol(c)}
    [] r = "eq"        -> {ReadEq(c)}
    [] r = "solidus"   -> {ReadSolidus(c)}
    [] r = "comment"   -> {ReadLineComment(c)}
    [] r = "char"      -> {ReadCharLit(c)}
    [] r = "charend"   -> {ReadCharLitEnd(c)}
    [] r = "text"      -> {ReadTextLit(c)}
    [] r = "escape"    -> {ReadCharLitEscape(c)}
    [] r = "hexchar"   -> ReadHexUChar(c)
    [] r = "zero"      -> {ReadZeroLeadingNumLit(c)}
    [] r = "oct"       -> {ReadOctIntLit(c)}
    [] r = "dec"       -> {ReadDecIntLit(c)}
    [] r = "hex"       -> {ReadHexIntLit(c)}
    [] r = "dot"       -> {ReadDot(c)}
    [] r = "dotdot"    -> {ReadDotDot(c)}
    [] r = "dotdotdot" -> {ReadDotDotDot(c)}
    [] r = "float"     -> {ReadFloatLitAtDot(c)}
    [] r = "exp"       -> {ReadFloatLitAtExp(c)}
    [] r = "expsign"   -> {ReadExpSign(c)}
    [] r = "expdigits" -> {ReadExpDigits(c)}

\* The readers that look for the end of the source before they read, and the
\* token they end with there.  The others call nextChar all the same.
TokenAtEnd(r) ==
  CASE r \in {"text", "hex", "exp", "expsign"} -> "Error"
    [] r \in {"zero", "dec"}                   -> "DecIntLit"
    [] r = "oct"                               -> "OctIntLit"
    [] r \in {"float", "expdigits"}            -> "FloatLit"
    [] r = "comment"                           -> "LineComment"
    [] r = "symbol"                            -> "Symbol"
    [] r = "root"                              -> "End"
    [] OTHER                                   -> "none"

-----------------------------------------------------------------------------

IsValid == p < End \/ queued

\* What SrcFile::parse does with the token next() returns.
Return(t) ==
  /\ ret' = t
  /\ parse' = IF t = "Error" THEN "error" ELSE parse


Unqueue == FALSE

\* next() returns the line break that it has put off.
NextQueued ==
  /\ reader = "idle" /\ parse = "parsing" /\ queued
  /\ queued' = Unqueue
  /\ Return(tok)
  /\ UNCHANGED <<src, p, tok, reader, quote, left, offset, line, column, lineBegin>>

\* Bug: the new line is taken to begin where the line break's own token does.
LineBegins_AtToken == offset

\* A line begins after the line break of the previous call.
LineBegins == p

NextBegins ==
  /\ reader = "idle" /\ parse = "parsing" /\ IsValid /\ ~queued
  /\ line' = IF tok = "nl" THEN line + 1 ELSE line
  /\ lineBegin' = IF tok = "nl" THEN LineBegins ELSE lineBegin
  /\ offset' = p
  /\ column' = p - lineBegin'
  /\ reader' = "root"
  /\ UNCHANGED <<src, p, tok, queued, quote, left, ret, parse>>

\* A token ends at position q.
EndToken(t, q) ==
  /\ p' = q
  /\ reader' = "idle"
  /\ tok' = t
  /\ IF t = "nl" /\ EndsStatement(tok)
       THEN queued' = TRUE /\ Return("autosemi")
       ELSE UNCHANGED queued /\ Return(t)
  /\ UNCHANGED <<src, quote, left, offset, line, column, lineBegin>>

\* One character.  Beyond _end, and before _begin, nothing is known.
ReadChar ==
  /\ reader # "idle"
  /\ p \in 0 .. End
  /\ p = End => TokenAtEnd(reader) = "none"
  /\ \E o \in Outcomes(reader, CharAt(p)) :
       LET after == p + Width(p)
           q     == IF o.undo THEN after - UTF8SizeOf(p) ELSE after
       IN  IF o.to = "idle" THEN EndToken(o.tok, q)
           ELSE /\ p' = q
                /\ reader' = o.to
                /\ quote' = IF CharAt(p) \in {"quote", "dquote"} /\ reader \in {"root", "symbol"}
                            THEN CharAt(p) ELSE quote
                /\ left' = IF o.to # "hexchar" THEN 0
                            ELSE IF reader = "escape" THEN EscapeDigits(CharAt(p))
                            ELSE left - 1
                /\ UNCHANGED <<src, tok, queued, offset, line, column, lineBegin, ret,
                               parse>>

\* The source ends.  At the root, next() returns End without recording it.
ReachEnd ==
  /\ reader # "idle"
  /\ p = End
  /\ TokenAtEnd(reader) # "none"
  /\ IF reader = "root"
       THEN /\ reader' = "idle"
            /\ Return("End")
            /\ UNCHANGED <<src, p, tok, queued, quote, left, offset, line, column,
                           lineBegin>>
       ELSE EndToken(TokenAtEnd(reader), p)

ParseReturns ==
  /\ reader = "idle" /\ parse = "parsing" /\ ~IsValid
  /\ parse' = "ok"
  /\ UNCHANGED <<src, p, tok, queued, reader, quote, left, offset, line, column,
                 lineBegin, ret>>

Next == NextQueued \/ NextBegins \/ ReadChar \/ ReachEnd \/ ParseReturns

Spec == Init /\ [][Next]_vars /\ WF_vars(Next)

-----------------------------------------------------------------------------
(* Properties *)

\* The lexer reads nothing but the source, and ends every token inside it.
WithinInput == p \in 0 .. End

\* Every line break of the source is returned as a token of its own and counted
\* once, whatever precedes it: comments, inserted semicolons and undone
\* characters included.
LinesCounted ==
  reader = "idle" /\ ret \notin {"End", "Error"} /\ WithinInput =>
    line + (IF tok = "nl" THEN 1 ELSE 0) = Cardinality({i \in 1 .. p : src[i] = "nl"})

\* The offset at which the line of the character at q begins.
LineStart(q) ==
  CHOOSE i \in 0 .. q : (i > 0 => src[i] = "nl") /\ \A j \in i + 1 .. q : src[j] # "nl"

Blank == {"ws", "trail"}

\* next() has returned a token it has just read: offset < p, and its text begins
\* after the whitespace at offset.
Returned == reader = "idle" /\ offset < p /\ WithinInput /\ ~queued /\ ret = tok

Start == CHOOSE i \in offset .. p :
  (i < p => src[i + 1] \notin Blank) /\ \A j \in offset + 1 .. i : src[j] \in Blank

Lexeme == SubSeq(src, Start + 1, p)

\* The column is that of the offset recorded, which is where next() was called and
\* not where the token begins.  On the first line it is counted from an address
\* that was never set (lex.cc:95).
ColumnOfOffset == Returned /\ line > 0 => column = offset - LineStart(offset)

\* The line of Lex::srcLocation is the token's, and from the second line on its
\* column is that of its offset, whatever tokens came before.  Of the token's own
\* place TokenLocated is to be asked.
LinesAndColumns == LinesCounted /\ ColumnOfOffset

\* lex.hh:44-45 calls srcLocation() the "Source location of current token": its
\* offset is that of the token's first byte.
TokenLocated == Returned /\ tok # "End" => offset = Start

AllIn(s, S) == \A i \in DOMAIN s : s[i] \in S

\* The grammar of numbers, as the comments above and in the readers have it
\* (lex.cc:284-288 and 370-374).
IsDecInt(s) ==
  \/ s = <<"zero">>
  \/ s # <<>> /\ s[1] # "zero" /\ AllIn(s, Decimal)

IsOctInt(s) == Len(s) > 1 /\ s[1] = "zero" /\ AllIn(s, Octal)

IsHexInt(s) ==
  Len(s) > 2 /\ s[1] = "zero" /\ s[2] = "x" /\ AllIn(SubSeq(s, 3, Len(s)), Hexa)

IsExponent(s) ==
  /\ Len(s) > 1 /\ s[1] = "e"
  /\ \/ AllIn(SubSeq(s, 2, Len(s)), Decimal)
     \/ Len(s) > 2 /\ s[2] = "plus" /\ AllIn(SubSeq(s, 3, Len(s)), Decimal)

IsFloat(s) ==
  \E k \in 1 .. Len(s) :
    LET mantissa == SubSeq(s, 1, k)
        exponent == SubSeq(s, k + 1, Len(s))
    IN  \/ AllIn(mantissa, Decimal) /\ IsExponent(exponent)
        \/ /\ k > 1
           /\ \E d \in 1 .. k : s[d] = "dot" /\ \A i \in (1 .. k) \ {d} : s[i] \in Decimal
           /\ exponent = <<>> \/ IsExponent(exponent)

\* A number has the text its grammar allows, with one exception: readHexIntLit
\* returns `0x` as a literal, though the grammar asks for a digit, unless the
\* source ends there.
NumbersButBareHex ==
  Returned =>
    /\ tok = "DecIntLit" => IsDecInt(Lexeme)
    /\ tok = "OctIntLit" => IsOctInt(Lexeme)
    /\ tok = "HexIntLit" => IsHexInt(Lexeme) \/ Lexeme = <<"zero", "x">>
    /\ tok = "FloatLit" => IsFloat(Lexeme)

\* Two slashes begin a comment, wherever there are no quotes.
HasComment(text) == \E i \in DOMAIN text : i > 1 /\ text[i - 1] = "slash" /\ text[i] = "slash"

\* The rule of lex.cc:110-115, on a line without quotes: a semicolon is inserted
\* after an identifier, a number or a closing bracket, told by the last character
\* that is no blank, and after nothing else; never on a line of blanks, and never on
\* a line with a comment, whose last token is the comment.  A carriage return
\* counts as an identifier.  There are no tokens ++ and --.
SemicolonExact ==
  [][p' = p + 1 /\ reader' = "idle" /\ tok' = "nl" =>
       LET begin == LineStart(p)
           text  == SubSeq(src, begin + 1, p)
           dark  == {i \in DOMAIN text : text[i] # "ws"}
           last  == text[CHOOSE i \in dark : \A j \in dark : j <= i]
       IN  AllIn(text, Byte \ {"quote", "dquote"}) =>
             /\ \/ HasComment(text) \/ dark = {}
                \/ last \in {"punct", "plus", "eq", "slash"}
                => ~queued'
             /\ /\ ~HasComment(text) /\ dark # {}
                /\ last \in Hexa \cup {"x", "u", "U", "n", "z", "cr", "bslash", "close"}
                => queued']_vars

\* A comment or a text literal ends in a sequence that is cut off by the end of the
\* source.  FOREACH_CHAR stops only when _p is _end, and never gets there.
Stuck == reader \in {"comment", "text"} /\ Truncated(p)


=============================================================================
