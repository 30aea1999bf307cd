----------------------------- MODULE LexProofs -----------------------------
(***************************************************************************)
(* Proofs about Lex, for every source that is a text file: valid UTF-8, as *)
(* far as the lexer tells, with a line break at the end.                   *)
(***************************************************************************)
EXTENDS Lex, FiniteSetTheorems, SequenceTheorems, TLAPS

Lead == {"lead", "badlead"}

\* A continuation byte follows every leading byte, and no other.
IsText(s) ==
  /\ s # <<>> /\ s[Len(s)] = "nl"
  /\ \A i \in 1 .. Len(s) : s[i] \in Lead => i < Len(s) /\ s[i + 1] = "trail"
  /\ \A i \in 1 .. Len(s) : s[i] = "trail" => i > 1 /\ s[i - 1] \in Lead

-----------------------------------------------------------------------------
(* Types *)

LEMMA DigitsBounded == ASSUME NEW c PROVE EscapeDigits(c) \in 0 .. 8
BY DEF EscapeDigits

\* What a reader makes of a character: no reader goes on after a line break, which
\* is a token, or illegal, or left for the next token.
Outcome(c) ==
  {EndsBefore(t) : t \in Token \ {"nl"}} \cup
  IF c = "nl" THEN {Ends("nl"), Illegal}
  ELSE {Ends(t) : t \in Token \ {"nl"}} \cup {Goes(r) : r \in Reader \ {"idle"}}

LEMMA OutcomesType ==
  ASSUME NEW r \in Reader \ {"idle"}, NEW c \in Ascii \cup {"none", "bad"},
         quote \in {"quote", "dquote"}
  PROVE  Outcomes(r, c) \subseteq Outcome(c)
<1>1. /\ c # "nl" => \A t \in Token \ {"nl"} : Ends(t) \in Outcome(c)
      /\ c = "nl" => Ends("nl") \in Outcome(c)
  BY DEF Outcome
<1>2. \A t \in Token \ {"nl"} : EndsBefore(t) \in Outcome(c)
  BY DEF Outcome
<1>3. c # "nl" => \A q \in Reader \ {"idle"} : Goes(q) \in Outcome(c)
  BY DEF Outcome
<1>4. Illegal \in Outcome(c)
  BY DEF Outcome, Illegal, Token
<1> USE DEF Decimal, Octal, Hexa
<1>5. ReadRoot(c) \in Outcome(c)
  BY <1>1, <1>3, <1>4 DEF ReadRoot, Token, Reader
<1>6. ReadSymbol(c) \in Outcome(c)
  BY <1>2, <1>3, <1>5 DEF ReadSymbol, Token, Reader
<1>7. c # "nl" => Resumes \in Outcome(c)
  BY <1>3 DEF Resumes, Reader
<1> USE <1>1, <1>2, <1>3, <1>4 DEF Token, Reader, Literal
<1>8. /\ ReadEq(c) \in Outcome(c)
      /\ ReadSolidus(c) \in Outcome(c)
      /\ ReadLineComment(c) \in Outcome(c)
  BY DEF ReadEq, ReadSolidus, ReadLineComment
<1>9. /\ ReadCharLit(c) \in Outcome(c)
      /\ ReadCharLitEnd(c) \in Outcome(c)
      /\ ReadTextLit(c) \in Outcome(c)
  BY DEF ReadCharLit, ReadCharLitEnd, ReadTextLit
<1>10. ReadCharLitEscape(c) \in Outcome(c) /\ ReadHexUChar(c) \subseteq Outcome(c)
  <2>1. c = "nl" => EscapeDigits(c) = 0
    BY DEF EscapeDigits
  <2> QED
    BY <1>7, <2>1 DEF ReadCharLitEscape, ReadHexUChar
<1>11. /\ ReadZeroLeadingNumLit(c) \in Outcome(c)
       /\ ReadHexIntLit(c) \in Outcome(c)
  BY DEF ReadZeroLeadingNumLit, ReadHexIntLit
<1>12. ReadOctIntLit(c) \in Outcome(c) /\ ReadDecIntLit(c) \in Outcome(c)
  BY DEF ReadOctIntLit, ReadDecIntLit
<1>13. /\ ReadDot(c) \in Outcome(c)
       /\ ReadDotDot(c) \in Outcome(c)
       /\ ReadDotDotDot(c) \in Outcome(c)
  BY DEF ReadDot, ReadDotDot, ReadDotDotDot
<1>14. /\ ReadFloatLitAtDot(c) \in Outcome(c)
       /\ ReadFloatLitAtExp(c) \in Outcome(c)
       /\ ReadExpSign(c) \in Outcome(c)
       /\ ReadExpDigits(c) \in Outcome(c)
  BY DEF ReadFloatLitAtDot, ReadFloatLitAtExp, ReadExpSign, ReadExpDigits
<1> QED
  BY <1>5, <1>6, <1>8, <1>9, <1>10, <1>11, <1>12, <1>13, <1>14 DEF Outcomes

\* An escape sequence that goes on has at least one digit to come.
LEMMA DigitsLeft ==
  ASSUME NEW r \in Reader \ {"idle"}, NEW c, NEW o \in Outcomes(r, c), o.to = "hexchar",
         quote \in {"quote", "dquote"}
  PROVE  \/ r = "escape" /\ EscapeDigits(c) > 0
         \/ r = "hexchar" /\ left > 1
<1> USE DEF Goes, Ends, EndsBefore, Illegal, Resumes
<1>1. ReadRoot(c).to # "hexchar"
  BY DEF ReadRoot
<1>2. ReadSymbol(c).to # "hexchar"
  BY <1>1 DEF ReadSymbol
<1>3. r \in {"eq", "solidus", "comment", "char", "charend", "text"} => FALSE
  BY DEF Outcomes, ReadEq, ReadSolidus, ReadLineComment, ReadCharLit, ReadCharLitEnd,
         ReadTextLit
<1>4. r \in {"zero", "oct", "dec", "hex", "dot", "dotdot", "dotdotdot"} => FALSE
  BY DEF Outcomes, ReadZeroLeadingNumLit, ReadOctIntLit, ReadDecIntLit, ReadHexIntLit,
         ReadDot, ReadDotDot, ReadDotDotDot
<1>5. r \in {"float", "exp", "expsign", "expdigits"} => FALSE
  BY DEF Outcomes, ReadFloatLitAtDot, ReadFloatLitAtExp, ReadExpSign, ReadExpDigits
<1>6. r = "escape" => EscapeDigits(c) > 0
  BY DEF Outcomes, ReadCharLitEscape
<1>7. r = "hexchar" => left > 1
  BY DEF Outcomes, ReadHexUChar
<1> QED
  BY <1>1, <1>2, <1>3, <1>4, <1>5, <1>6, <1>7 DEF Outcomes, Reader

LEMMA CharType == ASSUME src \in Seq(Byte), NEW q \in 0 .. End
                  PROVE  CharAt(q) \in Ascii \cup {"none", "bad"}
<1>1. ByteAt(q) \in Byte
  BY DEF End, ByteAt, Byte, Ascii
<1> QED
  BY <1>1 DEF CharAt, Byte, Ascii

LEMMA EndTokenType ==
  ASSUME TypeOK, NEW t \in Token, NEW q \in Int, EndToken(t, q)
  PROVE  TypeOK'
BY DEF TypeOK, EndToken, Return, Reader

LEMMA NextTypeOK == TypeOK /\ [Next]_vars => TypeOK'
<1> SUFFICES ASSUME TypeOK, [Next]_vars PROVE TypeOK'
  OBVIOUS
<1>1. CASE UNCHANGED vars
  BY <1>1 DEF vars, TypeOK
<1>2. CASE NextQueued
  BY <1>2 DEF NextQueued, Unqueue, Return, TypeOK
<1>3. CASE NextBegins
  BY <1>3 DEF NextBegins, LineBegins, TypeOK, Reader
<1>4. CASE ReadChar
  <2> DEFINE c == CharAt(p)
  <2>1. /\ reader \in Reader \ {"idle"} /\ quote \in {"quote", "dquote"}
        /\ c \in Ascii \cup {"none", "bad"} /\ p \in Int
        /\ Width(p) \in 0 .. 2 /\ UTF8SizeOf(p) \in 1 .. 4
    BY <1>4, CharType DEF ReadChar, TypeOK, Width, UTF8SizeOf
  <2>2. PICK o \in Outcomes(reader, c) :
          LET after == p + Width(p)
              q     == IF o.undo THEN after - UTF8SizeOf(p) ELSE after
          IN  IF o.to = "idle" THEN EndToken(o.tok, q)
              ELSE /\ p' = q
                   /\ reader' = o.to
                   /\ quote' = IF c \in {"quote", "dquote"} /\ reader \in {"root", "symbol"}
                               THEN c ELSE quote
                   /\ left' = IF o.to # "hexchar" THEN 0
                               ELSE IF reader = "escape" THEN EscapeDigits(c)
                               ELSE left - 1
                   /\ UNCHANGED <<src, tok, queued, offset, line, column, lineBegin, ret,
                                  parse>>
    BY <1>4, Zenon DEF ReadChar
  <2>3. o \in Outcome(c)
    BY <2>1, <2>2, OutcomesType
  <2>4. CASE o.to = "idle"
    <3>1. o.tok \in Token
      BY <2>3, <2>4 DEF Outcome, Goes, Ends, EndsBefore, Illegal, Token, Reader
    <3>2. \E q \in Int : EndToken(o.tok, q)
      BY <2>1, <2>2, <2>4
    <3> QED
      BY <3>1, <3>2, EndTokenType
  <2>5. CASE o.to # "idle"
    <3>1. o.to \in Reader
      BY <2>3, <2>5 DEF Outcome, Goes, Ends, EndsBefore, Illegal
    <3>2. /\ p' \in Int /\ reader' = o.to /\ quote' \in {"quote", "dquote"}
          /\ UNCHANGED <<src, tok, queued, offset, line, column, lineBegin, ret, parse>>
      BY <2>1, <2>2, <2>5
    <3>3. left' \in 0 .. 8
      <4>1. CASE o.to # "hexchar"
        BY <2>2, <2>5, <4>1
      <4>2. CASE o.to = "hexchar" /\ reader = "escape"
        BY <2>2, <2>5, <4>2, DigitsBounded
      <4>3. CASE o.to = "hexchar" /\ reader # "escape"
        <5>1. left > 1 /\ left \in 0 .. 8
          BY <2>1, <2>2, <4>3, DigitsLeft DEF TypeOK
        <5>2. left' = left - 1
          BY <2>2, <2>5, <4>3
        <5> QED
          BY <5>1, <5>2
      <4> QED
        BY <4>1, <4>2, <4>3
    <3> QED
      BY <3>1, <3>2, <3>3 DEF TypeOK
  <2> QED
    BY <2>4, <2>5
<1>5. CASE ReachEnd
  <2>1. TokenAtEnd(reader) \in Token
    BY <1>5 DEF ReachEnd, TokenAtEnd, Token, Literal
  <2> QED
    BY <1>5, <2>1, EndTokenType DEF ReachEnd, Return, TypeOK, Reader, Token
<1>6. CASE ParseReturns
  BY <1>6 DEF ParseReturns, TypeOK
<1> QED
  BY <1>1, <1>2, <1>3, <1>4, <1>5, <1>6 DEF Next

\* Every variable of the lexer keeps its type, for every source, UTF-8 or not.
THEOREM TypeCorrect == Spec => []TypeOK
<1>1. Init => TypeOK
  <2> SUFFICES ASSUME Init PROVE TypeOK
    OBVIOUS
  <2>1. queued = FALSE
    BY DEF Init
  <2>2. queued \in BOOLEAN
    BY <2>1, Zenon
  <2> QED
    BY <2>2, InputsAssumption DEF Init, TypeOK, Token, Reader
<1> QED
  BY <1>1, NextTypeOK, PTL DEF Spec

-----------------------------------------------------------------------------
(* The characters of a text *)

\* Where a character begins, the next one begins or the text ends, and undoChar
\* would step back to it; a line break is a character of its own, and no other
\* holds one.
LEMMA CharOfText ==
  ASSUME src \in Seq(Byte), IsText(src), NEW q \in 0 .. End - 1, src[q + 1] # "trail"
  PROVE  /\ CharAt(q) = "nl" <=> src[q + 1] = "nl"
         /\ Width(q) \in 1 .. 2 /\ UTF8SizeOf(q) = Width(q)
         /\ q + Width(q) \in 1 .. End
         /\ q + Width(q) = End => CharAt(q) = "nl"
         /\ q + Width(q) < End => src[q + Width(q) + 1] # "trail"
         /\ Width(q) = 2 => src[q + 2] = "trail"
         /\ CharAt(q) = "nl" => Width(q) = 1
<1> DEFINE b == src[q + 1]
<1>1. b \in Byte /\ ByteAt(q) = b /\ End = Len(src) /\ End \in Nat
  BY DEF End, ByteAt
<1>2. CASE b \in Lead
  <2>1. q + 1 < End /\ src[q + 2] = "trail"
    BY <1>1, <1>2 DEF IsText
  <2>2. q + 2 # End
    BY <1>1, <2>1 DEF IsText
  <2>3. ~Truncated(q) /\ Width(q) = 2 /\ UTF8SizeOf(q) = 2 /\ CharAt(q) # "nl" /\ b # "nl"
    BY <1>1, <1>2, <2>1 DEF Truncated, Width, UTF8SizeOf, CharAt, Lead
  <2>4. q + 2 < End => src[q + 3] # "trail"
    <3> SUFFICES ASSUME q + 2 < End, src[q + 3] = "trail" PROVE FALSE
      OBVIOUS
    <3>1. q + 3 \in 1 .. Len(src)
      BY <1>1
    <3>2. src[(q + 3) - 1] \in Lead
      BY <1>1, <3>1 DEF IsText
    <3>3. (q + 3) - 1 = q + 2
      OBVIOUS
    <3> QED
      BY <2>1, <3>2, <3>3 DEF Lead
  <2> QED
    BY <1>1, <2>1, <2>2, <2>3, <2>4
<1>3. CASE b \notin Lead
  <2>1. ~Truncated(q) /\ Width(q) = 1 /\ UTF8SizeOf(q) = 1 /\ CharAt(q) = b
    BY <1>1, <1>3 DEF Truncated, Width, UTF8SizeOf, CharAt, Lead
  <2>2. q + 1 = End => b = "nl"
    BY <1>1 DEF IsText
  <2>3. q + 1 < End => src[q + 2] # "trail"
    <3> SUFFICES ASSUME q + 1 < End, src[q + 2] = "trail" PROVE FALSE
      OBVIOUS
    <3>1. q + 2 \in 1 .. Len(src)
      BY <1>1
    <3>2. src[(q + 2) - 1] \in Lead
      BY <1>1, <3>1 DEF IsText
    <3>3. (q + 2) - 1 = q + 1
      OBVIOUS
    <3> QED
      BY <1>3, <3>2, <3>3
  <2> QED
    BY <1>1, <2>1, <2>2, <2>3
<1> QED
  BY <1>2, <1>3
-----------------------------------------------------------------------------
(* The inductive invariant *)

\* Where the lexer is: at the beginning of a character, and before the last line
\* break while it reads a token.
TextInv ==
  /\ src \in Seq(Byte) /\ IsText(src)
  /\ tok \in Token /\ reader \in Reader /\ quote \in {"quote", "dquote"}
  /\ p \in 0 .. End
  /\ reader # "idle" => p < End
  /\ p < End => src[p + 1] # "trail"
  /\ ret = "Error" => parse = "error"
  /\ parse = "error" => reader = "idle"

\* The last token returned is a line break.
AtBreak == reader = "idle" /\ tok = "nl"

NoBreaks(a, b) == \A i \in a + 1 .. b : src[i] # "nl"

\* The number of line breaks before q.
Breaks(q) == Cardinality({i \in 1 .. q : src[i] = "nl"})

\* The line's beginning is that of the token, and the token holds no line break,
\* save for one that is a token itself.
LineInv ==
  /\ line \in Nat /\ offset \in 0 .. p
  /\ line > 0 =>
       /\ lineBegin \in 1 .. offset /\ src[lineBegin] = "nl" /\ NoBreaks(lineBegin, offset)
       /\ column = offset - lineBegin
  /\ ret # "Error" =>
       /\ NoBreaks(offset, IF AtBreak THEN p - 1 ELSE p)
       /\ AtBreak => p > 0 /\ src[p] = "nl"
       /\ line + (IF AtBreak THEN 1 ELSE 0) = Breaks(p)

IInv == TextInv /\ LineInv

LEMMA BreaksStep ==
  ASSUME NEW q \in Nat, Breaks(q) \in Nat
  PROVE  /\ src[q + 1] = "nl" => Breaks(q + 1) = Breaks(q) + 1
         /\ src[q + 1] # "nl" => Breaks(q + 1) = Breaks(q)
<1> DEFINE B(n) == {i \in 1 .. n : src[i] = "nl"}
<1>1. IsFiniteSet(B(q))
  <2>1. IsFiniteSet(1 .. q) /\ B(q) \subseteq 1 .. q
    BY FS_Interval
  <2> QED
    BY <2>1, FS_Subset
<1>2. CASE src[q + 1] = "nl"
  <2>1. B(q + 1) = B(q) \cup {q + 1} /\ q + 1 \notin B(q)
    BY <1>2
  <2> QED
    BY <1>1, <1>2, <2>1, FS_AddElement DEF Breaks
<1>3. CASE src[q + 1] # "nl"
  <2>1. B(q + 1) = B(q)
    BY <1>3
  <2> QED
    BY <1>3, <2>1 DEF Breaks
<1> QED
  BY <1>2, <1>3

\* One character of a token: it goes on, or ends it, without a line break, or it is
\* a line break and a token, or it is an error.
LEMMA ReadCharStep ==
  ASSUME TextInv, ReadChar
  PROVE  /\ UNCHANGED <<src, line, column, offset, lineBegin>>
         /\ TextInv'
         /\ \/ /\ p' \in p .. p + 2 /\ NoBreaks(p, p')
               /\ reader' = "idle" => tok' # "nl"
            \/ p' = p + 1 /\ src[p + 1] = "nl" /\ reader' = "idle" /\ tok' = "nl"
            \/ ret' = "Error" /\ p' \in p .. p + 2
<1> DEFINE c == CharAt(p)
           w == Width(p)
<1>1. /\ p \in 0 .. End - 1 /\ reader \in Reader \ {"idle"} /\ src[p + 1] # "trail"
      /\ src \in Seq(Byte) /\ IsText(src) /\ End \in Nat
      /\ parse # "error" /\ ret # "Error"
  BY DEF ReadChar, TextInv, End
<1>2. PICK o \in Outcomes(reader, c) :
        LET after == p + w
            q     == IF o.undo THEN after - UTF8SizeOf(p) ELSE after
        IN  IF o.to = "idle" THEN EndToken(o.tok, q)
            ELSE /\ p' = q
                 /\ reader' = o.to
                 /\ quote' = IF c \in {"quote", "dquote"} /\ reader \in {"root", "symbol"}
                             THEN c ELSE quote
                 /\ UNCHANGED <<src, tok, queued, offset, line, column, lineBegin, ret,
                                parse>>
  BY Zenon DEF ReadChar
<1>3. o \in Outcome(c)
  <2>1. c \in Ascii \cup {"none", "bad"} /\ quote \in {"quote", "dquote"}
    BY <1>1, CharType DEF TextInv
  <2> QED
    BY <1>1, <1>2, <2>1, OutcomesType
<1>4. /\ c = "nl" <=> src[p + 1] = "nl"
      /\ w \in 1 .. 2 /\ UTF8SizeOf(p) = w /\ p + w \in 1 .. End
      /\ p + w = End => c = "nl"
      /\ p + w < End => src[p + w + 1] # "trail"
      /\ w = 2 => src[p + 2] = "trail"
      /\ c = "nl" => w = 1
  BY <1>1, CharOfText
<1>5. c # "nl" => NoBreaks(p, p + w)
  BY <1>1, <1>4 DEF NoBreaks
<1>6. ASSUME NEW t \in Token, NEW q \in {p, p + w}, EndToken(t, q)
      PROVE  /\ UNCHANGED <<src, line, column, offset, lineBegin>>
             /\ p' = q /\ reader' = "idle" /\ tok' = t /\ TextInv'
             /\ t = "Error" => ret' = "Error"
  <2>1. /\ UNCHANGED <<src, line, column, offset, lineBegin, quote>>
        /\ p' = q /\ reader' = "idle" /\ tok' = t
    BY <1>6 DEF EndToken
  <2>2. \/ ret' = t /\ parse' = IF t = "Error" THEN "error" ELSE parse
        \/ ret' = "autosemi" /\ parse' = parse /\ t = "nl"
    BY <1>6 DEF EndToken, Return
  <2>3. End' = End
    BY <2>1 DEF End
  <2>4. q \in 0 .. End /\ (q < End => src[q + 1] # "trail")
    BY <1>1, <1>4
  <2>5. ret' = "Error" => parse' = "error"
    BY <1>1, <2>2
  <2> QED
    BY <1>1, <1>6, <2>1, <2>2, <2>3, <2>4, <2>5 DEF TextInv, Reader
<1>7. CASE \E t \in Token \ {"nl"} : o = EndsBefore(t)
  <2>1. PICK t \in Token \ {"nl"} : o = EndsBefore(t)
    BY <1>7
  <2>2. EndToken(t, p)
    BY <1>1, <1>2, <1>4, <2>1 DEF EndsBefore
  <2> QED
    BY <1>1, <1>6, <2>2 DEF NoBreaks
<1>8. CASE c = "nl" /\ o \in {Ends("nl"), Illegal}
  <2>1. EndToken("nl", p + w) \/ EndToken("Error", p + w)
    BY <1>2, <1>8 DEF Ends, Illegal
  <2>2. "nl" \in Token /\ "Error" \in Token
    BY DEF Token
  <2> QED
    BY <1>1, <1>4, <1>6, <1>8, <2>1, <2>2
<1>9. CASE c # "nl" /\ \E t \in Token \ {"nl"} : o = Ends(t)
  <2>1. PICK t \in Token \ {"nl"} : o = Ends(t)
    BY <1>9
  <2>2. EndToken(t, p + w)
    BY <1>2, <2>1 DEF Ends
  <2> QED
    BY <1>1, <1>4, <1>5, <1>6, <1>9, <2>2
<1>10. CASE c # "nl" /\ \E r \in Reader \ {"idle"} : o = Goes(r)
  <2>1. PICK r \in Reader \ {"idle"} : o = Goes(r)
    BY <1>10
  <2>2. /\ p' = p + w /\ reader' = r
        /\ quote' = IF c \in {"quote", "dquote"} /\ reader \in {"root", "symbol"}
                    THEN c ELSE quote
        /\ UNCHANGED <<src, tok, offset, line, column, lineBegin, ret, parse>>
    BY <1>2, <2>1 DEF Goes
  <2>3. End' = End
    BY <2>2 DEF End
  <2>4. TextInv'
    BY <1>1, <1>4, <1>10, <2>2, <2>3 DEF TextInv
  <2> QED
    BY <1>1, <1>4, <1>5, <1>10, <2>2, <2>4
<1> QED
  BY <1>3, <1>7, <1>8, <1>9, <1>10 DEF Outcome

LEMMA ReadCharKeeps == ASSUME IInv, ReadChar PROVE IInv'
<1>1. /\ p \in 0 .. End - 1 /\ End \in Nat /\ reader # "idle" /\ ret # "Error"
      /\ line \in Nat /\ offset \in 0 .. p
  BY DEF ReadChar, IInv, TextInv, LineInv, End
<1>2. UNCHANGED <<src, line, column, offset, lineBegin>> /\ TextInv'
  BY ReadCharStep DEF IInv
<1>3. \A n \in Nat : Breaks(n)' = Breaks(n)
  BY <1>2 DEF Breaks
<1>4. \A a, b : NoBreaks(a, b)' <=> NoBreaks(a', b')
  BY <1>2 DEF NoBreaks
<1>5. /\ NoBreaks(offset, p) /\ line = Breaks(p)
      /\ line > 0 => /\ lineBegin \in 1 .. offset /\ src[lineBegin] = "nl"
                     /\ NoBreaks(lineBegin, offset) /\ column = offset - lineBegin
  BY <1>1 DEF IInv, LineInv, AtBreak
<1>6. /\ offset' = offset /\ line' = line
      /\ line' > 0 => /\ lineBegin' \in 1 .. offset' /\ src'[lineBegin'] = "nl"
                      /\ NoBreaks(lineBegin, offset)' /\ column' = offset' - lineBegin'
  BY <1>2, <1>4, <1>5 DEF NoBreaks
<1>7. CASE /\ p' \in p .. p + 2 /\ NoBreaks(p, p')
           /\ reader' = "idle" => tok' # "nl"
  <2>1. ~AtBreak'
    BY <1>7 DEF AtBreak
  <2>2. NoBreaks(offset, p)'
    BY <1>1, <1>2, <1>5, <1>7 DEF NoBreaks
  <2>3. Breaks(p)' = Breaks(p)
    <3>1. p' = p \/ p' = p + 1 \/ p' = p + 2
      BY <1>1, <1>7
    <3>2. CASE p' = p
      BY <1>2, <3>2 DEF Breaks
    <3>3. CASE p' = p + 1
      <4>1. src[p + 1] # "nl" /\ Breaks(p)' = Breaks(p + 1)
        BY <1>1, <1>2, <1>7, <3>3 DEF NoBreaks, Breaks
      <4> QED
        BY <1>1, <1>5, <4>1, BreaksStep
    <3>4. CASE p' = p + 2
      <4>1. /\ src[p + 1] # "nl" /\ src[(p + 1) + 1] # "nl"
            /\ Breaks(p)' = Breaks((p + 1) + 1)
        <5>1. (p + 1) + 1 = p + 2
          BY <1>1
        <5> QED
          BY <1>1, <1>2, <1>7, <3>4, <5>1 DEF NoBreaks, Breaks
      <4>2. Breaks(p + 1) = Breaks(p)
        BY <1>1, <1>5, <4>1, BreaksStep
      <4>3. Breaks((p + 1) + 1) = Breaks(p + 1)
        BY <1>1, <1>5, <4>1, <4>2, BreaksStep
      <4> QED
        BY <4>1, <4>2, <4>3
    <3> QED
      BY <3>1, <3>2, <3>3, <3>4
  <2> QED
    BY <1>1, <1>2, <1>5, <1>6, <1>7, <2>1, <2>2, <2>3 DEF IInv, LineInv
<1>8. CASE p' = p + 1 /\ src[p + 1] = "nl" /\ reader' = "idle" /\ tok' = "nl"
  <2>1. AtBreak'
    BY <1>8 DEF AtBreak
  <2>2. NoBreaks(offset, p - 1)' /\ p' > 0 /\ src'[p'] = "nl"
    BY <1>1, <1>2, <1>5, <1>8 DEF NoBreaks
  <2>3. Breaks(p)' = Breaks(p) + 1
    <3>1. Breaks(p)' = Breaks(p + 1)
      BY <1>2, <1>8 DEF Breaks
    <3> QED
      BY <1>1, <1>5, <1>8, <3>1, BreaksStep
  <2> QED
    BY <1>1, <1>2, <1>5, <1>6, <1>8, <2>1, <2>2, <2>3 DEF IInv, LineInv
<1>9. CASE ret' = "Error" /\ p' \in p .. p + 2
  BY <1>1, <1>2, <1>6, <1>9 DEF IInv, LineInv
<1> QED
  BY <1>7, <1>8, <1>9, ReadCharStep DEF IInv

LEMMA InitIInv == ASSUME \A s \in Inputs : IsText(s), Init PROVE IInv
<1>1. /\ src \in Seq(Byte) /\ IsText(src) /\ End \in Nat /\ End > 0
  BY InputsAssumption DEF Init, IsText, End
<1>2. src[1] # "trail"
  <2>1. 1 \in 1 .. Len(src)
    BY <1>1 DEF End
  <2> QED
    BY <1>1, <2>1 DEF IsText
<1>3. TextInv
  BY <1>1, <1>2 DEF Init, TextInv, Token, Reader
<1>4. Breaks(0) = 0
  <2>1. {i \in 1 .. 0 : src[i] = "nl"} = {}
    OBVIOUS
  <2> QED
    BY <2>1, FS_EmptySet DEF Breaks
<1> QED
  BY <1>3, <1>4 DEF Init, IInv, LineInv, AtBreak, NoBreaks

LEMMA NextIInv == IInv /\ [Next]_vars => IInv'
<1> SUFFICES ASSUME IInv, [Next]_vars PROVE IInv'
  OBVIOUS
<1>1. CASE UNCHANGED vars
  BY <1>1 DEF vars, IInv, TextInv, LineInv, AtBreak, NoBreaks, Breaks, End
<1>2. CASE NextQueued
  <2>1. UNCHANGED <<src, p, tok, reader, quote, offset, line, column, lineBegin>>
    BY <1>2 DEF NextQueued
  <2>2. /\ AtBreak' <=> AtBreak
        /\ \A n : Breaks(n)' = Breaks(n')
        /\ \A a, b : NoBreaks(a, b)' <=> NoBreaks(a', b')
    BY <2>1 DEF AtBreak, Breaks, NoBreaks
  <2>3. ret # "Error" /\ reader = "idle" /\ (ret' = "Error" => parse' = "error")
    BY <1>2 DEF NextQueued, Return, IInv, TextInv
  <2> QED
    BY <2>1, <2>2, <2>3 DEF IInv, TextInv, LineInv, End, AtBreak, NoBreaks, Breaks
<1>3. CASE NextBegins
  <2>1. /\ UNCHANGED <<src, p, tok, quote, ret, parse>>
        /\ reader = "idle" /\ reader' = "root" /\ parse = "parsing"
        /\ p \in 0 .. End - 1 /\ End \in Nat /\ ret # "Error"
        /\ offset' = p /\ column' = p - lineBegin'
    BY <1>3 DEF NextBegins, IsValid, IInv, TextInv, End
  <2>2. TextInv'
    BY <2>1 DEF IInv, TextInv, Reader, End
  <2>3. CASE tok = "nl"
    <3>1. line' = line + 1 /\ lineBegin' = p
      BY <1>3, <2>3 DEF NextBegins, LineBegins
    <3>2. p > 0 /\ src[p] = "nl" /\ line + 1 = Breaks(p) /\ line \in Nat
      BY <2>1, <2>3 DEF IInv, LineInv, AtBreak
    <3> QED
      BY <2>1, <2>2, <3>1, <3>2 DEF IInv, LineInv, AtBreak, NoBreaks, Breaks
  <2>4. CASE tok # "nl"
    <3>1. line' = line /\ lineBegin' = lineBegin
      BY <1>3, <2>4 DEF NextBegins
    <3>2. /\ line = Breaks(p) /\ line \in Nat /\ offset \in 0 .. p /\ NoBreaks(offset, p)
          /\ line > 0 => lineBegin \in 1 .. offset /\ src[lineBegin] = "nl"
                           /\ NoBreaks(lineBegin, offset)
      BY <2>1, <2>4 DEF IInv, LineInv, AtBreak
    <3>3. line > 0 => NoBreaks(lineBegin, p)
      BY <2>1, <3>2 DEF NoBreaks
    <3> QED
      BY <2>1, <2>2, <3>1, <3>2, <3>3 DEF IInv, LineInv, AtBreak, NoBreaks, Breaks
  <2> QED
    BY <2>3, <2>4
<1>4. CASE ReadChar
  BY <1>4, ReadCharKeeps
<1>5. CASE ReachEnd
  BY <1>5 DEF ReachEnd, IInv, TextInv, End
<1>6. CASE ParseReturns
  BY <1>6 DEF ParseReturns, IInv, TextInv, LineInv, AtBreak, NoBreaks, Breaks, End
<1> QED
  BY <1>1, <1>2, <1>3, <1>4, <1>5, <1>6 DEF Next

LEMMA IInvHolds == ASSUME \A s \in Inputs : IsText(s) PROVE Spec => []IInv
BY InitIInv, NextIInv, PTL DEF Spec

-----------------------------------------------------------------------------
(* The theorems *)

\* The lexer stays inside every text file, whatever it is made of: the terminating
\* byte is never taken for a character of the source.
THEOREM StaysWithin ==
  ASSUME \A s \in Inputs : IsText(s)
  PROVE  Spec => []WithinInput
<1>1. IInv => WithinInput
  BY DEF IInv, TextInv, WithinInput
<1> QED
  BY <1>1, IInvHolds, PTL

\* In every text the line recorded for a token is the token's, and from the second
\* line on the column recorded is that of the offset recorded.  The offset itself is
\* where next() was called, the token's own only when no blank precedes it.
THEOREM LinesAndColumnsAlways ==
  ASSUME \A s \in Inputs : IsText(s)
  PROVE  Spec => []LinesAndColumns
<1>1. IInv => LinesCounted
  BY DEF IInv, LineInv, LinesCounted, AtBreak, Breaks
<1>2. IInv => ColumnOfOffset
  <2> SUFFICES ASSUME IInv, line > 0 PROVE column = offset - LineStart(offset)
    BY DEF ColumnOfOffset
  <2>1. /\ offset \in Nat /\ lineBegin \in 1 .. offset /\ src[lineBegin] = "nl"
        /\ \A j \in lineBegin + 1 .. offset : src[j] # "nl"
        /\ column = offset - lineBegin
    BY DEF IInv, LineInv, NoBreaks
  <2>2. \A i \in 0 .. offset :
          (i > 0 => src[i] = "nl") /\ (\A j \in i + 1 .. offset : src[j] # "nl")
            => i = lineBegin
    <3> SUFFICES ASSUME NEW i \in 0 .. offset, i > 0 => src[i] = "nl",
                        \A j \in i + 1 .. offset : src[j] # "nl", i # lineBegin
                 PROVE  FALSE
      OBVIOUS
    <3>1. CASE i < lineBegin
      BY <2>1, <3>1
    <3>2. CASE lineBegin < i
      BY <2>1, <3>2
    <3> QED
      BY <2>1, <3>1, <3>2
  <2>3. LineStart(offset) = lineBegin
    BY <2>1, <2>2 DEF LineStart
  <2> QED
    BY <2>1, <2>3
<1> QED
  BY <1>1, <1>2, IInvHolds, PTL DEF LinesAndColumns

-----------------------------------------------------------------------------
(* One character of a text *)

LEMMA PlainChar ==
  ASSUME src \in Seq(Byte), IsText(src), NEW q \in 0 .. End - 1, src[q + 1] # "trail"
  PROVE  /\ CharAt(q) # "none"
         /\ CharAt(q) \in {"z", "bad"} \/ (src[q + 1] = CharAt(q) /\ Width(q) = 1)
         /\ src[q + 1] = CharAt(q) \/ src[q + 1] \in Lead
<1> DEFINE b == src[q + 1]
<1>1. b \in Byte /\ ByteAt(q) = b /\ End = Len(src) /\ End \in Nat
  BY DEF End, ByteAt
<1>2. CASE b \in Lead
  <2>1. q + 1 < End
    BY <1>1, <1>2 DEF IsText
  <2> QED
    BY <1>1, <1>2, <2>1 DEF Truncated, CharAt, Lead
<1>3. CASE b \notin Lead
  <2>1. CharAt(q) = b /\ Width(q) = 1
    BY <1>1, <1>3 DEF Truncated, Width, CharAt, Lead
  <2>2. b # "none"
    BY <1>1 DEF Byte, Ascii
  <2> QED
    BY <2>1, <2>2
<1> QED
  BY <1>2, <1>3

\* What becomes of it, which is the outcome of its reader.
LEMMA ReadCharOutcome ==
  ASSUME TextInv, ReadChar
  PROVE  \E o \in Outcomes(reader, CharAt(p)) :
           /\ UNCHANGED <<src, offset>>
           /\ p' = IF o.undo THEN p ELSE p + Width(p)
           /\ reader' = o.to
           /\ o.to = "idle" => EndToken(o.tok, p')
           /\ o.to # "idle" => UNCHANGED <<tok, queued, ret>>
<1>1. /\ p \in 0 .. End - 1 /\ src[p + 1] # "trail" /\ src \in Seq(Byte) /\ IsText(src)
      /\ End \in Nat
  BY DEF ReadChar, TextInv, End
<1>2. Width(p) \in 1 .. 2 /\ UTF8SizeOf(p) = Width(p)
  BY <1>1, CharOfText
<1>3. PICK o \in Outcomes(reader, CharAt(p)) :
        LET after == p + Width(p)
            q     == IF o.undo THEN after - UTF8SizeOf(p) ELSE after
        IN  IF o.to = "idle" THEN EndToken(o.tok, q)
            ELSE /\ p' = q
                 /\ reader' = o.to
                 /\ UNCHANGED <<src, tok, queued, offset, line, column, lineBegin, ret,
                                parse>>
  BY Zenon DEF ReadChar
<1>4. (p + Width(p)) - UTF8SizeOf(p) = p
  BY <1>1, <1>2
<1> QED
  BY <1>3, <1>4 DEF EndToken

-----------------------------------------------------------------------------
(* Numbers *)

\* The bytes after a, up to b, are in S.
Span(a, b, S) == \A j \in a + 1 .. b : src[j] \in S

\* The grammar of numbers again, for the bytes after i, up to q.
DecIntAt(i, q) ==
  \/ q = i + 1 /\ src[i + 1] = "zero"
  \/ q > i /\ src[i + 1] # "zero" /\ Span(i, q, Decimal)

OctIntAt(i, q) == q > i + 1 /\ src[i + 1] = "zero" /\ Span(i, q, Octal)

HexIntAt(i, q) ==
  q > i + 1 /\ src[i + 1] = "zero" /\ src[i + 2] = "x" /\ Span(i + 2, q, Hexa)

\* Digits with one dot among them.
DottedAt(i, q) ==
  /\ q > i + 1
  /\ \E d \in i + 1 .. q :
       src[d] = "dot" /\ Span(i, d - 1, Decimal) /\ Span(d, q, Decimal)

MantissaAt(i, k) == DottedAt(i, k) \/ (k > i /\ Span(i, k, Decimal))

\* A mantissa after i, and after it the exponent's sign: its digits come after s.
SignedAt(i, s) ==
  \E k \in i + 1 .. s :
    /\ MantissaAt(i, k) /\ src[k + 1] = "e"
    /\ s = k + 1 \/ (s = k + 2 /\ src[k + 2] = "plus")

ScientificAt(i, q) == \E s \in i + 1 .. q : s < q /\ SignedAt(i, s) /\ Span(s, q, Decimal)

NumberAt(t, i, q) ==
  /\ t = "DecIntLit" => DecIntAt(i, q)
  /\ t = "OctIntLit" => OctIntAt(i, q)
  /\ t = "HexIntLit" => HexIntAt(i, q)
  /\ t = "FloatLit" => DottedAt(i, q) \/ ScientificAt(i, q)

\* What each of their readers has read when it began after i.
ReadAt(r, i, q) ==
  /\ r = "root" => q = i
  /\ r = "zero" => q = i + 1 /\ src[i + 1] = "zero"
  /\ r = "oct" => OctIntAt(i, q)
  /\ r = "dec" => q > i /\ src[i + 1] # "zero" /\ Span(i, q, Decimal)
  /\ r = "hex" => HexIntAt(i, q)
  /\ r = "dot" => q = i + 1 /\ src[i + 1] = "dot"
  /\ r = "float" => DottedAt(i, q)
  /\ r = "exp" => \E k \in i + 1 .. q : MantissaAt(i, k) /\ src[k + 1] = "e" /\ q = k + 1
  /\ r = "expsign" => q > i /\ SignedAt(i, q)
  /\ r = "expdigits" => ScientificAt(i, q)

NumberToken == {"DecIntLit", "OctIntLit", "HexIntLit", "FloatLit"}

NumberReader == {"zero", "oct", "dec", "hex", "dot", "float", "exp", "expsign", "expdigits"}

NumberInv ==
  ret # "Error" =>
    /\ reader = "root" => Span(offset, p, Blank)
    /\ reader \in NumberReader =>
         \E i \in offset .. p - 1 :
           Span(offset, i, Blank) /\ src[i + 1] \notin Blank /\ ReadAt(reader, i, p)
    /\ reader = "idle" /\ tok \in NumberToken =>
         \E i \in offset .. p - 1 :
           Span(offset, i, Blank) /\ src[i + 1] \notin Blank /\ NumberAt(tok, i, p)

-----------------------------------------------------------------------------
(* What the readers of numbers go on with *)

\* The reader r goes on with c as the reader t, or ends a number.
NumberStep(r, c, o) ==
  /\ o.to # "idle" => o.undo = FALSE
  /\ o.to = "root" => r = "root" /\ c = "ws"
  /\ o.to = "zero" => r = "root" /\ c = "zero"
  /\ o.to = "dec" => c \in Decimal /\ (r = "dec" \/ (r = "root" /\ c # "zero"))
  /\ o.to = "oct" => r \in {"zero", "oct"} /\ c \in Octal
  /\ o.to = "hex" => (r = "zero" /\ c = "x") \/ (r = "hex" /\ c \in Hexa)
  /\ o.to = "dot" => r = "root" /\ c = "dot"
  /\ o.to = "float" => \/ r \in {"zero", "oct", "dec"} /\ c = "dot"
                       \/ r \in {"dot", "float"} /\ c \in Decimal
  /\ o.to = "exp" => r \in {"dec", "float"} /\ c = "e"
  /\ o.to = "expsign" => r = "exp" /\ c = "plus"
  /\ o.to = "expdigits" => r \in {"exp", "expsign", "expdigits"} /\ c \in Decimal
  /\ o.to = "idle" /\ o.tok \in NumberToken => o.undo = TRUE
  /\ o.to = "idle" /\ o.tok = "DecIntLit" => r \in {"zero", "dec"}
  /\ o.to = "idle" /\ o.tok = "OctIntLit" => r = "oct"
  /\ o.to = "idle" /\ o.tok = "HexIntLit" => r = "hex"
  /\ o.to = "idle" /\ o.tok = "FloatLit" => r \in {"float", "expdigits"}

LEMMA NumberOutcomes ==
  ASSUME NEW r \in Reader \ {"idle"}, NEW c \in Ascii \cup {"none", "bad"},
         NEW o \in Outcomes(r, c), quote \in {"quote", "dquote"}
  PROVE  NumberStep(r, c, o)
<1> USE DEF Goes, Ends, EndsBefore, Illegal, NumberStep, NumberToken, Decimal, Octal, Hexa
<1>1. CASE r = "root"
  BY <1>1 DEF Outcomes, ReadRoot
<1>2. CASE r = "symbol"
  BY <1>2 DEF Outcomes, ReadSymbol, ReadRoot
<1>3. CASE r \in {"eq", "solidus", "comment", "char", "charend", "text"}
  BY <1>3 DEF Outcomes, ReadEq, ReadSolidus, ReadLineComment, ReadCharLit, ReadCharLitEnd,
         ReadTextLit
<1>4. CASE r \in {"escape", "hexchar"}
  BY <1>4 DEF Outcomes, ReadCharLitEscape, ReadHexUChar, Resumes
<1>5. CASE r \in {"zero", "oct", "dec", "hex"}
  BY <1>5 DEF Outcomes, ReadZeroLeadingNumLit, ReadOctIntLit, ReadDecIntLit, ReadHexIntLit
<1>6. CASE r \in {"dot", "dotdot", "dotdotdot"}
  BY <1>6 DEF Outcomes, ReadDot, ReadDotDot, ReadDotDotDot
<1>7. CASE r \in {"float", "exp", "expsign", "expdigits"}
  BY <1>7 DEF Outcomes, ReadFloatLitAtDot, ReadFloatLitAtExp, ReadExpSign, ReadExpDigits
<1> QED
  BY <1>1, <1>2, <1>3, <1>4, <1>5, <1>6, <1>7 DEF Reader

-----------------------------------------------------------------------------
(* What has been read grows by a character *)

LEMMA SpanGrows ==
  ASSUME NEW a \in Nat, NEW b \in Nat, NEW S, Span(a, b, S), src[b + 1] \in S
  PROVE  Span(a, b + 1, S)
<1> SUFFICES ASSUME NEW j \in a + 1 .. b + 1 PROVE src[j] \in S
  BY DEF Span
<1> QED
  BY DEF Span

LEMMA DottedGrows ==
  ASSUME NEW i \in Nat, NEW q \in Nat, DottedAt(i, q), src[q + 1] \in Decimal
  PROVE  DottedAt(i, q + 1)
<1>1. PICK d \in i + 1 .. q : src[d] = "dot" /\ Span(i, d - 1, Decimal) /\ Span(d, q, Decimal)
  BY DEF DottedAt
<1>2. Span(d, q + 1, Decimal)
  BY <1>1, SpanGrows
<1>3. d \in i + 1 .. q + 1 /\ q > i + 1
  BY <1>1 DEF DottedAt
<1> QED
  BY <1>1, <1>2, <1>3 DEF DottedAt

\* A dot after digits, or the digits after a dot, make a number with a dot.
LEMMA DotAfterDigits ==
  ASSUME NEW i \in Nat, NEW q \in Nat, q > i, Span(i, q, Decimal), src[q + 1] = "dot"
  PROVE  DottedAt(i, q + 1)
<1>1. (q + 1) - 1 = q /\ q + 1 \in i + 1 .. q + 1 /\ Span(q + 1, q + 1, Decimal)
  BY DEF Span
<1> QED
  BY <1>1 DEF DottedAt

LEMMA DigitAfterDot ==
  ASSUME NEW i \in Nat, src[i + 1] = "dot", src[i + 2] \in Decimal
  PROVE  DottedAt(i, i + 2)
<1>1. /\ i + 1 \in i + 1 .. i + 2 /\ (i + 1) - 1 = i
      /\ Span(i, i, Decimal) /\ Span(i + 1, i + 2, Decimal)
  BY DEF Span
<1> QED
  BY <1>1 DEF DottedAt

\* The character c after q, with which the reader goes on to t.
LEMMA NumberGrows ==
  ASSUME NEW i \in Nat, NEW q \in Nat, i <= q, NEW r \in Reader, NEW c, NEW o,
         NumberStep(r, c, o), o.to \in NumberReader, ReadAt(r, i, q), src[q + 1] = c
  PROVE  ReadAt(o.to, i, q + 1)
<1>1. CASE o.to = "zero"
  BY <1>1 DEF NumberStep, ReadAt
<1>2. CASE o.to = "dec"
  <2>1. CASE r = "dec"
    BY <1>2, <2>1, SpanGrows DEF NumberStep, ReadAt
  <2>2. CASE r = "root" /\ c # "zero"
    <3>1. q = i /\ Span(i, i + 1, Decimal)
      BY <1>2, <2>2 DEF NumberStep, ReadAt, Span
    <3> QED
      BY <1>2, <2>2, <3>1 DEF ReadAt
  <2> QED
    BY <1>2, <2>1, <2>2 DEF NumberStep
<1>3. CASE o.to = "oct"
  <2>1. /\ r \in {"zero", "oct"} /\ c \in Octal
    BY <1>3 DEF NumberStep
  <2>2. q > i /\ src[i + 1] = "zero" /\ Span(i, q, Octal)
    BY <2>1 DEF ReadAt, OctIntAt, Span, Octal
  <2>3. OctIntAt(i, q + 1)
    BY <2>1, <2>2, SpanGrows DEF OctIntAt
  <2> QED
    BY <1>3, <2>3 DEF ReadAt
<1>4. CASE o.to = "hex"
  <2>1. CASE r = "zero" /\ c = "x"
    <3>1. q = i + 1 /\ src[i + 1] = "zero"
      BY <2>1 DEF ReadAt
    <3>2. src[i + 2] = "x" /\ q + 1 = i + 2 /\ Span(i + 2, i + 2, Hexa)
      BY <2>1, <3>1 DEF Span
    <3> QED
      BY <1>4, <3>1, <3>2 DEF ReadAt, HexIntAt
  <2>2. CASE r = "hex" /\ c \in Hexa
    <3>1. HexIntAt(i, q)
      BY <2>2 DEF ReadAt
    <3>2. Span(i + 2, q + 1, Hexa)
      BY <2>2, <3>1, SpanGrows DEF HexIntAt
    <3> QED
      BY <1>4, <3>1, <3>2 DEF ReadAt, HexIntAt
  <2> QED
    BY <1>4, <2>1, <2>2 DEF NumberStep
<1>5. CASE o.to = "dot"
  BY <1>5 DEF NumberStep, ReadAt
<1>6. CASE o.to = "float"
  <2>1. CASE r \in {"zero", "oct", "dec"} /\ c = "dot"
    <3>1. q > i /\ Span(i, q, Decimal)
      BY <2>1 DEF ReadAt, OctIntAt, Span, Decimal, Octal
    <3> QED
      BY <1>6, <2>1, <3>1, DotAfterDigits DEF ReadAt
  <2>2. CASE r = "dot" /\ c \in Decimal
    <3>1. src[i + 1] = "dot" /\ q = i + 1 /\ q + 1 = i + 2
      BY <2>2 DEF ReadAt
    <3>2. DottedAt(i, q + 1)
      BY <2>2, <3>1, DigitAfterDot
    <3> QED
      BY <1>6, <3>2 DEF ReadAt
  <2>3. CASE r = "float" /\ c \in Decimal
    <3>1. DottedAt(i, q + 1)
      BY <2>3, DottedGrows DEF ReadAt
    <3> QED
      BY <1>6, <3>1 DEF ReadAt
  <2> QED
    BY <1>6, <2>1, <2>2, <2>3 DEF NumberStep
<1>7. CASE o.to = "exp"
  <2>1. MantissaAt(i, q) /\ q > i /\ c = "e"
    BY <1>7 DEF NumberStep, ReadAt, MantissaAt, DottedAt
  <2>2. q \in i + 1 .. q + 1
    BY <2>1
  <2> QED
    BY <1>7, <2>1, <2>2 DEF ReadAt
<1>8. CASE o.to = "expsign"
  <2>1. r = "exp" /\ c = "plus"
    BY <1>8 DEF NumberStep
  <2>2. PICK k \in i + 1 .. q : MantissaAt(i, k) /\ src[k + 1] = "e" /\ q = k + 1
    BY <2>1 DEF ReadAt
  <2>3. k \in i + 1 .. q + 1 /\ q + 1 = k + 2 /\ src[k + 2] = "plus"
    BY <2>1, <2>2
  <2>4. SignedAt(i, q + 1)
    BY <2>2, <2>3 DEF SignedAt
  <2> QED
    BY <1>8, <2>2, <2>4 DEF ReadAt
<1>9. CASE o.to = "expdigits"
  <2>1. c \in Decimal /\ r \in {"exp", "expsign", "expdigits"}
    BY <1>9 DEF NumberStep
  <2>2. \E s \in i + 1 .. q : SignedAt(i, s) /\ Span(s, q, Decimal)
    <3>1. CASE r = "exp"
      <4>1. PICK k \in i + 1 .. q : MantissaAt(i, k) /\ src[k + 1] = "e" /\ q = k + 1
        BY <3>1 DEF ReadAt
      <4>2. SignedAt(i, q) /\ q \in i + 1 .. q /\ Span(q, q, Decimal)
        BY <4>1 DEF SignedAt, Span
      <4> QED
        BY <4>2
    <3>2. CASE r = "expsign"
      <4>1. SignedAt(i, q) /\ q \in i + 1 .. q /\ Span(q, q, Decimal)
        BY <3>2 DEF ReadAt, Span
      <4> QED
        BY <4>1
    <3>3. CASE r = "expdigits"
      BY <3>3 DEF ReadAt, ScientificAt
    <3> QED
      BY <2>1, <3>1, <3>2, <3>3
  <2>3. PICK s \in i + 1 .. q : SignedAt(i, s) /\ Span(s, q, Decimal)
    BY <2>2
  <2>4. s \in i + 1 .. q + 1 /\ s < q + 1 /\ Span(s, q + 1, Decimal)
    BY <2>1, <2>3, SpanGrows
  <2>5. ScientificAt(i, q + 1)
    BY <2>3, <2>4 DEF ScientificAt
  <2> QED
    BY <1>9, <2>5 DEF ReadAt
<1> QED
  BY <1>1, <1>2, <1>3, <1>4, <1>5, <1>6, <1>7, <1>8, <1>9 DEF NumberReader

\* A number ends as what its reader has read.
LEMMA NumberEnds ==
  ASSUME NEW i \in Nat, NEW q \in Nat, NEW r \in Reader, NEW c, NEW o,
         NumberStep(r, c, o), o.to = "idle", o.tok \in NumberToken, ReadAt(r, i, q)
  PROVE  NumberAt(o.tok, i, q)
<1>1. CASE o.tok = "DecIntLit"
  BY <1>1 DEF NumberStep, ReadAt, NumberAt, DecIntAt
<1>2. CASE o.tok = "OctIntLit"
  BY <1>2 DEF NumberStep, ReadAt, NumberAt
<1>3. CASE o.tok = "HexIntLit"
  BY <1>3 DEF NumberStep, ReadAt, NumberAt
<1>4. CASE o.tok = "FloatLit"
  BY <1>4 DEF NumberStep, ReadAt, NumberAt
<1> QED
  BY <1>1, <1>2, <1>3, <1>4 DEF NumberToken

-----------------------------------------------------------------------------
(* Numbers are kept to their grammar *)

LEMMA NumberCharacter ==
  ASSUME IInv, ReadChar, NEW o \in Outcomes(reader, CharAt(p)),
         NumberStep(reader, CharAt(p), o), o.to \in NumberReader \cup {"root"}
  PROVE  /\ src[p + 1] = CharAt(p) /\ Width(p) = 1
         /\ o.to = "root" => src[p + 1] \in Blank
         /\ reader = "root" /\ o.to # "root" => src[p + 1] \notin Blank
         /\ reader \in NumberReader \cup {"root"}
<1>1. /\ src \in Seq(Byte) /\ IsText(src) /\ p \in 0 .. End - 1 /\ src[p + 1] # "trail"
  BY DEF ReadChar, IInv, TextInv, End
<1>2. CharAt(p) \in {"ws", "dot", "x", "e", "plus"} \cup Decimal \cup Octal \cup Hexa
  BY DEF NumberStep, NumberReader, Decimal, Octal
<1>3. src[p + 1] = CharAt(p) /\ Width(p) = 1
  BY <1>1, <1>2, PlainChar DEF Decimal, Octal, Hexa
<1>4. o.to = "root" => CharAt(p) \in Blank
  BY DEF NumberStep, Blank
<1>5. reader = "root" /\ o.to # "root" => CharAt(p) \notin Blank
  BY DEF NumberStep, NumberReader, Blank, Decimal, Octal
<1>6. reader \in NumberReader \cup {"root"}
  BY DEF NumberStep, NumberReader, Decimal, Octal
<1> QED
  BY <1>3, <1>4, <1>5, <1>6

\* A reader of numbers is at work, or at the root, where nothing has been read.
LEMMA NumberBegins ==
  ASSUME IInv, NumberInv, reader # "idle", reader \in NumberReader \cup {"root"},
         reader = "root" => src[p + 1] \notin Blank
  PROVE  \E i \in offset .. p :
           /\ Span(offset, i, Blank) /\ src[i + 1] \notin Blank /\ ReadAt(reader, i, p)
           /\ reader # "root" => i < p
<1>1. ret # "Error" /\ offset \in 0 .. p /\ p \in Nat
  BY DEF IInv, TextInv, LineInv, End
<1>2. CASE reader = "root"
  <2>1. Span(offset, p, Blank) /\ ReadAt("root", p, p)
    BY <1>1, <1>2 DEF NumberInv, ReadAt
  <2> QED
    BY <1>1, <1>2, <2>1
<1>3. CASE reader \in NumberReader
  <2>1. PICK i \in offset .. p - 1 :
          Span(offset, i, Blank) /\ src[i + 1] \notin Blank /\ ReadAt(reader, i, p)
    BY <1>1, <1>3 DEF NumberInv
  <2>2. i \in offset .. p /\ i < p
    BY <1>1, <2>1
  <2> QED
    BY <2>1, <2>2
<1> QED
  BY <1>2, <1>3

LEMMA NumberKept == ASSUME IInv, NumberInv, ReadChar PROVE NumberInv'
<1> DEFINE c == CharAt(p)
<1>1. /\ reader \in Reader \ {"idle"} /\ quote \in {"quote", "dquote"} /\ p \in 0 .. End - 1
      /\ c \in Ascii \cup {"none", "bad"} /\ p \in Nat /\ offset \in 0 .. p
  BY CharType DEF ReadChar, IInv, TextInv, LineInv, End
<1>2. PICK o \in Outcomes(reader, c) :
        /\ UNCHANGED <<src, offset>>
        /\ p' = IF o.undo THEN p ELSE p + Width(p)
        /\ reader' = o.to
        /\ o.to = "idle" => EndToken(o.tok, p')
  BY ReadCharOutcome DEF IInv
<1>3. NumberStep(reader, c, o)
  BY <1>1, NumberOutcomes
<1>4. \A a, b, S : Span(a, b, S)' <=> Span(a, b, S)
  BY <1>2 DEF Span
<1>5. \A r, i, q : ReadAt(r, i, q)' <=> ReadAt(r, i, q)
  BY <1>2 DEF ReadAt, OctIntAt, HexIntAt, ScientificAt, SignedAt, MantissaAt, DottedAt, Span
<1>6. \A t, i, q : NumberAt(t, i, q)' <=> NumberAt(t, i, q)
  BY <1>2 DEF NumberAt, DecIntAt, OctIntAt, HexIntAt, ScientificAt, SignedAt, MantissaAt,
       DottedAt, Span
<1>7. CASE o.to = "root"
  <2>1. src[p + 1] \in Blank /\ p' = p + 1 /\ reader = "root"
    BY <1>2, <1>3, <1>7, NumberCharacter DEF NumberStep
  <2>2. Span(offset, p, Blank)
    BY <2>1 DEF NumberInv, IInv, TextInv
  <2>3. Span(offset, p + 1, Blank)
    BY <1>1, <2>1, <2>2, SpanGrows
  <2> QED
    BY <1>2, <1>4, <1>7, <2>1, <2>3 DEF NumberInv, NumberReader
<1>8. CASE o.to \in NumberReader
  <2>1. /\ src[p + 1] = c /\ p' = p + 1 /\ reader \in NumberReader \cup {"root"}
        /\ reader = "root" => src[p + 1] \notin Blank
    BY <1>2, <1>3, <1>8, NumberCharacter DEF NumberStep, NumberReader
  <2>2. PICK i \in offset .. p :
          Span(offset, i, Blank) /\ src[i + 1] \notin Blank /\ ReadAt(reader, i, p)
    BY <1>1, <2>1, NumberBegins
  <2>3. ReadAt(o.to, i, p + 1)
    BY <1>1, <1>3, <1>8, <2>1, <2>2, NumberGrows
  <2>4. i \in offset' .. p' - 1
    BY <1>1, <1>2, <2>1, <2>2
  <2> QED
    BY <1>2, <1>4, <1>5, <1>8, <2>1, <2>2, <2>3, <2>4 DEF NumberInv, NumberReader
<1>9. CASE o.to = "idle" /\ o.tok \in NumberToken
  <2>1. p' = p /\ tok' = o.tok /\ reader \in NumberReader
    BY <1>2, <1>3, <1>9 DEF NumberStep, NumberToken, NumberReader, EndToken
  <2>2. PICK i \in offset .. p - 1 :
          Span(offset, i, Blank) /\ src[i + 1] \notin Blank /\ ReadAt(reader, i, p)
    <3>1. reader # "root"
      BY <2>1 DEF NumberReader
    <3> QED
      BY <1>1, <2>1, <3>1, NumberBegins
  <2>3. NumberAt(o.tok, i, p)
    BY <1>1, <1>3, <1>9, <2>2, NumberEnds
  <2> QED
    BY <1>2, <1>4, <1>6, <1>9, <2>1, <2>2, <2>3 DEF NumberInv, NumberReader
<1>10. CASE /\ o.to \notin NumberReader \cup {"root"}
            /\ o.to # "idle" \/ o.tok \notin NumberToken
  BY <1>2, <1>10 DEF NumberInv, EndToken
<1> QED
  BY <1>7, <1>8, <1>9, <1>10

LEMMA NextNumberInv == IInv /\ NumberInv /\ [Next]_vars => NumberInv'
<1> SUFFICES ASSUME IInv, NumberInv, [Next]_vars PROVE NumberInv'
  OBVIOUS
<1> USE DEF ReadAt, NumberAt, DecIntAt, OctIntAt, HexIntAt, ScientificAt, SignedAt,
            MantissaAt, DottedAt, Span
<1>1. CASE UNCHANGED <<src, p, tok, reader, offset>> /\ (ret = "Error" => ret' = "Error")
  BY <1>1 DEF NumberInv
<1>2. CASE UNCHANGED vars
  BY <1>1, <1>2 DEF vars
<1>3. CASE NextQueued
  BY <1>1, <1>3 DEF NextQueued, IInv, TextInv
<1>4. CASE NextBegins
  BY <1>4 DEF NextBegins, NumberInv, NumberReader, IInv, TextInv
<1>5. CASE ReadChar
  BY <1>5, NumberKept
<1>6. CASE ReachEnd
  BY <1>6 DEF ReachEnd, IInv, TextInv, End
<1>7. CASE ParseReturns
  BY <1>1, <1>7 DEF ParseReturns
<1> QED
  BY <1>2, <1>3, <1>4, <1>5, <1>6, <1>7 DEF Next

-----------------------------------------------------------------------------
(* Pieces of the source *)

\* t holds the bytes of the source after a, up to b.
IsSlice(t, a, b) ==
  /\ a \in Nat /\ b \in Nat /\ a <= b
  /\ t \in Seq(Byte) /\ Len(t) = b - a /\ \A j \in 1 .. b - a : t[j] = src[a + j]

LEMMA SliceValues ==
  ASSUME NEW t, NEW a, NEW b, IsSlice(t, a, b)
  PROVE  DOMAIN t = 1 .. b - a /\ \A j \in 1 .. b - a : t[j] = src[a + j]
BY DEF IsSlice

LEMMA SliceOfSource ==
  ASSUME src \in Seq(Byte), NEW a \in Nat, NEW b \in Nat, a <= b, b <= End
  PROVE  IsSlice(SubSeq(src, a + 1, b), a, b)
<1>1. \A j \in a + 1 .. b : src[j] \in Byte
  BY DEF End
<1>2. /\ SubSeq(src, a + 1, b) \in Seq(Byte)
      /\ Len(SubSeq(src, a + 1, b)) = IF a + 1 <= b THEN b - (a + 1) + 1 ELSE 0
      /\ \A j \in 1 .. b - (a + 1) + 1 : SubSeq(src, a + 1, b)[j] = src[(a + 1) + j - 1]
  BY <1>1, SubSeqProperties
<1>3. /\ b - (a + 1) + 1 = b - a
      /\ \A j \in 1 .. b - a : (a + 1) + j - 1 = a + j
  OBVIOUS
<1> QED
  BY <1>2, <1>3 DEF IsSlice

LEMMA SliceOfSlice ==
  ASSUME NEW t, NEW a, NEW b, IsSlice(t, a, b), NEW m \in Nat, NEW n \in Nat,
         m <= n, n <= b - a
  PROVE  IsSlice(SubSeq(t, m + 1, n), a + m, a + n)
<1> DEFINE u == SubSeq(t, m + 1, n)
<1>1. a \in Nat /\ b \in Nat /\ t \in Seq(Byte) /\ Len(t) = b - a
  BY DEF IsSlice
<1>2. \A j \in m + 1 .. n : t[j] \in Byte
  BY <1>1
<1>3. /\ u \in Seq(Byte)
      /\ Len(u) = IF m + 1 <= n THEN n - (m + 1) + 1 ELSE 0
      /\ \A j \in 1 .. n - (m + 1) + 1 : u[j] = t[(m + 1) + j - 1]
  BY <1>2, SubSeqProperties
<1>4. Len(u) = n - m
  BY <1>3
<1>5. ASSUME NEW j \in 1 .. n - m PROVE u[j] = src[(a + m) + j]
  <2>1. m + j \in 1 .. b - a /\ j \in 1 .. n - (m + 1) + 1 /\ (m + 1) + j - 1 = m + j
    BY <1>1
  <2>2. u[j] = t[m + j]
    BY <1>3, <2>1
  <2>3. t[m + j] = src[a + (m + j)]
    BY <2>1 DEF IsSlice
  <2>4. a + (m + j) = (a + m) + j
    BY <1>1
  <2> QED
    BY <2>2, <2>3, <2>4
<1>6. /\ (a + n) - (a + m) = n - m /\ a + m <= a + n
      /\ a + m \in Nat /\ a + n \in Nat
  BY <1>1
<1> HIDE DEF u
<1>7. IsSlice(u, a + m, a + n)
  BY <1>3, <1>4, <1>5, <1>6 DEF IsSlice
<1> QED
  BY <1>7 DEF u

LEMMA SliceIn ==
  ASSUME NEW t, NEW a, NEW b, IsSlice(t, a, b), NEW S, Span(a, b, S)
  PROVE  AllIn(t, S)
<1>1. a \in Nat /\ b \in Nat /\ DOMAIN t = 1 .. b - a
  BY DEF IsSlice
<1> SUFFICES ASSUME NEW j \in 1 .. b - a PROVE t[j] \in S
  BY <1>1 DEF AllIn
<1>2. a + j \in a + 1 .. b
  BY <1>1
<1> QED
  BY <1>2 DEF IsSlice, Span

-----------------------------------------------------------------------------
(* A number has the text its grammar allows *)

LEMMA DecIntSlice ==
  ASSUME NEW s, NEW i, NEW q, IsSlice(s, i, q), DecIntAt(i, q)
  PROVE  IsDecInt(s)
<1>1. i \in Nat /\ q \in Nat /\ q > i /\ s \in Seq(Byte) /\ Len(s) = q - i /\ s[1] = src[i + 1]
  BY DEF IsSlice, DecIntAt
<1>2. CASE q = i + 1 /\ src[i + 1] = "zero"
  <2>1. Len(s) = 1 /\ s[1] = "zero"
    BY <1>1, <1>2
  <2>2. s = <<"zero">>
    BY <1>1, <2>1
  <2> QED
    BY <2>2 DEF IsDecInt
<1>3. CASE src[i + 1] # "zero" /\ Span(i, q, Decimal)
  <2>1. AllIn(s, Decimal) /\ s # <<>>
    BY <1>1, <1>3, SliceIn
  <2> QED
    BY <1>1, <1>3, <2>1 DEF IsDecInt
<1> QED
  BY <1>2, <1>3 DEF DecIntAt

LEMMA OctIntSlice ==
  ASSUME NEW s, NEW i, NEW q, IsSlice(s, i, q), OctIntAt(i, q)
  PROVE  IsOctInt(s)
<1>1. Len(s) > 1 /\ s[1] = "zero"
  BY DEF IsSlice, OctIntAt
<1>2. AllIn(s, Octal)
  BY SliceIn DEF OctIntAt
<1> QED
  BY <1>1, <1>2 DEF IsOctInt

LEMMA HexIntSlice ==
  ASSUME NEW s, NEW i, NEW q, IsSlice(s, i, q), HexIntAt(i, q)
  PROVE  IsHexInt(s) \/ s = <<"zero", "x">>
<1>1. /\ i \in Nat /\ q \in Nat /\ s \in Seq(Byte) /\ Len(s) = q - i /\ q > i + 1
      /\ s[1] = "zero" /\ s[2] = "x"
  BY DEF IsSlice, HexIntAt
<1>2. IsSlice(SubSeq(s, 2 + 1, q - i), i + 2, i + (q - i))
  BY <1>1, SliceOfSlice
<1>3. Span(i + 2, i + (q - i), Hexa)
  <2>1. i + (q - i) = q
    BY <1>1
  <2> QED
    BY <2>1 DEF HexIntAt
<1>4. AllIn(SubSeq(s, 3, q - i), Hexa)
  <2>1. 2 + 1 = 3
    OBVIOUS
  <2> QED
    BY <1>2, <1>3, <2>1, SliceIn
<1>5. Len(s) = 2 => s = <<"zero", "x">>
  BY <1>1
<1> QED
  BY <1>1, <1>4, <1>5 DEF IsHexInt

\* The exponent after k: "e", perhaps a sign, and digits from s on.
LEMMA ExponentSlice ==
  ASSUME NEW t, NEW k, NEW q, IsSlice(t, k, q), src[k + 1] = "e", NEW s \in Nat, s < q,
         s = k + 1 \/ (s = k + 2 /\ src[k + 2] = "plus"), Span(s, q, Decimal)
  PROVE  IsExponent(t)
<1>1. k \in Nat /\ q \in Nat /\ Len(t) = q - k /\ q - k > 1 /\ t[1] = "e"
  BY DEF IsSlice
<1>2. k + (q - k) = q
  BY <1>1
<1>3. CASE s = k + 1
  <2>1. IsSlice(SubSeq(t, 1 + 1, q - k), k + 1, k + (q - k))
    BY <1>1, SliceOfSlice
  <2>2. AllIn(SubSeq(t, 1 + 1, q - k), Decimal)
    BY <1>2, <1>3, <2>1, SliceIn
  <2>3. AllIn(SubSeq(t, 2, Len(t)), Decimal)
    BY <1>1, <2>2
  <2> QED
    BY <1>1, <2>3 DEF IsExponent
<1>4. CASE s = k + 2 /\ src[k + 2] = "plus"
  <2>1. IsSlice(SubSeq(t, 2 + 1, q - k), k + 2, k + (q - k))
    BY <1>1, <1>4, SliceOfSlice
  <2>2. AllIn(SubSeq(t, 2 + 1, q - k), Decimal)
    BY <1>2, <1>4, <2>1, SliceIn
  <2>3. AllIn(SubSeq(t, 3, Len(t)), Decimal)
    BY <1>1, <2>2
  <2>4. Len(t) > 2 /\ t[2] = "plus"
    BY <1>1, <1>4 DEF IsSlice
  <2> QED
    BY <1>1, <2>3, <2>4 DEF IsExponent
<1> QED
  BY <1>3, <1>4

\* Digits with a dot, and nothing else.
LEMMA DottedSlice ==
  ASSUME NEW s, NEW i, NEW q, IsSlice(s, i, q), NEW k \in Nat, k <= q, DottedAt(i, k)
  PROVE  /\ k - i > 1
         /\ \E d \in 1 .. k - i :
              s[d] = "dot" /\ \A j \in (1 .. k - i) \ {d} : s[j] \in Decimal
<1>1. i \in Nat /\ q \in Nat
  BY DEF IsSlice
<1>2. PICK d \in i + 1 .. k :
        src[d] = "dot" /\ Span(i, d - 1, Decimal) /\ Span(d, k, Decimal)
  BY DEF DottedAt
<1>3. \A j \in 1 .. k - i : s[j] = src[i + j]
  BY <1>1 DEF IsSlice
<1>4. d - i \in 1 .. k - i /\ i + (d - i) = d
  BY <1>1, <1>2
<1>5. s[d - i] = "dot"
  BY <1>2, <1>3, <1>4
<1>6. ASSUME NEW j \in (1 .. k - i) \ {d - i} PROVE s[j] \in Decimal
  <2>1. i + j \in i + 1 .. d - 1 \/ i + j \in d + 1 .. k
    BY <1>1, <1>2, <1>6
  <2>2. src[i + j] \in Decimal
    BY <1>2, <2>1 DEF Span
  <2> QED
    BY <1>3, <2>2
<1>7. k - i > 1
  BY <1>1 DEF DottedAt
<1> QED
  BY <1>4, <1>5, <1>6, <1>7

LEMMA MantissaSlice ==
  ASSUME NEW s, NEW i, NEW q, IsSlice(s, i, q), NEW k \in Nat, i < k, k <= q,
         MantissaAt(i, k)
  PROVE  \/ AllIn(SubSeq(s, 1, k - i), Decimal)
         \/ /\ k - i > 1
            /\ \E d \in 1 .. k - i :
                 s[d] = "dot" /\ \A j \in (1 .. k - i) \ {d} : s[j] \in Decimal
<1>1. i \in Nat /\ q \in Nat
  BY DEF IsSlice
<1>2. CASE Span(i, k, Decimal)
  <2>1. IsSlice(SubSeq(s, 0 + 1, k - i), i + 0, i + (k - i))
    BY <1>1, SliceOfSlice
  <2>2. i + 0 = i /\ i + (k - i) = k /\ 0 + 1 = 1
    BY <1>1
  <2> QED
    BY <1>2, <2>1, <2>2, SliceIn
<1>3. CASE DottedAt(i, k)
  BY <1>3, DottedSlice
<1> QED
  BY <1>2, <1>3 DEF MantissaAt

LEMMA FloatSlice ==
  ASSUME NEW s, NEW i, NEW q, IsSlice(s, i, q), DottedAt(i, q) \/ ScientificAt(i, q)
  PROVE  IsFloat(s)
<1>1. i \in Nat /\ q \in Nat /\ Len(s) = q - i
  BY DEF IsSlice
<1>2. CASE DottedAt(i, q)
  <2>1. /\ q - i > 1
        /\ \E d \in 1 .. q - i :
             s[d] = "dot" /\ \A j \in (1 .. q - i) \ {d} : s[j] \in Decimal
    BY <1>1, <1>2, DottedSlice
  <2>2. q - i \in 1 .. Len(s)
    BY <1>1, <2>1
  <2>3. SubSeq(s, (q - i) + 1, Len(s)) = <<>>
    BY <1>1, SubSeqEmpty
  <2> QED
    BY <2>1, <2>2, <2>3 DEF IsFloat
<1>3. CASE ScientificAt(i, q)
  <2>1. PICK b \in i + 1 .. q : b < q /\ SignedAt(i, b) /\ Span(b, q, Decimal)
    BY <1>3 DEF ScientificAt
  <2>2. PICK k \in i + 1 .. b :
          /\ MantissaAt(i, k) /\ src[k + 1] = "e"
          /\ b = k + 1 \/ (b = k + 2 /\ src[k + 2] = "plus")
    BY <2>1 DEF SignedAt
  <2>3. k \in Nat /\ i < k /\ k <= q /\ k - i \in 1 .. q - i /\ b \in Nat
    BY <1>1, <2>1, <2>2
  <2>4. IsExponent(SubSeq(s, (k - i) + 1, q - i))
    <3>1. IsSlice(SubSeq(s, (k - i) + 1, q - i), i + (k - i), i + (q - i))
      <4>1. k - i \in Nat /\ q - i \in Nat /\ k - i <= q - i /\ q - i <= q - i
        BY <1>1, <2>3
      <4> QED
        BY <4>1, SliceOfSlice
    <3>2. i + (k - i) = k /\ i + (q - i) = q
      BY <1>1, <2>3
    <3>3. IsSlice(SubSeq(s, (k - i) + 1, q - i), k, q)
      BY <3>1, <3>2
    <3> QED
      BY <2>1, <2>2, <2>3, <3>3, ExponentSlice
  <2>5. \/ AllIn(SubSeq(s, 1, k - i), Decimal)
        \/ /\ k - i > 1
           /\ \E d \in 1 .. k - i :
                s[d] = "dot" /\ \A j \in (1 .. k - i) \ {d} : s[j] \in Decimal
    BY <2>2, <2>3, MantissaSlice
  <2> QED
    BY <1>1, <2>3, <2>4, <2>5 DEF IsFloat
<1> QED
  BY <1>2, <1>3

\* The text of a token begins at its first byte that is not blank.
LEMMA StartFound ==
  ASSUME offset \in Nat, p \in Nat, NEW i \in offset .. p - 1, Span(offset, i, Blank),
         src[i + 1] \notin Blank
  PROVE  Start = i
<1>1. ASSUME NEW j \in offset .. p, j < p => src[j + 1] \notin Blank,
             \A k \in offset + 1 .. j : src[k] \in Blank, j # i
      PROVE  FALSE
  <2>1. CASE j < i
    <3>1. j + 1 \in offset + 1 .. i /\ j < p
      BY <1>1, <2>1
    <3> QED
      BY <1>1, <3>1 DEF Span
  <2>2. CASE i < j
    <3>1. i + 1 \in offset + 1 .. j
      BY <1>1, <2>2
    <3> QED
      BY <1>1, <3>1
  <2> QED
    BY <1>1, <2>1, <2>2
<1>2. i \in offset .. p /\ \A k \in offset + 1 .. i : src[k] \in Blank
  BY DEF Span
<1> QED
  BY <1>1, <1>2 DEF Start

LEMMA NumberLexeme == IInv /\ NumberInv => NumbersButBareHex
<1> SUFFICES ASSUME IInv, NumberInv, Returned, tok \in NumberToken
             PROVE  /\ tok = "DecIntLit" => IsDecInt(Lexeme)
                    /\ tok = "OctIntLit" => IsOctInt(Lexeme)
                    /\ tok = "HexIntLit" => IsHexInt(Lexeme) \/ Lexeme = <<"zero", "x">>
                    /\ tok = "FloatLit" => IsFloat(Lexeme)
  BY DEF NumbersButBareHex, NumberToken
<1>1. /\ src \in Seq(Byte) /\ offset \in Nat /\ p \in Nat /\ p <= End
      /\ reader = "idle" /\ ret # "Error"
  BY DEF IInv, TextInv, LineInv, Returned, NumberToken, End
<1>2. PICK i \in offset .. p - 1 :
        Span(offset, i, Blank) /\ src[i + 1] \notin Blank /\ NumberAt(tok, i, p)
  BY <1>1 DEF NumberInv
<1>3. Lexeme = SubSeq(src, i + 1, p)
  BY <1>1, <1>2, StartFound DEF Lexeme
<1>4. IsSlice(Lexeme, i, p)
  BY <1>1, <1>2, <1>3, SliceOfSource
<1>5. tok = "DecIntLit" => IsDecInt(Lexeme)
  BY <1>2, <1>4, DecIntSlice DEF NumberAt
<1>6. tok = "OctIntLit" => IsOctInt(Lexeme)
  BY <1>2, <1>4, OctIntSlice DEF NumberAt
<1>7. tok = "HexIntLit" => IsHexInt(Lexeme) \/ Lexeme = <<"zero", "x">>
  BY <1>2, <1>4, HexIntSlice DEF NumberAt
<1>8. tok = "FloatLit" => IsFloat(Lexeme)
  BY <1>2, <1>4, FloatSlice DEF NumberAt
<1> QED
  BY <1>5, <1>6, <1>7, <1>8

\* A number has the text its grammar allows, `0x` without a digit excepted, in every
\* text: no character is lost at its end, none of the next token is taken into it,
\* and what one reader began in one notation no other ends in a second.
THEOREM NumbersAlwaysButBareHex ==
  ASSUME \A s \in Inputs : IsText(s)
  PROVE  Spec => []NumbersButBareHex
<1>1. Init => NumberInv
  BY DEF Init, NumberInv, NumberReader, NumberToken
<1>2. IInv /\ NumberInv => NumbersButBareHex
  BY NumberLexeme
<1> QED
  BY <1>1, <1>2, IInvHolds, NextNumberInv, PTL DEF Spec

-----------------------------------------------------------------------------
(* Inserted semicolons: the last character of a token tells what token it is *)

Quotes == {"quote", "dquote"}
Space == {"ws"}

\* After these characters a statement goes on, or does not begin.
Continues == {"punct", "plus", "eq", "slash"}

\* The readers that have read a quote, ...
QuoteReader == {"char", "charend", "text", "escape", "hexchar"}

\* ... dots, ...
DotReader == {"dot", "dotdot", "dotdotdot"}

\* ... or what may be the end of a symbol or of a number.
WordReader == {"symbol", "zero", "oct", "dec", "hex", "float", "expdigits"}

\* There is a literal in quotes on the line before q, ...
Quoted(q) == \E j \in 1 .. q : src[j] \in Quotes /\ NoBreaks(j, q)

\* ... or a comment, if the slashes are not in quotes.
Commented(q) ==
  \E j \in 2 .. q : src[j - 1] = "slash" /\ src[j] = "slash" /\ NoBreaks(j, q)

\* What is known of the source before q, where the token t ends ...
LastOf(t, q) ==
  /\ t # "Error"
  /\ t = "End" => q = 0
  /\ t # "End" => q > 0
  /\ t \in {"CharLit", "TextLit"} => Quoted(q)
  /\ t = "LineComment" => Commented(q)
  /\ t \in NumberToken \cup {"Symbol"} => src[q] \notin Continues \cup Space \cup {"nl"}
  /\ t = "close" => src[q] = "close"
  /\ t \in {"punct", "plus", "=", "==", "/"} => src[q] \in Continues
  /\ t \in {".", "..", "..."} => src[q] = "dot"
  /\ t = "nl" => src[q] = "nl"

\* ... and where the reader r has got to.
SoFar(r, q) ==
  /\ r = "root" => Span(offset, q, Space)
  /\ r # "root" => q > 0
  /\ r \in WordReader => src[q] \notin Continues \cup Space \cup {"nl"}
  /\ r = "eq" => src[q] = "eq"
  /\ r \in DotReader => src[q] = "dot"
  /\ r \in QuoteReader => Quoted(q)
  /\ r = "solidus" => src[q] = "slash"
  /\ r = "comment" => Commented(q)

SemicolonInv ==
  /\ queued \in BOOLEAN
  /\ ret # "Error" => IF reader = "idle" THEN LastOf(tok, p)
                      ELSE ~queued /\ LastOf(tok, offset) /\ SoFar(reader, p)

\* The reader r goes on with c, or ends a token.
TokenStep(r, c, o) ==
  /\ o.to # "idle" => o.undo = FALSE /\ c # "nl"
  /\ o.to = "root" => r = "root" /\ c \in Space
  /\ o.to \in WordReader => c \notin Continues \cup Space
  /\ o.to = "eq" => c = "eq"
  /\ o.to \in DotReader => c = "dot"
  /\ o.to \in QuoteReader => c \in Quotes \/ r \in QuoteReader
  /\ o.to = "solidus" => c = "slash"
  /\ o.to = "comment" => r = "comment" \/ (r = "solidus" /\ c = "slash")

TokenEnd(r, c, o) ==
  /\ o.tok \in NumberToken \cup {"Symbol"} => o.undo = TRUE /\ r \in WordReader
  /\ o.tok = "/" => o.undo = TRUE /\ r = "solidus"
  /\ o.tok = "LineComment" => o.undo = TRUE /\ r = "comment"
  /\ o.tok \in {"CharLit", "TextLit"} => o.undo = FALSE /\ c \in Quotes
  /\ o.tok = "=" => o.undo = TRUE /\ r = "eq"
  /\ o.tok = "==" => o.undo = FALSE /\ c = "eq"
  /\ o.tok \in {".", "..", "..."} => o.undo = TRUE /\ r \in DotReader
  /\ o.tok \in {"nl", "punct", "close", "plus"} => o.undo = FALSE /\ c = o.tok /\ r = "root"
  /\ o.tok # "End"

LEMMA TokenOutcomes ==
  ASSUME NEW r \in Reader \ {"idle"}, NEW c \in Ascii \cup {"none", "bad"},
         NEW o \in Outcomes(r, c), quote \in {"quote", "dquote"}
  PROVE  TokenStep(r, c, o) /\ (o.to = "idle" => TokenEnd(r, c, o))
<1> USE DEF Goes, Ends, EndsBefore, Illegal, TokenStep, TokenEnd, NumberToken, Decimal,
            Octal, Hexa, Quotes, Space, Continues, QuoteReader, DotReader, WordReader
<1>1. CASE r = "root"
  BY <1>1 DEF Outcomes, ReadRoot
<1>2. CASE r = "symbol"
  BY <1>2 DEF Outcomes, ReadSymbol, ReadRoot
<1>3. CASE r \in {"eq", "solidus", "comment"}
  BY <1>3 DEF Outcomes, ReadEq, ReadSolidus, ReadLineComment
<1>4. CASE r \in {"char", "charend", "text"}
  BY <1>4 DEF Outcomes, ReadCharLit, ReadCharLitEnd, ReadTextLit
<1>5. CASE r \in {"escape", "hexchar"}
  <2>1. c = "nl" => EscapeDigits(c) = 0
    BY DEF EscapeDigits
  <2> QED
    BY <1>5, <2>1 DEF Outcomes, ReadCharLitEscape, ReadHexUChar, Resumes
<1>6. CASE r \in {"zero", "oct", "dec", "hex"}
  BY <1>6 DEF Outcomes, ReadZeroLeadingNumLit, ReadOctIntLit, ReadDecIntLit, ReadHexIntLit
<1>7. CASE r \in {"dot", "dotdot", "dotdotdot"}
  BY <1>7 DEF Outcomes, ReadDot, ReadDotDot, ReadDotDotDot
<1>8. CASE r \in {"float", "exp", "expsign", "expdigits"}
  BY <1>8 DEF Outcomes, ReadFloatLitAtDot, ReadFloatLitAtExp, ReadExpSign, ReadExpDigits
<1> QED
  BY <1>1, <1>2, <1>3, <1>4, <1>5, <1>6, <1>7, <1>8 DEF Reader

LEMMA QuotedGrows ==
  ASSUME NEW a \in Nat, NEW b \in Nat, a <= b, NoBreaks(a, b), Quoted(a)
  PROVE  Quoted(b)
<1>1. PICK j \in 1 .. a : src[j] \in Quotes /\ NoBreaks(j, a)
  BY DEF Quoted
<1>2. NoBreaks(j, b)
  BY <1>1 DEF NoBreaks
<1> QED
  BY <1>1, <1>2 DEF Quoted

LEMMA CommentedGrows ==
  ASSUME NEW a \in Nat, NEW b \in Nat, a <= b, NoBreaks(a, b), Commented(a)
  PROVE  Commented(b)
<1>1. PICK j \in 2 .. a : src[j - 1] = "slash" /\ src[j] = "slash" /\ NoBreaks(j, a)
  BY DEF Commented
<1>2. NoBreaks(j, b) /\ j \in 2 .. b
  BY <1>1 DEF NoBreaks
<1> QED
  BY <1>1, <1>2 DEF Commented

\* What the last byte of a character tells of it.
LEMMA LastByte ==
  ASSUME TextInv, ReadChar
  PROVE  LET c == CharAt(p)
             q == p + Width(p)
         IN  /\ q \in p + 1 .. p + 2
             /\ c \notin {"none", "z", "bad"} => src[q] = c
             /\ c \notin Continues \cup Space \cup {"nl"} =>
                  src[q] \notin Continues \cup Space \cup {"nl"}
             /\ c # "nl" => NoBreaks(p, q)
             /\ c \in Quotes => Quoted(q)
             /\ c = "slash" /\ p > 0 /\ src[p] = "slash" => Commented(q)
             /\ src[p + 1] \in {c, "lead", "badlead"}
             /\ q = p + 1 \/ src[q] = "trail"
<1> DEFINE c == CharAt(p)
           q == p + Width(p)
<1>1. /\ p \in 0 .. End - 1 /\ src[p + 1] # "trail" /\ src \in Seq(Byte) /\ IsText(src)
      /\ End \in Nat
  BY DEF ReadChar, TextInv, End
<1>2. /\ c # "nl" => src[p + 1] # "nl"
      /\ Width(p) \in 1 .. 2
      /\ Width(p) = 2 => src[p + 2] = "trail"
  BY <1>1, CharOfText
<1>3. /\ c \in {"z", "bad"} \/ (src[p + 1] = c /\ Width(p) = 1)
      /\ src[p + 1] = c \/ src[p + 1] \in Lead
      /\ c # "none"
  BY <1>1, PlainChar
<1>4. q \in p + 1 .. p + 2 /\ (q = p + 1 \/ (q = p + 2 /\ src[q] = "trail"))
  BY <1>1, <1>2
<1>5. c \notin {"none", "z", "bad"} => src[q] = c /\ q = p + 1
  BY <1>1, <1>3
<1>6. ASSUME c \notin Continues \cup Space \cup {"nl"}
      PROVE  src[q] \notin Continues \cup Space \cup {"nl"}
  <2>1. src[q] = c \/ src[q] \in Lead \/ src[q] = "trail"
    BY <1>3, <1>4
  <2> QED
    BY <1>6, <2>1 DEF Continues, Space, Lead
<1>7. ASSUME c # "nl" PROVE NoBreaks(p, q)
  <2> SUFFICES ASSUME NEW j \in p + 1 .. q PROVE src[j] # "nl"
    BY DEF NoBreaks
  <2>1. j = p + 1 \/ (j = p + 2 /\ j = q)
    BY <1>1, <1>4
  <2> QED
    BY <1>2, <1>4, <1>7, <2>1
<1>8. NoBreaks(q, q)
  BY <1>1, <1>4 DEF NoBreaks
<1>9. ASSUME c \in Quotes PROVE Quoted(q)
  <2>1. src[q] = c /\ q \in 1 .. q
    BY <1>1, <1>5, <1>9 DEF Quotes
  <2> QED
    BY <1>8, <1>9, <2>1 DEF Quoted
<1>10. ASSUME c = "slash", p > 0, src[p] = "slash" PROVE Commented(q)
  <2>1. src[q] = "slash" /\ q = p + 1 /\ q \in 2 .. q /\ q - 1 = p
    BY <1>1, <1>5, <1>10
  <2> QED
    BY <1>8, <1>10, <2>1 DEF Commented
<1>11. src[p + 1] \in {c, "lead", "badlead"}
  BY <1>3 DEF Lead
<1> QED
  BY <1>4, <1>5, <1>6, <1>7, <1>9, <1>10, <1>11

LEMMA ReaderGoes ==
  ASSUME IInv, ReadChar, SoFar(reader, p), NEW o, o.to \in Reader \ {"idle"},
         TokenStep(reader, CharAt(p), o)
  PROVE  SoFar(o.to, p + Width(p))
<1> DEFINE c == CharAt(p)
           q == p + Width(p)
<1>1. /\ q \in p + 1 .. p + 2 /\ p \in Nat /\ offset \in 0 .. p
      /\ c \notin {"none", "z", "bad"} => src[q] = c
      /\ c \notin Continues \cup Space \cup {"nl"} =>
           src[q] \notin Continues \cup Space \cup {"nl"}
      /\ c # "nl" => NoBreaks(p, q)
      /\ c \in Quotes => Quoted(q)
      /\ c = "slash" /\ p > 0 /\ src[p] = "slash" => Commented(q)
  BY LastByte DEF IInv, LineInv, TextInv, End
<1>2. c # "nl" /\ q > 0 /\ q \in Nat
  BY <1>1 DEF TokenStep
<1>3. o.to = "root" => Span(offset, q, Space)
  <2> SUFFICES ASSUME o.to = "root" PROVE Span(offset, q, Space)
    OBVIOUS
  <2>1. c \in Space /\ Span(offset, p, Space)
    BY DEF TokenStep, SoFar
  <2>2. src[p + 1] = c /\ Width(p) = 1
    <3>1. p \in 0 .. End - 1 /\ src[p + 1] # "trail" /\ src \in Seq(Byte) /\ IsText(src)
      BY DEF ReadChar, IInv, TextInv, End
    <3> QED
      BY <2>1, <3>1, PlainChar DEF Space
  <2> QED
    BY <1>1, <2>1, <2>2, SpanGrows
<1>4. o.to \in WordReader => src[q] \notin Continues \cup Space \cup {"nl"}
  BY <1>1, <1>2 DEF TokenStep
<1>5. /\ o.to = "eq" => src[q] = "eq"
      /\ o.to \in DotReader => src[q] = "dot"
      /\ o.to = "solidus" => src[q] = "slash"
  BY <1>1 DEF TokenStep
<1>6. o.to \in QuoteReader => Quoted(q)
  <2>1. CASE c \in Quotes
    BY <1>1, <2>1
  <2>2. CASE reader \in QuoteReader
    <3>1. Quoted(p) /\ NoBreaks(p, q)
      BY <1>1, <1>2, <2>2 DEF SoFar
    <3> QED
      BY <1>1, <1>2, <3>1, QuotedGrows
  <2> QED
    BY <2>1, <2>2 DEF TokenStep
<1>7. o.to = "comment" => Commented(q)
  <2>1. CASE reader = "solidus" /\ c = "slash"
    <3>1. src[p] = "slash" /\ p > 0
      BY <2>1 DEF SoFar
    <3> QED
      BY <1>1, <2>1, <3>1
  <2>2. CASE reader = "comment"
    <3>1. Commented(p) /\ NoBreaks(p, q)
      BY <1>1, <1>2, <2>2 DEF SoFar
    <3> QED
      BY <1>1, <1>2, <3>1, CommentedGrows
  <2> QED
    BY <2>1, <2>2 DEF TokenStep
<1> QED
  BY <1>2, <1>3, <1>4, <1>5, <1>6, <1>7 DEF SoFar

LEMMA ReaderEnds ==
  ASSUME IInv, ReadChar, SoFar(reader, p), NEW o, o.tok \in Token \ {"Error"},
         o.undo \in BOOLEAN, TokenEnd(reader, CharAt(p), o)
  PROVE  LastOf(o.tok, IF o.undo THEN p ELSE p + Width(p))
<1> DEFINE c == CharAt(p)
           q == p + Width(p)
<1>1. /\ q \in p + 1 .. p + 2 /\ p \in Nat
      /\ c \notin {"none", "z", "bad"} => src[q] = c
      /\ c \in Quotes => Quoted(q)
  BY LastByte DEF IInv, LineInv, TextInv, End
<1> USE DEF TokenEnd, SoFar, LastOf, NumberToken
<1>2. CASE o.tok \in NumberToken \cup {"Symbol"}
  <2>1. reader # "root" /\ o.undo = TRUE
    BY <1>2 DEF WordReader
  <2> QED
    BY <1>2, <2>1
<1>3. CASE o.tok \in {"/", "LineComment"}
  BY <1>3 DEF Continues
<1>4. CASE o.tok \in {"CharLit", "TextLit"}
  <2>1. Quoted(q) /\ q > 0 /\ o.undo = FALSE
    BY <1>1, <1>4
  <2> QED
    BY <1>4, <2>1
<1>5. CASE o.tok = "="
  BY <1>5 DEF Continues
<1>6. CASE o.tok = "=="
  <2>1. src[q] = "eq" /\ q > 0 /\ o.undo = FALSE
    BY <1>1, <1>6
  <2> QED
    BY <1>6, <2>1 DEF Continues
<1>7. CASE o.tok \in {".", "..", "..."}
  <2>1. reader # "root" /\ o.undo = TRUE
    BY <1>7 DEF DotReader
  <2> QED
    BY <1>7, <2>1
<1>8. CASE o.tok \in {"nl", "punct", "close", "plus"}
  <2>1. src[q] = o.tok /\ q > 0 /\ o.undo = FALSE
    BY <1>1, <1>8
  <2> QED
    BY <1>8, <2>1 DEF Continues
<1> QED
  BY <1>2, <1>3, <1>4, <1>5, <1>6, <1>7, <1>8 DEF Token, Literal

LEMMA SemicolonKept == ASSUME IInv, SemicolonInv, ReadChar PROVE SemicolonInv'
<1> DEFINE c == CharAt(p)
<1>1. /\ reader \in Reader \ {"idle"} /\ quote \in {"quote", "dquote"} /\ ret # "Error"
      /\ c \in Ascii \cup {"none", "bad"} /\ queued = FALSE
      /\ LastOf(tok, offset) /\ SoFar(reader, p)
  BY CharType DEF ReadChar, IInv, TextInv, SemicolonInv, End
<1>2. PICK o \in Outcomes(reader, c) :
        /\ UNCHANGED <<src, offset>>
        /\ p' = IF o.undo THEN p ELSE p + Width(p)
        /\ reader' = o.to
        /\ o.to = "idle" => EndToken(o.tok, p')
        /\ o.to # "idle" => UNCHANGED <<tok, queued, ret>>
  BY ReadCharOutcome DEF IInv
<1>3. /\ TokenStep(reader, c, o) /\ (o.to = "idle" => TokenEnd(reader, c, o))
      /\ o \in Outcome(c)
  BY <1>1, TokenOutcomes, OutcomesType
<1>4. \A t, q : LastOf(t, q)' <=> LastOf(t, q)
  BY <1>2 DEF LastOf, Quoted, Commented, NoBreaks
<1>5. \A r, q : SoFar(r, q)' <=> SoFar(r, q)
  BY <1>2 DEF SoFar, Quoted, Commented, NoBreaks, Span
<1>6. /\ o.to \in Reader
      /\ o.to = "idle" => o.tok \in Token
      /\ o.undo \in BOOLEAN
  <2>1. CASE \E t \in Token : o = EndsBefore(t)
    BY <2>1 DEF EndsBefore, Reader
  <2>2. CASE \E t \in Token : o = Ends(t)
    BY <2>2 DEF Ends, Reader
  <2>3. CASE \E r \in Reader \ {"idle"} : o = Goes(r)
    BY <2>3 DEF Goes
  <2> QED
    BY <1>3, <2>1, <2>2, <2>3 DEF Outcome, Illegal, Token
<1>7. CASE o.to # "idle"
  <2>1. SoFar(o.to, p + Width(p)) /\ p' = p + Width(p)
    BY <1>1, <1>2, <1>3, <1>6, <1>7, ReaderGoes DEF TokenStep
  <2> QED
    BY <1>1, <1>2, <1>4, <1>5, <1>7, <2>1 DEF SemicolonInv
<1>8. CASE o.to = "idle"
  <2>1. tok' = o.tok /\ queued' \in BOOLEAN /\ reader' = "idle"
    BY <1>1, <1>2, <1>8 DEF EndToken
  <2>2. CASE o.tok = "Error"
    <3>1. ret' = "Error"
      BY <1>2, <1>8, <2>2 DEF EndToken, Return
    <3> QED
      BY <2>1, <3>1 DEF SemicolonInv
  <2>3. CASE o.tok # "Error"
    <3>1. LastOf(o.tok, p')
      BY <1>1, <1>2, <1>3, <1>6, <1>8, <2>3, ReaderEnds
    <3> QED
      BY <1>4, <2>1, <3>1 DEF SemicolonInv
  <2> QED
    BY <2>2, <2>3
<1> QED
  BY <1>7, <1>8

LEMMA NextSemicolonInv == IInv /\ SemicolonInv /\ [Next]_vars => SemicolonInv'
<1> SUFFICES ASSUME IInv, SemicolonInv, [Next]_vars PROVE SemicolonInv'
  OBVIOUS
<1> USE DEF LastOf, SoFar, Quoted, Commented, NoBreaks, Span
<1>1. CASE UNCHANGED vars
  BY <1>1 DEF vars, SemicolonInv
<1>2. CASE NextQueued
  BY <1>2 DEF NextQueued, Unqueue, SemicolonInv, IInv, TextInv
<1>3. CASE NextBegins
  <2>1. /\ UNCHANGED <<src, p, tok, queued, ret>> /\ offset' = p /\ reader = "idle"
        /\ reader' = "root" /\ queued = FALSE /\ p \in Nat
    BY <1>3 DEF NextBegins, SemicolonInv, IInv, TextInv, End
  <2> QED
    BY <2>1 DEF SemicolonInv, WordReader, DotReader, QuoteReader
<1>4. CASE ReadChar
  BY <1>4, SemicolonKept
<1>5. CASE ReachEnd
  BY <1>5 DEF ReachEnd, IInv, TextInv, End
<1>6. CASE ParseReturns
  BY <1>6 DEF ParseReturns, SemicolonInv
<1> QED
  BY <1>1, <1>2, <1>3, <1>4, <1>5, <1>6 DEF Next

-----------------------------------------------------------------------------
(* Comments: two slashes outside quotes are always read as one *)

\* After a slash, a second one is not read as anything but a comment; after two, the
\* rest of the line is the comment, and the line break comes next.
CommentInv ==
  ret # "Error" /\ ~Quoted(p) /\ p > 0 =>
    /\ src[p] = "slash" =>
         \/ reader \in {"solidus", "comment"}
         \/ reader \in {"idle", "root"} /\ src[p + 1] # "slash"
    /\ Commented(p) =>
         \/ reader = "comment"
         \/ reader \in {"idle", "root"} /\ tok = "LineComment" /\ src[p + 1] = "nl"

\* The readers of comments take every slash, and end before another character.
CommentStep(r, c, o) ==
  /\ o.undo = TRUE => o.to = "idle" /\ r # "root"
  /\ o.undo = TRUE /\ r = "solidus" => c # "slash"
  /\ o.undo = TRUE /\ r = "comment" => o.tok = "LineComment" /\ c = "nl"
  /\ o.undo = FALSE /\ r = "comment" => o.to = "comment"
  /\ o.undo = FALSE /\ c = "slash" /\ r \notin QuoteReader \cup {"solidus", "comment"} =>
       o.to = "solidus" \/ (o.to = "idle" /\ o.tok = "Error")
  /\ o.undo = FALSE /\ c = "slash" /\ r = "solidus" => o.to = "comment"

LEMMA CommentOutcomes ==
  ASSUME NEW r \in Reader \ {"idle"}, NEW c \in Ascii \cup {"none", "bad"},
         NEW o \in Outcomes(r, c)
  PROVE  CommentStep(r, c, o)
<1> USE DEF Goes, Ends, EndsBefore, Illegal, CommentStep, Decimal, Octal, Hexa, QuoteReader
<1>1. CASE r = "root"
  BY <1>1 DEF Outcomes, ReadRoot
<1>2. CASE r = "symbol"
  BY <1>2 DEF Outcomes, ReadSymbol, ReadRoot
<1>3. CASE r \in {"eq", "solidus", "comment"}
  BY <1>3 DEF Outcomes, ReadEq, ReadSolidus, ReadLineComment
<1>4. CASE r \in {"char", "charend", "text", "escape", "hexchar"}
  BY <1>4 DEF Outcomes, ReadCharLit, ReadCharLitEnd, ReadTextLit, ReadCharLitEscape,
         ReadHexUChar, Resumes
<1>5. CASE r \in {"zero", "oct", "dec", "hex"}
  BY <1>5 DEF Outcomes, ReadZeroLeadingNumLit, ReadOctIntLit, ReadDecIntLit, ReadHexIntLit
<1>6. CASE r \in {"dot", "dotdot", "dotdotdot"}
  BY <1>6 DEF Outcomes, ReadDot, ReadDotDot, ReadDotDotDot
<1>7. CASE r \in {"float", "exp", "expsign", "expdigits"}
  BY <1>7 DEF Outcomes, ReadFloatLitAtDot, ReadFloatLitAtExp, ReadExpSign, ReadExpDigits
<1> QED
  BY <1>1, <1>2, <1>3, <1>4, <1>5, <1>6, <1>7 DEF Reader

LEMMA CommentKept == ASSUME IInv, SemicolonInv, CommentInv, ReadChar PROVE CommentInv'
<1> DEFINE c == CharAt(p)
           q == p + Width(p)
<1>1. /\ reader \in Reader \ {"idle"} /\ quote \in {"quote", "dquote"} /\ ret # "Error"
      /\ c \in Ascii \cup {"none", "bad"} /\ p \in Nat /\ SoFar(reader, p)
  BY CharType DEF ReadChar, IInv, TextInv, SemicolonInv, End
<1>2. PICK o \in Outcomes(reader, c) :
        /\ src' = src
        /\ p' = IF o.undo THEN p ELSE q
        /\ reader' = o.to
        /\ o.to = "idle" => EndToken(o.tok, p')
        /\ o.to # "idle" => UNCHANGED <<tok, queued, ret>>
  BY ReadCharOutcome DEF IInv
<1>3. /\ CommentStep(reader, c, o) /\ TokenStep(reader, c, o)
      /\ o.to = "idle" => TokenEnd(reader, c, o)
      /\ o \in Outcome(c) /\ o.undo \in BOOLEAN
  <2>1. o \in Outcome(c)
    BY <1>1, OutcomesType
  <2>2. CASE \E t \in Token : o = EndsBefore(t)
    BY <1>1, <2>1, <2>2, CommentOutcomes, TokenOutcomes DEF EndsBefore
  <2>3. CASE \E t \in Token : o = Ends(t)
    BY <1>1, <2>1, <2>3, CommentOutcomes, TokenOutcomes DEF Ends
  <2>4. CASE \E r \in Reader \ {"idle"} : o = Goes(r)
    BY <1>1, <2>1, <2>4, CommentOutcomes, TokenOutcomes DEF Goes
  <2> QED
    BY <2>1, <2>2, <2>3, <2>4 DEF Outcome, Illegal, Token
<1>4. /\ q \in p + 1 .. p + 2
      /\ c \notin {"none", "z", "bad"} => src[q] = c
      /\ c # "nl" => NoBreaks(p, q)
      /\ src[p + 1] \in {c, "lead", "badlead"}
      /\ q = p + 1 \/ src[q] = "trail"
  BY LastByte DEF IInv
<1>5. o.to = "idle" => tok' = o.tok /\ (o.tok = "Error" => ret' = "Error")
  BY <1>2 DEF EndToken, Return
<1>6. \A n : Quoted(n)' <=> Quoted(n)
  BY <1>2 DEF Quoted, NoBreaks
<1>7. \A n : Commented(n)' <=> Commented(n)
  BY <1>2 DEF Commented, NoBreaks
<1> SUFFICES ASSUME ret' # "Error", ~Quoted(p'), p' > 0
             PROVE  /\ src[p'] = "slash" =>
                         \/ o.to \in {"solidus", "comment"}
                         \/ o.to \in {"idle", "root"} /\ src[p' + 1] # "slash"
                    /\ Commented(p') =>
                         \/ o.to = "comment"
                         \/ /\ o.to \in {"idle", "root"} /\ tok' = "LineComment"
                            /\ src[p' + 1] = "nl"
  BY <1>2, <1>6, <1>7 DEF CommentInv
<1>8. CASE o.undo = TRUE
  <2>1. /\ p' = p /\ o.to = "idle" /\ reader # "root" /\ tok' = o.tok
    BY <1>2, <1>3, <1>5, <1>8 DEF CommentStep
  <2>2. /\ src[p] = "slash" => reader \in {"solidus", "comment"}
        /\ Commented(p) => reader = "comment"
    BY <1>1, <2>1 DEF CommentInv
  <2>3. /\ reader = "solidus" => src[p + 1] # "slash"
        /\ reader = "comment" => tok' = "LineComment" /\ src[p + 1] = "nl"
    BY <1>3, <1>4, <1>8, <2>1 DEF CommentStep
  <2> QED
    BY <2>1, <2>2, <2>3
<1>9. CASE o.undo = FALSE /\ c = "nl"
  <2>1. p' = q /\ src[q] = "nl" /\ q \in Nat
    BY <1>1, <1>2, <1>4, <1>9
  <2>2. ~Commented(q)
    BY <2>1 DEF Commented, NoBreaks
  <2> QED
    BY <2>1, <2>2
<1>10. CASE o.undo = FALSE /\ c # "nl"
  <2>1. p' = q /\ NoBreaks(p, q) /\ q \in Nat /\ p <= q
    BY <1>1, <1>2, <1>4, <1>10
  <2>2. ~Quoted(p) /\ reader \notin QuoteReader
    BY <1>1, <2>1, QuotedGrows DEF SoFar
  <2>3. ASSUME c = "slash" PROVE o.to \in {"solidus", "comment"}
    BY <1>3, <1>5, <1>10, <2>2, <2>3 DEF CommentStep
  <2>4. ASSUME src[q] = "slash" PROVE o.to \in {"solidus", "comment"}
    <3>1. c = "slash"
      BY <1>4, <2>4
    <3> QED
      BY <2>3, <3>1
  <2>5. ASSUME Commented(p) PROVE o.to = "comment"
    <3>1. p > 0
      BY <1>1, <2>5 DEF Commented
    <3>2. reader = "comment"
      BY <1>1, <1>4, <1>10, <2>2, <2>5, <3>1 DEF CommentInv
    <3> QED
      BY <1>3, <1>10, <3>2 DEF CommentStep
  <2>6. ASSUME Commented(q) PROVE o.to = "comment"
    <3>1. PICK j \in 2 .. q : src[j - 1] = "slash" /\ src[j] = "slash" /\ NoBreaks(j, q)
      BY <2>6 DEF Commented
    <3>2. CASE j <= p
      <4>1. NoBreaks(j, p) /\ j \in 2 .. p
        BY <1>1, <2>1, <3>1, <3>2 DEF NoBreaks
      <4> QED
        BY <2>5, <3>1, <4>1 DEF Commented
    <3>3. CASE j = p + 1
      <4>1. src[p] = "slash" /\ c = "slash" /\ src[p + 1] = "slash" /\ p > 0
        BY <1>1, <1>4, <3>1, <3>3
      <4>2. reader \in {"solidus", "comment"}
        BY <1>1, <2>2, <4>1 DEF CommentInv
      <4> QED
        BY <1>3, <1>10, <4>1, <4>2 DEF CommentStep
    <3>4. CASE j > p + 1
      <4>1. j = q /\ q # p + 1
        BY <1>1, <1>4, <3>1, <3>4
      <4> QED
        BY <1>4, <3>1, <4>1
    <3> QED
      BY <1>1, <3>1, <3>2, <3>3, <3>4
  <2> QED
    BY <2>1, <2>4, <2>6
<1> QED
  BY <1>3, <1>8, <1>9, <1>10

LEMMA NextCommentInv == IInv /\ SemicolonInv /\ CommentInv /\ [Next]_vars => CommentInv'
<1> SUFFICES ASSUME IInv, SemicolonInv, CommentInv, [Next]_vars PROVE CommentInv'
  OBVIOUS
<1> USE DEF CommentInv, Quoted, Commented, NoBreaks
<1>1. CASE UNCHANGED vars
  BY <1>1 DEF vars
<1>2. CASE NextQueued
  BY <1>2 DEF NextQueued, IInv, TextInv
<1>3. CASE NextBegins
  BY <1>3 DEF NextBegins
<1>4. CASE ReadChar
  BY <1>4, CommentKept
<1>5. CASE ReachEnd
  BY <1>5 DEF ReachEnd, IInv, TextInv, End
<1>6. CASE ParseReturns
  BY <1>6 DEF ParseReturns
<1> QED
  BY <1>1, <1>2, <1>3, <1>4, <1>5, <1>6 DEF Next

-----------------------------------------------------------------------------
(* The line before a line break *)

\* The line of the character at p begins at the line's recorded beginning.
LEMMA LineStartFound ==
  ASSUME IInv, reader # "idle"
  PROVE  LineStart(p) \in 0 .. offset /\ NoBreaks(LineStart(p), p)
         /\ (LineStart(p) > 0 => src[LineStart(p)] = "nl")
<1> DEFINE B == IF line > 0 THEN lineBegin ELSE 0
           IsStart(i) == (i > 0 => src[i] = "nl") /\ \A j \in i + 1 .. p : src[j] # "nl"
<1>1. /\ p \in Nat /\ offset \in 0 .. p /\ line \in Nat /\ NoBreaks(offset, p) /\ line = Breaks(p)
      /\ line > 0 => lineBegin \in 1 .. offset /\ src[lineBegin] = "nl"
                     /\ NoBreaks(lineBegin, offset)
  BY DEF IInv, TextInv, LineInv, AtBreak, End
<1>2. B \in 0 .. offset /\ IsStart(B)
  <2>1. CASE line > 0
    BY <1>1, <2>1 DEF NoBreaks
  <2>2. CASE line = 0
    <3>1. IsFiniteSet({i \in 1 .. p : src[i] = "nl"})
      <4>1. IsFiniteSet(1 .. p) /\ {i \in 1 .. p : src[i] = "nl"} \subseteq 1 .. p
        BY <1>1, FS_Interval
      <4> QED
        BY <4>1, FS_Subset
    <3>2. {i \in 1 .. p : src[i] = "nl"} = {}
      BY <1>1, <2>2, <3>1, FS_EmptySet DEF Breaks
    <3> QED
      BY <1>1, <2>2, <3>2
  <2> QED
    BY <1>1, <2>1, <2>2
<1>3. ASSUME NEW i \in 0 .. p, IsStart(i) PROVE i = B
  <2>1. ~(i < B)
    <3> SUFFICES ASSUME i < B PROVE FALSE
      OBVIOUS
    <3>1. B \in i + 1 .. p /\ B > 0
      BY <1>1, <1>2
    <3> QED
      BY <1>2, <1>3, <3>1
  <2>2. ~(B < i)
    <3> SUFFICES ASSUME B < i PROVE FALSE
      OBVIOUS
    <3>1. i \in B + 1 .. p /\ i > 0
      BY <1>1, <1>2
    <3> QED
      BY <1>2, <1>3, <3>1
  <2> QED
    BY <1>1, <1>2, <2>1, <2>2
<1>4. LineStart(p) = CHOOSE i \in 0 .. p : IsStart(i)
  BY DEF LineStart
<1>5. B \in 0 .. p
  BY <1>1, <1>2
<1> HIDE DEF B, IsStart
<1>6. LineStart(p) = B
  BY <1>2, <1>3, <1>4, <1>5
<1> QED
  BY <1>2, <1>6 DEF IsStart, NoBreaks

\* A quote on the line before q is in the text of that line, ...
LEMMA QuoteSeen ==
  ASSUME NEW B \in Nat, NEW q \in Nat, B <= q, B > 0 => src[B] = "nl", Quoted(q)
  PROVE  \E j \in B + 1 .. q : src[j] \in Quotes
<1>1. PICK j \in 1 .. q : src[j] \in Quotes /\ NoBreaks(j, q)
  BY DEF Quoted
<1>2. j > B
  <2> SUFFICES ASSUME j <= B PROVE FALSE
    OBVIOUS
  <2>1. src[B] = "nl" /\ j # B
    BY <1>1 DEF Quotes
  <2>2. B \in j + 1 .. q
    BY <2>1
  <2> QED
    BY <1>1, <2>1, <2>2 DEF NoBreaks
<1> QED
  BY <1>1, <1>2

\* ... and two slashes are, and only they.
LEMMA CommentSeen ==
  ASSUME NEW B \in Nat, NEW q \in Nat, B <= q, B > 0 => src[B] = "nl", NoBreaks(B, q),
         NEW text, IsSlice(text, B, q)
  PROVE  HasComment(text) <=> Commented(q)
<1>1. DOMAIN text = 1 .. q - B /\ \A j \in 1 .. q - B : text[j] = src[B + j]
  BY DEF IsSlice
<1>2. ASSUME HasComment(text) PROVE Commented(q)
  <2>1. PICK i \in 1 .. q - B : i > 1 /\ text[i - 1] = "slash" /\ text[i] = "slash"
    BY <1>1, <1>2 DEF HasComment
  <2>2. /\ B + i \in 2 .. q /\ i - 1 \in 1 .. q - B /\ B + (i - 1) = (B + i) - 1
        /\ NoBreaks(B + i, q)
    BY <2>1 DEF NoBreaks
  <2>3. src[B + i] = "slash" /\ src[(B + i) - 1] = "slash"
    BY <1>1, <2>1, <2>2
  <2> QED
    BY <2>2, <2>3 DEF Commented
<1>3. ASSUME Commented(q) PROVE HasComment(text)
  <2>1. PICK j \in 2 .. q : src[j - 1] = "slash" /\ src[j] = "slash" /\ NoBreaks(j, q)
    BY <1>3 DEF Commented
  <2>2. j > B
    <3> SUFFICES ASSUME j <= B PROVE FALSE
      BY <2>1
    <3>1. src[B] = "nl" /\ j # B
      BY <2>1
    <3>2. B \in j + 1 .. q
      BY <2>1, <3>1
    <3> QED
      BY <2>1, <3>1, <3>2 DEF NoBreaks
  <2>3. j - 1 # B
    BY <2>1
  <2>4. /\ j - B \in 1 .. q - B /\ j - B > 1 /\ (j - B) - 1 \in 1 .. q - B
        /\ B + (j - B) = j /\ B + ((j - B) - 1) = j - 1
    BY <2>1, <2>2, <2>3
  <2>5. text[j - B] = "slash" /\ text[(j - B) - 1] = "slash"
    BY <1>1, <2>1, <2>4
  <2> QED
    BY <1>1, <2>4, <2>5 DEF HasComment
<1> QED
  BY <1>2, <1>3

Dark(text) == {i \in DOMAIN text : text[i] # "ws"}

LastOfDark(text) == text[CHOOSE i \in Dark(text) : \A j \in Dark(text) : j <= i]

\* Where nothing but blanks follows, the last character is the one before.
LEMMA LastDark ==
  ASSUME NEW B \in Nat, NEW q \in Nat, NEW e \in Nat, B < q, q <= e,
         NEW text, IsSlice(text, B, e), src[q] \notin Space, Span(q, e, Space)
  PROVE  Dark(text) # {} /\ LastOfDark(text) = src[q]
<1> DEFINE D == Dark(text)
<1>1. DOMAIN text = 1 .. e - B /\ \A j \in 1 .. e - B : text[j] = src[B + j]
  BY DEF IsSlice
<1>2. q - B \in D /\ text[q - B] = src[q]
  <2>1. q - B \in 1 .. e - B /\ B + (q - B) = q
    OBVIOUS
  <2> QED
    BY <1>1, <2>1 DEF Dark, Space
<1>3. ASSUME NEW j \in D PROVE j <= q - B
  <2>1. j \in 1 .. e - B /\ src[B + j] \notin Space
    BY <1>1, <1>3 DEF Dark, Space
  <2>2. B + j \notin q + 1 .. e
    BY <2>1 DEF Span
  <2> QED
    BY <2>1, <2>2
<1>4. D \subseteq Int
  BY <1>1 DEF Dark
<1>5. (CHOOSE i \in D : \A j \in D : j <= i) = q - B
  <2>1. \A i \in D : (\A j \in D : j <= i) => i = q - B
    BY <1>2, <1>3, <1>4
  <2> QED
    BY <1>2, <1>3, <2>1
<1> QED
  BY <1>2, <1>5 DEF LastOfDark

\* The characters that end an identifier, a number or a bracket.
EndsWord == Hexa \cup {"x", "u", "U", "n", "z", "cr", "bslash", "close"}

LEMMA BreakInsertsSemicolon ==
  ASSUME IInv, SemicolonInv, [Next]_vars, p' = p + 1, reader' = "idle", tok' = "nl"
  PROVE  /\ reader = "root" /\ src[p + 1] = "nl" /\ ~queued
         /\ queued' <=> EndsStatement(tok)
<1>1. p \in Nat
  BY DEF IInv, TextInv, End
<1>2. ReadChar
  <2>1. p' # p
    BY <1>1
  <2>2. ~ReachEnd
    BY DEF ReachEnd, IInv, TextInv, End
  <2> QED
    BY <2>1, <2>2 DEF Next, NextQueued, NextBegins, ParseReturns, vars
<1>3. /\ reader \in Reader \ {"idle"} /\ quote \in {"quote", "dquote"} /\ ret # "Error"
      /\ CharAt(p) \in Ascii \cup {"none", "bad"} /\ queued = FALSE
      /\ p \in 0 .. End - 1 /\ src[p + 1] # "trail" /\ src \in Seq(Byte) /\ IsText(src)
  BY <1>2, CharType DEF ReadChar, IInv, TextInv, SemicolonInv, End
<1>4. PICK o \in Outcomes(reader, CharAt(p)) : o.to = "idle" /\ EndToken(o.tok, p')
  BY <1>2, ReadCharOutcome DEF IInv
<1>5. o.tok = "nl"
  BY <1>4 DEF EndToken
<1>6. CharAt(p) = "nl" /\ reader = "root"
  BY <1>3, <1>4, <1>5, TokenOutcomes DEF TokenEnd
<1>7. src[p + 1] = "nl"
  BY <1>3, <1>6, CharOfText
<1>8. queued' <=> EndsStatement(tok)
  <2>1. CASE EndsStatement(tok)
    BY <1>4, <1>5, <2>1 DEF EndToken
  <2>2. CASE ~EndsStatement(tok)
    BY <1>3, <1>4, <1>5, <2>2 DEF EndToken
  <2> QED
    BY <2>1, <2>2
<1> QED
  BY <1>3, <1>6, <1>7, <1>8

\* What the text of the line tells of the last token before the line break.
LEMMA LineTells ==
  ASSUME IInv, SemicolonInv, CommentInv, reader = "root",
         NEW text, text = SubSeq(src, LineStart(p) + 1, p), AllIn(text, Byte \ Quotes)
  PROVE  /\ HasComment(text) \/ Dark(text) = {} \/ LastOfDark(text) \in Continues =>
              ~EndsStatement(tok)
         /\ ~HasComment(text) /\ Dark(text) # {} /\ LastOfDark(text) \in EndsWord =>
              EndsStatement(tok)
<1> DEFINE B == LineStart(p)
<1>1. /\ src \in Seq(Byte) /\ p \in Nat /\ p <= End /\ offset \in Nat /\ offset <= p
      /\ tok \in Token /\ ret # "Error"
  BY DEF IInv, TextInv, LineInv, End
<1>2. B \in Nat /\ B <= offset /\ NoBreaks(B, p) /\ (B > 0 => src[B] = "nl")
  BY <1>1, LineStartFound
<1>3. LastOf(tok, offset) /\ Span(offset, p, Space)
  BY <1>1 DEF SemicolonInv, SoFar
<1> HIDE DEF B
<1>4. B \in Nat /\ B <= p /\ IsSlice(text, B, p)
  <2>1. B \in Nat /\ B <= p
    BY <1>1, <1>2
  <2> QED
    BY <1>1, <2>1, SliceOfSource DEF B
<1>5. DOMAIN text = 1 .. p - B /\ \A j \in 1 .. p - B : text[j] = src[B + j]
  BY <1>4, SliceValues
<1>6. ASSUME NEW q \in {offset, p} PROVE ~Quoted(q)
  <2> SUFFICES ASSUME Quoted(q) PROVE FALSE
    OBVIOUS
  <2>1. PICK j \in B + 1 .. q : src[j] \in Quotes
    BY <1>1, <1>2, <1>4, QuoteSeen
  <2>2. j - B \in 1 .. p - B /\ B + (j - B) = j
    BY <1>1, <1>4, <2>1
  <2>3. text[j - B] = src[j] /\ j - B \in DOMAIN text
    BY <1>5, <2>2
  <2> QED
    BY <2>1, <2>3 DEF AllIn
<1>7. B < offset /\ src[offset] \notin Space =>
        Dark(text) # {} /\ LastOfDark(text) = src[offset]
  BY <1>1, <1>3, <1>4, LastDark
<1>8. Dark(text) # {} => B < offset
  <2> SUFFICES ASSUME NEW k \in Dark(text) PROVE B < offset
    OBVIOUS
  <2>1. k \in 1 .. p - B /\ src[B + k] \notin Space
    BY <1>5 DEF Dark, Space
  <2>2. B + k \notin offset + 1 .. p
    BY <1>3, <2>1 DEF Span
  <2> QED
    BY <1>1, <1>4, <2>1, <2>2
<1>9. B < offset => tok # "nl" /\ tok # "End"
  BY <1>1, <1>2, <1>3 DEF LastOf, NoBreaks
<1>10. tok \notin {"End", "nl"} => B < offset
  <2>1. CASE tok \in NumberToken \cup {"Symbol"}
    BY <1>1, <1>2, <1>3, <2>1 DEF LastOf
  <2>2. CASE tok = "close"
    BY <1>1, <1>2, <1>3, <2>2 DEF LastOf
  <2>3. CASE tok \in {"punct", "plus", "=", "==", "/"}
    BY <1>1, <1>2, <1>3, <2>3 DEF LastOf, Continues
  <2>4. CASE tok \in {".", "..", "..."}
    BY <1>1, <1>2, <1>3, <2>4 DEF LastOf
  <2>5. CASE tok = "LineComment"
    <3>1. Commented(offset)
      BY <1>3, <2>5 DEF LastOf
    <3> QED
      BY <1>1, <1>2, <3>1 DEF Commented, NoBreaks
  <2> QED
    BY <1>1, <1>3, <1>6, <2>1, <2>2, <2>3, <2>4, <2>5
       DEF LastOf, Token, Literal, NumberToken
<1>11. HasComment(text) <=> Commented(p)
  BY <1>1, <1>2, <1>4, CommentSeen
<1>12. HasComment(text) => ~EndsStatement(tok)
  <2> SUFFICES ASSUME Commented(p) PROVE tok = "LineComment"
    BY <1>11 DEF EndsStatement, Literal
  <2>1. p > 0
    BY <1>1 DEF Commented
  <2> QED
    BY <1>1, <1>6, <2>1 DEF CommentInv
<1>13. ~HasComment(text) => tok # "LineComment"
  <2> SUFFICES ASSUME tok = "LineComment" PROVE Commented(p)
    BY <1>11
  <2>1. Commented(offset) /\ NoBreaks(offset, p)
    BY <1>1, <1>2, <1>3 DEF LastOf, NoBreaks
  <2> QED
    BY <1>1, <2>1, CommentedGrows
<1>14. CASE EndsStatement(tok)
  <2>1. tok \in NumberToken \cup {"Symbol", "close"}
    BY <1>3, <1>6, <1>14 DEF LastOf, EndsStatement, Literal, NumberToken
  <2>2. src[offset] \notin Continues \cup Space
    BY <1>3, <2>1 DEF LastOf, Continues, Space
  <2>3. B < offset
    BY <1>10, <2>1 DEF NumberToken
  <2> QED
    BY <1>7, <1>12, <1>14, <2>2, <2>3
<1>15. CASE ~EndsStatement(tok)
  <2> SUFFICES ASSUME ~HasComment(text), Dark(text) # {}, LastOfDark(text) \in EndsWord
               PROVE  FALSE
    BY <1>15
  <2>1. tok \in {"punct", "plus", "=", "==", "/", ".", "..", "..."}
    BY <1>1, <1>3, <1>6, <1>8, <1>9, <1>13, <1>15
       DEF LastOf, EndsStatement, Token, Literal
  <2>2. src[offset] \in Continues \cup {"dot"}
    BY <1>3, <2>1 DEF LastOf
  <2>3. LastOfDark(text) = src[offset]
    BY <1>7, <1>8, <2>2 DEF Continues, Space
  <2> QED
    BY <2>2, <2>3 DEF EndsWord, Continues, Hexa, Decimal, Octal
<1> QED
  BY <1>14, <1>15

LEMMA SemicolonStep ==
  ASSUME IInv, SemicolonInv, CommentInv, [Next]_vars, p' = p + 1, reader' = "idle",
         tok' = "nl",
         NEW text, text = SubSeq(src, LineStart(p) + 1, p), AllIn(text, Byte \ Quotes)
  PROVE  /\ HasComment(text) \/ Dark(text) = {} \/ LastOfDark(text) \in Continues =>
              ~queued'
         /\ ~HasComment(text) /\ Dark(text) # {} /\ LastOfDark(text) \in EndsWord =>
              queued'
<1>1. reader = "root" /\ (queued' <=> EndsStatement(tok))
  BY BreakInsertsSemicolon
<1>2. /\ HasComment(text) \/ Dark(text) = {} \/ LastOfDark(text) \in Continues =>
           ~EndsStatement(tok)
      /\ ~HasComment(text) /\ Dark(text) # {} /\ LastOfDark(text) \in EndsWord =>
           EndsStatement(tok)
  BY <1>1, LineTells
<1> QED
  BY <1>1, <1>2

\* At the end of every line without quotes, of every text: a semicolon is inserted
\* after an identifier, a number or a closing bracket, and after nothing else, and
\* never after a comment.  A carriage return counts as an identifier.  What blanks,
\* symbols and undone characters precede the break makes no difference.
THEOREM SemicolonAlwaysExact ==
  ASSUME \A s \in Inputs : IsText(s)
  PROVE  Spec => SemicolonExact
<1>1. Init => SemicolonInv
  <2> SUFFICES ASSUME Init PROVE SemicolonInv
    OBVIOUS
  <2>1. queued = FALSE
    BY DEF Init
  <2>2. queued \in BOOLEAN
    BY <2>1, Zenon
  <2> QED
    BY <2>2 DEF Init, SemicolonInv, LastOf, NumberToken
<1>2. Init => CommentInv
  BY DEF Init, CommentInv
<1> DEFINE Exact ==
      p' = p + 1 /\ reader' = "idle" /\ tok' = "nl" =>
        LET begin == LineStart(p)
            text  == SubSeq(src, begin + 1, p)
            dark  == {i \in DOMAIN text : text[i] # "ws"}
            last  == text[CHOOSE i \in dark : \A j \in dark : j <= i]
        IN  AllIn(text, Byte \ {"quote", "dquote"}) =>
              /\ \/ HasComment(text) \/ dark = {}
                 \/ last \in {"punct", "plus", "eq", "slash"}
                 => ~queued'
              /\ /\ ~HasComment(text) /\ dark # {}
                 /\ last \in Hexa \cup {"x", "u", "U", "n", "z", "cr", "bslash", "close"}
                 => queued'
<1>3. IInv /\ SemicolonInv /\ CommentInv /\ [Next]_vars => [Exact]_vars
  BY SemicolonStep DEF Dark, LastOfDark, Quotes, Continues, EndsWord
<1> HIDE DEF Exact
<1>4. Spec => [][Exact]_vars
  BY <1>1, <1>2, <1>3, IInvHolds, NextSemicolonInv, NextCommentInv, PTL DEF Spec
<1>5. SemicolonExact <=> [][Exact]_vars
  BY DEF SemicolonExact, Exact
<1> QED
  BY <1>4, <1>5

=============================================================================
