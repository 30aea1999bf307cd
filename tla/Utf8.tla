-------------------------------- MODULE Utf8 --------------------------------
(***************************************************************************)
(* Text and its encoding (text.cc, and the parts of utf8/ it uses).  The   *)
(* program is built without exceptions and decodes with utf8/unchecked.h;  *)
(* with exceptions it would decode with utf8/checked.h.  Both are here.    *)
(*                                                                         *)
(* A text is a sequence of code points up to 1FFFFF and a string a         *)
(* sequence of bytes, both counted from 1.                                 *)
(***************************************************************************)
EXTENDS Integers, SequencesExt

CONSTANT kCharCategoryMap \* the generated table: characters to categories

is_trail(oc) == oc \div 64 = 2

sequence_length(lead) ==
  CASE lead < 128       -> 1
    [] lead \div 32 = 6  -> 2
    [] lead \div 16 = 14 -> 3
    [] lead \div 8 = 30  -> 4
    [] OTHER            -> 0

\* How far the iterator goes over the sequence at i; a byte that cannot begin
\* one is passed over like a character.
Width(s, i) == Max({1, sequence_length(s[i])})

\* The code point of the sequence at i, whatever its bytes are.
CodePoint(s, i) ==
  LET Low(k) == s[i + k] % 64
  IN CASE Width(s, i) = 1 -> s[i]
       [] Width(s, i) = 2 -> ((s[i] * 64) % 2^11) + Low(1)
       [] Width(s, i) = 3 -> ((s[i] * 2^12) % 2^16) + Low(1) * 64 + Low(2)
       [] Width(s, i) = 4 -> ((s[i] * 2^18) % 2^21) + Low(1) * 2^12 + Low(2) * 64 + Low(3)

-----------------------------------------------------------------------------
(* One character, by the three readers there are *)

Fits(s, i) == i + Width(s, i) - 1 <= Len(s)

\* utf8::unchecked::next(it): takes whatever comes.
next_unbounded(s, i) == "UTF8_OK"

\* Bug: a sequence of three is let through when its second byte is there.
next_bounded_TwoOfThree(s, i) ==
  IF i + Min({2, Width(s, i)}) - 1 <= Len(s) THEN "UTF8_OK" ELSE "NOT_ENOUGH_ROOM"

\* utf8::unchecked::next(it, end), the lexer's: -1 for a sequence cut off.
next_bounded(s, i) == IF Fits(s, i) THEN "UTF8_OK" ELSE "NOT_ENOUGH_ROOM"

is_surrogate(cp) == \hd800 <= cp /\ cp <= \hdfff

is_code_point_valid(cp) == cp <= \h10ffff /\ ~is_surrogate(cp)

\* Bug: the bound of the characters in two bytes is the last of them.
is_overlong_sequence_OffByOne(cp, length) ==
  \/ cp < \h80 /\ length # 1
  \/ \h80 <= cp /\ cp < \h7ff /\ length # 2
  \/ \h800 <= cp /\ cp < \h10000 /\ length # 3

is_overlong_sequence(cp, length) ==
  \/ cp < \h80 /\ length # 1
  \/ \h80 <= cp /\ cp < \h800 /\ length # 2
  \/ \h800 <= cp /\ cp < \h10000 /\ length # 3

\* utf8::internal::validate_next, which utf8::next throws for: the bytes are
\* taken one by one, and the first that is missing or wrong decides.
validate_next(s, i) ==
  LET n   == sequence_length(s[i])
      bad == {k \in 1 .. n - 1 : i + k > Len(s) \/ ~is_trail(s[i + k])}
  IN CASE n = 0    -> "INVALID_LEAD"
       [] bad # {} -> IF i + Min(bad) > Len(s) THEN "NOT_ENOUGH_ROOM"
                      ELSE "INCOMPLETE_SEQUENCE"
       [] OTHER    -> IF ~is_code_point_valid(CodePoint(s, i)) THEN "INVALID_CODE_POINT"
                      ELSE IF is_overlong_sequence(CodePoint(s, i), n)
                             THEN "OVERLONG_SEQUENCE"
                      ELSE "UTF8_OK"

-----------------------------------------------------------------------------
(* Strings to texts *)

\* utf8to32 with what a reader says at each position: the text, the position
\* reached and the reader's last word.  What follows a string in memory is taken
\* for zeros.
utf8to32(s, verdict) ==
  LET memory == s \o <<0, 0, 0>>
      from[i \in 1 .. Len(s) + 4] ==
        IF i > Len(s) \/ verdict[i] # "UTF8_OK"
          THEN [text |-> <<>>, end |-> i,
                verdict |-> IF i > Len(s) THEN "UTF8_OK" ELSE verdict[i]]
          ELSE LET rest == from[i + Width(s, i)]
               IN [rest EXCEPT !.text = <<CodePoint(memory, i)>> \o @]
  IN from[1]

decodeUTF8(s) == utf8to32(s, [i \in DOMAIN s |-> next_unbounded(s, i)])

decodeUTF8_checked(s) == utf8to32(s, [i \in DOMAIN s |-> validate_next(s, i)])

\* A string read with the reader the lexer uses, up to where it fails.
decodeBounded(s) == utf8to32(s, [i \in DOMAIN s |-> next_bounded(s, i)])

-----------------------------------------------------------------------------
(* Texts to strings *)

\* Bug: what belongs in three bytes from U+FFFF on is written in four.
append_ThreeBytes(cp) ==
  CASE cp < \h80                    -> <<cp>>
    [] \h80 <= cp /\ cp < \h800     -> <<\hc0 + cp \div 64, \h80 + (cp % 64)>>
    [] \h800 <= cp /\ cp < \hffff   -> <<\he0 + cp \div 2^12, \h80 + ((cp \div 64) % 64),
                                        \h80 + (cp % 64)>>
    [] OTHER -> <<\hf0 + cp \div 2^18, \h80 + ((cp \div 2^12) % 64),
                  \h80 + ((cp \div 64) % 64), \h80 + (cp % 64)>>

\* utf8::unchecked::append.  The checked one throws for what is no code point.
append(cp) ==
  CASE cp < \h80                    -> <<cp>>
    [] \h80 <= cp /\ cp < \h800     -> <<\hc0 + cp \div 64, \h80 + (cp % 64)>>
    [] \h800 <= cp /\ cp < \h10000  -> <<\he0 + cp \div 2^12, \h80 + ((cp \div 64) % 64),
                                        \h80 + (cp % 64)>>
    [] OTHER -> <<\hf0 + cp \div 2^18, \h80 + ((cp \div 2^12) % 64),
                  \h80 + ((cp \div 64) % 64), \h80 + (cp % 64)>>

encodeUTF8(text) == FlattenSeq([k \in DOMAIN text |-> append(text[k])])

\* utf8::append throws for a surrogate and beyond U+10FFFF.
encodes_checked(text) == \A k \in DOMAIN text : is_code_point_valid(text[k])

UTF8SizeOf(c) ==
  IF c < \h80 THEN 1 ELSE IF c < \h800 THEN 2 ELSE IF c < \h10000 THEN 3 ELSE 4

-----------------------------------------------------------------------------
(* Printable texts *)

\* Characters beyond the table are assigned or not, and nothing else.
category(c) ==
  CASE c < 195101 -> kCharCategoryMap[c]
    [] \/ \h2fa1e <= c /\ c <= \he0000
       \/ \he0002 <= c /\ c <= \he001f
       \/ \he0080 <= c /\ c <= \he00ff
       \/ c > \h10fffd           -> "Unassigned"
    [] OTHER -> "Assigned"

isGraphicChar(c) ==
  category(c) \in {"Ll", "Lt", "Lu", "Nd", "Nl", "Lo",
                   "Pc", "Sc", "Sm", "So", "Pd", "Pe", "Pf", "Pi", "Ps", "Po"}

isWhitespaceChar(c) == category(c) = "Zs"

\* Bug: the digits are not filled up with zeros.
Digits_Short(c, n, ten) ==
  LET digit(k) == (c \div 16^(n - k)) % 16
      first    == Min({k \in 1 .. n : digit(k) # 0} \cup {n})
  IN [k \in 1 .. n - first + 1 |->
        LET d == digit(k + first - 1) IN IF d < 10 THEN 48 + d ELSE ten + d - 10]

\* n hexadecimal digits, those from ten on counted from the letter given.
Digits(c, n, ten) ==
  [k \in 1 .. n |-> LET d == (c \div 16^(n - k)) % 16 IN IF d < 10 THEN 48 + d ELSE ten + d - 10]

\* \t, \r, \n, \xhh, \uHHHH or \UHHHHHHHH
escape(c) ==
  <<92>> \o (CASE c = 9       -> <<116>>
               [] c = 13      -> <<114>>
               [] c = 10      -> <<110>>
               [] c < \h100 /\ c \notin {9, 10, 13} -> <<120>> \o Digits(c, 2, 97)
               [] \h100 <= c /\ c < \h10000 -> <<117>> \o Digits(c, 4, 65)
               [] OTHER       -> <<85>> \o Digits(c, 8, 65))

\* repr(const Text&)
repr(text) ==
  FlattenSeq([k \in DOMAIN text |->
    IF text[k] = 92 THEN <<92, 92>>
    ELSE IF isGraphicChar(text[k]) \/ isWhitespaceChar(text[k]) THEN append(text[k])
    ELSE escape(text[k])])

\* repr(UChar)
reprChar(c) == IF isGraphicChar(c) THEN <<39>> \o append(c) \o <<39>> ELSE escape(c)

=============================================================================
