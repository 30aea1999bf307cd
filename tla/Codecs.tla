------------------------------- MODULE Codecs -------------------------------
(***************************************************************************)
(* What the pure algorithms of Utf8, UnionNames and Paths should compute,  *)
(* by definitions that do not follow the code.  A behavior is one input,   *)
(* of some kind.                                                           *)
(***************************************************************************)
EXTENDS Utf8, UnionNames, Paths

CONSTANTS Texts,    \* texts to encode
          Strings,  \* strings to decode
          Shown,    \* texts to print
          Hashes,   \* hashes to write in base 64
          Unions,   \* sets of packages
          Files     \* source files of packages

Byte == 0 .. \hff

\* What fits in the four bytes that append writes at most.
Char == {x \in Nat : x < \h200000}

\* UChar is a uint32_t.
UChar == {x \in Nat : x \div 2^16 < 2^16}

\* What a directory may hold: a name has no NUL in it.
Name == Seq(Byte \ {0})

\* The name of a source file is a stem, a dot and an extension, the last of the
\* name.  No package is in the directory of the unions.
File == {f \in [rxDir : Seq(Byte), pkg : Name, stem : Seq(Byte), ext : Seq(Byte \ {Dot})] :
           ValidName(f.pkg) /\ ~IsPrefix(unionName \o <<Slash>>, f.pkg)}

ASSUME InputAssumption ==
  /\ Texts \subseteq Seq(Char)
  /\ Strings \subseteq Seq(Byte)
  /\ Shown \subseteq Seq(UChar)
  /\ Hashes \subseteq [1 .. 16 -> Byte]
  /\ \A u \in Unions : IsFiniteSet(u) /\ \A name \in u : name \in Name /\ ValidName(name)
  /\ Files \subseteq File

VARIABLES kind, input

Begin == kind = "none" /\ input = <<>>

Take(k, S) == kind = "none" /\ kind' = k /\ input' \in S

TakeAny ==
  \/ Take("text", Texts)
  \/ Take("string", Strings)
  \/ Take("shown", Shown)
  \/ Take("hash", Hashes)
  \/ Take("union", Unions)
  \/ Take("file", Files)

Codes == Begin /\ [][TakeAny]_<<kind, input>>

-----------------------------------------------------------------------------
(* Texts *)

\* A text encoded and decoded is the same text, in the number of bytes
\* UTF8SizeOf says, with or without exceptions, if it holds nothing but code
\* points; without, whatever it holds.
TextRoundTrip ==
  kind = "text" =>
    /\ decodeUTF8(encodeUTF8(input)).text = input
    /\ \A k \in DOMAIN input : Len(append(input[k])) = UTF8SizeOf(input[k])
    /\ (decodeUTF8_checked(encodeUTF8(input)).verdict = "UTF8_OK") = encodes_checked(input)
    /\ encodes_checked(input) => decodeUTF8_checked(encodeUTF8(input)).text = input

\* Unicode's table of well-formed byte sequences.
Table ==
  LET T == \h80 .. \hbf
  IN {<<\h00 .. \h7f>>, <<\hc2 .. \hdf, T>>, <<{\he0}, \ha0 .. \hbf, T>>,
      <<\he1 .. \hec, T, T>>, <<{\hed}, \h80 .. \h9f, T>>, <<\hee .. \hef, T, T>>,
      <<{\hf0}, \h90 .. \hbf, T, T>>, <<\hf1 .. \hf3, T, T, T>>, <<{\hf4}, \h80 .. \h8f, T, T>>}

\* The sequence of the row stands at i.
StandsAt(row, s, i) ==
  /\ i + Len(row) - 1 <= Len(s)
  /\ \A k \in DOMAIN row : s[i + k - 1] \in row[k]

WellFormed(s) ==
  LET from[i \in 1 .. Len(s) + 1] ==
        \/ i > Len(s)
        \/ \E row \in Table : StandsAt(row, s, i) /\ from[i + Len(row)]
  IN from[1]

\* The build with exceptions accepts a string just when it is well formed, and
\* then the build without decodes it to the same text.
BuildsAgree ==
  kind = "string" =>
    LET checked == decodeUTF8_checked(input)
    IN /\ (checked.verdict = "UTF8_OK") = WellFormed(input)
       /\ WellFormed(input) => decodeUTF8(input).text = checked.text

\* Of a text's encoding cut anywhere, the lexer's reader reports that it is cut,
\* and decodeUTF8 reads beyond its end, just when the cut goes through a
\* character, and the characters before the cut are read as they were.
CutsNoticed ==
  kind = "text" =>
    LET whole == encodeUTF8(input)
        upTo(n) == encodeUTF8(SubSeq(input, 1, n))
    IN \A cut \in 0 .. Len(whole) :
         LET s == SubSeq(whole, 1, cut)
             n == Max({m \in 0 .. Len(input) : Len(upTo(m)) <= cut})
         IN /\ decodeBounded(s).text = SubSeq(input, 1, n)
            /\ (decodeBounded(s).verdict = "UTF8_OK") = (Len(upTo(n)) = cut)
            /\ (decodeUTF8(s).end > Len(s) + 1) = (Len(upTo(n)) < cut)

Reprs == {<<repr(t), t>> : t \in Shown}

\* What is printed for a text, or for a character in an error message, is
\* printed for no other.
ReprUnambiguous ==
  kind = "shown" =>
    /\ LET shown == repr(input)
       IN \A known \in Reprs : known[1] = shown => known[2] = input
    /\ Len(input) = 1 =>
         \A t \in Shown : Len(t) = 1 /\ t # input => reprChar(t[1]) # reprChar(input[1])

-----------------------------------------------------------------------------
(* Identifiers of unions *)

Bit(byte, k) == (byte \div 2^(7 - k)) % 2

Keys == {<<UnionKey(u), u>> : u \in Unions}

\* The characters of an identifier spell the 128 bits of the hash, the first
\* bit of the first byte first, and then four zeros; and what is hashed for a
\* union is hashed for no other, however names run into each other when joined.
IdentifierExact ==
  /\ kind = "hash" =>
       LET bit(k) == IF k < 128 THEN Bit(input[k \div 8 + 1], k % 8) ELSE 0
           six(k) == 32 * bit(k) + 16 * bit(k + 1) + 8 * bit(k + 2)
                       + 4 * bit(k + 3) + 2 * bit(k + 4) + bit(k + 5)
       IN base64_encode_B16(input) = [j \in 1 .. 22 |-> BASE64_CHARS[six(6 * (j - 1)) + 1]]
  /\ kind = "union" =>
       LET key == UnionKey(input)
       IN \A known \in Keys : known[1] = key => known[2] = input

-----------------------------------------------------------------------------
(* Paths *)

\* The file that is read is the file the scan found, unless rxDir is empty;
\* the extension it was found by is its extension; the compiler and the
\* dependencies mean the same PCH by a package; and no other package, union or
\* kind of file is kept at that path.
FilesAgree ==
  kind = "file" =>
    LET rxDir == input.rxDir
        pkg   == input.pkg
        fn    == input.stem \o <<Dot>> \o input.ext
        id    == [k \in 1 .. 22 |-> 48]
        packages == {f.pkg : f \in Files}
    IN /\ rxDir # <<>> => ReadPath(rxDir, pkg, fn) = ScannedPath(srcDir(rxDir, pkg), fn)
       /\ pathExt(fn) = IF input.stem = <<>> THEN <<>> ELSE input.ext
       /\ pkgPCHFile(rxDir, pkg) = PCHPathForPkg(rxDir, pkg)
       /\ PCHPathForPkg(rxDir, pkg) \notin
            {PCHPathForPkg(rxDir, p) : p \in packages \ {pkg}}
              \cup {pkgObjFile(rxDir, p) : p \in packages}
              \cup {PCHPathForPkgUnionID(rxDir, i) : i \in packages \cup {id}}

=============================================================================
