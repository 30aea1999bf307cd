----------------------------- MODULE UnionNames -----------------------------
(***************************************************************************)
(* What an identifier of a union of packages keeps of the union, but for   *)
(* the hash between the two (UnionID): the names of the packages in the    *)
(* order of std::set, joined (pkg.hh, join.hh), and the 128 bits of the    *)
(* hash written in base 64 (hash.cc).                                      *)
(*                                                                         *)
(* A string is a sequence of bytes.                                        *)
(***************************************************************************)
EXTENDS Integers, SequencesExt

-----------------------------------------------------------------------------
(* Base 64 *)

BASE64_CHARS ==
  <<"0", "1", "2", "3", "4", "5", "6", "7", "8", "9",
    "A", "B", "C", "D", "E", "F", "G", "H", "I", "J", "K", "L", "M",
    "N", "O", "P", "Q", "R", "S", "T", "U", "V", "W", "X", "Y", "Z",
    "a", "b", "c", "d", "e", "f", "g", "h", "i", "j", "k", "l", "m",
    "n", "o", "p", "q", "r", "s", "t", "u", "v", "w", "x", "y", "z", "-", "_">>

\* Bug: the bits of the third byte are left in the second chunk's place.
Chunks_Unshifted(src0, src1, src2) ==
  <<src0 \div 4, 16 * (src0 % 4) + src1 \div 16, 4 * (src1 % 16) + (src2 % 4), src2 % 64>>

\* Four strides of six bits from three bytes.
Chunks(src0, src1, src2) ==
  <<src0 \div 4, 16 * (src0 % 4) + src1 \div 16, 4 * (src1 % 16) + src2 \div 64, src2 % 64>>

\* Five passes over three bytes, and a partial one over the sixteenth.
base64_encode_B16(id) ==
  LET strides == FlattenSeq([p \in 1..5 |-> Chunks(id[3*p - 2], id[3*p - 1], id[3*p])])
                   \o <<id[16] \div 4, (id[16] % 4) * 16>>
  IN [k \in 1..22 |-> BASE64_CHARS[strides[k] + 1]]

-----------------------------------------------------------------------------
(* Packages and unions *)

\* Pkg::operator<, which is std::string's: where b first has another byte than
\* a, a has a lesser one or none.
NameLess(a, b) ==
  \E i \in 1 .. Len(b) :
    /\ i - 1 <= Len(a) /\ \A j \in 1 .. i - 1 : a[j] = b[j]
    /\ i > Len(a) \/ a[i] < b[i]

\* Bug: the names follow each other without anything in between.
Glue_Empty == <<>>

\* The braces in string{1,'\0'} list the characters: there are two, not one.
Glue == <<1, 0>>

join(names, glue) ==
  FlattenSeq([k \in DOMAIN names |-> IF k < Len(names) THEN names[k] \o glue ELSE names[k]])

\* A name comes after those that are less.
InOrder(packages) ==
  LET Below(name) == {p \in packages : NameLess(p, name)}
  IN [k \in 1 .. Cardinality(packages) |->
        CHOOSE name \in packages : Cardinality(Below(name)) = k - 1]

\* Bug: a single NUL between the names.
UnionKey_OneNul(packages) == join(InOrder(packages), <<0>>)

UnionKey(packages) == join(InOrder(packages), Glue)

=============================================================================
