------------------------------- MODULE UnionID -------------------------------
(***************************************************************************)
(* The identifier of a union of packages (pkg.hh): its key (UnionNames)    *)
(* hashed to 128 bits by MurmurHash3_x64_128 (hash-murmur.cc) and written  *)
(* in base 64.  It names the PCH file of the union, so two unions with one *)
(* identifier would share a PCH.                                           *)
(*                                                                         *)
(* A string is a sequence of bytes.  A uint64_t is the sequence of its     *)
(* eight bytes in memory, the lowest first, as on the machines the program *)
(* is built for.                                                           *)
(***************************************************************************)
EXTENDS UnionNames, Bitwise

LOCAL At(x, k) == IF k \in DOMAIN x THEN x[k] ELSE 0

\* The word whose byte k is Byte(k).
LOCAL Bytes(Byte(_)) ==
  <<Byte(1), Byte(2), Byte(3), Byte(4), Byte(5), Byte(6), Byte(7), Byte(8)>>

\* A number below 2^31 as a word.
LOCAL Word(n) == Bytes(LAMBDA k : IF k <= 4 THEN (n \div 256^(k - 1)) % 256 ELSE 0)

-----------------------------------------------------------------------------
(* Arithmetic on uint64_t *)

Xor64(x, y) == Bytes(LAMBDA k : x[k] ^^ y[k])

\* A word from the sums in its eight columns: each passes its carry on, and
\* the last one's is lost.
LOCAL Carried(Column(_)) ==
  LET sum[k \in 1..8] == Column(k) + IF k = 1 THEN 0 ELSE sum[k - 1] \div 256
  IN Bytes(LAMBDA k : sum[k] % 256)

Add64(x, y) == Carried(LAMBDA k : x[k] + y[k])

Mul64(x, y) ==
  Carried(LAMBDA k : MapThenSumSet(LAMBDA j : x[j] * y[k + 1 - j], 1..k))

\* Left by q bytes, then by s bits.
rotl64(x, r) ==
  LET q == r \div 8
      s == r % 8
      Of(k) == x[((k - 1) % 8) + 1]
  IN Bytes(LAMBDA k : ((Of(k - q) * 2^s) % 256) + Of(k - q - 1) \div 2^(8 - s))

\* x >> r
ShiftRight64(x, r) ==
  LET q == r \div 8
      s == r % 8
  IN Bytes(LAMBDA k : At(x, k + q) \div 2^s + ((At(x, k + q + 1) * 2^(8 - s)) % 256))

-----------------------------------------------------------------------------
(* MurmurHash3_x64_128 *)

c1 == <<\hd5, \h53, \h42, \h11, \h91, \h7b, \hc3, \h87>>
c2 == <<\h7f, \h93, \h45, \h27, \h43, \had, \hf5, \h4c>>
f1 == <<\hcd, \h8c, \h55, \hed, \hd7, \haf, \h51, \hff>>
f2 == <<\h53, \hec, \h85, \h1a, \hfe, \hb9, \hce, \hc4>>

getblock64(text, i) == Bytes(LAMBDA k : At(text, 8 * i + k))

fmix64(k) ==
  LET Folded(x) == Xor64(x, ShiftRight64(x, 33))
  IN Folded(Mul64(Folded(Mul64(Folded(k), f1)), f2))

Mixed1(k1) == Mul64(rotl64(Mul64(k1, c1), 31), c2)
Mixed2(k2) == Mul64(rotl64(Mul64(k2, c2), 33), c1)

\* One round of the loop over whole blocks of 16 bytes.
MixBlock(h, text, i) ==
  LET Next1(x, y) == Add64(Mul64(Add64(rotl64(x, 27), y), Word(5)), Word(\h52dce729))
      Next2(x, y) == Add64(Mul64(Add64(rotl64(x, 31), y), Word(5)), Word(\h38495ab5))
      h1 == Next1(Xor64(h[1], Mixed1(getblock64(text, 2 * i))), h[2])
  IN <<h1, Next2(Xor64(h[2], Mixed2(getblock64(text, 2 * i + 1))), h1)>>

\* The rest, less than a block, filled up with zeros.  Nothing is mixed in for
\* a half without bytes, and mixing zero in changes nothing.
MixTail(h, text) ==
  LET n == Len(text) \div 16
  IN <<Xor64(h[1], Mixed1(getblock64(text, 2 * n))),
       Xor64(h[2], Mixed2(getblock64(text, 2 * n + 1)))>>

MurmurHash3_x64_128(text) ==
  LET body == FoldLeft(LAMBDA h, i : MixBlock(h, text, i - 1), <<Word(0), Word(0)>>,
                       [i \in 1..(Len(text) \div 16) |-> i])
      tail == MixTail(body, text)
      g1   == Xor64(tail[1], Word(Len(text)))
      g2   == Xor64(tail[2], Word(Len(text)))
      a1   == Add64(g1, g2)
      b1   == fmix64(a1)
      b2   == fmix64(Add64(g2, a1))
      r1   == Add64(b1, b2)
  IN r1 \o Add64(b2, r1)

-----------------------------------------------------------------------------
(* The identifier *)

PkgUnionID(packages) == base64_encode_B16(MurmurHash3_x64_128(UnionKey(packages)))

=============================================================================
