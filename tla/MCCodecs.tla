------------------------------ MODULE MCCodecs ------------------------------
(***************************************************************************)
(* Inputs for Codecs, and the identifiers of unions as a whole, with the   *)
(* hash.                                                                   *)
(***************************************************************************)
EXTENDS Codecs, UnionID, TLC

UpTo(n, S) == UNION {[1 .. m -> S] : m \in 0 .. n}

-----------------------------------------------------------------------------
(* Inputs *)

\* "foo/a/bar" and "lol/cat"
FooABar == <<102, 111, 111, 47, 97, 47, 98, 97, 114>>
LolCat  == <<108, 111, 108, 47, 99, 97, 116>>

\* Names such that one joined with another may read like a third, and two that
\* make the key longer than one and than two blocks of the hash.
Names == {<<97>>, <<98>>, <<97, 98>>, <<97, 47, 98>>, <<98, 47, 97>>, FooABar,
          [k \in 1 .. 14 |-> 120], [k \in 1 .. 17 |-> 120]}
MCUnions == (SUBSET Names \ {{}}) \cup {{FooABar, LolCat}}

\* Hashes that differ in a byte from one whose bytes are all the same.
MCHashes == {[k \in 1 .. 16 |-> IF k = at THEN v ELSE w] :
             at \in 1 .. 16, v \in {0, 1, 63, 64, 127, 128, 170, 255}, w \in {0, 255}}

\* The code points at which the number of bytes or the validity changes.
Boundaries == {0, \h7f, \h80, \h7ff, \h800, \hd7ff, \hd800, \hdfff, \he000,
               \hffff, \h10000, \h10ffff, \h110000}
MCTexts == UpTo(2, Boundaries)

\* Every byte at which a table of well-formed sequences changes, on either side.
BoundaryBytes == {\h00, \h7f, \h80, \h8f, \h90, \h9f, \ha0, \hbf, \hc0, \hc1, \hc2,
                  \hdf, \he0, \he1, \hec, \hed, \hee, \hef, \hf0, \hf1, \hf3, \hf4,
                  \hf5, \hf7, \hf8, \hff}
Trails == {\h7f, \h80, \h8f, \h90, \hbf, \hc0}
MCStrings == UpTo(2, BoundaryBytes)
             \cup {<<lead>> \o t : lead \in \he0 .. \hef, t \in [1 .. 2 -> Trails \cup {\h9f, \ha0}]}
             \cup {<<lead>> \o t : lead \in \hf0 .. \hf8, t \in [1 .. 3 -> Trails]}

\* Backslash, what follows one in an escape, and characters of every treatment.
Categories ==
  92 :> "Po" @@ 120 :> "Ll" @@ 110 :> "Ll" @@ 48 :> "Nd" @@ 39 :> "Po" @@ 32 :> "Zs"
  @@ 9 :> "Cc" @@ 10 :> "Cc" @@ 13 :> "Cc" @@ 1 :> "Cc" @@ 16 :> "Cc" @@ 173 :> "Cf"
  @@ 256 :> "Lu" @@ 4096 :> "Lo" @@ 888 :> "Unassigned" @@ 8232 :> "Zl" @@ 128512 :> "So"
MCShown == UpTo(2, DOMAIN Categories \cup {\he0001, \h2fa1e, \h10fffd, \h10fffe})

\* "", "r", "r/" and "/" as rxDir; package "a", "a/b" or "b", with files "b.rx",
\* "b.x.cc", ".rx", "b" and "b.".
MCFiles ==
  [rxDir : {<<>>, <<114>>, <<114, Slash>>, <<Slash>>},
   pkg : {<<97>>, <<97, Slash, 98>>, <<98>>},
   stem : {<<98>>, <<98, Dot, 120>>, <<>>}, ext : {<<114, 120>>, <<99, 99>>, <<>>}]

-----------------------------------------------------------------------------
(* Unions *)

IDs == {<<PkgUnionID(u), u>> : u \in Unions}

\* Different sets of packages have different identifiers, and so different
\* PCHs; and the order, the glue, the hash and the encoding together yield the
\* identifier that the comment of PkgUnionID (pkg.hh:16) gives as an example.
UnionIDsDistinct ==
  kind = "union" =>
    LET id == PkgUnionID(input)
    IN /\ \A known \in IDs : known[1] = id => known[2] = input
       /\ input = {FooABar, LolCat} =>
            id = <<"h", "F", "H", "z", "7", "t", "9", "X", "W", "z", "Y",
                   "Z", "a", "2", "M", "h", "G", "W", "H", "J", "O", "0">>

=============================================================================
