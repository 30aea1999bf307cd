------------------------------- MODULE MCLex -------------------------------
(***************************************************************************)
(* The sources TLC parses: every short sequence over each of a few sets of *)
(* characters, chosen so that those that interact come together.           *)
(***************************************************************************)
EXTENDS Lex, SequencesExt

Wide   == <<"lead", "trail">>
Single == {<<b>> : b \in Ascii}

UpTo(n, words) ==
  {FlattenSeq(s) : s \in UNION {[1 .. m -> words] : m \in 0 .. n}}

Numbers == {<<"zero">>, <<"dig">>, <<"nine">>, <<"x">>, <<"e">>, <<"dot">>, <<"plus">>}

Lines == {<<"nl">>, <<"ws">>, <<"cr">>, <<"slash">>, <<"z">>, <<"close">>, <<"punct">>, Wide}

Quotes == {<<"quote">>, <<"dquote">>, <<"bslash">>, <<"x">>, <<"U">>, <<"e">>, <<"z">>}

WellFormed ==
  UpTo(2, Single \cup {Wide, <<"badlead", "trail">>}) \cup UpTo(5, Numbers)
    \cup UpTo(4, Lines) \cup UpTo(4, Quotes)

\* Where the readers of these look for the end of the source, it may be anywhere.
Endings == {<<"zero">>, <<"dig">>, <<"x">>, <<"e">>, <<"z">>, <<"ws">>, <<"nl">>, <<"dquote">>,
            <<"slash", "slash">>}

\* A last character that is cut off, where the readers test for it, and in comments
\* and text literals, where they do not.
CutOff ==
  {<<b, "lead">> : b \in {"ws", "z", "eq", "slash", "dot", "quote", "dquote"}}
    \cup {s \o <<"lead">> : s \in {<<"slash", "slash">>, <<"slash", "slash", "z">>,
                                   <<"dquote", "z">>, <<"dquote", "bslash">>,
                                   <<"z", "dquote">>, <<"z", "slash", "slash">>}}

\* Text files: a line break ends the last line, save for the endings.
TextFiles == {s \o <<"nl">> : s \in WellFormed} \cup UpTo(3, Endings) \cup CutOff

\* Sources that end anywhere.
Fragments == UpTo(3, Single)

=============================================================================
