------------------------------ MODULE MCParts ------------------------------
(***************************************************************************)
(* The parts that use no other, each by itself: a behavior is one of them. *)
(***************************************************************************)
EXTENDS MCValues, MCCodecs

CONSTANT Thread

VARIABLES part, once, pc, key, tls, runs, ret

main == <<once, pc, key, tls, runs, ret>>
values == <<class, vars, data, files, errs, states>>
codecs == <<kind, input>>

Main == INSTANCE AsyncMain WITH s <- once

PartsInit ==
  /\ part \in {"main", "values", "codecs"}
  /\ Main!Init /\ MCInit /\ Begin
  /\ part # "values" => class = "DirEnts"

PartsNext ==
  /\ \/ part = "main" /\ Main!Next /\ UNCHANGED <<values, codecs>>
     \/ part = "values" /\ MCNext /\ UNCHANGED <<main, codecs>>
     \/ part = "codecs" /\ TakeAny /\ UNCHANGED <<main, values>>
  /\ UNCHANGED part

PartsSpec == PartsInit /\ [][PartsNext]_<<part, main, values, codecs>>

\* Whoever calls Async::main(), it returns an Async to one thread only, and always
\* to the thread it returned it to first.
OneMainThread == Main!OneMainThread

=============================================================================
