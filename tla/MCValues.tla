------------------------------ MODULE MCValues ------------------------------
(***************************************************************************)
(* The classes whose objects own memory or files, one class at a time.     *)
(***************************************************************************)
EXTENDS DirEnts

CONSTANTS MaxFiles, MaxStates

VARIABLES class, data, files, errs, states

F == INSTANCE FileData WITH MaxSize <- MaxEntries
E == INSTANCE Errors WITH Code <- 0 .. 1

MCInit ==
  /\ Init /\ F!Init /\ E!Init
  /\ class \in {"DirEnts", "FileData", "Error"}

MCNext ==
  /\ \/ class = "DirEnts" /\ Next /\ UNCHANGED <<data, files, errs, states>>
     \/ class = "FileData" /\ F!Next /\ UNCHANGED <<vars, errs, states>>
     \/ class = "Error" /\ E!Next /\ UNCHANGED <<vars, data, files>>
  /\ UNCHANGED class

MCSpec == MCInit /\ [][MCNext]_<<class, vars, data, files, errs, states>>

\* Whatever is allocated, mapped or opened has one owner, which gives it back
\* once: DirEnts, FileData and Error, in every order of the operations that AnyUse
\* admits.  Without it those that no caller in rx performs are left out, which the
\* classes would not survive: an owner's move construction, and some assignments.
Owned == SoleOwner /\ F!FilesOwned /\ E!StatesOwned

\* Every object has what was put, copied or moved into it last, by the same
\* operations.
Kept == ValueKept /\ F!DataKept /\ E!ErrorKept

=============================================================================
