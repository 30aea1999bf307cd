------------------------------ MODULE FileData ------------------------------
(***************************************************************************)
(* FileData (fs.hh, fs.cc): a file mapped into memory and the descriptor   *)
(* it was mapped through.  The destructor unmaps the one and closes the    *)
(* other.                                                                  *)
(*                                                                         *)
(* A file gets a number when it is opened, which stands for the descriptor *)
(* and for the address both; none is used twice.  Two files are told apart *)
(* by their numbers and by their sizes.                                    *)
(***************************************************************************)
EXTENDS Integers, Sequences, FiniteSets

CONSTANTS
  Obj,      \* objects of type FileData
  MaxSize,  \* bound: bytes of a file
  MaxFiles, \* bound: files opened
  AnyUse    \* whether the client uses objects in ways no caller in rx does

None  == 0
Moved == -1

VARIABLES
  data, \* the objects there are: p, z, fd, and the file the client expects in it
  files \* every file ever opened

vars == <<data, files>>

Init == data = <<>> /\ files = <<>>

-----------------------------------------------------------------------------

Has(o, d) == [x \in DOMAIN data \cup {o} |-> IF x = o THEN d ELSE data[x]]

Usable(o) == o \in DOMAIN data /\ data[o].holds # Moved

Empty == [p |-> None, z |-> 0, fd |-> None, holds |-> None]

\* The file opened next, if it has n bytes.
Of(n) == LET k == Len(files) + 1 IN [p |-> k, z |-> n, fd |-> k, holds |-> k]

\* Bug: the descriptor is left open when there is no mapping.
Opened_FailedToo(n, mapped) == Append(files, [size |-> n, mapped |-> mapped, open |-> TRUE])

\* MMapFileReadOnly: the file is closed again when it cannot be mapped.
Opened(n, mapped) == Append(files, [size |-> n, mapped |-> mapped, open |-> mapped])

\* munmap() and close().  What of the file is beyond z stays mapped.
Released(d) ==
  [k \in DOMAIN files |->
    [files[k] EXCEPT !.mapped = @ /\ ~(k = d.p /\ files[k].size <= d.z),
                     !.open = @ /\ k # d.fd]]

-----------------------------------------------------------------------------

ConstructDefault(o) ==
  /\ o \notin DOMAIN data
  /\ data' = Has(o, Empty)
  /\ UNCHANGED files

\* The argument of a ReadFileCallback.
ConstructRead(o, n) ==
  /\ Len(files) < MaxFiles /\ o \notin DOMAIN data
  /\ files' = Opened(n, TRUE)
  /\ data' = Has(o, Of(n))

\* The synchronous readfile() writes over what its result has.
ReadFileSync(o, n) ==
  /\ Len(files) < MaxFiles /\ o \in DOMAIN data
  /\ data[o].p = None \/ AnyUse
  /\ files' = Opened(n, TRUE)
  /\ data' = Has(o, Of(n))

\* Neither form changes an object when it fails, as it does for an empty file:
\* nothing can be mapped of it.
ReadFileFails(n) ==
  /\ Len(files) < MaxFiles
  /\ files' = Opened(n, FALSE)
  /\ UNCHANGED data

\* The default move constructor copies the members: b still has what o has.
MoveConstruct(o, b) ==
  /\ o \notin DOMAIN data /\ Usable(b)
  /\ data[b].p = None \/ AnyUse
  /\ data' = [Has(o, data[b]) EXCEPT ![b].holds = Moved]
  /\ UNCHANGED files

\* Bug: the sizes stay where they are.
AfterMove_KeepsSize(o, b) ==
  [data EXCEPT ![o] = [data[b] EXCEPT !.z = data[o].z], ![b] = [Empty EXCEPT !.z = data[b].z, !.holds = Moved]]

\* b is left with the size o had, and nothing else.
AfterMove(o, b) ==
  [data EXCEPT ![o] = data[b], ![b] = [Empty EXCEPT !.z = data[o].z, !.holds = Moved]]

MoveAssign(o, b) ==
  /\ o \in DOMAIN data /\ Usable(b) /\ o # b
  /\ files' = Released(data[o])
  /\ data' = AfterMove(o, b)

Destroy(o) ==
  /\ o \in DOMAIN data
  /\ files' = Released(data[o])
  /\ data' = [x \in DOMAIN data \ {o} |-> data[x]]

Next ==
  \/ \E n \in 0 .. MaxSize : ReadFileFails(n)
  \/ \E o \in Obj :
       \/ ConstructDefault(o) \/ Destroy(o)
       \/ \E n \in 1 .. MaxSize : ConstructRead(o, n) \/ ReadFileSync(o, n)
       \/ \E b \in Obj : MoveConstruct(o, b) \/ MoveAssign(o, b)

-----------------------------------------------------------------------------
(* Properties *)

\* A file is mapped and open as long as there is an object for it, and there is
\* never more than one: nothing is leaked, and nothing is unmapped or closed
\* twice, when the descriptor may be another file's.
FilesOwned ==
  \A k \in DOMAIN files :
    LET owners == {o \in DOMAIN data : data[o].p = k}
    IN /\ owners = {o \in DOMAIN data : data[o].fd = k}
       /\ Cardinality(owners) = IF files[k].open THEN 1 ELSE 0
       /\ files[k].mapped = files[k].open

\* An object has the file that was read or moved into it last, and its size.
DataKept ==
  \A o \in DOMAIN data :
    data[o].holds # Moved =>
      /\ data[o].p = data[o].holds
      /\ data[o].z = IF data[o].p = None THEN 0 ELSE files[data[o].p].size

=============================================================================
