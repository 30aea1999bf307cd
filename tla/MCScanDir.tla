----------------------------- MODULE MCScanDir -----------------------------
(***************************************************************************)
(* A directory with a file, an empty directory, and a directory that holds *)
(* a file and a symbolic link back to the directory scanned.               *)
(***************************************************************************)
EXTENDS ScanDir

CONSTANTS top, dir, file, inner, up, void

MCName == {dir, file, inner, up, void}

MCKids ==
  [n \in {top, dir, up, void} |->
     CASE n \in {top, up} -> {dir, file, void}
       [] n = dir         -> {inner, up}
       [] n = void        -> {}]

=============================================================================
