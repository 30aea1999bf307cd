------------------------------ MODULE PkgDeps ------------------------------
(***************************************************************************)
(* PkgDeps::resolve (deps.cc): the directory of a package is scanned for   *)
(* source files, which are then mapped into memory by fs::readfile (fs.cc) *)
(* and parsed (srcfile.cc), each in a job of one AsyncGroup.  The scan and *)
(* the group are taken at what they promise; ScanDir and AsyncGroup model  *)
(* them in detail.                                                         *)
(*                                                                         *)
(* Meanwhile the user edits the directory.  Of an entry only its size is   *)
(* kept, in pages; what becomes of parsing its text is a choice.           *)
(***************************************************************************)
EXTENDS Integers

CONSTANTS
  Entry,    \* names in the package's directory
  RxExt,    \* those whose extension is rx
  CcExt,    \* those whose extension is cc
  MaxSize,  \* bound: the size of a file
  MaxEdits  \* bound: how often the user changes an entry

Absent == -1
Dir    == -2
None   == -1

Kind == {Absent, Dir} \cup 0 .. MaxSize

ASSUME EntryAssumption ==
  /\ RxExt \subseteq Entry /\ CcExt \subseteq Entry
  /\ MaxSize \in Nat /\ MaxEdits \in Nat

VARIABLES
  disk,     \* what each entry is
  edits,    \* how many times the user changed one
  scan,     \* the scan: "idle", "readdir", "stat" or "ended"
  toVisit,  \* the entries it has still to stat
  size,     \* SrcFile::_stat.size of the files in _srcFiles
  group,    \* the group: "idle", "pending" or "completed"
  outcome,  \* what its callback was called with
  job,      \* the readfile request of each file
  canceled, \* those whose canceled flag is set
  mapped,   \* the size of each file's mapping
  owned,    \* the files whose mapping is in their SrcFile
  parsed,   \* what SrcFile::parse returned
  resolved, \* what _resolveCB was called with
  process   \* "runs", "hangs" in the lexer, or "dead" of reading what is not there

vars == <<disk, edits, scan, toVisit, size, group, outcome, job, canceled, mapped, owned,
          parsed, resolved, process>>

userVars == <<disk, edits>>
scanVars == <<scan, toVisit>>
fileVars == <<mapped, owned, parsed>>

Result == {"none", "ok", "error"}

TypeOK ==
  /\ disk \in [Entry -> Kind]
  /\ edits \in 0 .. MaxEdits
  /\ scan \in {"idle", "readdir", "stat", "ended"}
  /\ toVisit \subseteq Entry
  /\ size \in [Entry -> {None} \cup 0 .. MaxSize]
  /\ \A e \in Entry : size[e] # None => e \in RxExt \cup CcExt
  /\ group \in {"idle", "pending", "completed"}
  /\ outcome \in Result
  /\ job \in [Entry -> {"none", "queued", "running", "failed", "mapped", "skipped", "ended"}]
  /\ canceled \subseteq Entry
  /\ mapped \in [Entry -> {None} \cup 1 .. MaxSize]
  /\ owned \subseteq Entry
  /\ parsed \in [Entry -> Result]
  /\ resolved \in Result
  /\ process \in {"runs", "hangs", "dead"}

Init ==
  /\ disk \in [Entry -> Kind]
  /\ edits = 0
  /\ scan = "idle"
  /\ toVisit = {}
  /\ size = [e \in Entry |-> None]
  /\ group = "idle"
  /\ outcome = "none"
  /\ job = [e \in Entry |-> "none"]
  /\ canceled = {}
  /\ mapped = [e \in Entry |-> None]
  /\ owned = {}
  /\ parsed = [e \in Entry |-> "none"]
  /\ resolved = "none"
  /\ process = "runs"

-----------------------------------------------------------------------------
(* Finding the source files *)

Resolve ==
  /\ scan = "idle"
  /\ scan' = "readdir"
  /\ UNCHANGED <<userVars, toVisit, size, group, outcome, job, canceled, fileVars, resolved,
                 process>>

\* There is no such directory, and the scan's callback is called with an error.
ReadDirFails ==
  /\ scan = "readdir"
  /\ scan' = "ended"
  /\ resolved' = "error"
  /\ UNCHANGED <<userVars, toVisit, size, group, outcome, job, canceled, fileVars, process>>

\* Bug: a group without jobs is left pending.
GroupOf_Pending(files) == "pending"

\* processSrcFiles drops its AsyncGroup, and a group no job was begun in ends.
GroupOf(files) == IF files = {} THEN "completed" ELSE "pending"

Found(sizes) == {e \in Entry : sizes[e] # None}

\* The scan's callback, without an error: processSrcFiles begins a job for each file.
ProcessSrcFiles(sizes) ==
  /\ scan' = "ended"
  /\ group' = GroupOf(Found(sizes))
  /\ outcome' = IF group' = "completed" THEN "ok" ELSE "none"
  /\ job' = [e \in Entry |-> IF sizes[e] # None THEN "queued" ELSE "none"]
  /\ UNCHANGED <<userVars, canceled, fileVars, resolved, process>>

ReadDir ==
  /\ scan = "readdir"
  /\ toVisit' = {e \in Entry : disk[e] # Absent}
  /\ UNCHANGED size
  /\ IF toVisit' = {} THEN ProcessSrcFiles(size)
     ELSE /\ scan' = "stat"
          /\ UNCHANGED <<userVars, group, outcome, job, canceled, fileVars, resolved, process>>

IsSource(e) == disk[e] >= 0 /\ e \in RxExt \cup CcExt

\* The visitor of findSrcFilesAtDir, and the end of the scan with the last entry.
\* An entry that is gone by now is passed over.
Visit(e) ==
  /\ scan = "stat" /\ e \in toVisit
  /\ toVisit' = toVisit \ {e}
  /\ size' = IF IsSource(e) THEN [size EXCEPT ![e] = disk[e]] ELSE size
  /\ IF toVisit = {e} THEN ProcessSrcFiles(size')
     ELSE UNCHANGED <<userVars, scan, group, outcome, job, canceled, fileVars, resolved,
                      process>>

-----------------------------------------------------------------------------
(* Reading and parsing them *)

\* The pool's thread looks at the canceled flag before it calls main.
Work(e) ==
  /\ job[e] = "queued"
  /\ job' = [job EXCEPT ![e] = IF e \in canceled THEN "skipped" ELSE "running"]
  /\ UNCHANGED <<userVars, scanVars, size, group, outcome, canceled, fileVars, resolved,
                 process>>

\* MMapFileReadOnly: it is given the size the scan found, and asks for it if that
\* is zero.  Nothing but a file has pages to map, and no less than one.
MMapFileReadOnly(e) ==
  /\ job[e] = "running"
  /\ LET z == IF size[e] = 0 THEN disk[e] ELSE size[e]
     IN  IF disk[e] \in {Absent, Dir} \/ z = 0
           THEN job' = [job EXCEPT ![e] = "failed"] /\ UNCHANGED mapped
           ELSE /\ job' = [job EXCEPT ![e] = "mapped"]
                /\ mapped' = [mapped EXCEPT ![e] = z]
  /\ UNCHANGED <<userVars, scanVars, size, group, outcome, canceled, owned, parsed, resolved,
                 process>>

Others(e) == {f \in Entry : job[f] \notin {"none", "ended"}} \ {e}

\* Bug: the other jobs go on after an error.
Cancels_None(e) == {}

Cancels(e) == Others(e)

\* AsyncGroup::end.  The callback processSrcFiles was given only logs.
End(e, err) ==
  /\ job' = [job EXCEPT ![e] = "ended"]
  /\ IF group = "pending" /\ (err \/ Others(e) = {})
       THEN /\ group' = "completed"
            /\ outcome' = IF err THEN "error" ELSE "ok"
            /\ canceled' = IF err THEN canceled \cup Cancels(e) ELSE canceled
       ELSE UNCHANGED <<group, outcome, canceled>>
  /\ UNCHANGED <<userVars, scanVars, size, mapped, resolved, process>>

\* UVAfterWorkCB of a canceled request: it calls nothing, and what main has mapped
\* is not unmapped.
AfterCanceled(e) ==
  /\ job[e] \in {"skipped", "failed", "mapped"} /\ e \in canceled
  /\ job' = [job EXCEPT ![e] = "ended"]
  /\ UNCHANGED <<userVars, scanVars, size, group, outcome, canceled, fileVars, resolved,
                 process>>

ReadFails(e) ==
  /\ job[e] = "failed" /\ e \notin canceled
  /\ End(e, TRUE)
  /\ UNCHANGED <<owned, parsed>>

\* Only a file of rx is parsed.
Parses(e) == IF e \in RxExt THEN {"ok", "error"} ELSE {"ok"}

\* Bug: the error of parse() is not handed on.
ParseError_Dropped(r) == FALSE

ParseError(r) == r = "error"

\* Bug: the SrcFile is given its data only if it parses.
Keeps_Parsed(r) == r = "ok"

\* setData() comes before parse().
Keeps(r) == TRUE

\* The callback of a file that was mapped, when parse() returns.
FileRead(e) ==
  /\ job[e] = "mapped" /\ e \notin canceled
  /\ \E r \in Parses(e) :
       /\ parsed' = [parsed EXCEPT ![e] = r]
       /\ owned' = IF Keeps(r) THEN owned \cup {e} ELSE owned
       /\ End(e, ParseError(r))

\* parse() does not return.  The lexer repeats itself at the end of a text that is
\* cut off within a comment or a text literal; and it reads what is not there, if
\* the file has lost pages since it was mapped, or if it reads beyond the end of
\* a text that fills its last page.
FileReadStops(e) ==
  /\ job[e] = "mapped" /\ e \notin canceled /\ e \in RxExt
  /\ owned' = owned \cup {e}
  /\ process' \in {"hangs", "dead"}
  /\ UNCHANGED <<userVars, scanVars, size, group, outcome, job, canceled, mapped, parsed,
                 resolved>>

-----------------------------------------------------------------------------

Edit(e) ==
  /\ edits < MaxEdits
  /\ edits' = edits + 1
  /\ \E k \in Kind \ {disk[e]} : disk' = [disk EXCEPT ![e] = k]
  /\ UNCHANGED <<scanVars, size, group, outcome, job, canceled, fileVars, resolved, process>>

LoopStep ==
  \/ Resolve \/ ReadDir \/ ReadDirFails
  \/ \E e \in Entry :
       Visit(e) \/ AfterCanceled(e) \/ ReadFails(e) \/ FileRead(e) \/ FileReadStops(e)

PoolStep == \E e \in Entry : Work(e) \/ MMapFileReadOnly(e)

\* The pool's threads go on when the loop's thread hangs.
Progress ==
  \/ process = "runs" /\ LoopStep
  \/ process # "dead" /\ PoolStep

Next == Progress \/ \E e \in Entry : Edit(e)

Spec == Init /\ [][Next]_vars /\ WF_vars(Progress)

-----------------------------------------------------------------------------
(* Properties *)

\* If the group reports success, every source file the scan found has been
\* mapped, kept and parsed without an error.
OkParsedAll ==
  outcome = "ok" => \A e \in Found(size) : parsed[e] = "ok" /\ e \in owned

\* Once the group has reported its outcome no file is parsed or given data: the
\* files still being read when another one failed are left alone.
QuietAfterOutcome == [][outcome # "none" => UNCHANGED <<owned, parsed>>]_vars

\* A mapping that no SrcFile owns is that of a request canceled under way.
UnownedWasCanceled ==
  \A e \in Entry : job[e] = "ended" /\ mapped[e] # None => e \in owned \cup canceled

\* processSrcFiles() accepts a callback and returns a canceler, which resolve()
\* drops.
Task == INSTANCE CancelableTask WITH status <- group

\* What was begun ends: the scan's error is handed to _resolveCB, or the callback
\* of processSrcFiles() is called, unless the process does not come so far.
Settles ==
  (scan # "idle") ~> (resolved = "error" \/ group = "completed" \/ process # "runs")

\* Reading and parsing the files is a task nobody cancels: its callback is called
\* exactly once, at once if there is no file, and in the end if there are some,
\* whatever the user does to them meanwhile.
ImplementsTask == Task!SafeSpec /\ Settles

\* Whoever called resolve() is told how it ended: the callback that rx.cc:28-34
\* gives to PkgDeps prints "pkgDeps completed successfully".
OutcomeTold == (outcome # "none") ~> (resolved # "none")

\* The group of the files: a job whose request was canceled is left.
jobPhase ==
  [e \in Entry |->
     IF job[e] = "none" THEN "none"
     ELSE IF job[e] # "ended" THEN "waiting"
     ELSE IF e \in canceled THEN "left"
     ELSE "none"]

Group == INSTANCE JobGroup WITH Job <- Entry, phase <- jobPhase

\* The group of the files does what a group can do.
ImplementsGroup == Group!Spec

=============================================================================
