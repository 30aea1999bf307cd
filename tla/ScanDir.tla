------------------------------ MODULE ScanDir ------------------------------
(***************************************************************************)
(* fs::scandir (fs.cc): a deep search of a directory, made of readdir and  *)
(* stat requests in one AsyncGroup.  Everything runs on the loop's thread; *)
(* a step is one callback of a request, or one use of the canceler.        *)
(*                                                                         *)
(* A path is the sequence of entry names below the directory scanned, <<>> *)
(* being that directory.  An entry's name stands for what fs::stat finds   *)
(* there: stat follows symbolic links, so a link to a directory is one     *)
(* more directory, and a link upwards makes the tree of paths infinite.    *)
(***************************************************************************)
EXTENDS Integers, Sequences, FiniteSets

CONSTANTS
  Name,        \* entry names
  Root,        \* the directory scanned, not an entry
  Kids,        \* for the root and each entry that is a directory: its entries
  depthLimit   \* scandir's parameter

ASSUME NameAssumption ==
  /\ Root \notin Name
  /\ Root \in DOMAIN Kids
  /\ DOMAIN Kids \subseteq Name \cup {Root}
  /\ \A d \in DOMAIN Kids : Kids[d] \subseteq Name
ASSUME DepthAssumption == depthLimit \in Nat

NodeAt(p) == IF p = <<>> THEN Root ELSE p[Len(p)]

IsDir(p) == NodeAt(p) \in DOMAIN Kids

Entries(p) == {Append(p, n) : n \in Kids[NodeAt(p)]}

\* The paths in the tree that depthLimit lets the search reach: an entry of a
\* directory at depth d has a path of length d + 1.
InTree(p) ==
  \A i \in 1 .. Len(p) :
    LET parent == SubSeq(p, 1, i - 1)
    IN  IsDir(parent) /\ p[i] \in Kids[NodeAt(parent)]

Reachable ==
  {p \in UNION {[1 .. n -> Name] : n \in 1 .. depthLimit + 1} : InTree(p)}

Op == {<<"stat", p>> : p \in Reachable} \cup
      {<<"readdir", p>> : p \in {<<>>} \cup {q \in Reachable : IsDir(q)}}

VARIABLES
  ops,        \* requests in flight
  jobs,       \* the group's _jobs
  opCanceled, \* requests whose canceled flag is set
  endFlag,    \* the group's _endFlag
  result,     \* what the caller's ScanDirCB was called with
  cbs,        \* how many times it was called
  refc,       \* references to the ScanDirCtx
  freed,      \* the ScanDirCtx is deleted
  handle,     \* the canceler scandir returned
  visits,     \* per path: number of calls of eachFunc for it
  statFailed, \* paths whose stat failed
  stopped,    \* eachFunc has returned false
  fault       \* undefined behaviour that has happened

vars == <<ops, jobs, opCanceled, endFlag, result, cbs, refc, freed, handle,
          visits, statFailed, stopped, fault>>

cbVars    == <<result, cbs>>
visitVars == <<visits, statFailed, stopped>>

TypeOK ==
  /\ ops \subseteq Op
  /\ jobs \subseteq Op
  /\ opCanceled \subseteq Op
  /\ endFlag \in BOOLEAN
  /\ result \in {"none", "ok", "error"}
  /\ cbs \in Nat
  /\ refc \in 0 .. 2
  /\ freed \in BOOLEAN
  /\ handle \in {"none", "held", "gone"}
  /\ visits \in [Reachable -> Nat]
  /\ statFailed \subseteq Reachable
  /\ stopped \in BOOLEAN
  /\ fault \in {"none", "freed"}

Init ==
  /\ ops = {}
  /\ jobs = {}
  /\ opCanceled = {}
  /\ endFlag = FALSE
  /\ result = "none"
  /\ cbs = 0
  /\ refc = 0
  /\ freed = FALSE
  /\ handle = "none"
  /\ visits = [p \in Reachable |-> 0]
  /\ statFailed = {}
  /\ stopped = FALSE
  /\ fault = "none"

-----------------------------------------------------------------------------
(* The group and the context *)

Live(o) == o \in ops /\ o \notin opCanceled

\* n references to the context are released.
Release(n) ==
  /\ refc' = refc - n
  /\ freed' = (refc = n)

\* Bug: the group's callback leaves the context's reference alone.
CbReleases_Not == 0

CbReleases == 1

\* The jobs left by end() of the job of request o, when the callback began
\* newJobs before.
Left(o, newJobs) == (jobs \cup newJobs) \ {o}

\* Bug: a callback ends its job before it begins others.
NoneLeft_EndsFirst(o, newJobs) == jobs = {o}

\* Bug: the callback of a stat request never ends the group.
NoneLeft_DirsOnly(o, newJobs) == o[1] = "readdir" /\ Left(o, newJobs) = {}

NoneLeft(o, newJobs) == Left(o, newJobs) = {}

\* A callback begins newJobs and ends its own job.  If that ends the group, the
\* group's callback calls the caller's and releases the context.
End(o, err, newJobs) ==
  LET left == Left(o, newJobs)
  IN  /\ jobs' = left
      /\ ops' = (ops \cup newJobs) \ {o}
      /\ IF err \/ NoneLeft(o, newJobs)
           THEN /\ endFlag' = TRUE
                /\ opCanceled' = IF err THEN opCanceled \cup left ELSE opCanceled
                /\ result' = (IF err THEN "error" ELSE "ok")
                /\ cbs' = cbs + 1
                /\ Release(CbReleases)
           ELSE UNCHANGED <<endFlag, opCanceled, cbVars, refc, freed>>
      /\ UNCHANGED <<handle, fault>>

-----------------------------------------------------------------------------

\* The context starts with the reference of the closure that scandir returns,
\* and a second one to be released when cb is called or the scan is canceled.
Scandir ==
  /\ handle = "none"
  /\ handle' = "held"
  /\ refc' = 2
  /\ ops' = {<<"readdir", <<>>>>}
  /\ jobs' = ops'
  /\ UNCHANGED <<opCanceled, endFlag, cbVars, freed, visitVars, fault>>

\* A directory was read: its entries are dispatched, then its job is ended.  A
\* readdir error ends the scan.
ReadDirCallback(p) ==
  LET o == <<"readdir", p>>
  IN  /\ Live(o)
      /\ \/ End(o, FALSE, {<<"stat", q>> : q \in Entries(p)})
         \/ End(o, TRUE, {})
      /\ UNCHANGED visitVars

\* considerDirEntry: the entry's depth is that of its directory.
Descends(p) == Len(p) - 1 < depthLimit /\ IsDir(p)

\* The jobs considerDirEntry begins.
JobsOf(p) == IF Descends(p) THEN {<<"readdir", p>>} ELSE {}

Visit(p) == visits' = [visits EXCEPT ![p] = @ + 1]

\* eachFunc returned true.
StatGoesOn(p) ==
  LET o == <<"stat", p>>
  IN  /\ Live(o)
      /\ Visit(p)
      /\ End(o, FALSE, JobsOf(p))
      /\ UNCHANGED <<statFailed, stopped>>

\* A stat error is ignored.
StatFails(p) ==
  LET o == <<"stat", p>>
  IN  /\ Live(o)
      /\ statFailed' = statFailed \cup {p}
      /\ End(o, FALSE, {})
      /\ UNCHANGED <<visits, stopped>>

\* Bug: only the job at hand is canceled.
Canceled_OwnOnly(o) == {o}

\* The requests that cancelAllJobs cancels.
Canceled(o) == jobs

\* eachFunc returned false: ScanDirCtx::cancel, and the job is not ended.  The
\* group is canceled, though no canceler was called, and nobody calls the
\* caller's callback.
StatStops(p) ==
  LET o == <<"stat", p>>
  IN  /\ Live(o)
      /\ Visit(p)
      /\ stopped' = TRUE
      /\ ops' = ops \ {o}
      /\ endFlag' = TRUE
      /\ opCanceled' = opCanceled \cup Canceled(o)
      /\ Release(1)
      /\ UNCHANGED <<jobs, cbVars, handle, statFailed, fault>>

\* Bug: the canceler leaves its own reference to its destructor.
RefsDropped_One == 1

\* The references a canceler that cancels the scan releases: the scan's, in
\* ScanDirCtx::cancel, and the closure's.
RefsDropped == 2

\* eachFunc calls the canceler, which drops both references: the context and
\* eachFunc itself are deleted while considerDirEntry goes on using them.
StatReenters(p) ==
  LET o == <<"stat", p>>
  IN  /\ Live(o) /\ handle = "held"
      /\ Visit(p)
      /\ ops' = ops \ {o}
      /\ endFlag' = TRUE
      /\ opCanceled' = opCanceled \cup jobs
      /\ handle' = "gone"
      /\ Release(RefsDropped)
      /\ fault' = "freed"
      /\ UNCHANGED <<jobs, cbVars, statFailed, stopped>>

\* The finalizer of a canceled request only deletes it.
DropCanceledOp(o) ==
  /\ o \in ops /\ o \in opCanceled
  /\ ops' = ops \ {o}
  /\ UNCHANGED <<jobs, opCanceled, endFlag, cbVars, refc, freed, handle, visitVars,
                 fault>>

\* The canceler, between callbacks.  After the scan has ended the closure keeps
\* its reference until it is destroyed.
CallCanceler ==
  /\ handle = "held" /\ ~endFlag
  /\ endFlag' = TRUE
  /\ opCanceled' = opCanceled \cup jobs
  /\ handle' = "gone"
  /\ Release(RefsDropped)
  /\ UNCHANGED <<ops, jobs, cbVars, visitVars, fault>>

DropCanceler ==
  /\ handle = "held"
  /\ handle' = "gone"
  /\ Release(1)
  /\ UNCHANGED <<ops, jobs, opCanceled, endFlag, cbVars, visitVars, fault>>

StatCallback(p) == StatGoesOn(p) \/ StatFails(p) \/ StatStops(p) \/ StatReenters(p)

LoopStep ==
  \/ \E p \in Reachable \cup {<<>>} : ReadDirCallback(p)
  \/ \E p \in Reachable : StatCallback(p)
  \/ \E o \in ops : DropCanceledOp(o)

Next ==
  /\ fault = "none"
  /\ Scandir \/ LoopStep \/ CallCanceler \/ DropCanceler

SafeSpec == Init /\ [][Next]_vars

\* Each request is answered by the loop.  Nobody has to use the canceler.
Spec == SafeSpec /\ WF_vars(fault = "none" /\ LoopStep)

-----------------------------------------------------------------------------
(* Properties *)

\* What a scan without readdir errors has to visit: every entry within the
\* depth limit, except below and at the entries that could not be stat'ed.
Expected ==
  {p \in Reachable : \A i \in 1 .. Len(p) : SubSeq(p, 1, i) \notin statFailed}

\* A scan that reports success has called eachFunc exactly once for each entry
\* it should, and for nothing beyond the depth limit, in whatever order the
\* requests were answered, links in cycles included.
OkVisitsAll ==
  result = "ok" =>
    visits = [p \in Reachable |-> IF p \in Expected THEN 1 ELSE 0]

\* When the context is deleted no request is left that would call into it.
NoDanglingOp == freed => ops \subseteq opCanceled

\* The context's reference count is right: one for the canceler, one for the
\* scan until it settles.
RefCountExact ==
  handle # "none" =>
    /\ refc = (IF handle = "held" THEN 1 ELSE 0) + (IF endFlag THEN 0 ELSE 1)
    /\ freed <=> refc = 0

\* The context is deleted neither early nor twice: its references are counted
\* exactly, and no request outlives it that would call into it.
ContextSafe == RefCountExact /\ NoDanglingOp

\* Digging stops at once: after the scan settled, for whichever reason,
\* eachFunc is not called again.
NoVisitAfterEnd == [][endFlag => visits' = visits]_vars

\* The context is deleted once the scan has ended and its canceler is gone.
Reclaimed == (handle = "gone") ~> freed

\* A scan that eachFunc has stopped was canceled by nobody: its caller is still
\* owed the callback.
taskStatus ==
  IF cbs > 0 THEN "completed"
  ELSE IF handle = "none" THEN "idle"
  ELSE IF endFlag /\ ~stopped THEN "canceled"
  ELSE "pending"

Task == INSTANCE CancelableTask WITH status <- taskStatus

\* A scan that was started comes to its callback or is canceled, unless eachFunc
\* stops it.
Settles == (taskStatus = "pending") ~> (taskStatus # "pending" \/ stopped)

\* A scan is a cancelable task: it has one outcome, its callback or that its
\* canceler was called, and reaches it in the end.  The exception is a scan
\* that eachFunc stops.  fs.hh:42-43 has the callback called "when either all files
\* have been visited, or digging ended for some reason"; it never is.
ImplementsTask == Task!SafeSpec /\ Settles

\* The group of the scan: a request whose callback has not ended its job is left.
jobPhase ==
  [o \in Op |-> IF o \notin jobs THEN "none" ELSE IF o \in ops THEN "waiting" ELSE "left"]

groupOutcome ==
  IF result # "none" THEN result
  ELSE IF endFlag THEN "canceled"
  ELSE "none"

Group == INSTANCE JobGroup WITH Job <- Op, phase <- jobPhase, outcome <- groupOutcome

\* A scan uses its group as one may be used, and no request is two of its jobs.
ImplementsGroup == Group!Spec

=============================================================================
