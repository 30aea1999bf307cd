--------------------------- MODULE ScanDirProofs ---------------------------
(***************************************************************************)
(* Proofs about ScanDir, for any directory, links in cycles included, any  *)
(* depth limit and any order of the answers.                               *)
(***************************************************************************)
EXTENDS ScanDir, SequenceTheorems, TLAPS

-----------------------------------------------------------------------------
(* The inductive invariant *)

\* The types the proofs need.
Types ==
  /\ endFlag \in BOOLEAN
  /\ refc \in Int
  /\ cbs \in Nat
  /\ handle \in {"none", "held", "gone"}

\* Before scandir is called there is nothing.
Unstarted ==
  handle = "none" => ops = {} /\ jobs = {} /\ ~endFlag /\ refc = 0 /\ ~freed

\* A request that will call back is a job of the group ...
OpsAreJobs == \A o \in ops : o \in jobs \/ o \in opCanceled

\* ... so that a group that has ended leaves none.
EndedQuiet == endFlag => ops \subseteq opCanceled

\* The caller is told when the group has ended, and once; a scan that eachFunc has
\* stopped has ended.
ToldOnce == (cbs > 0 \/ stopped) => endFlag

IInv ==
  Types /\ Unstarted /\ OpsAreJobs /\ EndedQuiet /\ ToldOnce /\ RefCountExact

LEMMA InitIInv == Init => IInv
<1> SUFFICES ASSUME Init PROVE IInv
  OBVIOUS
<1>1. ~endFlag /\ ~freed
  BY Zenon DEF Init
<1>2. /\ refc = 0 /\ cbs = 0 /\ handle = "none"
      /\ ops = {} /\ jobs = {} /\ endFlag = FALSE /\ stopped = FALSE
  BY DEF Init
<1>3. endFlag \in BOOLEAN
  BY Zenon, <1>2
<1>4. Unstarted /\ OpsAreJobs /\ EndedQuiet
  BY <1>1, <1>2 DEF Unstarted, OpsAreJobs, EndedQuiet
<1>5. ToldOnce /\ RefCountExact
  BY <1>2 DEF ToldOnce, RefCountExact
<1> QED
  BY <1>2, <1>3, <1>4, <1>5 DEF IInv, Types

\* A callback runs only while the group has not ended.
LEMMA LiveWhilePending ==
  ASSUME IInv, NEW o, Live(o)
  PROVE  ~endFlag /\ handle # "none"
BY DEF IInv, Unstarted, EndedQuiet, Live

\* Releasing references deletes the context when none is left.
LEMMA ReleaseExact ==
  ASSUME refc \in Int, NEW n \in Int, Release(n)
  PROVE  refc' = refc - n /\ refc' \in Int /\ (freed' <=> refc' = 0)
<1>1. freed' <=> refc = n
  BY Zenon DEF Release
<1> QED
  BY <1>1 DEF Release

\* What every step that settles the scan preserves: it cancels the requests left,
\* and releases the scan's reference, and the canceler's if that is used up.
LEMMA SettleKeeps ==
  ASSUME IInv, ~endFlag, handle # "none", endFlag' = TRUE, cbs' \in Nat,
         handle' \in {handle, "gone"}, ops' \subseteq opCanceled',
         Release(IF handle' = handle THEN 1 ELSE 2), handle' # handle => handle = "held"
  PROVE  IInv'
<1> USE DEF IInv, Types
<1>1. endFlag'
  OBVIOUS
<1>2. /\ refc' = refc - (IF handle' = handle THEN 1 ELSE 2) /\ refc' \in Int
      /\ freed' <=> refc' = 0
  BY ReleaseExact
<1>3. RefCountExact'
  BY <1>1, <1>2 DEF RefCountExact
<1>4. Types' /\ Unstarted' /\ OpsAreJobs' /\ EndedQuiet' /\ ToldOnce'
  BY <1>1, <1>2 DEF Unstarted, OpsAreJobs, EndedQuiet, ToldOnce
<1> QED
  BY <1>3, <1>4

\* What every callback that ends its job preserves.
LEMMA EndKeeps ==
  ASSUME IInv, NEW o, Live(o), NEW err \in BOOLEAN, NEW newJobs, End(o, err, newJobs),
         stopped' = stopped
  PROVE  IInv'
<1> DEFINE left == (jobs \cup newJobs) \ {o}
<1>1. ~endFlag /\ handle # "none"
  BY LiveWhilePending
<1>2. jobs' = left /\ ops' = (ops \cup newJobs) \ {o} /\ handle' = handle
  BY DEF End, Left
<1>3. CASE err \/ left = {}
  <2>1. /\ endFlag' = TRUE /\ cbs' = cbs + 1 /\ Release(1)
        /\ opCanceled' = IF err THEN opCanceled \cup left ELSE opCanceled
    BY <1>3 DEF End, Left, NoneLeft, CbReleases
  <2>2. ops' \subseteq opCanceled'
    BY <1>2, <1>3, <2>1 DEF IInv, OpsAreJobs
  <2> QED
    BY <1>1, <1>2, <2>1, <2>2, SettleKeeps DEF IInv, Types
<1>4. CASE ~(err \/ left = {})
  <2>1. UNCHANGED <<endFlag, opCanceled, cbs, refc, freed>>
    BY <1>4 DEF End, Left, NoneLeft, cbVars
  <2>2. OpsAreJobs'
    BY <1>2, <2>1 DEF IInv, OpsAreJobs
  <2> QED
    BY <1>1, <1>2, <2>1, <2>2
       DEF IInv, Types, Unstarted, EndedQuiet, ToldOnce, RefCountExact
<1> QED
  BY <1>3, <1>4

LEMMA NextIInv == IInv /\ [Next]_vars => IInv'
<1> SUFFICES ASSUME IInv, [Next]_vars PROVE IInv'
  OBVIOUS
<1> USE DEF visitVars
<1>1. CASE UNCHANGED vars
  BY <1>1 DEF vars, cbVars, IInv, Types, Unstarted, OpsAreJobs, EndedQuiet, ToldOnce,
              RefCountExact
<1>2. CASE Scandir
  BY <1>2 DEF Scandir, cbVars, IInv, Types, Unstarted, OpsAreJobs, EndedQuiet, ToldOnce,
              RefCountExact
<1>3. ASSUME NEW q, ReadDirCallback(q) PROVE IInv'
  BY <1>3, EndKeeps DEF ReadDirCallback
<1>4. ASSUME NEW q, StatGoesOn(q) PROVE IInv'
  BY <1>4, EndKeeps DEF StatGoesOn
<1>5. ASSUME NEW q, StatFails(q) PROVE IInv'
  BY <1>5, EndKeeps DEF StatFails
<1>6. ASSUME NEW q, StatStops(q) PROVE IInv'
  <2>1. ops' \subseteq opCanceled'
    BY <1>6 DEF StatStops, Canceled, IInv, OpsAreJobs
  <2> QED
    BY <1>6, <2>1, LiveWhilePending, SettleKeeps DEF StatStops, cbVars, IInv, Types
<1>7. ASSUME NEW q, StatReenters(q) PROVE IInv'
  <2>1. ops' \subseteq opCanceled'
    BY <1>7 DEF StatReenters, IInv, OpsAreJobs
  <2> QED
    BY <1>7, <2>1, LiveWhilePending, SettleKeeps
       DEF StatReenters, RefsDropped, cbVars, IInv, Types
<1>8. ASSUME NEW o, DropCanceledOp(o) PROVE IInv'
  BY <1>8 DEF DropCanceledOp, cbVars, IInv, Types, Unstarted, OpsAreJobs, EndedQuiet,
              ToldOnce, RefCountExact
<1>9. CASE CallCanceler
  <2>1. ops' \subseteq opCanceled'
    BY <1>9 DEF CallCanceler, IInv, OpsAreJobs
  <2> QED
    BY <1>9, <2>1, SettleKeeps DEF CallCanceler, RefsDropped, cbVars, IInv, Types
<1>10. CASE DropCanceler
  <2>1. refc' = refc - 1 /\ refc' \in Int /\ (freed' <=> refc' = 0)
    BY <1>10, ReleaseExact DEF DropCanceler, IInv, Types
  <2> QED
    BY <1>10, <2>1 DEF DropCanceler, cbVars, IInv, Types, Unstarted, OpsAreJobs,
                       EndedQuiet, ToldOnce, RefCountExact
<1> QED
  BY <1>1, <1>2, <1>3, <1>4, <1>5, <1>6, <1>7, <1>8, <1>9, <1>10
     DEF Next, LoopStep, StatCallback

-----------------------------------------------------------------------------
(* The theorems *)

\* The context's references are counted exactly, and when it is deleted no
\* request is left that would call into it.
THEOREM ContextAlwaysSafe == Spec => []ContextSafe
<1>1. IInv => ContextSafe
  BY DEF IInv, RefCountExact, EndedQuiet, ContextSafe, NoDanglingOp, Types, Unstarted
<1> QED
  BY InitIInv, NextIInv, <1>1, PTL DEF Spec, SafeSpec

\* Once the scan has settled eachFunc is not called again.
THEOREM VisitsStop == Spec => NoVisitAfterEnd
<1>1. IInv /\ [Next]_vars => [endFlag => visits' = visits]_vars
  BY LiveWhilePending
     DEF Next, LoopStep, StatCallback, Scandir, ReadDirCallback, StatGoesOn, StatFails,
         StatStops, StatReenters, DropCanceledOp, CallCanceler, DropCanceler, visitVars, vars
<1> QED
  BY InitIInv, NextIInv, <1>1, PTL DEF Spec, SafeSpec, NoVisitAfterEnd

\* The steps of a scan are those of a cancelable task: it is canceled by its
\* canceler only, its callback is called at most once and never after it was
\* canceled, and a scan that eachFunc has stopped stays pending.
THEOREM ScanIsTask == Spec => Task!SafeSpec
<1>1. Init => Task!Init
  BY DEF Init, Task!Init, taskStatus
<1>2. IInv /\ [Next]_vars => [Task!Next]_taskStatus
  <2> SUFFICES ASSUME IInv, [Next]_vars, taskStatus' # taskStatus PROVE Task!Next
    BY DEF Task!Next
  <2> USE DEF visitVars, IInv, Types, Unstarted, ToldOnce, RefCountExact, taskStatus, Task!Next,
          Task!Settle, Task!Start, Task!FailToStart, Task!Complete, Task!Cancel
  <2>1. ASSUME NEW o, Live(o), NEW err \in BOOLEAN, NEW newJobs, End(o, err, newJobs),
               stopped' = stopped
        PROVE  Task!Next
    <3>1. \/ endFlag' = TRUE /\ cbs' = cbs + 1 /\ handle' = handle
          \/ endFlag' = endFlag /\ cbs' = cbs /\ handle' = handle
      BY <2>1 DEF End, cbVars
    <3> QED
      BY <2>1, <3>1, LiveWhilePending
  <2>2. CASE Scandir
    BY <2>2 DEF Scandir, cbVars
  <2>3. ASSUME NEW q, ReadDirCallback(q) PROVE Task!Next
    BY <2>3, <2>1 DEF ReadDirCallback
  <2>4. ASSUME NEW q, StatGoesOn(q) \/ StatFails(q) PROVE Task!Next
    BY <2>4, <2>1 DEF StatGoesOn, StatFails
  <2>5. ASSUME NEW q, StatStops(q) \/ StatReenters(q) PROVE Task!Next
    BY <2>5, LiveWhilePending DEF StatStops, StatReenters, cbVars
  <2>6. ASSUME NEW o, DropCanceledOp(o) PROVE Task!Next
    BY <2>6 DEF DropCanceledOp, cbVars
  <2>7. CASE CallCanceler \/ DropCanceler
    BY <2>7 DEF CallCanceler, DropCanceler, cbVars
  <2>8. CASE UNCHANGED vars
    BY <2>8 DEF vars, cbVars
  <2> QED
    BY <2>2, <2>3, <2>4, <2>5, <2>6, <2>7, <2>8 DEF Next, LoopStep, StatCallback
<1> QED
  BY InitIInv, NextIInv, <1>1, <1>2, PTL DEF Spec, SafeSpec, Task!SafeSpec

-----------------------------------------------------------------------------
(* Paths *)

Prefix(p, i) == SubSeq(p, 1, i)

LEMMA ReachableType ==
  ASSUME NEW p \in Reachable
  PROVE  p \in Seq(Name) /\ Len(p) \in 1 .. depthLimit + 1 /\ InTree(p)
BY DepthAssumption DEF Reachable

LEMMA PrefixType ==
  ASSUME NEW p \in Seq(Name), NEW i \in 0 .. Len(p)
  PROVE  /\ Prefix(p, i) \in Seq(Name) /\ Len(Prefix(p, i)) = i
         /\ \A j \in 1 .. i : Prefix(p, i)[j] = p[j]
<1>1. Len(p) \in Nat /\ \A j \in 1 .. Len(p) : p[j] \in Name
  BY LenProperties, ElementOfSeq
<1>2. \A j \in 1 .. i : p[j] \in Name
  BY <1>1
<1> QED
  BY <1>1, <1>2, SubSeqProperties DEF Prefix

LEMMA PrefixOfPrefix ==
  ASSUME NEW p \in Seq(Name), NEW i \in 0 .. Len(p), NEW j \in 0 .. i
  PROVE  Prefix(Prefix(p, i), j) = Prefix(p, j)
<1>1. Len(p) \in Nat
  BY LenProperties
<1> DEFINE a == Prefix(Prefix(p, i), j)
           b == Prefix(p, j)
<1>2. Prefix(p, i) \in Seq(Name) /\ Len(Prefix(p, i)) = i
  BY PrefixType
<1>3. /\ a \in Seq(Name) /\ Len(a) = j
      /\ \A k \in 1 .. j : a[k] = Prefix(p, i)[k]
  BY <1>2, PrefixType
<1>4. /\ b \in Seq(Name) /\ Len(b) = j
      /\ \A k \in 1 .. j : b[k] = p[k]
  BY <1>1, PrefixType
<1>5. \A k \in 1 .. i : Prefix(p, i)[k] = p[k]
  BY PrefixType
<1> HIDE DEF a, b
<1>6. \A k \in 1 .. j : a[k] = b[k]
  BY <1>1, <1>3, <1>4, <1>5
<1>7. a = b
  BY <1>3, <1>4, <1>6, SeqEqual
<1> QED
  BY <1>7 DEF a, b

LEMMA PrefixWhole ==
  ASSUME NEW p \in Seq(Name)
  PROVE  Prefix(p, Len(p)) = p
<1>1. Len(p) \in Nat
  BY LenProperties
<1>2. /\ Prefix(p, Len(p)) \in Seq(Name) /\ Len(Prefix(p, Len(p))) = Len(p)
      /\ \A j \in 1 .. Len(p) : Prefix(p, Len(p))[j] = p[j]
  BY <1>1, PrefixType
<1> QED
  BY <1>2, SeqEqual

\* A path leads through the tree name by name.
LEMMA PathDescends ==
  ASSUME NEW p \in Reachable, NEW i \in 0 .. Len(p) - 1
  PROVE  IsDir(Prefix(p, i)) /\ Prefix(p, i + 1) \in Entries(Prefix(p, i))
<1>1. p \in Seq(Name) /\ Len(p) \in Nat /\ i + 1 \in 1 .. Len(p) /\ InTree(p)
  BY ReachableType
<1>2. IsDir(Prefix(p, i)) /\ p[i + 1] \in Kids[NodeAt(Prefix(p, i))]
  <2>1. (i + 1) - 1 = i
    OBVIOUS
  <2> QED
    BY <1>1, <2>1 DEF InTree, Prefix
<1>3. Prefix(p, i + 1) = Append(Prefix(p, i), p[i + 1])
  <2>1. p[i + 1] \in Name
    BY <1>1, ElementOfSeq
  <2>2. /\ Prefix(p, i) \in Seq(Name) /\ Len(Prefix(p, i)) = i
        /\ \A j \in 1 .. i : Prefix(p, i)[j] = p[j]
    BY <1>1, PrefixType
  <2>3. /\ Prefix(p, i + 1) \in Seq(Name) /\ Len(Prefix(p, i + 1)) = i + 1
        /\ \A j \in 1 .. i + 1 : Prefix(p, i + 1)[j] = p[j]
    BY <1>1, PrefixType
  <2> DEFINE a == Append(Prefix(p, i), p[i + 1])
  <2>4. /\ a \in Seq(Name) /\ Len(a) = i + 1 /\ a[i + 1] = p[i + 1]
        /\ \A j \in 1 .. i : a[j] = p[j]
    BY <2>1, <2>2, AppendProperties
  <2> HIDE DEF a
  <2>5. \A j \in 1 .. i + 1 : Prefix(p, i + 1)[j] = a[j]
    BY <1>1, <2>3, <2>4
  <2>6. Prefix(p, i + 1) = a
    BY <2>3, <2>4, <2>5, SeqEqual
  <2> QED
    BY <2>6 DEF a
<1> QED
  BY <1>2, <1>3 DEF Entries

LEMMA PrefixReachable ==
  ASSUME NEW p \in Reachable, NEW i \in 1 .. Len(p)
  PROVE  Prefix(p, i) \in Reachable
<1>1. p \in Seq(Name) /\ Len(p) \in 1 .. depthLimit + 1 /\ InTree(p)
  BY ReachableType
<1>2. Prefix(p, i) \in [1 .. i -> Name] /\ Len(Prefix(p, i)) = i
  BY <1>1, PrefixType, LenProperties
<1>3. InTree(Prefix(p, i))
  <2> SUFFICES ASSUME NEW j \in 1 .. i
               PROVE  LET parent == Prefix(Prefix(p, i), j - 1)
                      IN IsDir(parent) /\ Prefix(p, i)[j] \in Kids[NodeAt(parent)]
    BY <1>2 DEF InTree, Prefix
  <2>1. Prefix(Prefix(p, i), j - 1) = Prefix(p, j - 1) /\ Prefix(p, i)[j] = p[j]
    BY <1>1, PrefixOfPrefix, PrefixType
  <2>2. IsDir(Prefix(p, j - 1)) /\ p[j] \in Kids[NodeAt(Prefix(p, j - 1))]
    BY <1>1 DEF InTree, Prefix
  <2> QED
    BY <2>1, <2>2
<1> QED
  BY <1>1, <1>2, <1>3, DepthAssumption DEF Reachable

\* What a scan may read: the directory scanned, and those it descends into.
LEMMA EntryReachable ==
  ASSUME NEW d, d = <<>> \/ (d \in Reachable /\ Descends(d)), NEW q \in Entries(d)
  PROVE  /\ q \in Reachable /\ Len(d) \in Nat /\ Len(q) = Len(d) + 1
         /\ \A i \in 0 .. Len(d) : Prefix(q, i) = Prefix(d, i)
         /\ Prefix(q, Len(d)) = d
<1>1. d \in Seq(Name) /\ Len(d) \in Nat /\ Len(d) \in 0 .. depthLimit /\ IsDir(d) /\ InTree(d)
  <2>1. CASE d = <<>>
    BY <2>1, EmptySeq, NameAssumption, DepthAssumption DEF IsDir, NodeAt, InTree
  <2>2. CASE d \in Reachable /\ Descends(d)
    BY <2>2, ReachableType, DepthAssumption DEF Descends
  <2> QED
    BY <2>1, <2>2
<1>2. PICK n \in Kids[NodeAt(d)] : q = Append(d, n)
  BY DEF Entries
<1>3. n \in Name
  BY <1>1, NameAssumption DEF IsDir
<1>4. /\ q \in Seq(Name) /\ Len(q) = Len(d) + 1 /\ q[Len(d) + 1] = n
      /\ \A i \in 1 .. Len(d) : q[i] = d[i]
  BY <1>1, <1>2, <1>3, AppendProperties
<1>5. \A i \in 0 .. Len(d) : Prefix(q, i) = Prefix(d, i)
  <2> SUFFICES ASSUME NEW i \in 0 .. Len(d) PROVE Prefix(q, i) = Prefix(d, i)
    OBVIOUS
  <2>1. i \in 0 .. Len(q)
    BY <1>1, <1>4
  <2>2. /\ Prefix(q, i) \in Seq(Name) /\ Len(Prefix(q, i)) = i
        /\ \A j \in 1 .. i : Prefix(q, i)[j] = q[j]
    BY <1>4, <2>1, PrefixType
  <2>3. /\ Prefix(d, i) \in Seq(Name) /\ Len(Prefix(d, i)) = i
        /\ \A j \in 1 .. i : Prefix(d, i)[j] = d[j]
    BY <1>1, PrefixType
  <2>4. \A j \in 1 .. i : Prefix(q, i)[j] = Prefix(d, i)[j]
    BY <1>1, <1>4, <2>2, <2>3
  <2> QED
    BY <2>2, <2>3, <2>4, SeqEqual
<1>6. Prefix(q, Len(d)) = d
  BY <1>1, <1>5, PrefixWhole
<1>7. InTree(q)
  <2> SUFFICES ASSUME NEW j \in 1 .. Len(d) + 1
               PROVE  LET parent == Prefix(q, j - 1)
                      IN IsDir(parent) /\ q[j] \in Kids[NodeAt(parent)]
    BY <1>4 DEF InTree, Prefix
  <2>1. Prefix(q, j - 1) = Prefix(d, j - 1)
    BY <1>1, <1>5
  <2>2. CASE j \in 1 .. Len(d)
    BY <1>1, <1>4, <2>1, <2>2 DEF InTree, Prefix
  <2>3. CASE j = Len(d) + 1
    <3>1. j - 1 = Len(d) /\ Prefix(q, j - 1) = d
      BY <1>1, <1>6, <2>3
    <3> QED
      BY <1>1, <1>2, <1>4, <2>3, <3>1
  <2> QED
    BY <1>1, <2>2, <2>3
<1>8. q \in [1 .. Len(d) + 1 -> Name] /\ Len(d) + 1 \in 1 .. depthLimit + 1
  BY <1>1, <1>4, LenProperties, DepthAssumption
<1> QED
  BY <1>1, <1>4, <1>5, <1>6, <1>7, <1>8 DEF Reachable

-----------------------------------------------------------------------------
(* What a scan visits *)

\* An entry found has a stat request, or had one.
Known(p) == <<"stat", p>> \in jobs \/ visits[p] = 1 \/ p \in statFailed

\* An entry is visited once, and only if its stat succeeds.
VisitedOnce(p) ==
  /\ visits[p] \in {0, 1}
  /\ <<"stat", p>> \in jobs => visits[p] = 0 /\ p \notin statFailed
  /\ p \in statFailed => visits[p] = 0

\* A directory is read after its own visit, within the depth limit.
ReadVisited(p) == <<"readdir", p>> \in jobs => visits[p] = 1 /\ Descends(p)

\* What is known was found by visiting and reading every directory on the way.
FoundFromAbove(p) ==
  Known(p) =>
    /\ <<"readdir", Prefix(p, Len(p) - 1)>> \notin jobs
    /\ \A i \in 1 .. Len(p) - 1 : visits[Prefix(p, i)] = 1

\* The search has come to the first i names of p, and no further.
StandsAt(p, i) ==
  \/ <<"readdir", Prefix(p, i)>> \in jobs
  \/ i > 0 /\ (<<"stat", Prefix(p, i)>> \in jobs \/ Prefix(p, i) \in statFailed)

\* What is not known yet will be, save below an entry whose stat failed.
OnTheWay(p) == Known(p) \/ \E i \in 0 .. Len(p) - 1 : StandsAt(p, i)

Searched ==
  \A p \in Reachable : VisitedOnce(p) /\ ReadVisited(p) /\ FoundFromAbove(p) /\ OnTheWay(p)

VisitInv ==
  /\ TypeOK
  /\ handle = "none" => visits = [p \in Reachable |-> 0] /\ statFailed = {}
  /\ result # "none" => endFlag
  /\ result = "ok" => jobs = {}
  /\ handle # "none" /\ (~endFlag \/ result = "ok") => Searched

LEMMA ReadDirOf ==
  ASSUME jobs \subseteq Op, NEW d, <<"readdir", d>> \in jobs, Searched
  PROVE  d = <<>> \/ (d \in Reachable /\ Descends(d) /\ visits[d] = 1)
BY DEF Op, Searched, ReadVisited

\* The callback of a readdir request begins a stat request for each entry.
LEMMA ReadDirSearches ==
  ASSUME jobs \subseteq Op, Searched, NEW d, <<"readdir", d>> \in jobs,
         jobs' = (jobs \cup {<<"stat", q>> : q \in Entries(d)}) \ {<<"readdir", d>>},
         UNCHANGED visitVars
  PROVE  Searched'
<1> SUFFICES ASSUME NEW p \in Reachable
             PROVE  (VisitedOnce(p) /\ ReadVisited(p) /\ FoundFromAbove(p) /\ OnTheWay(p))'
  BY DEF Searched
<1>1. VisitedOnce(p) /\ ReadVisited(p) /\ FoundFromAbove(p) /\ OnTheWay(p)
  BY DEF Searched
<1>2. visits' = visits /\ statFailed' = statFailed
  BY DEF visitVars
<1>3. /\ \A q : <<"stat", q>> \in jobs' <=> <<"stat", q>> \in jobs \/ q \in Entries(d)
      /\ \A q : <<"readdir", q>> \in jobs' <=> <<"readdir", q>> \in jobs /\ q # d
  OBVIOUS
<1>4. d = <<>> \/ (d \in Reachable /\ Descends(d) /\ visits[d] = 1)
  BY ReadDirOf
<1>5. ASSUME p \in Entries(d)
      PROVE  /\ Len(p) - 1 = Len(d) /\ Prefix(p, Len(p) - 1) = d /\ ~Known(p)
             /\ \A i \in 1 .. Len(p) - 1 : visits[Prefix(p, i)] = 1
  <2>1. /\ Len(d) \in Nat /\ Len(p) - 1 = Len(d) /\ Prefix(p, Len(p) - 1) = d
        /\ \A i \in 0 .. Len(d) : Prefix(p, i) = Prefix(d, i)
    BY <1>4, <1>5, EntryReachable
  <2>2. ~Known(p)
    BY <1>1, <2>1 DEF FoundFromAbove
  <2>3. CASE d = <<>>
    BY <2>1, <2>2, <2>3, EmptySeq
  <2>4. CASE d \in Reachable /\ visits[d] = 1
    <3>1. \A i \in 1 .. Len(d) - 1 : visits[Prefix(d, i)] = 1
      BY <2>4 DEF Searched, FoundFromAbove, Known
    <3>2. Prefix(d, Len(d)) = d
      BY <2>4, ReachableType, PrefixWhole
    <3> QED
      BY <2>1, <2>2, <2>4, <3>1, <3>2
  <2> QED
    BY <1>4, <2>3, <2>4
<1>6. VisitedOnce(p)' /\ ReadVisited(p)'
  BY <1>1, <1>2, <1>3, <1>5 DEF VisitedOnce, ReadVisited, Known
<1>7. FoundFromAbove(p)'
  BY <1>1, <1>2, <1>3, <1>5 DEF FoundFromAbove, Known
<1>8. OnTheWay(p)'
  <2>1. CASE Known(p)
    BY <1>2, <1>3, <2>1 DEF OnTheWay, Known
  <2>2. ASSUME NEW i \in 0 .. Len(p) - 1, StandsAt(p, i) PROVE OnTheWay(p)'
    <3>1. CASE Prefix(p, i) # d \/ <<"readdir", Prefix(p, i)>> \notin jobs
      BY <1>2, <1>3, <2>2, <3>1 DEF OnTheWay, StandsAt
    <3>2. CASE Prefix(p, i) = d
      <4>1. <<"stat", Prefix(p, i + 1)>> \in jobs'
        BY <1>3, <3>2, PathDescends
      <4>2. p \in Seq(Name) /\ Len(p) \in Nat
        BY ReachableType
      <4>3. CASE i + 1 = Len(p)
        BY <4>1, <4>2, <4>3, PrefixWhole DEF OnTheWay, Known
      <4>4. CASE i + 1 # Len(p)
        <5>1. i + 1 \in 0 .. Len(p) - 1 /\ i + 1 > 0
          BY <4>2, <4>4
        <5> QED
          BY <4>1, <5>1 DEF OnTheWay, StandsAt
      <4> QED
        BY <4>3, <4>4
    <3> QED
      BY <3>1, <3>2
  <2> QED
    BY <1>1, <2>1, <2>2 DEF OnTheWay
<1> QED
  BY <1>6, <1>7, <1>8

\* The callback of a stat request visits the entry, and begins to read it if it is
\* a directory within the depth limit.
LEMMA StatSearches ==
  ASSUME visits \in [Reachable -> Nat], Searched,
         NEW q \in Reachable, <<"stat", q>> \in jobs,
         jobs' = (jobs \cup JobsOf(q)) \ {<<"stat", q>>}, Visit(q), UNCHANGED statFailed
  PROVE  Searched'
<1> SUFFICES ASSUME NEW p \in Reachable
             PROVE  (VisitedOnce(p) /\ ReadVisited(p) /\ FoundFromAbove(p) /\ OnTheWay(p))'
  BY DEF Searched
<1>1. VisitedOnce(p) /\ ReadVisited(p) /\ FoundFromAbove(p) /\ OnTheWay(p)
  BY DEF Searched
<1>2. visits[q] = 0 /\ q \notin statFailed
  BY DEF Searched, VisitedOnce
<1>3. visits'[q] = 1 /\ \A r \in Reachable : r # q => visits'[r] = visits[r]
  BY <1>2 DEF Visit
<1>4. /\ \A r : <<"stat", r>> \in jobs' <=> <<"stat", r>> \in jobs /\ r # q
      /\ \A r : <<"readdir", r>> \in jobs' <=>
                  <<"readdir", r>> \in jobs \/ (r = q /\ Descends(q))
  BY DEF JobsOf
<1>5. p \in Seq(Name) /\ Len(p) \in Nat \ {0} /\ Len(p) <= depthLimit + 1
      /\ \A i \in 1 .. Len(p) : Prefix(p, i) \in Reachable
  <2>1. \A i \in 1 .. Len(p) : Prefix(p, i) \in Reachable
    BY PrefixReachable
  <2> QED
    BY <2>1, ReachableType, DepthAssumption
<1>6. VisitedOnce(p)' /\ ReadVisited(p)'
  <2>1. CASE p = q
    BY <1>1, <1>2, <1>3, <1>4, <2>1 DEF VisitedOnce, ReadVisited
  <2>2. CASE p # q
    BY <1>1, <1>3, <1>4, <2>2 DEF VisitedOnce, ReadVisited
  <2> QED
    BY <2>1, <2>2
<1>7. FoundFromAbove(p)'
  <2> SUFFICES ASSUME Known(p)'
               PROVE  /\ <<"readdir", Prefix(p, Len(p) - 1)>> \notin jobs'
                      /\ \A i \in 1 .. Len(p) - 1 : visits'[Prefix(p, i)] = 1
    BY DEF FoundFromAbove
  <2>1. Known(p)
    BY <1>3, <1>4 DEF Known
  <2>2. \A i \in 1 .. Len(p) - 1 : visits[Prefix(p, i)] = 1 /\ Prefix(p, i) \in Reachable
    BY <1>1, <1>5, <2>1 DEF FoundFromAbove
  <2>3. Prefix(p, Len(p) - 1) # q
    <3>1. CASE Len(p) - 1 = 0
      <4>1. Len(q) # 0 /\ Len(Prefix(p, 0)) = 0
        BY <1>5, ReachableType, PrefixType
      <4> QED
        BY <3>1, <4>1
    <3>2. CASE Len(p) - 1 # 0
      <4> DEFINE n == Len(p) - 1
      <4>1. n \in Nat /\ n # 0
        BY <1>5, <3>2
      <4>2. n \in 1 .. n
        <5> HIDE DEF n
        <5> QED
          BY <4>1
      <4>3. visits[Prefix(p, Len(p) - 1)] = 1
        BY <2>2, <4>2
      <4> QED
        BY <1>2, <4>3
    <3> QED
      BY <3>1, <3>2
  <2> QED
    BY <1>1, <1>2, <1>3, <1>4, <2>1, <2>2, <2>3 DEF FoundFromAbove
<1>8. OnTheWay(p)'
  <2>1. CASE Known(p)
    BY <1>2, <1>3, <1>4, <2>1 DEF OnTheWay, Known
  <2>2. ASSUME NEW i \in 0 .. Len(p) - 1, StandsAt(p, i) PROVE OnTheWay(p)'
    <3>1. CASE Prefix(p, i) # q \/ <<"readdir", q>> \in jobs
      BY <1>4, <2>2, <3>1 DEF OnTheWay, StandsAt
    <3>2. CASE Prefix(p, i) = q
      <4>1. Len(q) = i
        BY <1>5, <3>2, PrefixType
      <4>2. Descends(q)
        BY <1>5, <3>2, <4>1, PathDescends, DepthAssumption DEF Descends
      <4> QED
        BY <1>4, <3>2, <4>2 DEF OnTheWay, StandsAt
    <3> QED
      BY <3>1, <3>2
  <2> QED
    BY <1>1, <2>1, <2>2 DEF OnTheWay
<1> QED
  BY <1>6, <1>7, <1>8

LEMMA FailureSearches ==
  ASSUME Searched, NEW q \in Reachable, <<"stat", q>> \in jobs,
         jobs' = jobs \ {<<"stat", q>>}, UNCHANGED visits, statFailed' = statFailed \cup {q}
  PROVE  Searched'
<1> SUFFICES ASSUME NEW p \in Reachable
             PROVE  (VisitedOnce(p) /\ ReadVisited(p) /\ FoundFromAbove(p) /\ OnTheWay(p))'
  BY DEF Searched
<1>1. VisitedOnce(p) /\ ReadVisited(p) /\ FoundFromAbove(p) /\ OnTheWay(p)
  BY DEF Searched
<1>2. visits[q] = 0
  BY DEF Searched, VisitedOnce
<1>3. /\ \A r : <<"stat", r>> \in jobs' <=> <<"stat", r>> \in jobs /\ r # q
      /\ \A r : <<"readdir", r>> \in jobs' <=> <<"readdir", r>> \in jobs
  OBVIOUS
<1>4. Known(p)' <=> Known(p)
  BY <1>3 DEF Known
<1>5. VisitedOnce(p)' /\ ReadVisited(p)' /\ FoundFromAbove(p)'
  BY <1>1, <1>2, <1>3, <1>4 DEF VisitedOnce, ReadVisited, FoundFromAbove
<1>6. \A i \in 0 .. Len(p) - 1 : StandsAt(p, i) => StandsAt(p, i)'
  BY <1>3 DEF StandsAt
<1> QED
  BY <1>1, <1>4, <1>5, <1>6 DEF OnTheWay

-----------------------------------------------------------------------------
(* The invariant of the visits *)

LEMMA OpType ==
  /\ <<"readdir", <<>>>> \in Op
  /\ \A p \in Reachable : <<"stat", p>> \in Op /\ JobsOf(p) \subseteq Op
BY DEF Op, JobsOf, Descends

LEMMA ReleaseType == ASSUME NEW n \in Int, Release(n) PROVE freed' \in BOOLEAN
BY DEF Release

\* Counted references are in their bounds.
LEMMA RefcType == IInv => refc \in 0 .. 2
BY DEF IInv, Types, Unstarted, RefCountExact

\* What every callback that ends its job leaves of the types.
LEMMA EndTypes ==
  ASSUME TypeOK, IInv, NEW o, Live(o), NEW err \in BOOLEAN, NEW newJobs \in SUBSET Op,
         End(o, err, newJobs)
  PROVE  /\ ops' \subseteq Op /\ jobs' \subseteq Op /\ opCanceled' \subseteq Op
         /\ endFlag' \in BOOLEAN /\ result' \in {"none", "ok", "error"} /\ cbs' \in Nat
         /\ handle' \in {"none", "held", "gone"} /\ fault' \in {"none", "freed"}
         /\ freed' \in BOOLEAN
<1>1. /\ jobs' = (jobs \cup newJobs) \ {o} /\ ops' = (ops \cup newJobs) \ {o}
      /\ handle' = handle /\ fault' = fault
  BY DEF End, Left
<1>2. CASE endFlag' = TRUE /\ Release(CbReleases)
  <2>1. freed' \in BOOLEAN
    BY <1>2, ReleaseType DEF CbReleases
  <2>2. /\ opCanceled' \subseteq Op /\ result' \in {"none", "ok", "error"} /\ cbs' \in Nat
    BY DEF End, Left, TypeOK, cbVars
  <2> QED
    BY <1>1, <1>2, <2>1, <2>2 DEF TypeOK
<1>3. CASE UNCHANGED <<endFlag, opCanceled, cbVars, refc, freed>>
  BY <1>1, <1>3 DEF TypeOK, cbVars
<1> QED
  BY <1>2, <1>3 DEF End

\* What every callback that ends its job leaves of the group's outcome.
LEMMA EndOutcome ==
  ASSUME VisitInv, IInv, NEW o, Live(o), NEW err \in BOOLEAN, NEW newJobs,
         End(o, err, newJobs)
  PROVE  /\ ~endFlag /\ handle # "none" /\ result = "none" /\ o \in jobs /\ Searched
         /\ handle' = handle
         /\ jobs' = (jobs \cup newJobs) \ {o}
         /\ result' # "none" => endFlag'
         /\ result' = "ok" => jobs' = {}
         /\ err => endFlag' /\ result' = "error"
<1>1. ~endFlag /\ handle # "none"
  BY LiveWhilePending
<1>2. result = "none" /\ Searched /\ o \in jobs
  BY <1>1 DEF VisitInv, TypeOK, IInv, OpsAreJobs, Live
<1> QED
  BY <1>1, <1>2 DEF End, Left, NoneLeft, cbVars

LEMMA InitVisitInv == Init => VisitInv
<1> SUFFICES ASSUME Init PROVE VisitInv
  OBVIOUS
<1>1. TypeOK
  <2>1. endFlag = FALSE => endFlag \in BOOLEAN
    BY Zenon
  <2>2. freed = FALSE => freed \in BOOLEAN
    BY Zenon
  <2>3. stopped = FALSE => stopped \in BOOLEAN
    BY Zenon
  <2> QED
    BY <2>1, <2>2, <2>3 DEF Init, TypeOK
<1> QED
  BY <1>1 DEF Init, VisitInv

\* Before anything is known, the directory scanned is on every way.
LEMMA ScandirSearches ==
  ASSUME VisitInv, IInv, Scandir
  PROVE  Searched'
<1> SUFFICES ASSUME NEW p \in Reachable
             PROVE  (VisitedOnce(p) /\ ReadVisited(p) /\ FoundFromAbove(p) /\ OnTheWay(p))'
  BY DEF Searched
<1>1. /\ jobs' = {<<"readdir", <<>>>>} /\ visits'[p] = 0 /\ statFailed' = {}
  BY DEF Scandir, VisitInv, visitVars
<1>2. p \in Seq(Name) /\ Len(p) \in Nat \ {0} /\ p # <<>>
  BY ReachableType, EmptySeq, DepthAssumption
<1>3. Prefix(p, 0) = <<>>
  BY SubSeqEmpty DEF Prefix
<1>4. ~Known(p)' /\ VisitedOnce(p)' /\ ReadVisited(p)' /\ FoundFromAbove(p)'
  BY <1>1, <1>2 DEF Known, VisitedOnce, ReadVisited, FoundFromAbove
<1>5. StandsAt(p, 0)' /\ 0 \in 0 .. Len(p) - 1
  BY <1>1, <1>2, <1>3 DEF StandsAt
<1> QED
  BY <1>4, <1>5 DEF OnTheWay

LEMMA NextVisitInv == VisitInv /\ IInv /\ IInv' /\ [Next]_vars => VisitInv'
<1> SUFFICES ASSUME VisitInv, IInv, IInv', [Next]_vars PROVE VisitInv'
  OBVIOUS
<1>a. refc' \in 0 .. 2
  BY RefcType DEF IInv, Types, Unstarted, RefCountExact
<1>b. TypeOK
  BY DEF VisitInv
<1>c. {} \in SUBSET Op
  OBVIOUS
<1>1. CASE UNCHANGED vars
  BY <1>1 DEF vars, cbVars, visitVars, VisitInv, TypeOK, Searched, VisitedOnce, ReadVisited,
              FoundFromAbove, OnTheWay, StandsAt, Known
<1>2. CASE Scandir
  <2>1. TypeOK'
    BY <1>a, <1>b, <1>2, OpType DEF Scandir, cbVars, visitVars, TypeOK
  <2> QED
    BY <1>2, <2>1, ScandirSearches DEF Scandir, cbVars, VisitInv, IInv, Unstarted
<1>3. ASSUME NEW d, ReadDirCallback(d) PROVE VisitInv'
  <2> DEFINE o == <<"readdir", d>>
             stats == {<<"stat", q>> : q \in Entries(d)}
  <2>1. Live(o) /\ UNCHANGED visitVars
    BY <1>3 DEF ReadDirCallback
  <2>2. CASE End(o, FALSE, stats)
    <3>1. /\ handle # "none" /\ Searched /\ o \in jobs /\ handle' = handle
          /\ jobs' = (jobs \cup stats) \ {o}
          /\ result' # "none" => endFlag'
          /\ result' = "ok" => jobs' = {}
      BY <2>1, <2>2, EndOutcome
    <3>2. stats \in SUBSET Op
      <4>1. \A q \in Entries(d) : q \in Reachable
        BY <1>b, <3>1, ReadDirOf, EntryReachable DEF TypeOK
      <4> QED
        BY <4>1, OpType
    <3>3. TypeOK'
      BY <1>a, <1>b, <2>1, <2>2, <3>2, EndTypes DEF TypeOK, visitVars
    <3>4. Searched'
      BY <1>b, <2>1, <3>1, ReadDirSearches DEF TypeOK
    <3> QED
      BY <3>1, <3>3, <3>4 DEF VisitInv
  <2>3. CASE End(o, TRUE, {})
    <3>1. /\ handle # "none" /\ handle' = handle /\ endFlag' /\ result' = "error"
      BY <2>1, <2>3, EndOutcome
    <3>2. TypeOK'
      BY <1>a, <1>b, <1>c, <2>1, <2>3, EndTypes DEF TypeOK, visitVars
    <3> QED
      BY <3>1, <3>2 DEF VisitInv
  <2> QED
    BY <1>3, <2>2, <2>3 DEF ReadDirCallback
<1>4. ASSUME NEW q \in Reachable, StatGoesOn(q) PROVE VisitInv'
  <2>1. /\ Live(<<"stat", q>>) /\ Visit(q) /\ UNCHANGED <<statFailed, stopped>>
        /\ End(<<"stat", q>>, FALSE, JobsOf(q))
    BY <1>4 DEF StatGoesOn
  <2>2. /\ handle # "none" /\ Searched /\ <<"stat", q>> \in jobs /\ handle' = handle
        /\ jobs' = (jobs \cup JobsOf(q)) \ {<<"stat", q>>}
        /\ result' # "none" => endFlag'
        /\ result' = "ok" => jobs' = {}
    BY <2>1, EndOutcome
  <2>3. TypeOK'
    <3>1. visits' \in [Reachable -> Nat] /\ statFailed' \subseteq Reachable
      BY <1>b, <2>1 DEF TypeOK, Visit
    <3>2. JobsOf(q) \in SUBSET Op
      BY OpType
    <3> QED
      BY <1>a, <1>b, <2>1, <3>1, <3>2, EndTypes DEF TypeOK
  <2>4. Searched'
    BY <1>b, <2>1, <2>2, StatSearches DEF TypeOK
  <2> QED
    BY <2>2, <2>3, <2>4 DEF VisitInv
<1>5. ASSUME NEW q \in Reachable, StatFails(q) PROVE VisitInv'
  <2>1. /\ Live(<<"stat", q>>) /\ UNCHANGED <<visits, stopped>> /\ statFailed' = statFailed \cup {q}
        /\ End(<<"stat", q>>, FALSE, {})
    BY <1>5 DEF StatFails
  <2>2. /\ handle # "none" /\ Searched /\ <<"stat", q>> \in jobs /\ handle' = handle
        /\ jobs' = jobs \ {<<"stat", q>>}
        /\ result' # "none" => endFlag'
        /\ result' = "ok" => jobs' = {}
    BY <2>1, EndOutcome
  <2>3. TypeOK'
    BY <1>a, <1>b, <1>c, <2>1, EndTypes DEF TypeOK
  <2>4. Searched'
    BY <2>1, <2>2, FailureSearches
  <2> QED
    BY <2>2, <2>3, <2>4 DEF VisitInv
<1>6. ASSUME NEW q \in Reachable, StatStops(q) \/ StatReenters(q) PROVE VisitInv'
  <2>1. ~endFlag /\ handle # "none"
    BY <1>6, LiveWhilePending DEF StatStops, StatReenters
  <2>2. /\ endFlag' = TRUE /\ jobs' = jobs /\ result' = result /\ cbs' = cbs
        /\ ops' \subseteq ops /\ opCanceled' = opCanceled \cup jobs /\ Visit(q)
        /\ statFailed' = statFailed /\ handle' \in {handle, "gone"}
        /\ fault' \in {fault, "freed"} /\ freed' \in BOOLEAN
    BY <1>6, ReleaseType DEF StatStops, StatReenters, Canceled, RefsDropped, cbVars
  <2>3. stopped' \in BOOLEAN
    BY <1>b, <1>6, Zenon DEF StatStops, StatReenters, TypeOK
  <2>4. TypeOK'
    BY <1>a, <1>b, <2>2, <2>3 DEF TypeOK, Visit
  <2> QED
    BY <2>1, <2>2, <2>4 DEF VisitInv
<1>7. ASSUME NEW o, DropCanceledOp(o) PROVE VisitInv'
  BY <1>7 DEF DropCanceledOp, cbVars, visitVars, VisitInv, TypeOK, Searched, VisitedOnce,
              ReadVisited, FoundFromAbove, OnTheWay, StandsAt, Known
<1>8. CASE CallCanceler
  <2>1. freed' \in BOOLEAN /\ ~endFlag /\ handle # "none"
    BY <1>8, ReleaseType DEF CallCanceler, RefsDropped
  <2>2. TypeOK'
    BY <1>a, <1>b, <1>8, <2>1 DEF CallCanceler, cbVars, visitVars, TypeOK
  <2> QED
    BY <1>8, <2>1, <2>2 DEF CallCanceler, cbVars, visitVars, VisitInv
<1>9. CASE DropCanceler
  <2>1. freed' \in BOOLEAN
    BY <1>9, ReleaseType DEF DropCanceler
  <2>2. TypeOK'
    BY <1>a, <1>b, <1>9, <2>1 DEF DropCanceler, cbVars, visitVars, TypeOK
  <2>3. Searched' <=> Searched
    BY <1>9 DEF DropCanceler, visitVars, Searched, VisitedOnce, ReadVisited,
                FoundFromAbove, OnTheWay, StandsAt, Known
  <2> QED
    BY <1>9, <2>2, <2>3 DEF DropCanceler, cbVars, visitVars, VisitInv
<1> QED
  BY <1>1, <1>2, <1>3, <1>4, <1>5, <1>6, <1>7, <1>8, <1>9
     DEF Next, LoopStep, StatCallback

\* Every variable of a scan keeps its type.
THEOREM TypeCorrect == Spec => []TypeOK
<1>1. VisitInv => TypeOK
  BY DEF VisitInv
<1> QED
  BY InitIInv, NextIInv, InitVisitInv, NextVisitInv, <1>1, PTL DEF Spec, SafeSpec

\* A scan that reports success has visited every entry that could be stat'ed, and
\* those above it, within the depth limit, once, and no other.
THEOREM SuccessVisitsAll == Spec => []OkVisitsAll
<1>1. VisitInv /\ IInv => OkVisitsAll
  <2> SUFFICES ASSUME VisitInv, IInv, result = "ok"
               PROVE  visits = [p \in Reachable |-> IF p \in Expected THEN 1 ELSE 0]
    BY DEF OkVisitsAll
  <2>1. jobs = {} /\ Searched /\ visits \in [Reachable -> Nat]
    BY DEF VisitInv, TypeOK, IInv, Unstarted
  <2>2. ASSUME NEW p \in Reachable
        PROVE  visits[p] = IF p \in Expected THEN 1 ELSE 0
    <3>1. VisitedOnce(p) /\ FoundFromAbove(p) /\ OnTheWay(p)
      BY <2>1 DEF Searched
    <3>2. /\ p \in Seq(Name) /\ Len(p) \in Nat \ {0} /\ Prefix(p, Len(p)) = p
          /\ \A i \in 1 .. Len(p) : Prefix(p, i) \in Reachable
      BY ReachableType, PrefixWhole, PrefixReachable, DepthAssumption
    <3>3. p \in Expected <=> \A i \in 1 .. Len(p) : Prefix(p, i) \notin statFailed
      BY DEF Expected, Prefix
    <3>4. CASE p \in Expected
      <4>1. p \notin statFailed
        BY <3>2, <3>3, <3>4
      <4>2. \A i \in 0 .. Len(p) - 1 : ~StandsAt(p, i)
        BY <2>1, <3>2, <3>3, <3>4 DEF StandsAt
      <4> QED
        BY <2>1, <3>1, <3>4, <4>1, <4>2 DEF OnTheWay, Known
    <3>5. CASE visits[p] = 1
      <4>1. \A i \in 1 .. Len(p) : visits[Prefix(p, i)] = 1
        <5>1. \A i \in 1 .. Len(p) - 1 : visits[Prefix(p, i)] = 1
          BY <3>1, <3>5 DEF FoundFromAbove, Known
        <5> QED
          BY <3>2, <3>5, <5>1
      <4>2. \A i \in 1 .. Len(p) : Prefix(p, i) \notin statFailed
        BY <2>1, <3>2, <4>1 DEF Searched, VisitedOnce
      <4> QED
        BY <3>3, <3>5, <4>2
    <3> QED
      BY <3>1, <3>4, <3>5 DEF VisitedOnce
  <2> QED
    BY <2>1, <2>2
<1> QED
  BY InitIInv, NextIInv, InitVisitInv, NextVisitInv, <1>1, PTL DEF Spec, SafeSpec

-----------------------------------------------------------------------------
(* The group of a scan is one of jobs *)

\* Requests are canceled when the scan settles.
CanceledAtEnd == opCanceled # {} => endFlag

GInv == IInv /\ VisitInv /\ CanceledAtEnd

LEMMA CanceledAtEndStep == CanceledAtEnd /\ [Next]_vars => CanceledAtEnd'
BY DEF CanceledAtEnd, Next, LoopStep, StatCallback, Scandir, ReadDirCallback, StatGoesOn,
       StatFails, StatStops, StatReenters, DropCanceledOp, CallCanceler, DropCanceler, End, vars

\* The phase of one request's job.
PhaseOf(o) == IF o \notin jobs THEN "none" ELSE IF o \in ops THEN "waiting" ELSE "left"

LEMMA Phases ==
  /\ jobPhase = [o \in Op |-> PhaseOf(o)]
  /\ jobPhase' = [o \in Op |-> PhaseOf(o)']
BY DEF jobPhase, PhaseOf

LEMMA PendingGroup ==
  ASSUME GInv
  PROVE  Group!Pending <=> ~endFlag /\ result = "none"
BY DEF Group!Pending, groupOutcome

\* A callback begins jobs nobody has begun, and ends its own.
LEMMA EndStep ==
  ASSUME GInv, NEW o \in Op, Live(o), NEW err \in BOOLEAN, NEW new \in SUBSET Op,
         new \cap jobs = {}, End(o, err, new)
  PROVE  Group!Next
<1>1. /\ ~endFlag /\ result = "none" /\ o \in jobs /\ o \in ops /\ o \notin new
      /\ jobs' = (jobs \cup new) \ {o} /\ ops' = (ops \cup new) \ {o}
  BY EndOutcome DEF GInv, Live, End
<1>2. PhaseOf(o) = "waiting" /\ PhaseOf(o)' = "none" /\ Group!Pending
  BY <1>1, PendingGroup DEF PhaseOf
<1>3. \A k \in new : PhaseOf(k) = "none" /\ PhaseOf(k)' = "waiting"
  BY <1>1 DEF PhaseOf
<1>4. \A k \in Op \ (new \cup {o}) : PhaseOf(k)' = PhaseOf(k)
  BY <1>1 DEF PhaseOf
<1>5. /\ jobPhase' = [Group!With(new) EXCEPT ![o] = "none"]
      /\ Group!NotBegun(new) /\ jobPhase[o] = "waiting"
  BY <1>2, <1>3, <1>4, Phases DEF Group!With, Group!NotBegun
<1>6. Group!NoneLeft(jobPhase') <=> Left(o, new) = {}
  <2>1. Left(o, new) = jobs' /\ jobs' \subseteq Op
    BY <1>1 DEF Left, GInv, VisitInv, TypeOK
  <2> QED
    BY <2>1, Phases DEF Group!NoneLeft, PhaseOf
<1>7. groupOutcome' = IF err THEN "error" ELSE IF Group!NoneLeft(jobPhase') THEN "ok" ELSE "none"
  BY <1>1, <1>6 DEF End, NoneLeft, groupOutcome, cbVars
<1>8. Group!End(o, new, err)
  BY <1>2, <1>5, <1>7 DEF Group!End, Group!MayCall
<1> QED
  BY <1>8 DEF Group!Next

\* A callback cancels the scan and leaves its own job.
LEMMA StopStep ==
  ASSUME GInv, NEW o \in Op, Live(o), jobs' = jobs, ops' = ops \ {o}, endFlag' = TRUE,
         result' = result
  PROVE  Group!Next
<1>1. ~endFlag /\ result = "none" /\ o \in jobs /\ o \in ops
  BY LiveWhilePending DEF GInv, IInv, OpsAreJobs, Live, VisitInv, TypeOK
<1>2. PhaseOf(o) = "waiting" /\ PhaseOf(o)' = "left" /\ Group!Pending
  BY <1>1, PendingGroup DEF PhaseOf
<1>3. \A k \in Op \ {o} : PhaseOf(k)' = PhaseOf(k)
  BY DEF PhaseOf
<1>4. jobPhase[o] = "waiting" /\ jobPhase' = [jobPhase EXCEPT ![o] = "left"]
  BY <1>2, <1>3, Phases
<1>5. groupOutcome' = "canceled"
  BY <1>1 DEF groupOutcome
<1>6. Group!Cancel
  BY <1>2, <1>4, <1>5 DEF Group!Cancel, Group!MayCall
<1> QED
  BY <1>6 DEF Group!Next

LEMMA ReadDirStep ==
  ASSUME GInv, NEW p \in Reachable \cup {<<>>}, ReadDirCallback(p)
  PROVE  Group!Next
<1> DEFINE o == <<"readdir", p>>
           new == {<<"stat", q>> : q \in Entries(p)}
<1>1. Live(o)
  BY DEF ReadDirCallback
<1>2. ~endFlag /\ handle # "none" /\ o \in jobs /\ Searched /\ jobs \subseteq Op
  BY <1>1, LiveWhilePending DEF GInv, IInv, OpsAreJobs, Live, VisitInv, TypeOK
<1>3. p = <<>> \/ (p \in Reachable /\ Descends(p))
  BY <1>2, ReadDirOf
<1>4. o \in Op
  BY <1>2
<1>5. ASSUME NEW q \in Entries(p)
      PROVE  <<"stat", q>> \in Op /\ <<"stat", q>> \notin jobs
  <2>1. q \in Reachable /\ Prefix(q, Len(q) - 1) = p
    BY <1>3, EntryReachable
  <2>2. ~Known(q)
    BY <1>2, <2>1 DEF Searched, FoundFromAbove
  <2> QED
    BY <2>1, <2>2, OpType DEF Known
<1>6. new \in SUBSET Op /\ new \cap jobs = {}
  BY <1>5
<1>7. End(o, FALSE, new) \/ End(o, TRUE, {})
  BY DEF ReadDirCallback
<1> HIDE DEF o, new
<1> QED
  BY <1>1, <1>4, <1>6, <1>7, EndStep

LEMMA StatStep ==
  ASSUME GInv, NEW p \in Reachable, StatCallback(p)
  PROVE  Group!Next
<1> DEFINE o == <<"stat", p>>
<1>1. Live(o) /\ o \in Op
  BY OpType DEF StatCallback, StatGoesOn, StatFails, StatStops, StatReenters
<1>2. ~endFlag /\ handle # "none" /\ o \in jobs /\ Searched
  BY <1>1, LiveWhilePending DEF GInv, IInv, OpsAreJobs, Live, VisitInv
<1>3. JobsOf(p) \in SUBSET Op /\ JobsOf(p) \cap jobs = {}
  BY <1>2, OpType DEF Searched, VisitedOnce, ReadVisited, JobsOf
<1>4. CASE StatGoesOn(p)
  BY <1>1, <1>3, <1>4, EndStep DEF StatGoesOn
<1>5. CASE StatFails(p)
  <2>1. End(o, FALSE, {}) /\ {} \in SUBSET Op /\ {} \cap jobs = {}
    BY <1>5 DEF StatFails
  <2> HIDE DEF o
  <2> QED
    BY <1>1, <2>1, EndStep
<1>6. CASE StatStops(p) \/ StatReenters(p)
  BY <1>1, <1>6, StopStep DEF StatStops, StatReenters, cbVars
<1> QED
  BY <1>4, <1>5, <1>6 DEF StatCallback

LEMMA JobGroupStep ==
  ASSUME GInv, Next
  PROVE  Group!Next \/ UNCHANGED <<jobPhase, groupOutcome>>
<1>1. CASE Scandir
  <2> DEFINE o == <<"readdir", <<>>>>
  <2>1. /\ jobs = {} /\ ~endFlag /\ result = "none" /\ UNCHANGED <<endFlag, result>>
        /\ jobs' = {o} /\ ops' = {o} /\ o \in Op
    BY <1>1, OpType DEF Scandir, GInv, IInv, Unstarted, VisitInv, cbVars
  <2> HIDE DEF o
  <2>2. jobPhase' = Group!With({o}) /\ Group!NotBegun({o})
    BY <2>1, Phases DEF PhaseOf, Group!With, Group!NotBegun
  <2>3. Group!Begin({o})
    BY <2>1, <2>2, PendingGroup DEF Group!Begin, groupOutcome
  <2> QED
    BY <2>1, <2>3 DEF Group!Next
<1>2. ASSUME NEW o \in ops, DropCanceledOp(o)
      PROVE  Group!Next \/ UNCHANGED <<jobPhase, groupOutcome>>
  <2>1. /\ UNCHANGED <<jobs, endFlag, result>> /\ ops' = ops \ {o} /\ endFlag /\ o \in Op
    BY <1>2 DEF DropCanceledOp, cbVars, GInv, CanceledAtEnd, VisitInv, TypeOK
  <2>2. groupOutcome' = groupOutcome /\ ~Group!Pending
    BY <2>1, PendingGroup DEF groupOutcome
  <2>3. \A k \in Op \ {o} : PhaseOf(k)' = PhaseOf(k)
    BY <2>1 DEF PhaseOf
  <2>4. CASE o \in jobs
    <3>1. PhaseOf(o) = "waiting" /\ PhaseOf(o)' = "left"
      BY <2>1, <2>4 DEF PhaseOf
    <3>2. Group!Leave(o)
      BY <2>1, <2>2, <2>3, <3>1, Phases DEF Group!Leave
    <3> QED
      BY <2>1, <3>2 DEF Group!Next
  <2>5. CASE o \notin jobs
    BY <2>1, <2>2, <2>3, <2>5, Phases DEF PhaseOf
  <2> QED
    BY <2>4, <2>5
<1>3. CASE CallCanceler
  <2>1. /\ UNCHANGED <<jobs, ops, result>> /\ ~endFlag /\ endFlag' = TRUE
        /\ result = "none"
    BY <1>3 DEF CallCanceler, cbVars, GInv, VisitInv
  <2>2. Group!Cancel
    BY <2>1, PendingGroup, Phases DEF PhaseOf, Group!Cancel, groupOutcome
  <2> QED
    BY <2>2 DEF Group!Next
<1>4. CASE DropCanceler
  BY <1>4 DEF DropCanceler, cbVars, jobPhase, groupOutcome
<1> QED
  BY <1>1, <1>2, <1>3, <1>4, ReadDirStep, StatStep DEF Next, LoopStep

\* For any directory and any order of the answers, a scan uses its group as a group
\* may be used: a request is begun as a job when no request like it is one, ends its
\* job in its own callback, and calls back only in a group that has no outcome.
THEOREM ScanIsJobGroup == Spec => ImplementsGroup
<1>1. Init => Group!Init /\ CanceledAtEnd
  BY DEF Init, Group!Init, jobPhase, groupOutcome, CanceledAtEnd
<1>2. IInv /\ VisitInv /\ CanceledAtEnd /\ [Next]_vars =>
        [Group!Next]_<<jobPhase, groupOutcome>>
  BY JobGroupStep DEF GInv, vars, cbVars, jobPhase, groupOutcome
<1> QED
  BY <1>1, <1>2, InitIInv, NextIInv, InitVisitInv, NextVisitInv, CanceledAtEndStep, PTL
  DEF Spec, SafeSpec, ImplementsGroup, Group!Spec

=============================================================================
