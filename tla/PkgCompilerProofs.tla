------------------------- MODULE PkgCompilerProofs -------------------------
(***************************************************************************)
(* Proofs about PkgCompiler: types, the two assertions of compiler.cc, and *)
(* that what an import returns exists, for any packages and processes,     *)
(* after any sequence of calls, failed builds and crashes.                 *)
(***************************************************************************)
EXTENDS PkgCompiler, FiniteSetTheorems, WellFoundedInduction, TLAPS

\* An instance has a PCH to include or an output file only while an action is
\* prepared or under way.
InstanceOf(p) ==
  /\ include[p] # None => pc[p] \in {"load", "unioning", "compile"}
  /\ output[p] # None => pc[p] \in {"fixing", "load", "unioning"}

InstanceInv ==
  /\ DOMAIN include = Proc /\ DOMAIN output = Proc /\ DOMAIN pc = Proc
  /\ \A p \in Proc : InstanceOf(p)

LEMMA InstanceInvHolds == Spec => []InstanceInv
<1>1. Init => InstanceInv
  BY DEF Init, InstanceInv, InstanceOf
<1>2. InstanceInv /\ [Next]_vars => InstanceInv'
  <2> SUFFICES ASSUME InstanceInv, [Next]_vars PROVE InstanceInv'
    OBVIOUS
  <2> USE DEF InstanceInv, InstanceOf, instance, local, disk, Goes
  <2>1. CASE UNCHANGED vars
    BY <2>1 DEF vars
  <2>2. CASE Remove
    BY <2>2 DEF Remove
  <2>3. ASSUME NEW p \in Proc, Step(p) PROVE InstanceInv'
    <3> USE <2>3
    <3>1. ASSUME NEW pkgs \in SUBSET Pkg, Call(p, pkgs) PROVE InstanceInv'
      BY <3>1 DEF Call
    <3>2. CASE CheckBase(p)
      BY <3>2 DEF CheckBase, BaseDone
    <3>3. CASE FixBase(p)
      BY <3>3 DEF FixBase, SetOutputFile
    <3>4. CASE BaseFixed(p)
      BY <3>4 DEF BaseFixed, BaseDone, BuildPCHFile, ExecuteAction, ClearIncludePCH,
                  ClearOutputFiles
    <3>5. CASE CheckOther(p)
      BY <3>5 DEF CheckOther
    <3>6. CASE CheckUnion(p)
      BY <3>6 DEF CheckUnion
    <3>7. CASE BuildUnion(p)
      BY <3>7 DEF BuildUnion, SetOutputFile, SetIncludePCH
    <3>8. CASE LoadPCH(p)
      BY <3>8 DEF LoadPCH
    <3>9. CASE UnionBuilt(p)
      BY <3>9 DEF UnionBuilt, BuildPCHFile, ExecuteAction, ClearIncludePCH, ClearOutputFiles
    <3>10. CASE IncludeInterface(p)
      BY <3>10 DEF IncludeInterface, SetIncludePCH
    <3>11. CASE Compile(p)
      BY <3>11 DEF Compile, ExecuteAction, ClearIncludePCH, ClearOutputFiles
    <3>12. CASE Crash(p)
      BY <3>12 DEF Crash
    <3>13. QED
      BY <3>1, <3>2, <3>3, <3>4, <3>5, <3>6, <3>7, <3>8, <3>9, <3>10, <3>11, <3>12 DEF Step
  <2>4. QED
    BY <2>1, <2>2, <2>3 DEF Next
<1>3. QED
  BY <1>1, <1>2, PTL DEF Spec

\* A call leaves the compiler instance as it found it, whichever step failed, and
\* so does a crash, as another instance takes its place.
THEOREM InstanceClean == Spec => []NothingLeft
<1>1. InstanceInv => NothingLeft
  BY DEF InstanceInv, InstanceOf, NothingLeft
<1>2. QED
  BY <1>1, InstanceInvHolds, PTL

-----------------------------------------------------------------------------

LEMMA BaseIsMember ==
  ASSUME NEW S \in SUBSET Nat, S # {}
  PROVE  Base(S) \in S
<1> DEFINE Less == OpToRel(<, Nat)
<1>1. PICK x \in S : \A y \in S : ~ (<<y, x>> \in Less)
  BY NatLessThanWellFounded, WFMin
<1>2. ASSUME NEW y \in S, y < x PROVE FALSE
  <2>1. <<y, x>> \in Less
    BY <1>2 DEF OpToRel
  <2>2. QED
    BY <1>1, <2>1
<1>3. \A y \in S : x =< y
  BY <1>2
<1>4. QED
  BY <1>3 DEF Base, Min

\* A process in importPkgs has imports, and one that loads a PCH has one to load.
TypeInv ==
  /\ TypeOK
  /\ \A p \in Proc : /\ pc[p] \notin {"idle", "compile"} => imports[p] # {}
                     /\ pc[p] = "load" => include[p] # None

LEMMA BaseInterface ==
  ASSUME NEW S \in SUBSET Pkg, S # {}
  PROVE  {Base(S)} \in Interface /\ S \in Interface /\ Base(S) \in Pkg
<1>1. Base(S) \in S
  BY BaseIsMember, PkgAssumption
<1>2. QED
  BY <1>1 DEF Interface

\* A build that succeeds puts its output on disk, whole, and takes nothing away.
LEMMA BuildAddsFile ==
  ASSUME TypeOK, NEW p \in Proc, NEW ok \in BOOLEAN, BuildPCHFile(p, ok)
  PROVE  /\ stamp' \in Nat /\ stamp =< stamp'
         /\ file' \in [Interface -> [stamp : 0 .. stamp', base : 0 .. stamp', whole : BOOLEAN]]
         /\ ok => output[p] \in Interface /\ file'[output[p]] # NoFile /\ file'[output[p]].whole
         /\ \A f \in Interface : /\ FileExists(f) => FileExists(f)'
                                 /\ file[f].whole => file'[f].whole
         /\ disturbed' \in [Proc -> BOOLEAN]
<1> DEFINE new == Built(stamp + 1, loaded[p])
<1>1. CASE ok
  <2>1. /\ output[p] \in Interface /\ stamp' = stamp + 1
        /\ file' = [file EXCEPT ![output[p]] = new]
        /\ disturbed' = Disturbs(p)
    BY <1>1 DEF BuildPCHFile, TypeOK
  <2>2. stamp \in Nat /\ loaded[p] \in 0 .. stamp
    BY DEF TypeOK
  <2>3. new \in [stamp : 0 .. stamp', base : 0 .. stamp', whole : BOOLEAN]
    BY <2>1, <2>2 DEF Built
  <2>4. new.stamp # NoFile.stamp /\ new.whole
    BY <2>2 DEF Built, NoFile
  <2>5. new # NoFile
    BY <2>4
  <2>6. \A f \in Interface : file[f] \in [stamp : 0 .. stamp', base : 0 .. stamp', whole : BOOLEAN]
    <3>1. 0 .. stamp \subseteq 0 .. stamp'
      BY <2>1, <2>2
    <3>2. QED
      BY <3>1 DEF TypeOK
  <2>7. file \in [Interface -> [stamp : 0 .. stamp, base : 0 .. stamp, whole : BOOLEAN]]
    BY DEF TypeOK
  <2>8. file' \in [Interface -> [stamp : 0 .. stamp', base : 0 .. stamp', whole : BOOLEAN]]
    BY <2>1, <2>3, <2>6, <2>7
  <2>9. disturbed' \in [Proc -> BOOLEAN]
    BY <2>1 DEF Disturbs, TypeOK
  <2>10. \A f \in Interface : file'[f] = IF f = output[p] THEN new ELSE file[f]
    BY <2>1, <2>7
  <2>11. stamp' \in Nat /\ stamp =< stamp'
    BY <2>1, <2>2
  <2> HIDE DEF new
  <2>12. file'[output[p]] # NoFile /\ file'[output[p]].whole
    BY <2>1, <2>4, <2>5, <2>10 DEF FileExists
  <2>13. \A f \in Interface : /\ FileExists(f) => FileExists(f)'
                              /\ file[f].whole => file'[f].whole
    BY <2>4, <2>5, <2>10 DEF FileExists
  <2>14. QED
    BY <2>1, <2>8, <2>9, <2>11, <2>12, <2>13
<1>2. CASE ~ok
  BY <1>2 DEF BuildPCHFile, disk, FileExists, TypeOK
<1>3. QED
  BY <1>1, <1>2

LEMMA TypeInvHolds == Spec => []TypeInv
<1>1. Init => TypeInv
  BY DEF Init, TypeInv, TypeOK, NoFile, Status
<1>2. TypeInv /\ [Next]_vars => TypeInv'
  <2> SUFFICES ASSUME TypeInv, [Next]_vars PROVE TypeInv'
    OBVIOUS
  <2> USE DEF TypeInv, TypeOK, instance, local, disk, Goes
  <2>1. CASE UNCHANGED vars
    BY <2>1 DEF vars
  <2>2. CASE Remove
    <3>1. NoFile \in [stamp : 0 .. stamp, base : 0 .. stamp, whole : BOOLEAN]
      BY DEF NoFile
    <3>2. PICK f \in Interface : file' = [file EXCEPT ![f] = NoFile]
      BY <2>2 DEF Remove
    <3>3. file' \in [Interface -> [stamp : 0 .. stamp, base : 0 .. stamp, whole : BOOLEAN]]
      BY <3>1, <3>2
    <3>4. QED
      BY <2>2, <3>3 DEF Remove
  <2>3. ASSUME NEW p \in Proc, Step(p) PROVE TypeInv'
    <3> USE <2>3
    <3>a. ASSUME NEW ok \in BOOLEAN, BuildPCHFile(p, ok)
          PROVE  /\ stamp' \in Nat
                 /\ file' \in [Interface -> [stamp : 0 .. stamp', base : 0 .. stamp', whole : BOOLEAN]]
                 /\ include' \in [Proc -> Interface \cup {None}]
                 /\ output' \in [Proc -> Interface \cup {None}]
                 /\ loaded' \in [Proc -> 0 .. stamp']
                 /\ disturbed' \in [Proc -> BOOLEAN]
      <4>1. /\ stamp' \in Nat /\ stamp =< stamp' /\ disturbed' \in [Proc -> BOOLEAN]
            /\ file' \in [Interface -> [stamp : 0 .. stamp', base : 0 .. stamp', whole : BOOLEAN]]
        BY <3>a, BuildAddsFile
      <4>2. 0 \in 0 .. stamp' /\ \A q \in Proc : loaded[q] \in 0 .. stamp'
        BY <4>1
      <4>3. QED
        BY <3>a, <4>1, <4>2 DEF BuildPCHFile, ExecuteAction, ClearIncludePCH, ClearOutputFiles
    <3>b. imports[p] # {} =>
            {Base(imports[p])} \in Interface /\ imports[p] \in Interface /\ Base(imports[p]) \in Pkg
      BY BaseInterface
    <3>1. ASSUME NEW pkgs \in SUBSET Pkg, Call(p, pkgs) PROVE TypeInv'
      BY <3>1 DEF Call
    <3>2. CASE CheckBase(p)
      BY <3>2 DEF CheckBase, BaseDone, OtherPkgs, CheckPkg, Status
    <3>3. CASE FixBase(p)
      <4>1. PICK out \in Interface \cup {None} : output' = [output EXCEPT ![p] = out]
        BY <3>3, <3>b DEF FixBase, SetOutputFile
      <4>2. QED
        BY <3>3, <4>1 DEF FixBase, SetOutputFile, WhileWritten
    <3>4. CASE BaseFixed(p)
      <4>1. PICK ok \in BOOLEAN :
              /\ BuildPCHFile(p, ok)
              /\ IF ok THEN BaseDone(p) ELSE Goes(p, "idle") /\ UNCHANGED todo
        BY <3>4 DEF BaseFixed
      <4>2. todo' \in [Proc -> SUBSET Pkg]
        BY <4>1 DEF BaseDone, OtherPkgs
      <4>3. pc' = [pc EXCEPT ![p] = pc'[p]] /\ pc'[p] \in {"idle", "include", "others"}
        BY <4>1 DEF BaseDone
      <4>4. include' = [include EXCEPT ![p] = None] /\ UNCHANGED <<imports, status, outdated>>
        BY <3>4, <4>1 DEF BaseFixed, BuildPCHFile, ExecuteAction, ClearIncludePCH
      <4>5. TypeOK'
        BY <3>a, <4>1, <4>2, <4>3, <4>4
      <4>6. QED
        BY <3>4, <4>3, <4>4, <4>5 DEF BaseFixed
    <3>5. CASE CheckOther(p)
      BY <3>5 DEF CheckOther
    <3>6. CASE CheckUnion(p)
      BY <3>6 DEF CheckUnion
    <3>7. CASE BuildUnion(p)
      <4>1. PICK out \in Interface \cup {None} : output' = [output EXCEPT ![p] = out]
        BY <3>7, <3>b DEF BuildUnion, SetOutputFile
      <4>2. {Base(imports[p])} \in Interface /\ {Base(imports[p])} # None
        BY <3>7, <3>b DEF BuildUnion, None
      <4>3. QED
        BY <3>7, <4>1, <4>2 DEF BuildUnion, SetOutputFile, SetIncludePCH, WhileWritten
    <3>8. CASE LoadPCH(p)
      BY <3>8 DEF LoadPCH
    <3>9. CASE UnionBuilt(p)
      <4>1. PICK ok \in BOOLEAN : BuildPCHFile(p, ok) /\ Goes(p, IF ok THEN "include" ELSE "idle")
        BY <3>9 DEF UnionBuilt
      <4>2. include' = [include EXCEPT ![p] = None] /\ UNCHANGED local
        BY <3>9, <4>1 DEF UnionBuilt, BuildPCHFile, ExecuteAction, ClearIncludePCH
      <4>3. TypeOK'
        BY <3>a, <4>1, <4>2
      <4>4. \A q \in Proc : /\ pc'[q] \notin {"idle", "compile"} => imports'[q] # {}
                            /\ pc'[q] = "load" => include'[q] # None
        BY <3>9, <4>1, <4>2 DEF UnionBuilt
      <4>5. QED
        BY <4>3, <4>4
    <3>10. CASE IncludeInterface(p)
      <4>1. include' \in [Proc -> Interface \cup {None}]
        BY <3>10, <3>b DEF IncludeInterface, SetIncludePCH
      <4>2. pc' = [pc EXCEPT ![p] = "compile"]
        BY <3>10 DEF IncludeInterface
      <4>3. \A q \in Proc : /\ pc[q]' \notin {"idle", "compile"} => imports'[q] # {}
                            /\ pc[q]' = "load" => include'[q] # None
        BY <3>10, <4>2 DEF IncludeInterface, SetIncludePCH
      <4>4. TypeOK'
        BY <3>10, <4>1, <4>2 DEF IncludeInterface
      <4>5. QED
        BY <4>3, <4>4
    <3>11. CASE Compile(p)
      BY <3>11 DEF Compile, ExecuteAction, ClearIncludePCH, ClearOutputFiles
    <3>12. CASE Crash(p)
      BY <3>12 DEF Crash
    <3>13. QED
      BY <3>1, <3>2, <3>3, <3>4, <3>5, <3>6, <3>7, <3>8, <3>9, <3>10, <3>11, <3>12 DEF Step
  <2>4. QED
    BY <2>1, <2>2, <2>3 DEF Next
<1>3. QED
  BY <1>1, <1>2, PTL DEF Spec

\* Types are right.
THEOREM TypeCorrect == Spec => []TypeOK
<1>1. TypeInv => TypeOK
  BY DEF TypeInv
<1>2. QED
  BY <1>1, TypeInvHolds, PTL

-----------------------------------------------------------------------------

\* Once the base has been checked, and fixed if need be, its PCH exists until
\* the call ends; once the imports' interface is known, so does that one.
CallOf(p) ==
  /\ pc[p] = "fixing" => output[p] \in {None, {Base(imports[p])}}
  /\ pc[p] \in {"load", "unioning"} => output[p] \in {None, imports[p]}
  /\ pc[p] \in {"others", "union", "unionbuild", "load", "unioning"} =>
       FileExists({Base(imports[p])})
  /\ pc[p] \in {"include", "compile"} /\ imports[p] # {} =>
       FileExists({Base(imports[p])}) /\ FileExists(imports[p])

CallInv ==
  /\ \A f \in Interface : file[f].whole
  /\ \A p \in Proc : CallOf(p)

FilesKept == \A f \in Interface : FileExists(f) => FileExists(f)'

\* An only package is its own base.
LEMMA OnlyPkg ==
  ASSUME NEW p \in Proc, imports[p] \subseteq Pkg, imports[p] # {}, OtherPkgs(p) = {}
  PROVE  imports[p] = {Base(imports[p])}
<1>1. Base(imports[p]) \in imports[p]
  BY BaseIsMember, PkgAssumption
<1>2. QED
  BY <1>1 DEF OtherPkgs

\* No step of a process takes a PCH away or leaves one half written.
LEMMA StepKeepsFiles ==
  ASSUME TypeOK, NEW p \in Proc, Step(p)
  PROVE  FilesKept /\ \A f \in Interface : file[f].whole => file'[f].whole
<1> USE DEF FilesKept
<1>1. ASSUME NEW ok \in BOOLEAN, BuildPCHFile(p, ok)
      PROVE  FilesKept /\ \A f \in Interface : file[f].whole => file'[f].whole
  <2>1. \A f \in Interface : /\ FileExists(f) => FileExists(f)'
                             /\ file[f].whole => file'[f].whole
    BY <1>1, BuildAddsFile
  <2>2. QED
    BY <2>1 DEF FileExists
<1>2. CASE BaseFixed(p)
  BY <1>2, <1>1 DEF BaseFixed
<1>3. CASE UnionBuilt(p)
  BY <1>3, <1>1 DEF UnionBuilt
<1>4. CASE ~BaseFixed(p) /\ ~UnionBuilt(p)
  <2>1. file' = file
    BY <1>4 DEF Step, Call, CheckBase, FixBase, CheckOther, CheckUnion, BuildUnion, LoadPCH,
                IncludeInterface, Compile, Crash, SetOutputFile, WhileWritten, disk
  <2>2. QED
    BY <2>1 DEF FileExists
<1>5. QED
  BY <1>2, <1>3, <1>4

\* A step of a process leaves the others where they are.
LEMMA OthersStay ==
  ASSUME TypeOK, NEW p \in Proc, Step(p), NEW q \in Proc, q # p
  PROVE  /\ pc'[q] = pc[q] /\ imports'[q] = imports[q] /\ status'[q] = status[q]
         /\ include'[q] = include[q] /\ output'[q] = output[q] /\ loaded'[q] = loaded[q]
         /\ \/ file' = file /\ disturbed'[q] = disturbed[q]
            \/ pc[q] # "idle" => disturbed'[q]
<1> USE DEF TypeOK, local, disk, instance, Goes
<1>1. CASE BaseFixed(p)
  BY <1>1 DEF BaseFixed, BaseDone, BuildPCHFile, ExecuteAction, Disturbs
<1>2. CASE UnionBuilt(p)
  BY <1>2 DEF UnionBuilt, BuildPCHFile, ExecuteAction, Disturbs
<1>3. CASE FixBase(p) \/ BuildUnion(p)
  BY <1>3 DEF FixBase, BuildUnion, SetOutputFile, SetIncludePCH, WhileWritten
<1>4. CASE CheckBase(p)
  BY <1>4 DEF CheckBase, BaseDone
<1>5. CASE CheckOther(p) \/ CheckUnion(p) \/ LoadPCH(p) \/ IncludeInterface(p)
  BY <1>5 DEF CheckOther, CheckUnion, LoadPCH, IncludeInterface, SetIncludePCH
<1>6. CASE Compile(p) \/ Crash(p)
  BY <1>6 DEF Compile, ExecuteAction, Crash
<1>7. CASE \E pkgs \in SUBSET Pkg : Call(p, pkgs)
  BY <1>7 DEF Call
<1>8. QED
  BY <1>1, <1>2, <1>3, <1>4, <1>5, <1>6, <1>7 DEF Step

\* A process in a call does not notice the steps of others.
LEMMA OthersKept ==
  ASSUME TypeInv, NEW p \in Proc, Step(p), NEW q \in Proc, q # p, CallOf(q)
  PROVE  CallOf(q)'
<1>1. TypeOK
  BY DEF TypeInv
<1>2. pc'[q] = pc[q] /\ imports'[q] = imports[q] /\ output'[q] = output[q]
  BY <1>1, OthersStay
<1>3. FilesKept
  BY <1>1, StepKeepsFiles
<1>4. imports[q] # {} => {Base(imports[q])} \in Interface /\ imports[q] \in Interface
  BY <1>1, BaseInterface DEF TypeOK
<1>5. pc[q] \notin {"idle", "compile"} => imports[q] # {}
  BY DEF TypeInv
<1>6. QED
  BY <1>2, <1>3, <1>4, <1>5 DEF CallOf, FilesKept, FileExists

LEMMA CallInvHolds ==
  ASSUME Removals # "any time"
  PROVE  Spec => []CallInv
<1>1. Init => CallInv
  <2> SUFFICES ASSUME Init PROVE CallInv
    OBVIOUS
  <2>1. \A f \in Interface : file[f].whole
    BY DEF Init, NoFile
  <2>2. \A p \in Proc : CallOf(p)
    BY DEF Init, CallOf
  <2>3. QED
    BY <2>1, <2>2 DEF CallInv
<1>2. TypeInv /\ TypeInv' /\ CallInv /\ [Next]_vars => CallInv'
  <2> SUFFICES ASSUME TypeInv, TypeInv', CallInv, [Next]_vars PROVE CallInv'
    OBVIOUS
  <2>1. CASE UNCHANGED vars
    BY <2>1 DEF vars, disk, instance, local, CallInv, CallOf, FileExists
  <2>2. CASE Remove
    <3>1. \A p \in Proc : pc'[p] = "idle"
      BY <2>2, Removals # "any time" DEF Remove
    <3>2. PICK f \in Interface : file' = [file EXCEPT ![f] = NoFile]
      BY <2>2 DEF Remove
    <3>3. \A g \in Interface : file'[g].whole
      <4>1. NoFile.whole
        BY DEF NoFile
      <4>2. QED
        BY <3>2, <4>1 DEF CallInv, TypeInv, TypeOK
    <3>4. \A p \in Proc : CallOf(p)'
      BY <3>1 DEF CallOf
    <3>5. QED
      BY <3>3, <3>4 DEF CallInv
  <2>3. ASSUME NEW p \in Proc, Step(p) PROVE CallInv'
    <3> USE <2>3
    <3>a. TypeOK
      BY DEF TypeInv
    <3>b. \A f \in Interface : file'[f].whole
      BY <3>a, StepKeepsFiles DEF CallInv
    <3>c. \A q \in Proc \ {p} : CallOf(q)'
      BY OthersKept DEF CallInv
    <3>d. CallOf(p) /\ FilesKept
      BY <3>a, StepKeepsFiles DEF CallInv
    <3>e. imports[p] # {} => {Base(imports[p])} \in Interface /\ imports[p] \in Interface
      BY <3>a, BaseInterface DEF TypeOK
    <3>f. pc[p] \notin {"idle", "compile"} => imports[p] # {}
      BY DEF TypeInv
    <3>g. /\ DOMAIN pc = Proc /\ DOMAIN output = Proc /\ DOMAIN imports = Proc
          /\ DOMAIN include = Proc
      BY <3>a DEF TypeOK
    <3>h. imports[p] # {} /\ OtherPkgs(p) = {} => imports[p] = {Base(imports[p])}
      BY <3>a, OnlyPkg DEF TypeOK
    <3> SUFFICES CallOf(p)'
      BY <3>b, <3>c DEF CallInv
    <3> USE DEF CallOf, FilesKept, local, disk, instance, Goes
    <3>1. ASSUME NEW pkgs \in SUBSET Pkg, Call(p, pkgs) PROVE CallOf(p)'
      BY <3>1, <3>g DEF Call
    <3>2. CASE CheckBase(p)
      <4>1. CASE pc'[p] = "fix"
        BY <4>1
      <4>2. CASE pc'[p] # "fix"
        <5>1. FileExists({Base(imports[p])}) /\ BaseDone(p)
          BY <3>2, <4>2, <3>g DEF CheckBase, Fixes, CheckPkg
        <5>2. imports' = imports /\ FileExists({Base(imports[p])})'
          BY <3>2, <3>d, <3>e, <3>f, <5>1 DEF CheckBase
        <5>3. QED
          BY <3>2, <3>f, <3>g, <3>h, <5>1, <5>2 DEF CheckBase, BaseDone
      <4>3. QED
        BY <4>1, <4>2
    <3>3. CASE FixBase(p)
      BY <3>3, <3>g DEF FixBase, SetOutputFile
    <3>4. CASE BaseFixed(p)
      <4>1. PICK ok \in BOOLEAN :
              BuildPCHFile(p, ok) /\ IF ok THEN BaseDone(p) ELSE Goes(p, "idle") /\ UNCHANGED todo
        BY <3>4 DEF BaseFixed
      <4>2. CASE ok
        <5>1. output[p] \in Interface /\ file'[output[p]] # NoFile
          BY <3>a, <4>1, <4>2, BuildAddsFile
        <5>2. output[p] = {Base(imports[p])} /\ imports' = imports
          BY <3>4, <3>d, <5>1 DEF BaseFixed, Interface, None
        <5>3. FileExists({Base(imports[p])})'
          BY <5>1, <5>2 DEF FileExists
        <5>4. QED
          BY <3>4, <3>f, <3>g, <3>h, <4>1, <4>2, <5>2, <5>3 DEF BaseFixed, BaseDone
      <4>3. CASE ~ok
        BY <4>1, <4>3, <3>g
      <4>4. QED
        BY <4>2, <4>3
    <3>5. CASE CheckOther(p)
      BY <3>5, <3>d, <3>e, <3>f, <3>g DEF CheckOther
    <3>6. CASE CheckUnion(p)
      BY <3>6, <3>d, <3>e, <3>f, <3>g DEF CheckUnion, NeedsUnion
    <3>7. CASE BuildUnion(p)
      BY <3>7, <3>d, <3>e, <3>f, <3>g DEF BuildUnion, SetOutputFile
    <3>8. CASE LoadPCH(p)
      BY <3>8, <3>d, <3>e, <3>f, <3>g DEF LoadPCH
    <3>9. CASE UnionBuilt(p)
      <4>1. PICK ok \in BOOLEAN : BuildPCHFile(p, ok) /\ Goes(p, IF ok THEN "include" ELSE "idle")
        BY <3>9 DEF UnionBuilt
      <4>2. CASE ok
        <5>1. output[p] \in Interface /\ file'[output[p]] # NoFile
          BY <3>a, <4>1, <4>2, BuildAddsFile
        <5>2. output[p] = imports[p] /\ imports' = imports
          BY <3>9, <3>d, <5>1 DEF UnionBuilt, Interface, None
        <5>3. FileExists(imports[p])' /\ FileExists({Base(imports[p])})'
          BY <3>9, <3>d, <3>e, <3>f, <5>1, <5>2 DEF FileExists, UnionBuilt
        <5>4. QED
          BY <3>g, <4>1, <4>2, <5>2, <5>3
      <4>3. CASE ~ok
        BY <4>1, <4>3, <3>g
      <4>4. QED
        BY <4>2, <4>3
    <3>10. CASE IncludeInterface(p)
      BY <3>10, <3>d, <3>e, <3>f, <3>g DEF IncludeInterface
    <3>11. CASE Compile(p)
      BY <3>11, <3>g DEF Compile
    <3>12. CASE Crash(p)
      BY <3>12, <3>g DEF Crash
    <3>13. QED
      BY <3>1, <3>2, <3>3, <3>4, <3>5, <3>6, <3>7, <3>8, <3>9, <3>10, <3>11, <3>12 DEF Step
  <2>4. QED
    BY <2>1, <2>2, <2>3 DEF Next
<1>3. QED
  BY <1>1, <1>2, TypeInvHolds, PTL DEF Spec

\* The assertions of setIncludePCH and buildPkgUnionInterface never fail, whatever
\* other processes build and wherever they crash, provided nobody removes PCHs
\* during a call.
THEOREM AssertionsAlwaysHold ==
  ASSUME Removals # "any time"
  PROVE  Spec => []AssertionsHold
<1>1. InstanceInv /\ CallInv => AssertionsHold
  BY DEF InstanceInv, InstanceOf, CallInv, CallOf, AssertionsHold
<1>2. QED
  BY <1>1, InstanceInvHolds, CallInvHolds, PTL

\* Under the same proviso, the PCH an import returns exists and is whole, and so is
\* that of its base.
THEOREM ImportAlwaysExists ==
  ASSUME Removals # "any time"
  PROVE  Spec => []ImportExists
<1>1. TypeInv /\ CallInv => ImportExists
  <2> SUFFICES ASSUME TypeInv, CallInv, NEW p \in Proc, pc[p] = "compile", imports[p] # {},
                      NEW f \in {imports[p], {Base(imports[p])}}
               PROVE  FileExists(f) /\ file[f].whole
    BY DEF ImportExists
  <2>1. f \in Interface
    BY BaseInterface DEF TypeInv, TypeOK
  <2>2. QED
    BY <2>1 DEF CallInv, CallOf
<1>2. QED
  BY <1>1, TypeInvHolds, CallInvHolds, PTL

-----------------------------------------------------------------------------

\* Undisturbed, a call that has built the base loads that build of it, and the
\* union it then builds refers to it.
FollowOf(p) ==
  /\ pc[p] \in {"others", "union", "unionbuild", "load", "unioning"} =>
       imports[p] # {Base(imports[p])}
  /\ pc[p] \in {"load", "unioning"} => include[p] \in {None, {Base(imports[p])}}
  /\ pc[p] = "compile" /\ imports[p] # {} => include[p] = imports[p]
  /\ ~disturbed[p] /\ status[p] # "UpToDate" =>
       /\ pc[p] = "unioning" => loaded[p] = file[{Base(imports[p])}].stamp
       /\ pc[p] \in {"include", "compile"} /\ imports[p] # {} => Usable(imports[p])

FollowInv == \A p \in Proc : FollowOf(p)

\* The PCH of one package depends on no other.
LEMMA UsableIfExists ==
  ASSUME NEW x, FileExists({x})
  PROVE  Usable({x})
<1>1. Cardinality({x}) = 1
  BY FS_Singleton
<1>2. ~(Cardinality({x}) > 1)
  BY <1>1
<1>3. QED
  BY <1>2 DEF Usable

LEMMA UsableIfExistsNext ==
  ASSUME NEW x, FileExists({x})'
  PROVE  Usable({x})'
<1>1. Cardinality({x}) = 1
  BY FS_Singleton
<1>2. ~(Cardinality({x}) > 1)
  BY <1>1
<1>3. QED
  BY <1>2 DEF Usable

LEMMA FollowInvHolds ==
  ASSUME Removals # "any time"
  PROVE  Spec => []FollowInv
<1>1. Init => FollowInv
  BY DEF Init, FollowInv, FollowOf
<1>2. TypeInv /\ CallInv /\ CallInv' /\ FollowInv /\ [Next]_vars => FollowInv'
  <2> SUFFICES ASSUME TypeInv, CallInv, CallInv', FollowInv, [Next]_vars PROVE FollowInv'
    OBVIOUS
  <2>1. CASE UNCHANGED vars
    BY <2>1 DEF vars, disk, instance, local, FollowInv, FollowOf, Usable, FileExists
  <2>2. CASE Remove
    <3>1. \A p \in Proc : pc'[p] = "idle"
      BY <2>2, Removals # "any time" DEF Remove
    <3>2. QED
      BY <3>1 DEF FollowInv, FollowOf
  <2>3. ASSUME NEW p \in Proc, Step(p) PROVE FollowInv'
    <3> USE <2>3
    <3>a. TypeOK
      BY DEF TypeInv
    <3>b. ASSUME NEW q \in Proc, q # p PROVE FollowOf(q)'
      <4>1. /\ pc'[q] = pc[q] /\ imports'[q] = imports[q] /\ status'[q] = status[q]
            /\ include'[q] = include[q] /\ loaded'[q] = loaded[q]
            /\ \/ file' = file /\ disturbed'[q] = disturbed[q]
               \/ pc[q] # "idle" => disturbed'[q]
        BY <3>a, <3>b, OthersStay
      <4>2. FollowOf(q)
        BY DEF FollowInv
      <4>3. QED
        BY <4>1, <4>2 DEF FollowOf, Usable, FileExists
    <3>c. FollowOf(p) /\ CallOf(p) /\ CallOf(p)'
      BY DEF FollowInv, CallInv
    <3>d. imports[p] # {} => {Base(imports[p])} \in Interface /\ imports[p] \in Interface
      BY <3>a, BaseInterface DEF TypeOK
    <3>e. pc[p] \notin {"idle", "compile"} => imports[p] # {}
      BY DEF TypeInv
    <3>f. /\ DOMAIN pc = Proc /\ DOMAIN output = Proc /\ DOMAIN imports = Proc
          /\ DOMAIN include = Proc /\ DOMAIN loaded = Proc /\ DOMAIN status = Proc
          /\ DOMAIN file = Interface /\ DOMAIN disturbed = Proc
      BY <3>a DEF TypeOK
    <3>g. OtherPkgs(p) # {} => imports[p] # {Base(imports[p])}
      BY DEF OtherPkgs
    <3>i. imports[p] # {} /\ OtherPkgs(p) = {} => imports[p] = {Base(imports[p])}
      BY <3>a, OnlyPkg DEF TypeOK
    <3> SUFFICES FollowOf(p)'
      BY <3>b DEF FollowInv
    <3> USE DEF FollowOf, local, disk, instance, Goes
    <3>1. ASSUME NEW pkgs \in SUBSET Pkg, Call(p, pkgs) PROVE FollowOf(p)'
      BY <3>1, <3>f DEF Call
    <3>2. CASE CheckBase(p)
      <4>1. CASE Fixes(CheckPkg(Base(imports[p])))
        BY <3>2, <3>f, <4>1 DEF CheckBase
      <4>2. CASE ~Fixes(CheckPkg(Base(imports[p])))
        <5>1. status'[p] = "UpToDate" /\ imports' = imports /\ BaseDone(p)
          BY <3>2, <3>f, <4>2 DEF CheckBase, Fixes
        <5>2. QED
          BY <3>f, <3>g, <5>1 DEF BaseDone
      <4>3. QED
        BY <4>1, <4>2
    <3>3. CASE FixBase(p)
      BY <3>3, <3>f DEF FixBase
    <3>4. CASE BaseFixed(p)
      <4>1. PICK ok \in BOOLEAN :
              BuildPCHFile(p, ok) /\ IF ok THEN BaseDone(p) ELSE Goes(p, "idle") /\ UNCHANGED todo
        BY <3>4 DEF BaseFixed
      <4>2. CASE ok
        <5>1. imports' = imports /\ BaseDone(p)
          BY <3>4, <4>1, <4>2 DEF BaseFixed
        <5>2. CASE OtherPkgs(p) = {}
          <6>1. pc'[p] = "include" /\ imports[p] = {Base(imports[p])}
            BY <3>4, <3>e, <3>f, <3>i, <5>1, <5>2 DEF BaseFixed, BaseDone
          <6>2. Usable(imports[p])'
            <7>0. PICK b : b = Base(imports[p])
              OBVIOUS
            <7>1. imports[p] = {b} /\ imports'[p] = {b}
              BY <5>1, <6>1, <7>0
            <7>2. FileExists(imports[p])'
              BY <3>c, <3>e, <3>4, <5>1, <6>1 DEF CallOf, BaseFixed
            <7>3. FileExists({b})'
              BY <7>1, <7>2 DEF FileExists
            <7>4. Usable({b})'
              BY <7>3, UsableIfExistsNext
            <7>5. QED
              BY <7>1, <7>4 DEF Usable, FileExists
          <6>3. QED
            BY <5>1, <6>1, <6>2
        <5>3. CASE OtherPkgs(p) # {}
          BY <3>f, <3>g, <5>1, <5>3 DEF BaseDone
        <5>4. QED
          BY <5>2, <5>3
      <4>3. CASE ~ok
        BY <4>1, <4>3, <3>f
      <4>4. QED
        BY <4>2, <4>3
    <3>5. CASE CheckOther(p)
      BY <3>5, <3>c, <3>f DEF CheckOther
    <3>6. CASE CheckUnion(p)
      BY <3>6, <3>c, <3>f DEF CheckUnion, NeedsUnion
    <3>7. CASE BuildUnion(p)
      BY <3>7, <3>c, <3>f DEF BuildUnion, SetIncludePCH, SetOutputFile
    <3>8. CASE LoadPCH(p)
      <4>1. include[p] = {Base(imports[p])} /\ FileExists({Base(imports[p])})
        BY <3>8, <3>c DEF LoadPCH, CallOf, TypeInv
      <4>2. Usable(include[p])
        BY <4>1, UsableIfExists
      <4>3. QED
        <5>1. loaded'[p] = file[{Base(imports[p])}].stamp
          BY <3>8, <3>f, <4>1, <4>2 DEF LoadPCH
        <5>2. pc'[p] = "unioning" /\ UNCHANGED <<file, disturbed, include, imports, status>>
          BY <3>8, <3>f DEF LoadPCH
        <5>3. QED
          BY <3>8, <3>c, <5>1, <5>2 DEF LoadPCH
    <3>9. CASE UnionBuilt(p)
      <4>1. PICK ok \in BOOLEAN : BuildPCHFile(p, ok) /\ Goes(p, IF ok THEN "include" ELSE "idle")
        BY <3>9 DEF UnionBuilt
      <4>2. CASE ok
        <5>1. output[p] = imports[p]
          BY <3>9, <3>c, <3>a, <4>1, <4>2 DEF UnionBuilt, CallOf, BuildPCHFile
        <5>2. /\ imports' = imports /\ status' = status /\ (disturbed'[p] <=> disturbed[p])
              /\ pc'[p] = "include"
              /\ file' = [file EXCEPT ![imports[p]] = Built(stamp + 1, loaded[p])]
          <6>1. imports' = imports /\ status' = status
            BY <3>9 DEF UnionBuilt
          <6>2. pc'[p] = "include"
            BY <3>f, <4>1, <4>2
          <6>3. file' = [file EXCEPT ![imports[p]] = Built(stamp + 1, loaded[p])]
            BY <4>1, <4>2, <5>1 DEF BuildPCHFile
          <6>4. disturbed'[p] <=> disturbed[p]
            BY <4>1, <4>2 DEF BuildPCHFile, Disturbs
          <6>5. QED
            BY <6>1, <6>2, <6>3, <6>4
        <5>3. FileExists(imports[p])' /\ FileExists({Base(imports[p])})'
          BY <3>9, <3>c, <3>e, <5>2 DEF CallOf, UnionBuilt
        <5>4. /\ file'[imports[p]].base = loaded[p]
              /\ file'[{Base(imports[p])}] = file[{Base(imports[p])}]
          BY <3>9, <3>c, <3>d, <3>e, <3>f, <5>2 DEF Built, UnionBuilt
        <5>5. ~disturbed[p] /\ status[p] # "UpToDate" => Usable(imports[p])'
          BY <3>9, <3>c, <5>2, <5>3, <5>4 DEF Usable, UnionBuilt
        <5>6. QED
          BY <5>2, <5>5
      <4>3. CASE ~ok
        BY <4>1, <4>3, <3>f
      <4>4. QED
        BY <4>2, <4>3
    <3>10. CASE IncludeInterface(p)
      BY <3>10, <3>c, <3>f DEF IncludeInterface, SetIncludePCH, Usable, FileExists
    <3>11. CASE Compile(p)
      BY <3>11, <3>f DEF Compile
    <3>12. CASE Crash(p)
      BY <3>12, <3>f DEF Crash
    <3>13. QED
      BY <3>1, <3>2, <3>3, <3>4, <3>5, <3>6, <3>7, <3>8, <3>9, <3>10, <3>11, <3>12 DEF Step
  <2>4. QED
    BY <2>1, <2>2, <2>3 DEF Next
<1>3. QED
  BY <1>1, <1>2, TypeInvHolds, CallInvHolds, PTL DEF Spec

\* A call that has built the base goes on with a union built on that base, unless
\* another process has replaced a PCH meanwhile.
THEOREM UnionAlwaysFollows ==
  ASSUME Removals # "any time"
  PROVE  Spec => []UnionFollowsBase
<1>1. FollowInv => UnionFollowsBase
  BY DEF FollowInv, FollowOf, UnionFollowsBase
<1>2. QED
  BY <1>1, FollowInvHolds, PTL

=============================================================================
