---------------------------- MODULE PkgCompiler ----------------------------
(***************************************************************************)
(* The package interfaces of Compiler (compiler.cc): how a module's        *)
(* imports are turned into a precompiled header (PCH), which ones are      *)
(* built, and the state of a compiler instance between and within calls.   *)
(* Several processes, each with an instance, share a package directory,    *)
(* and any may crash.                                                      *)
(*                                                                         *)
(* A PCH is named by the set of packages it is the interface of: {p} is    *)
(* the PCH of package p, a larger set that of a union.  A union is built   *)
(* on the PCH of its first package, its base, and refers to it: each build *)
(* of a file has a stamp, and a union keeps the stamp of its base.         *)
(*                                                                         *)
(* Clang is external: an action fails if an error was reported to the      *)
(* diagnostics, which a failed setOutputFile does, if its PCH is missing   *)
(* or refers to another build of its base, or for reasons of its own.      *)
(*                                                                         *)
(* The sources of packages are left out: checkPkg looks at nothing but the *)
(* PCH, and DisablePCHValidation keeps clang from looking at them.         *)
(***************************************************************************)
EXTENDS Integers, FiniteSets, FiniteSetsExt

CONSTANTS
  Pkg,      \* packages, numbered in the order of their names
  StdPkg,   \* those of kStdPkgMap
  Proc,     \* processes
  MaxBuild, \* bound: no call begins when as many PCHs have been built
  Removals  \* when the user removes PCHs: "never", "between calls", "any time"

ASSUME PkgAssumption ==
  /\ Pkg \subseteq Nat /\ IsFiniteSet(Pkg) /\ StdPkg \subseteq Pkg
  /\ MaxBuild \in Nat
  /\ Removals \in {"never", "between calls", "any time"}

Interface == (SUBSET Pkg) \ {{}}
None == {}

\* std::set<Pkg> iterates in the order of names.
Base(pkgs) == Min(pkgs)

Status == {"UpToDate", "Outdated", "InterfaceOutdated"}

VARIABLES
  file,      \* the PCHs on disk
  stamp,     \* how many have been built
  include,   \* ImplicitPCHInclude, of every process
  output,    \* FrontendOptions::OutputFile
  loaded,    \* the build of the PCH that the action under way has loaded
  pc,        \* where the call of buildLLVMModuleFromSource is
  imports,   \* its PkgImports
  status,    \* basePkgStatus
  todo,      \* the packages importPkgs has still to check
  outdated,  \* whether outdatedPkgInterfaces has an element
  disturbed  \* whether PCHs have been replaced or removed by others during the call

disk     == <<file, stamp, disturbed>>
instance == <<include, output, loaded>>
local    == <<imports, status, todo, outdated>>

vars == <<disk, instance, pc, local>>

NoFile == [stamp |-> 0, base |-> 0, whole |-> TRUE]

\* A PCH, with its build and that of its base.
Built(n, base) == [stamp |-> n, base |-> base, whole |-> TRUE]

TypeOK ==
  /\ stamp \in Nat
  /\ file \in [Interface -> [stamp : 0 .. stamp, base : 0 .. stamp, whole : BOOLEAN]]
  /\ include \in [Proc -> Interface \cup {None}]
  /\ output \in [Proc -> Interface \cup {None}]
  /\ loaded \in [Proc -> 0 .. stamp]
  /\ pc \in [Proc -> {"idle", "base", "fix", "fixing", "others", "union", "unionbuild",
                      "load", "unioning", "include", "compile"}]
  /\ imports \in [Proc -> SUBSET Pkg]
  /\ status \in [Proc -> Status]
  /\ todo \in [Proc -> SUBSET Pkg]
  /\ outdated \in [Proc -> BOOLEAN]
  /\ disturbed \in [Proc -> BOOLEAN]

Init ==
  /\ file = [f \in Interface |-> NoFile]
  /\ stamp = 0
  /\ include = [p \in Proc |-> None]
  /\ output = [p \in Proc |-> None]
  /\ loaded = [p \in Proc |-> 0]
  /\ pc = [p \in Proc |-> "idle"]
  /\ imports = [p \in Proc |-> {}]
  /\ status = [p \in Proc |-> "UpToDate"]
  /\ todo = [p \in Proc |-> {}]
  /\ outdated = [p \in Proc |-> FALSE]
  /\ disturbed = [p \in Proc |-> FALSE]

Goes(p, where) == pc' = [pc EXCEPT ![p] = where]

-----------------------------------------------------------------------------
(* The compiler instance of a process *)

FileExists(f) == file[f] # NoFile

\* Bug: only a successful action clears the PCH to include.
ClearIncludePCH_OnSuccess(p, ok) == IF ok THEN None ELSE include[p]

ClearIncludePCH(p, ok) == None

\* Bug: the output file stays set after an error.
ClearOutputFiles_OnSuccess(p, ok) == IF ok THEN None ELSE output[p]

ClearOutputFiles(p, ok) == None

\* Bug: the file is written in place.
WhileWritten_InPlace(f) == [file EXCEPT ![f] = [NoFile EXCEPT !.whole = FALSE]]

\* An action writes to a temporary file.
WhileWritten(f) == file

\* createOutputFile may fail; its caller goes on all the same.
SetOutputFile(p, f) ==
  /\ \E out \in {f, None} : output' = [output EXCEPT ![p] = out]
  /\ file' = WhileWritten(f)
  /\ UNCHANGED <<stamp, disturbed>>

SetIncludePCH(p, f) == include' = [include EXCEPT ![p] = f]

\* Clang accepts a PCH that exists and whose base is the one it was built on.
Usable(f) ==
  /\ f # None => FileExists(f)
  /\ f # None /\ Cardinality(f) > 1 =>
       FileExists({Base(f)}) /\ file[{Base(f)}].stamp = file[f].base

\* The end of executeAction.
ExecuteAction(p, ok) ==
  /\ include' = [include EXCEPT ![p] = ClearIncludePCH(p, ok)]
  /\ output' = [output EXCEPT ![p] = ClearOutputFiles(p, ok)]
  /\ loaded' = [loaded EXCEPT ![p] = 0]

\* The calls of other processes that are under way.
Disturbs(p) == [q \in Proc |-> disturbed[q] \/ (q # p /\ pc[q] # "idle")]

\* The temporary file is moved into place if there was no error.
BuildPCHFile(p, ok) ==
  /\ ok => output[p] # None /\ (include[p] # None => loaded[p] # 0)
  /\ ExecuteAction(p, ok)
  /\ IF ok
       THEN /\ stamp' = stamp + 1
            /\ file' = [file EXCEPT ![output[p]] = Built(stamp + 1, loaded[p])]
            /\ disturbed' = Disturbs(p)
       ELSE UNCHANGED disk

-----------------------------------------------------------------------------
(* A call of buildLLVMModuleFromSource *)

Call(p, pkgs) ==
  /\ pc[p] = "idle" /\ stamp < MaxBuild
  /\ imports' = [imports EXCEPT ![p] = pkgs]
  /\ todo' = [todo EXCEPT ![p] = {}]
  /\ outdated' = [outdated EXCEPT ![p] = FALSE]
  /\ disturbed' = [disturbed EXCEPT ![p] = FALSE]
  /\ Goes(p, IF pkgs = {} THEN "compile" ELSE "base")
  /\ UNCHANGED <<file, stamp, instance, status>>

CheckPkg(pkg) ==
  IF FileExists({pkg}) THEN "UpToDate"
  ELSE IF pkg \in StdPkg THEN "Outdated" ELSE "InterfaceOutdated"

\* The imports but the base, which importPkgs checks if there are any.
OtherPkgs(p) == imports[p] \ {Base(imports[p])}

BaseDone(p) ==
  /\ todo' = [todo EXCEPT ![p] = OtherPkgs(p)]
  /\ Goes(p, IF OtherPkgs(p) = {} THEN "include" ELSE "others")

\* checkAndFixPkg with PkgFixes::All.
Fixes(s) == s # "UpToDate"

CheckBase(p) ==
  /\ pc[p] = "base"
  /\ LET s == CheckPkg(Base(imports[p]))
     IN /\ status' = [status EXCEPT ![p] = s]
        /\ IF Fixes(s) THEN Goes(p, "fix") /\ UNCHANGED todo ELSE BaseDone(p)
  /\ UNCHANGED <<disk, instance, imports, outdated>>

\* buildPkgInterface, up to the start of the action.
FixBase(p) ==
  /\ pc[p] = "fix"
  /\ SetOutputFile(p, {Base(imports[p])})
  /\ Goes(p, "fixing")
  /\ UNCHANGED <<include, loaded, local>>

\* Its status stays what it was before the fix.
BaseFixed(p) ==
  /\ pc[p] = "fixing"
  /\ \E ok \in BOOLEAN :
       /\ BuildPCHFile(p, ok)
       /\ IF ok THEN BaseDone(p) ELSE Goes(p, "idle") /\ UNCHANGED todo
  /\ UNCHANGED <<imports, status, outdated>>

\* checkAndFixPkg with PkgFixes::BuildImpl, which builds nothing.
CheckOther(p) ==
  /\ pc[p] = "others"
  /\ LET pkg == Min(todo[p])
     IN  /\ outdated' = [outdated EXCEPT ![p] = @ \/ CheckPkg(pkg) # "UpToDate"]
         /\ todo' = [todo EXCEPT ![p] = @ \ {pkg}]
         /\ Goes(p, IF todo[p] = {pkg} THEN "union" ELSE "others")
  /\ UNCHANGED <<disk, instance, imports, status>>

\* Bug: a base built by this call does not count.
NeedsUnion_IgnoresBase(p) == outdated[p] \/ ~FileExists(imports[p])

\* Bug: whether there is a union at all is not looked at.
NeedsUnion_IgnoresMissing(p) == status[p] # "UpToDate" \/ outdated[p]

NeedsUnion(p) == status[p] # "UpToDate" \/ outdated[p] \/ ~FileExists(imports[p])

CheckUnion(p) ==
  /\ pc[p] = "union"
  /\ Goes(p, IF NeedsUnion(p) THEN "unionbuild" ELSE "include")
  /\ UNCHANGED <<disk, instance, local>>

\* buildPkgUnionInterface, up to the start of the action.
BuildUnion(p) ==
  /\ pc[p] = "unionbuild"
  /\ SetIncludePCH(p, {Base(imports[p])})
  /\ SetOutputFile(p, imports[p])
  /\ Goes(p, "load")
  /\ UNCHANGED <<loaded, local>>

\* The action begins with reading the PCH it is to build on.
LoadPCH(p) ==
  /\ pc[p] = "load"
  /\ loaded' = [loaded EXCEPT ![p] = IF Usable(include[p]) THEN file[include[p]].stamp ELSE 0]
  /\ Goes(p, "unioning")
  /\ UNCHANGED <<disk, include, output, local>>

UnionBuilt(p) ==
  /\ pc[p] = "unioning"
  /\ \E ok \in BOOLEAN :
       /\ BuildPCHFile(p, ok)
       /\ Goes(p, IF ok THEN "include" ELSE "idle")
  /\ UNCHANGED local

\* The end of processPkgImports.
IncludeInterface(p) ==
  /\ pc[p] = "include"
  /\ SetIncludePCH(p, imports[p])
  /\ Goes(p, "compile")
  /\ UNCHANGED <<disk, output, loaded, local>>

\* The module itself is compiled, with or without success.
Compile(p) ==
  /\ pc[p] = "compile"
  /\ \E ok \in BOOLEAN :
       /\ ok => Usable(include[p])
       /\ ExecuteAction(p, ok)
  /\ Goes(p, "idle")
  /\ UNCHANGED <<disk, local>>

-----------------------------------------------------------------------------
(* The user *)

Remove ==
  /\ \/ Removals = "any time"
     \/ Removals = "between calls" /\ \A p \in Proc : pc[p] = "idle"
  /\ \E f \in Interface : FileExists(f) /\ file' = [file EXCEPT ![f] = NoFile]
  /\ disturbed' = [p \in Proc |-> disturbed[p] \/ pc[p] # "idle"]
  /\ UNCHANGED <<stamp, instance, pc, local>>

\* A process dies in a call.  Another is started in its place.
Crash(p) ==
  /\ pc[p] # "idle"
  /\ include' = [include EXCEPT ![p] = None]
  /\ output' = [output EXCEPT ![p] = None]
  /\ loaded' = [loaded EXCEPT ![p] = 0]
  /\ Goes(p, "idle")
  /\ UNCHANGED <<disk, local>>

Step(p) ==
  \/ \E pkgs \in SUBSET Pkg : Call(p, pkgs)
  \/ CheckBase(p) \/ FixBase(p) \/ BaseFixed(p) \/ CheckOther(p) \/ CheckUnion(p)
  \/ BuildUnion(p) \/ LoadPCH(p) \/ UnionBuilt(p) \/ IncludeInterface(p) \/ Compile(p)
  \/ Crash(p)

Next == Remove \/ \E p \in Proc : Step(p)

Spec == Init /\ [][Next]_vars

-----------------------------------------------------------------------------
(* Properties *)

\* The assertions of setIncludePCH and of buildPkgUnionInterface: whatever failed
\* before, in this call or an earlier one, no PCH is left to be included, and the
\* base of a union that is to be built exists.
AssertionsHold ==
  \A p \in Proc :
    /\ pc[p] \in {"unionbuild", "include"} => include[p] = None
    /\ pc[p] = "unionbuild" => FileExists({Base(imports[p])})

\* However a call ended, the instance is left as it was found: a later call
\* reads no PCH and writes no file of an earlier one.
NothingLeft == \A p \in Proc : pc[p] = "idle" => include[p] = None /\ output[p] = None

\* A call that has built the base goes on with a union built on that base, unless
\* another process or the user has replaced or removed a PCH meanwhile.
UnionFollowsBase ==
  \A p \in Proc :
    pc[p] = "compile" /\ imports[p] # {} /\ status[p] # "UpToDate" /\ ~disturbed[p] =>
      Usable(include[p])

\* The PCH an import returns exists and is whole, and so is the PCH of its base:
\* nothing is returned that was only expected on disk, or that a process left
\* behind half written when it crashed.
ImportExists ==
  \A p \in Proc :
    pc[p] = "compile" /\ imports[p] # {} =>
      \A f \in {imports[p], {Base(imports[p])}} : FileExists(f) /\ file[f].whole

=============================================================================
