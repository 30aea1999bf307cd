----------------------------- MODULE AsyncGroup -----------------------------
(***************************************************************************)
(* A group of asynchronous jobs (asyncgroup.hh, asyncgroup.cc) with its    *)
(* client: a driver on the loop's thread that begins jobs and returns the  *)
(* group's canceler, the operations those jobs stand for, and the threads  *)
(* that hold a copy of the canceler.                                       *)
(*                                                                         *)
(* A job's operation is a request as in AsyncReq, reduced to what a group  *)
(* can see of it: in flight, taken up by the finalizer (which has then     *)
(* looked at the canceled flag), running its callback, done.  The client   *)
(* follows the pattern of the example in asyncgroup.hh: the callback of a  *)
(* job captures the group and ends its own job; like scandir's, it may     *)
(* first begin more jobs or cancel the group.                              *)
(***************************************************************************)
EXTENDS Integers, FiniteSets

CONSTANTS
  Loop,       \* the thread of the event loop, which runs the client
  Others,     \* other threads holding a copy of the group's canceler
  MaxJobs,    \* bound on the number of jobs the client begins
  MayBeEmpty, \* the driver may return without having begun a job
  MayBePlain, \* an operation may come without a canceler to assign to its job
  MayForget,  \* a callback may return without ending its job
  MayFail     \* an operation may call back before its function returns

ASSUME ThreadAssumption == Loop \notin Others
ASSUME MaxJobsAssumption == MaxJobs \in Nat \ {0}
ASSUME ClientAssumption ==
  {MayBeEmpty, MayBePlain, MayForget, MayFail} \subseteq BOOLEAN

Thread == Others \cup {Loop}

JobID == 0 .. MaxJobs - 1

VARIABLES
  nextJobID,  \* _nextJobID
  jobs,       \* _jobs, by job ID
  canceler,   \* per job: its _canceler
  endFlag,    \* _endFlag
  destroyed,  \* the last reference to the group is gone
  result,     \* what _cb was called with
  cbs,        \* how many times _cb was called
  op,         \* per job: how far its operation is
  opCanceled, \* per job: its request's canceled flag
  ended,      \* the jobs for which end() was called
  driver,     \* the driver function
  handle,     \* per thread: its copy of the canceler
  cpc,        \* per thread other than the loop's: its progress in cancel()
  unvisited,  \* per such thread: the jobs its iteration of _jobs has to visit
  didCancel,  \* a call of cancel() returned true
  gaveUp,     \* code on the loop's thread has canceled or failed the group
  fault       \* undefined behaviour that has happened

vars == <<nextJobID, jobs, canceler, endFlag, destroyed, result, cbs, op,
          opCanceled, ended, driver, handle, cpc, unvisited, didCancel, gaveUp,
          fault>>

setVars    == <<nextJobID, jobs, ended, driver>>
cancelVars == <<canceler, opCanceled>>
flagVars   == <<endFlag, didCancel, gaveUp>>
cbVars     == <<result, cbs>>
threadVars == <<handle, cpc, unvisited>>
lifeVars   == <<destroyed, fault>>

TypeOK ==
  /\ nextJobID \in 0 .. MaxJobs
  /\ jobs \subseteq JobID
  /\ canceler \in [JobID -> {"none", "live", "spent"}]
  /\ endFlag \in BOOLEAN
  /\ destroyed \in BOOLEAN
  /\ result \in {"none", "ok", "error"}
  /\ cbs \in Nat
  /\ op \in [JobID -> {"none", "begun", "inflight", "checked", "running",
                       "endok", "enderr", "done"}]
  /\ opCanceled \in [JobID -> BOOLEAN]
  /\ ended \subseteq JobID
  /\ driver \in {"running", "returned"}
  /\ handle \in [Thread -> {"none", "held", "gone"}]
  /\ cpc \in [Thread -> {"idle", "iterating", "returning"}]
  /\ unvisited \in [Thread -> SUBSET JobID]
  /\ didCancel \in BOOLEAN
  /\ gaveUp \in BOOLEAN
  /\ fault \in {"none", "race", "freed"}

Init ==
  /\ nextJobID = 0
  /\ jobs = {}
  /\ canceler = [j \in JobID |-> "none"]
  /\ endFlag = FALSE
  /\ destroyed = FALSE
  /\ result = "none"
  /\ cbs = 0
  /\ op = [j \in JobID |-> "none"]
  /\ opCanceled = [j \in JobID |-> FALSE]
  /\ ended = {}
  /\ driver = "running"
  /\ handle = [t \in Thread |-> "none"]
  /\ cpc = [t \in Thread |-> "idle"]
  /\ unvisited = [t \in Thread |-> {}]
  /\ didCancel = FALSE
  /\ gaveUp = FALSE
  /\ fault = "none"

-----------------------------------------------------------------------------
(* Who refers to the group *)

\* The closure of job j's callback, which captures the group, lives as long as
\* its request: until the finalizer ran, and as long as a canceler that was
\* neither called nor destroyed holds the request.
ClosureAlive(j) ==
  \/ op[j] \in {"inflight", "checked", "running", "endok", "enderr"}
  \/ op[j] = "done" /\ canceler[j] = "live"

Referenced ==
  \/ driver = "running"
  \/ \E t \in Thread : handle[t] = "held"
  \/ \E j \in JobID : ClosureAlive(j)

\* No job is waiting for its operation to be started.
NoneBegun == \A j \in JobID : op[j] # "begun"

\* The loop's thread is between two callbacks.
LoopIdle ==
  /\ driver = "returned"
  /\ NoneBegun
  /\ \A j \in JobID : op[j] \notin {"checked", "running", "endok", "enderr"}

\* A change of _jobs, or of a job, while another thread iterates over them.
MutateJobs ==
  fault' = IF \E t \in Others : cpc[t] = "iterating" THEN "race" ELSE fault

-----------------------------------------------------------------------------
(* cancelAllJobs, on the loop's thread: every canceler assigned is called *)

\* Bug: only the first job is canceled.
Cancels_FirstOnly(j) ==
  j \in jobs /\ canceler[j] = "live" /\ \A k \in jobs : j <= k

Cancels(j) == j \in jobs /\ canceler[j] = "live"

\* Bug: calling a canceler does not make it drop its request.
CalledCanceler_KeepsRequest == "live"

CalledCanceler == "spent"

CancelAllJobs ==
  /\ canceler' = [j \in JobID |-> IF Cancels(j) THEN CalledCanceler ELSE canceler[j]]
  /\ opCanceled' = [j \in JobID |-> Cancels(j) \/ opCanceled[j]]

CallCb(r) == result' = r /\ cbs' = cbs + 1

-----------------------------------------------------------------------------
(* The client, on the loop's thread *)

NewJobID == nextJobID

\* begin(): by the driver or by the callback of another job, unless that code
\* has itself canceled or failed the group.
Begin ==
  /\ nextJobID < MaxJobs
  /\ driver = "running" \/ \E j \in JobID : op[j] = "running"
  /\ NoneBegun
  /\ ~gaveUp
  /\ nextJobID' = nextJobID + 1
  /\ jobs' = jobs \cup {NewJobID}
  /\ op' = [op EXCEPT ![NewJobID] = "begun"]
  /\ MutateJobs
  /\ UNCHANGED <<ended, driver, cancelVars, flagVars, cbVars, threadVars,
                 destroyed>>

\* The operation is started and its canceler assigned to the job.
StartOp(j) ==
  /\ op[j] = "begun"
  /\ op' = [op EXCEPT ![j] = "inflight"]
  /\ \/ canceler' = [canceler EXCEPT ![j] = "live"]
     \/ MayBePlain /\ UNCHANGED canceler
  /\ MutateJobs
  /\ UNCHANGED <<setVars, opCanceled, flagVars, cbVars, threadVars, destroyed>>

\* The operation fails at once.  Its callback ends the job, which erases it
\* from _jobs, and the assignment of the canceler then writes to freed memory.
StartOpFails(j) ==
  /\ MayFail
  /\ op[j] = "begun"
  /\ op' = [op EXCEPT ![j] = "done"]
  /\ jobs' = jobs \ {j}
  /\ ended' = ended \cup {j}
  /\ fault' = "freed"
  /\ UNCHANGED <<nextJobID, driver, cancelVars, flagVars, cbVars, threadVars,
                 destroyed>>

\* The driver returns the group's canceler, of which every thread has a copy.
DriverReturns ==
  /\ driver = "running"
  /\ NoneBegun
  /\ nextJobID > 0 \/ MayBeEmpty
  /\ driver' = "returned"
  /\ handle' = [t \in Thread |-> "held"]
  /\ UNCHANGED <<nextJobID, jobs, ended, op, cancelVars, flagVars, cbVars, cpc,
                 unvisited, lifeVars>>

\* Bug: the finalizer ignores the canceled flag.
FinalizedAs_IgnoresFlag(j) == "checked"

FinalizedAs(j) == IF opCanceled[j] THEN "done" ELSE "checked"

\* The finalizer of job j's request looks at the canceled flag ...
Finalize(j) ==
  /\ LoopIdle
  /\ op[j] = "inflight"
  /\ op' = [op EXCEPT ![j] = FinalizedAs(j)]
  /\ UNCHANGED <<setVars, cancelVars, flagVars, cbVars, threadVars, lifeVars>>

\* ... and calls the job's callback.
RunCallback(j) ==
  /\ op[j] = "checked"
  /\ op' = [op EXCEPT ![j] = "running"]
  /\ UNCHANGED <<setVars, cancelVars, flagVars, cbVars, threadVars, lifeVars>>

\* end(job, err), up to the erasure of the job and of its canceler ...
EndErase(j) ==
  /\ op[j] = "running"
  /\ NoneBegun
  /\ \E e \in {"endok", "enderr"} :
       op' = [op EXCEPT ![j] = IF j \in jobs THEN e ELSE "enderr"]
  /\ jobs' = jobs \ {j}
  /\ canceler' = [canceler EXCEPT ![j] = "none"]
  /\ ended' = ended \cup {j}
  /\ MutateJobs
  /\ UNCHANGED <<nextJobID, driver, opCanceled, flagVars, cbVars, threadVars,
                 destroyed>>

\* Bug: the group counts as empty while one job is left.
EndsGroup_OneLeft(j) == op[j] = "enderr" \/ Cardinality(jobs) <= 1

\* Bug: only an error ends the group.
EndsGroup_ErrorsOnly(j) == op[j] = "enderr"

EndsGroup(j) == op[j] = "enderr" \/ jobs = {}

\* ... and the rest of it, with which the job's callback returns.
EndSettle(j) ==
  /\ op[j] \in {"endok", "enderr"}
  /\ op' = [op EXCEPT ![j] = "done"]
  /\ IF EndsGroup(j) /\ ~endFlag
       THEN /\ endFlag' = TRUE
            /\ gaveUp' = TRUE
            /\ IF op[j] = "enderr"
                 THEN CancelAllJobs /\ CallCb("error")
                 ELSE UNCHANGED cancelVars /\ CallCb("ok")
       ELSE UNCHANGED <<endFlag, gaveUp, cancelVars, cbVars>>
  /\ UNCHANGED <<setVars, didCancel, threadVars, lifeVars>>

\* The callback returns without end(): because it has canceled the group, or
\* because it forgets to.
ReturnUnended(j) ==
  /\ op[j] = "running"
  /\ NoneBegun
  /\ gaveUp \/ MayForget
  /\ op' = [op EXCEPT ![j] = "done"]
  /\ UNCHANGED <<setVars, cancelVars, flagVars, cbVars, threadVars, lifeVars>>

-----------------------------------------------------------------------------
(* cancel() *)

\* On the loop's thread, between callbacks or inside one.
LoopCancel ==
  IF endFlag
    THEN UNCHANGED <<endFlag, cancelVars, didCancel>>
    ELSE endFlag' = TRUE /\ CancelAllJobs /\ didCancel' = TRUE

CallCanceler ==
  /\ handle[Loop] = "held"
  /\ LoopIdle \/ \E j \in JobID : op[j] = "running"
  /\ NoneBegun
  /\ LoopCancel
  /\ gaveUp' = TRUE
  /\ handle' = [handle EXCEPT ![Loop] = "gone"]
  /\ UNCHANGED <<setVars, op, cbVars, cpc, unvisited, lifeVars>>

\* The callback of a job calls cancel() on the group it has captured.
CancelInCallback(j) ==
  /\ op[j] = "running"
  /\ NoneBegun
  /\ ~gaveUp
  /\ LoopCancel
  /\ gaveUp' = TRUE
  /\ UNCHANGED <<setVars, op, cbVars, threadVars, lifeVars>>

\* Bug: once() tests the flag without setting it.
FlagAfterTest_NoSwap == endFlag

FlagAfterTest == TRUE

\* On another thread, the steps of cancel() interleave with the loop's.
OtherCancelBegins(t) ==
  /\ handle[t] = "held" /\ cpc[t] = "idle"
  /\ endFlag' = FlagAfterTest
  /\ IF endFlag
       THEN cpc' = [cpc EXCEPT ![t] = "returning"] /\ UNCHANGED unvisited
       ELSE /\ cpc' = [cpc EXCEPT ![t] = "iterating"]
            /\ unvisited' = [unvisited EXCEPT ![t] = jobs]
  /\ UNCHANGED <<setVars, op, cancelVars, didCancel, gaveUp, cbVars, handle,
                 lifeVars>>

OtherCancelsJob(t) ==
  /\ cpc[t] = "iterating"
  /\ \E j \in unvisited[t] :
       /\ unvisited' = [unvisited EXCEPT ![t] = @ \ {j}]
       /\ IF canceler[j] = "live"
            THEN /\ canceler' = [canceler EXCEPT ![j] = CalledCanceler]
                 /\ opCanceled' = [opCanceled EXCEPT ![j] = TRUE]
            ELSE UNCHANGED cancelVars
  /\ UNCHANGED <<setVars, op, flagVars, cbVars, handle, cpc, lifeVars>>

OtherCancelDone(t) ==
  /\ cpc[t] = "iterating" /\ unvisited[t] = {}
  /\ cpc' = [cpc EXCEPT ![t] = "returning"]
  /\ didCancel' = TRUE
  /\ UNCHANGED <<setVars, op, cancelVars, endFlag, gaveUp, cbVars, handle,
                 unvisited, lifeVars>>

\* The canceler resets its reference to the group.
OtherReturns(t) ==
  /\ cpc[t] = "returning"
  /\ cpc' = [cpc EXCEPT ![t] = "idle"]
  /\ handle' = [handle EXCEPT ![t] = "gone"]
  /\ UNCHANGED <<setVars, op, cancelVars, flagVars, cbVars, unvisited,
                 lifeVars>>

\* A thread destroys its copy of the canceler without calling it.
DropCanceler(t) ==
  /\ handle[t] = "held" /\ cpc[t] = "idle"
  /\ t = Loop => LoopIdle \/ \E j \in JobID : op[j] = "running"
  /\ handle' = [handle EXCEPT ![t] = "gone"]
  /\ UNCHANGED <<setVars, op, cancelVars, flagVars, cbVars, cpc, unvisited,
                 lifeVars>>

-----------------------------------------------------------------------------
(* ~_AsyncGroup, at once when the last reference goes *)

DestructorResult == IF jobs = {} THEN "ok" ELSE "error"

\* Bug: the destructor only frees.
DestructorCalls_Never == FALSE

DestructorCalls == ~endFlag

Destroy ==
  /\ ~Referenced /\ ~destroyed
  /\ destroyed' = TRUE
  /\ endFlag' = TRUE
  /\ IF DestructorCalls THEN CallCb(DestructorResult) ELSE UNCHANGED cbVars
  /\ UNCHANGED <<setVars, op, cancelVars, didCancel, gaveUp, threadVars, fault>>

-----------------------------------------------------------------------------

LoopStep ==
  \/ Begin \/ DriverReturns
  \/ \E j \in JobID :
       \/ StartOp(j) \/ StartOpFails(j)
       \/ Finalize(j) \/ RunCallback(j)
       \/ EndErase(j) \/ EndSettle(j) \/ ReturnUnended(j)

OtherStep(t) == OtherCancelsJob(t) \/ OtherCancelDone(t) \/ OtherReturns(t)

CancelStep ==
  \/ CallCanceler
  \/ \E j \in JobID : CancelInCallback(j)
  \/ \E t \in Others : OtherCancelBegins(t)
  \/ \E t \in Thread : DropCanceler(t)

Next ==
  /\ fault = "none"
  /\ \/ Destroy
     \/ /\ Referenced
        /\ \/ LoopStep
           \/ CancelStep
           \/ \E t \in Others : OtherStep(t)

\* The driver and the callbacks return, requests are finalized, a thread inside
\* cancel() goes on, and destruction is immediate.  Nobody has to cancel the
\* group or to drop its canceler.
Fairness ==
  /\ WF_vars(fault = "none" /\ Destroy)
  /\ WF_vars(fault = "none" /\ Referenced /\ LoopStep)
  /\ \A t \in Others : WF_vars(fault = "none" /\ Referenced /\ OtherStep(t))

SafeSpec == Init /\ [][Next]_vars

Spec == SafeSpec /\ Fairness

-----------------------------------------------------------------------------
(* Properties *)

\* The group has one outcome: either its callback is called, once, or one call
\* of cancel() returns true.  It is decided by end(), cancel() on any thread,
\* and the destructor.
OneOutcome == cbs + (IF didCancel THEN 1 ELSE 0) <= 1

\* The group reports success only after every job begun was ended, whatever the
\* order in which jobs end and callbacks begin further ones.
OkMeansAllEnded == result = "ok" => ended = 0 .. nextJobID - 1

\* Once the outcome is decided on the loop's thread, no operation that could
\* be canceled is left to call back.
QuietWhenSettled ==
  endFlag => \A j \in JobID : op[j] = "inflight" /\ canceler[j] # "none" => opCanceled[j]

\* After cancel() has returned true, no callback of a job that has a canceler
\* starts.
NoJobCallbackAfterCancel ==
  [][\A j \in JobID :
       op[j] = "checked" /\ op'[j] = "running" /\ canceler[j] # "none" => ~didCancel]_vars

HandlesGone == \A t \in Thread : handle[t] = "gone"

\* A group nobody can cancel any more is destroyed in the end: jobs, requests,
\* closures and the group do not keep each other alive.
Reclaimed == HandlesGone ~> destroyed

Forgotten == {j \in jobs : op[j] = "done"}

\* Once nobody can cancel the group any more it has an outcome, even when the
\* driver began no job at all: the destructor settles what is left.  Only a job
\* the client has forgotten to end keeps the destructor from running.
SettlesWhenDropped ==
  HandlesGone ~> (cbs > 0 \/ didCancel \/ Forgotten # {} \/ fault # "none")

taskStatus ==
  IF cbs > 0 THEN "completed"
  ELSE IF endFlag THEN "canceled"
  ELSE IF driver = "running" THEN "idle"
  ELSE "pending"

Task == INSTANCE CancelableTask WITH status <- taskStatus

\* The group is itself a cancelable task: it settles once and in the end, and
\* never calls back when canceled.
ImplementsTask == Task!Spec

\* A job as the group sees it, and what has become of the group.
jobPhase ==
  [j \in JobID |->
     IF op[j] \in {"running", "endok", "enderr"} THEN "running"
     ELSE IF j \notin jobs THEN "none"
     ELSE IF op[j] = "done" THEN "left"
     ELSE IF op[j] # "begun" /\ canceler[j] = "none" THEN "plain"
     ELSE "waiting"]

groupOutcome ==
  IF result # "none" THEN result
  ELSE IF endFlag THEN "canceled"
  ELSE "none"

Group == INSTANCE JobGroup WITH Job <- JobID, phase <- jobPhase, outcome <- groupOutcome

\* On the loop's thread, the group keeps what it promises of its jobs and of its
\* one outcome.
ImplementsGroup == Group!Spec

=============================================================================
