-------------------------- MODULE AsyncGroupProofs --------------------------
(***************************************************************************)
(* Proofs about AsyncGroup for any number of jobs and of threads that may  *)
(* cancel the group.                                                       *)
(***************************************************************************)
EXTENDS AsyncGroup, TLAPS

\* Who has won the flag, and that nobody else has an effect.
Winner ==
  /\ ~endFlag => cbs = 0 /\ ~didCancel /\ \A t \in Others : cpc[t] # "iterating"
  /\ cbs \in {0, 1}
  /\ cbs = 1 => ~didCancel /\ \A t \in Others : cpc[t] # "iterating"
  /\ \A t \in Others : cpc[t] = "iterating" =>
       ~didCancel /\ \A u \in Others : cpc[u] = "iterating" => u = t
  /\ cbs = 0 <=> result = "none"

\* Each job begun is in _jobs or was ended, and none is begun after success.
Accounting ==
  /\ jobs \cup ended = 0 .. nextJobID - 1
  /\ \A j \in JobID : op[j] # "none" => j < nextJobID
  /\ result = "ok" => ended = 0 .. nextJobID - 1
  /\ result = "ok" => gaveUp \/ destroyed
  /\ destroyed => ~Referenced

\* The inductive invariant.
IInv == TypeOK /\ Winner /\ Accounting

-----------------------------------------------------------------------------

LEMMA InitIInv == Init => IInv
<1> SUFFICES ASSUME Init PROVE IInv
  OBVIOUS
<1> USE MaxJobsAssumption DEF Init
<1>1. TypeOK
  <2>1. nextJobID \in 0 .. MaxJobs /\ cbs \in Nat
    OBVIOUS
  <2>2. opCanceled \in [JobID -> BOOLEAN]
    OBVIOUS
  <2>3. unvisited \in [Thread -> SUBSET JobID]
    OBVIOUS
  <2> QED
    BY <2>1, <2>2, <2>3 DEF TypeOK
<1>2. Winner
  BY DEF Winner, Thread
<1>3. Accounting
  <2>1. 0 .. nextJobID - 1 = {}
    OBVIOUS
  <2> QED
    BY <2>1 DEF Accounting
<1> QED
  BY <1>1, <1>2, <1>3 DEF IInv

\* Calling every canceler keeps the types of the jobs' fields.
LEMMA CancelAllTyped ==
  ASSUME TypeOK, CancelAllJobs
  PROVE  /\ canceler' \in [JobID -> {"none", "live", "spent"}]
         /\ opCanceled' \in [JobID -> BOOLEAN]
BY DEF TypeOK, CancelAllJobs, Cancels, CalledCanceler

LEMMA LoopCancelTyped ==
  ASSUME TypeOK, LoopCancel
  PROVE  /\ canceler' \in [JobID -> {"none", "live", "spent"}]
         /\ opCanceled' \in [JobID -> BOOLEAN]
         /\ endFlag' \in BOOLEAN
         /\ didCancel' \in BOOLEAN
<1>1. CASE endFlag
  BY <1>1 DEF TypeOK, LoopCancel, cancelVars
<1>2. CASE ~endFlag
  BY <1>2, CancelAllTyped DEF TypeOK, LoopCancel
<1> QED
  BY <1>1, <1>2

LEMMA TypeStep ==
  ASSUME TypeOK, Next
  PROVE  TypeOK'
<1> USE MaxJobsAssumption
        DEF TypeOK, setVars, cancelVars, flagVars, cbVars, threadVars, lifeVars
<1>1. CASE Begin
  BY <1>1 DEF Begin, MutateJobs, NewJobID, JobID
<1>2. CASE DriverReturns
  BY <1>2 DEF DriverReturns
<1>3. ASSUME NEW j \in JobID, StartOp(j)
      PROVE  TypeOK'
  BY <1>3 DEF StartOp, MutateJobs
<1>4. ASSUME NEW j \in JobID, StartOpFails(j)
      PROVE  TypeOK'
  BY <1>4 DEF StartOpFails
<1>5. ASSUME NEW j \in JobID, Finalize(j) \/ RunCallback(j) \/ ReturnUnended(j)
      PROVE  TypeOK'
  BY <1>5 DEF Finalize, FinalizedAs, RunCallback, ReturnUnended
<1>6. ASSUME NEW j \in JobID, EndErase(j)
      PROVE  TypeOK'
  BY <1>6 DEF EndErase, MutateJobs
<1>7. ASSUME NEW j \in JobID, EndSettle(j)
      PROVE  TypeOK'
  <2>1. CASE EndsGroup(j) /\ ~endFlag /\ op[j] = "enderr"
    BY <1>7, <2>1, CancelAllTyped DEF EndSettle, CallCb
  <2>2. CASE EndsGroup(j) /\ ~endFlag /\ op[j] # "enderr"
    BY <1>7, <2>2 DEF EndSettle, CallCb
  <2>3. CASE ~(EndsGroup(j) /\ ~endFlag)
    BY <1>7, <2>3 DEF EndSettle
  <2> QED
    BY <2>1, <2>2, <2>3
<1>8. CASE CallCanceler
  BY <1>8, LoopCancelTyped DEF CallCanceler, Thread
<1>9. ASSUME NEW j \in JobID, CancelInCallback(j)
      PROVE  TypeOK'
  BY <1>9, LoopCancelTyped DEF CancelInCallback
<1>10. ASSUME NEW t \in Others, OtherCancelBegins(t)
       PROVE  TypeOK'
  BY <1>10 DEF OtherCancelBegins, FlagAfterTest, Thread
<1>11. ASSUME NEW t \in Others, OtherStep(t)
       PROVE  TypeOK'
  <2>1. CASE OtherCancelsJob(t)
    <3>1. PICK j \in unvisited[t] :
            /\ unvisited' = [unvisited EXCEPT ![t] = @ \ {j}]
            /\ IF canceler[j] = "live"
                 THEN /\ canceler' = [canceler EXCEPT ![j] = CalledCanceler]
                      /\ opCanceled' = [opCanceled EXCEPT ![j] = TRUE]
                 ELSE UNCHANGED cancelVars
      BY <2>1 DEF OtherCancelsJob
    <3> QED
      BY <2>1, <3>1 DEF OtherCancelsJob, CalledCanceler, Thread
  <2>2. CASE OtherCancelDone(t)
    BY <2>2 DEF OtherCancelDone, Thread
  <2>3. CASE OtherReturns(t)
    BY <2>3 DEF OtherReturns, Thread
  <2> QED
    BY <1>11, <2>1, <2>2, <2>3 DEF OtherStep
<1>12. ASSUME NEW t \in Thread, DropCanceler(t)
       PROVE  TypeOK'
  BY <1>12 DEF DropCanceler
<1>13. CASE Destroy
  <2>1. CASE DestructorCalls
    BY <1>13, <2>1 DEF Destroy, DestructorResult, CallCb
  <2>2. CASE ~DestructorCalls
    BY <1>13, <2>2 DEF Destroy
  <2> QED
    BY <2>1, <2>2
<1> QED
  BY <1>1, <1>2, <1>3, <1>4, <1>5, <1>6, <1>7, <1>8, <1>9, <1>10, <1>11, <1>12, <1>13
  DEF Next, LoopStep, CancelStep

\* The flag decides between end(), the destructor and cancel() on any thread.
LEMMA WinnerStep ==
  ASSUME IInv, Next
  PROVE  Winner'
<1> USE DEF IInv, Winner, TypeOK, Thread,
            setVars, cancelVars, flagVars, cbVars, threadVars, lifeVars
<1>1. CASE UNCHANGED <<endFlag, didCancel, result, cbs, cpc>>
  BY <1>1
<1>2. ASSUME NEW j \in JobID, EndSettle(j), EndsGroup(j) /\ ~endFlag
      PROVE  Winner'
  <2>1. endFlag' = TRUE /\ cbs' = cbs + 1 /\ result' \in {"ok", "error"}
    BY <1>2 DEF EndSettle, CallCb
  <2>2. UNCHANGED <<didCancel, cpc>>
    BY <1>2 DEF EndSettle
  <2> QED
    BY <1>2, <2>1, <2>2
<1>3. ASSUME NEW j \in JobID, EndSettle(j), ~(EndsGroup(j) /\ ~endFlag)
      PROVE  Winner'
  BY <1>1, <1>3 DEF EndSettle
<1>4. CASE CallCanceler \/ \E j \in JobID : CancelInCallback(j)
  <2>1. LoopCancel /\ UNCHANGED <<result, cbs, cpc>>
    BY <1>4 DEF CallCanceler, CancelInCallback
  <2> QED
    BY <2>1 DEF LoopCancel
<1>5. ASSUME NEW t \in Others, OtherCancelBegins(t)
      PROVE  Winner'
  <2>1. endFlag' = TRUE /\ UNCHANGED <<didCancel, result, cbs>>
    BY <1>5 DEF OtherCancelBegins, FlagAfterTest
  <2>2. CASE endFlag
    <3>1. cpc' = [cpc EXCEPT ![t] = "returning"]
      BY <1>5, <2>2 DEF OtherCancelBegins
    <3> QED
      BY <2>1, <2>2, <3>1
  <2>3. CASE ~endFlag
    <3>1. cpc' = [cpc EXCEPT ![t] = "iterating"]
      BY <1>5, <2>3 DEF OtherCancelBegins
    <3> QED
      BY <2>1, <2>3, <3>1
  <2> QED
    BY <2>2, <2>3
<1>6. ASSUME NEW t \in Others, OtherStep(t)
      PROVE  Winner'
  <2>1. CASE OtherCancelsJob(t)
    BY <1>1, <2>1 DEF OtherCancelsJob
  <2>2. CASE OtherCancelDone(t)
    <3>1. cpc[t] = "iterating" /\ cpc' = [cpc EXCEPT ![t] = "returning"] /\ didCancel' = TRUE
      BY <2>2 DEF OtherCancelDone
    <3>2. UNCHANGED <<endFlag, result, cbs>>
      BY <2>2 DEF OtherCancelDone
    <3> QED
      BY <3>1, <3>2
  <2>3. CASE OtherReturns(t)
    BY <2>3 DEF OtherReturns
  <2> QED
    BY <1>6, <2>1, <2>2, <2>3 DEF OtherStep
<1>7. CASE Destroy
  <2>1. UNCHANGED <<didCancel, cpc>> /\ endFlag' = TRUE
    BY <1>7 DEF Destroy
  <2>2. CASE endFlag
    BY <1>7, <2>1, <2>2 DEF Destroy, DestructorCalls
  <2>3. CASE ~endFlag
    <3>1. cbs' = cbs + 1 /\ result' \in {"ok", "error"}
      BY <1>7, <2>3 DEF Destroy, DestructorCalls, DestructorResult, CallCb
    <3> QED
      BY <2>1, <2>3, <3>1
  <2> QED
    BY <2>2, <2>3
<1>8. ASSUME NEW j \in JobID,
             \/ StartOp(j) \/ StartOpFails(j) \/ Finalize(j) \/ RunCallback(j)
             \/ EndErase(j) \/ ReturnUnended(j)
      PROVE  Winner'
  BY <1>1, <1>8 DEF StartOp, StartOpFails, Finalize, RunCallback, EndErase, ReturnUnended
<1>9. CASE Begin \/ DriverReturns \/ \E t \in Thread : DropCanceler(t)
  BY <1>1, <1>9 DEF Begin, DriverReturns, DropCanceler
<1> QED
  BY <1>2, <1>3, <1>4, <1>5, <1>6, <1>7, <1>8, <1>9
  DEF Next, LoopStep, CancelStep

\* A step that begins and ends no job, and reports nothing.
LEMMA AccountingUnchanged ==
  ASSUME IInv, UNCHANGED <<nextJobID, jobs, ended, result, destroyed>>,
         gaveUp => gaveUp', Referenced, ~destroyed,
         \A j \in JobID : op'[j] # "none" => op[j] # "none"
  PROVE  Accounting'
BY DEF IInv, Accounting

\* No job is lost, and success is reported only when none is left.
LEMMA AccountingStep ==
  ASSUME IInv, Next
  PROVE  Accounting'
<1> USE DEF IInv, TypeOK, setVars, cancelVars, flagVars, cbVars, threadVars, lifeVars
<1>1. CASE Referenced
  <2>1. ~destroyed
    BY <1>1 DEF Accounting
  <2>2. CASE Begin
    <3>1. 0 .. nextJobID' - 1 = (0 .. nextJobID - 1) \cup {nextJobID}
      BY <2>2 DEF Begin
    <3>2. result # "ok"
      BY <2>1, <2>2 DEF Begin, Accounting
    <3>3. \A j \in JobID : op'[j] # "none" => j < nextJobID'
      BY <2>2 DEF Begin, NewJobID, Accounting, JobID
    <3> QED
      BY <2>1, <2>2, <3>1, <3>2, <3>3 DEF Begin, NewJobID, Accounting
  <2>3. ASSUME NEW j \in JobID, StartOpFails(j)
        PROVE  Accounting'
    <3>1. j \in 0 .. nextJobID - 1
      BY <2>3 DEF StartOpFails, Accounting, JobID
    <3>2. jobs' \cup ended' = 0 .. nextJobID' - 1
      BY <2>3, <3>1 DEF StartOpFails, Accounting
    <3>3. \A k \in JobID : op'[k] # "none" => k < nextJobID'
      BY <2>3, <3>1 DEF StartOpFails, Accounting, JobID
    <3>4. result' = result /\ gaveUp' = gaveUp /\ ~destroyed'
      BY <2>1, <2>3 DEF StartOpFails
    <3>5. result' = "ok" => ended' = 0 .. nextJobID' - 1
      BY <2>3, <3>1, <3>4 DEF StartOpFails, Accounting
    <3> QED
      BY <2>1, <3>2, <3>3, <3>4, <3>5 DEF Accounting
  <2>4. ASSUME NEW j \in JobID, EndErase(j)
        PROVE  Accounting'
    <3>1. j \in 0 .. nextJobID - 1
      BY <2>4 DEF EndErase, Accounting, JobID
    <3>2. jobs' \cup ended' = 0 .. nextJobID' - 1
      BY <2>4, <3>1 DEF EndErase, Accounting
    <3>3. \A k \in JobID : op'[k] # "none" => k < nextJobID'
      BY <2>4, <3>1 DEF EndErase, Accounting, JobID
    <3>4. result' = result /\ gaveUp' = gaveUp /\ ~destroyed'
      BY <2>1, <2>4 DEF EndErase
    <3>5. result' = "ok" => ended' = 0 .. nextJobID' - 1
      BY <2>4, <3>1, <3>4 DEF EndErase, Accounting
    <3> QED
      BY <2>1, <3>2, <3>3, <3>4, <3>5 DEF Accounting
  <2>5. ASSUME NEW j \in JobID, EndSettle(j)
        PROVE  Accounting'
    <3>1. UNCHANGED <<nextJobID, jobs, ended, destroyed>>
      BY <2>5 DEF EndSettle
    <3>2. \A k \in JobID : op'[k] # "none" => k < nextJobID'
      BY <2>5, <3>1 DEF EndSettle, Accounting
    <3>3. CASE EndsGroup(j) /\ ~endFlag /\ op[j] # "enderr"
      <4>1. jobs = {} /\ gaveUp'
        BY <2>5, <3>3 DEF EndSettle, EndsGroup
      <4> QED
        BY <2>1, <3>1, <3>2, <4>1 DEF Accounting
    <3>4. CASE EndsGroup(j) /\ ~endFlag /\ op[j] = "enderr"
      <4>1. result' = "error"
        BY <2>5, <3>4 DEF EndSettle, CallCb
      <4> QED
        BY <2>1, <3>1, <3>2, <4>1 DEF Accounting
    <3>5. CASE ~(EndsGroup(j) /\ ~endFlag)
      <4>1. result' = result /\ gaveUp' = gaveUp
        BY <2>5, <3>5 DEF EndSettle
      <4> QED
        BY <2>1, <3>1, <3>2, <4>1 DEF Accounting
    <3> QED
      BY <3>3, <3>4, <3>5
  <2>6. ASSUME NEW j \in JobID,
               StartOp(j) \/ Finalize(j) \/ RunCallback(j) \/ ReturnUnended(j)
        PROVE  Accounting'
    BY <1>1, <2>1, <2>6, AccountingUnchanged
    DEF StartOp, Finalize, FinalizedAs, RunCallback, ReturnUnended
  <2>7. CASE DriverReturns \/ CancelStep \/ \E t \in Others : OtherStep(t)
    BY <1>1, <2>1, <2>7, AccountingUnchanged
    DEF DriverReturns, CancelStep, CallCanceler, CancelInCallback, OtherCancelBegins,
        DropCanceler, OtherStep, OtherCancelsJob, OtherCancelDone, OtherReturns
  <2>8. CASE Destroy
    BY <1>1, <2>8 DEF Destroy
  <2> QED
    BY <2>2, <2>3, <2>4, <2>5, <2>6, <2>7, <2>8 DEF Next, LoopStep
<1>2. CASE ~Referenced
  <2>1. Destroy
    BY <1>2 DEF Next
  <2>2. destroyed' /\ ~Referenced'
    <3>1. UNCHANGED <<driver, handle, op, canceler>>
      BY <2>1 DEF Destroy
    <3> QED
      BY <1>2, <2>1, <3>1 DEF Destroy, Referenced, ClosureAlive
  <2>3. UNCHANGED <<nextJobID, jobs, ended, op>>
    BY <2>1 DEF Destroy
  <2>4. result' = "ok" => result = "ok" \/ jobs = {}
    BY <2>1 DEF Destroy, DestructorResult, CallCb
  <2> QED
    BY <2>2, <2>3, <2>4 DEF Accounting
<1> QED
  BY <1>1, <1>2

-----------------------------------------------------------------------------

\* In every reachable state the inductive invariant holds.
THEOREM Invariance == SafeSpec => []IInv
<1>1. Init => IInv
  BY InitIInv
<1>2. IInv /\ [Next]_vars => IInv'
  <2> SUFFICES ASSUME IInv, [Next]_vars PROVE IInv'
    OBVIOUS
  <2>1. CASE Next
    BY <2>1, TypeStep, WinnerStep, AccountingStep DEF IInv
  <2>2. CASE UNCHANGED vars
    <3> USE <2>2 DEF vars
    <3>1. TypeOK'
      BY DEF IInv, TypeOK
    <3>2. Winner'
      BY DEF IInv, Winner
    <3>3. Accounting'
      BY DEF IInv, Accounting, Referenced, ClosureAlive
    <3> QED
      BY <3>1, <3>2, <3>3 DEF IInv
  <2> QED
    BY <2>1, <2>2
<1> QED
  BY <1>1, <1>2, PTL DEF SafeSpec

\* For any number of jobs and of threads calling cancel(): the variables of a
\* group and of its client keep their types.
THEOREM TypeCorrect == SafeSpec => []TypeOK
<1>1. IInv => TypeOK
  BY DEF IInv
<1> QED
  BY <1>1, Invariance, PTL

\* For any number of jobs and of threads calling cancel(): the callback of a
\* group is called at most once, and never when a call of cancel() returned
\* true.
THEOREM OutcomeUnique == SafeSpec => []OneOutcome
<1>1. IInv => OneOutcome
  BY DEF IInv, Winner, OneOutcome
<1> QED
  BY <1>1, Invariance, PTL

\* For any number of jobs and of threads calling cancel(): a group that
\* reports success has ended every job it began.
THEOREM SuccessComplete == SafeSpec => []OkMeansAllEnded
<1>1. IInv => OkMeansAllEnded
  BY DEF IInv, Accounting, OkMeansAllEnded
<1> QED
  BY <1>1, Invariance, PTL

-----------------------------------------------------------------------------
(* A group that only the loop's thread cancels *)

Busy(j) == op[j] \in {"checked", "running", "endok", "enderr"}

\* One callback runs at a time; the job of an operation in flight is in _jobs;
\* a canceler that was called has set its request's flag.
LoopInv ==
  /\ \A j \in JobID : Busy(j) => driver = "returned" /\ \A k \in JobID : Busy(k) => k = j
  /\ endFlag => NoneBegun
  /\ endFlag /\ Referenced => gaveUp
  /\ NoneBegun \/ driver = "running" \/ \E j \in JobID : op[j] = "running"
  /\ \A j \in JobID : op[j] \in {"endok", "enderr"} => NoneBegun
  /\ \A j \in JobID : op[j] \in {"begun", "inflight"} => j \in jobs
  /\ \A j \in JobID : op[j] \in {"none", "begun"} => canceler[j] = "none"
  /\ \A j \in JobID : canceler[j] = "spent" => opCanceled[j]
  /\ QuietWhenSettled

LEMMA LoopInvInit == Init => LoopInv
BY DEF Init, LoopInv, Busy, NoneBegun, QuietWhenSettled

\* Canceling all jobs silences the operations in flight.
LEMMA CancelAllQuiet ==
  ASSUME IInv, LoopInv, CancelAllJobs, NEW j \in JobID
  PROVE  /\ canceler'[j] = "spent" => opCanceled'[j]
         /\ canceler[j] = "none" => canceler'[j] = "none"
         /\ op[j] = "inflight" /\ canceler[j] # "none" => opCanceled'[j]
         /\ opCanceled[j] => opCanceled'[j]
<1> USE DEF IInv, TypeOK, LoopInv
<1>1. CASE Cancels(j)
  <2>1. canceler'[j] = "spent" /\ opCanceled'[j]
    BY <1>1 DEF CancelAllJobs, CalledCanceler
  <2> QED
    BY <1>1, <2>1 DEF Cancels
<1>2. CASE ~Cancels(j)
  <2>1. canceler'[j] = canceler[j]
    BY <1>2 DEF CancelAllJobs
  <2>2. opCanceled'[j] <=> opCanceled[j]
    BY <1>2 DEF CancelAllJobs
  <2>3. op[j] = "inflight" /\ canceler[j] # "none" => canceler[j] = "spent"
    BY <1>2 DEF Cancels
  <2> QED
    BY <2>1, <2>2, <2>3
<1> QED
  BY <1>1, <1>2

LEMMA LoopInvStep ==
  ASSUME IInv, LoopInv, Others = {}, Next
  PROVE  LoopInv'
<1> USE DEF IInv, TypeOK, Thread, LoopInv, Busy, NoneBegun, QuietWhenSettled,
            setVars, cancelVars, flagVars, cbVars, threadVars, lifeVars
<1>1. CASE Begin
  <2>1. nextJobID \in JobID /\ op[nextJobID] = "none"
    BY <1>1, MaxJobsAssumption DEF Begin, Accounting, JobID
  <2>2. ~endFlag
    BY <1>1 DEF Begin, Next, Destroy, Referenced, ClosureAlive
  <2> QED
    BY <1>1, <2>1, <2>2 DEF Begin, NewJobID
<1>2. CASE DriverReturns
  <2>1. UNCHANGED <<op, jobs, canceler, opCanceled, endFlag, gaveUp>>
    BY <1>2 DEF DriverReturns
  <2>2. Referenced
    BY <1>2 DEF DriverReturns, Referenced
  <2> QED
    BY <1>2, <2>1, <2>2 DEF DriverReturns
<1>3. ASSUME NEW j \in JobID, StartOp(j)
      PROVE  LoopInv'
  <2>1. ~endFlag /\ ~endFlag'
    BY <1>3 DEF StartOp
  <2> QED
    BY <1>3, <2>1 DEF StartOp
<1>4. ASSUME NEW j \in JobID, StartOpFails(j)
      PROVE  LoopInv'
  <2>1. ~endFlag /\ ~endFlag'
    BY <1>4 DEF StartOpFails
  <2> QED
    BY <1>4, <2>1 DEF StartOpFails
<1>5. ASSUME NEW j \in JobID, Finalize(j) \/ RunCallback(j) \/ ReturnUnended(j)
      PROVE  LoopInv'
  <2>1. UNCHANGED <<jobs, driver, canceler, opCanceled, endFlag, gaveUp>>
    BY <1>5 DEF Finalize, RunCallback, ReturnUnended
  <2>2. endFlag' /\ Referenced' => gaveUp'
    BY <1>5, <2>1 DEF Finalize, RunCallback, ReturnUnended, Referenced, ClosureAlive
  <2>3. CASE Finalize(j)
    BY <2>1, <2>2, <2>3 DEF Finalize, FinalizedAs, LoopIdle
  <2>4. CASE RunCallback(j)
    BY <2>1, <2>2, <2>4 DEF RunCallback
  <2>5. CASE ReturnUnended(j)
    BY <2>1, <2>2, <2>5 DEF ReturnUnended
  <2> QED
    BY <1>5, <2>3, <2>4, <2>5
<1>6. ASSUME NEW j \in JobID, EndErase(j)
      PROVE  LoopInv'
  <2>1. op'[j] \in {"endok", "enderr"} /\ \A k \in JobID \ {j} : op'[k] = op[k]
    BY <1>6 DEF EndErase
  <2>2. UNCHANGED <<driver, opCanceled, endFlag, gaveUp>> /\ jobs' = jobs \ {j}
    BY <1>6 DEF EndErase
  <2>3. canceler'[j] = "none" /\ \A k \in JobID \ {j} : canceler'[k] = canceler[k]
    BY <1>6 DEF EndErase
  <2>4. Referenced
    BY <1>6 DEF EndErase, Referenced, ClosureAlive
  <2>5. op[j] = "running" /\ NoneBegun
    BY <1>6 DEF EndErase
  <2> QED
    BY <2>1, <2>2, <2>3, <2>4, <2>5
<1>7. ASSUME NEW j \in JobID, EndSettle(j)
      PROVE  LoopInv'
  <2>1. op'[j] = "done" /\ \A k \in JobID \ {j} : op'[k] = op[k]
    BY <1>7 DEF EndSettle
  <2>2. UNCHANGED <<driver, jobs>> /\ NoneBegun /\ Referenced
    BY <1>7 DEF EndSettle, Referenced, ClosureAlive
  <2>3. CASE EndsGroup(j) /\ ~endFlag /\ op[j] = "enderr"
    <3>1. CancelAllJobs /\ endFlag' /\ gaveUp'
      BY <1>7, <2>3 DEF EndSettle
    <3> QED
      BY <2>1, <2>2, <3>1, CancelAllQuiet
  <2>4. CASE EndsGroup(j) /\ ~endFlag /\ op[j] # "enderr"
    <3>1. UNCHANGED cancelVars /\ endFlag' /\ gaveUp' /\ jobs = {}
      BY <1>7, <2>4 DEF EndSettle, EndsGroup
    <3> QED
      BY <2>1, <2>2, <3>1
  <2>5. CASE ~(EndsGroup(j) /\ ~endFlag)
    <3>1. UNCHANGED <<cancelVars, endFlag, gaveUp>>
      BY <1>7, <2>5 DEF EndSettle
    <3> QED
      BY <2>1, <2>2, <3>1
  <2> QED
    BY <2>3, <2>4, <2>5
<1>8. CASE CallCanceler \/ \E j \in JobID : CancelInCallback(j)
  <2>1. LoopCancel /\ gaveUp' /\ NoneBegun /\ UNCHANGED <<op, jobs, driver>>
    BY <1>8 DEF CallCanceler, CancelInCallback
  <2>2. CASE endFlag
    BY <2>1, <2>2 DEF LoopCancel
  <2>3. CASE ~endFlag
    BY <2>1, <2>3, CancelAllQuiet DEF LoopCancel
  <2> QED
    BY <2>2, <2>3
<1>9. ASSUME NEW t \in Thread, DropCanceler(t)
      PROVE  LoopInv'
  <2>1. UNCHANGED <<op, jobs, driver, canceler, opCanceled, endFlag, gaveUp>>
    BY <1>9 DEF DropCanceler
  <2>2. Referenced
    BY <1>9 DEF DropCanceler, Referenced
  <2> QED
    BY <2>1, <2>2
<1>10. CASE Destroy
  <2>1. UNCHANGED <<op, jobs, driver, canceler, opCanceled, gaveUp, handle>>
    BY <1>10 DEF Destroy
  <2>2. ~Referenced'
    BY <1>10, <2>1 DEF Destroy, Referenced, ClosureAlive
  <2>3. NoneBegun /\ \A j \in JobID : op[j] # "inflight"
    BY <1>10 DEF Destroy, Referenced, ClosureAlive
  <2> QED
    BY <2>1, <2>2, <2>3
<1> QED
  BY <1>1, <1>2, <1>3, <1>4, <1>5, <1>6, <1>7, <1>8, <1>9, <1>10
  DEF Next, LoopStep, CancelStep, OtherStep

LEMMA LoopInvStutters == LoopInv /\ UNCHANGED vars => LoopInv'
BY DEF vars, LoopInv, Busy, NoneBegun, QuietWhenSettled, Referenced, ClosureAlive

\* For any number of jobs, when only the loop's thread cancels the group: once
\* the group is settled, each operation in flight that came with a canceler
\* has been canceled.
THEOREM SettledQuiet ==
  ASSUME Others = {}
  PROVE  SafeSpec => []QuietWhenSettled
<1>1. Init => LoopInv
  BY LoopInvInit
<1>2. IInv /\ LoopInv /\ [Next]_vars => LoopInv'
  <2> SUFFICES ASSUME IInv, LoopInv, [Next]_vars PROVE LoopInv'
    OBVIOUS
  <2>1. CASE Next
    BY <2>1, LoopInvStep
  <2>2. CASE UNCHANGED vars
    BY <2>2, LoopInvStutters
  <2> QED
    BY <2>1, <2>2
<1>3. LoopInv => QuietWhenSettled
  BY DEF LoopInv
<1> QED
  BY <1>1, <1>2, <1>3, Invariance, PTL DEF SafeSpec


\* A canceled group has no callback under way for an operation it could cancel.
CheckedQuiet ==
  didCancel => \A j \in JobID : op[j] = "checked" => canceler[j] = "none"

LEMMA CheckedQuietStep ==
  ASSUME IInv, LoopInv, CheckedQuiet, Others = {}, Next
  PROVE  CheckedQuiet'
<1> USE DEF IInv, TypeOK, CheckedQuiet,
            setVars, cancelVars, flagVars, cbVars, threadVars, lifeVars
<1>1. CASE Begin \/ DriverReturns \/ Destroy \/ \E t \in Thread : DropCanceler(t)
  BY <1>1 DEF Begin, DriverReturns, Destroy, DropCanceler
<1>2. ASSUME NEW j \in JobID,
             StartOp(j) \/ StartOpFails(j) \/ RunCallback(j) \/ ReturnUnended(j)
      PROVE  CheckedQuiet'
  BY <1>2 DEF StartOp, StartOpFails, RunCallback, ReturnUnended
<1>3. ASSUME NEW j \in JobID, Finalize(j)
      PROVE  CheckedQuiet'
  <2>1. UNCHANGED <<didCancel, canceler>> /\ op' = [op EXCEPT ![j] = FinalizedAs(j)]
    BY <1>3 DEF Finalize
  <2>2. didCancel /\ canceler[j] # "none" => FinalizedAs(j) = "done"
    BY <1>3 DEF Finalize, FinalizedAs, Winner, LoopInv, QuietWhenSettled
  <2> QED
    BY <2>1, <2>2
<1>4. ASSUME NEW j \in JobID, EndErase(j)
      PROVE  CheckedQuiet'
  BY <1>4 DEF EndErase
<1>5. ASSUME NEW j \in JobID, EndSettle(j)
      PROVE  CheckedQuiet'
  <2>1. didCancel' = didCancel /\ op' = [op EXCEPT ![j] = "done"]
    BY <1>5 DEF EndSettle
  <2>2. CancelAllJobs \/ UNCHANGED canceler
    BY <1>5 DEF EndSettle
  <2> QED
    BY <2>1, <2>2, CancelAllQuiet
<1>6. CASE CallCanceler \/ \E j \in JobID : CancelInCallback(j)
  <2>1. \A j \in JobID : op[j] # "checked"
    BY <1>6 DEF CallCanceler, CancelInCallback, LoopIdle, LoopInv, Busy
  <2> QED
    BY <1>6, <2>1 DEF CallCanceler, CancelInCallback
<1> QED
  BY <1>1, <1>2, <1>3, <1>4, <1>5, <1>6
  DEF Next, LoopStep, CancelStep, OtherStep

\* For any number of jobs, when only the loop's thread cancels the group: after
\* cancel() has returned true no callback of a job that has a canceler starts.
THEOREM CallbacksStop ==
  ASSUME Others = {}
  PROVE  SafeSpec => NoJobCallbackAfterCancel
<1>1. Init => LoopInv /\ CheckedQuiet
  BY LoopInvInit DEF Init, CheckedQuiet
<1>2. IInv /\ LoopInv /\ CheckedQuiet /\ [Next]_vars => LoopInv' /\ CheckedQuiet'
  <2> SUFFICES ASSUME IInv, LoopInv, CheckedQuiet, [Next]_vars
               PROVE  LoopInv' /\ CheckedQuiet'
    OBVIOUS
  <2>1. CASE Next
    BY <2>1, LoopInvStep, CheckedQuietStep
  <2>2. CASE UNCHANGED vars
    BY <2>2, LoopInvStutters DEF vars, CheckedQuiet
  <2> QED
    BY <2>1, <2>2
<1>3. CheckedQuiet =>
        [\A j \in JobID :
           op[j] = "checked" /\ op'[j] = "running" /\ canceler[j] # "none" => ~didCancel]_vars
  BY DEF CheckedQuiet
<1> QED
  BY <1>1, <1>2, <1>3, Invariance, PTL DEF SafeSpec, NoJobCallbackAfterCancel

-----------------------------------------------------------------------------
(* A group is a cancelable task, whichever threads cancel it *)

\* Until the driver has returned nobody has the canceler, and no operation calls
\* back.
NotYetPending ==
  driver = "running" =>
    /\ ~endFlag
    /\ \A t \in Thread : handle[t] = "none" /\ cpc[t] = "idle"
    /\ \A j \in JobID : op[j] \notin {"checked", "running", "endok", "enderr"}

LEMMA NotYetPendingStep ==
  ASSUME TypeOK, NotYetPending, Next
  PROVE  NotYetPending'
<1> USE DEF TypeOK, NotYetPending, Thread,
            setVars, cancelVars, flagVars, cbVars, threadVars, lifeVars
<1>1. CASE Begin
  BY <1>1 DEF Begin
<1>2. CASE DriverReturns
  BY <1>2 DEF DriverReturns
<1>3. ASSUME NEW j \in JobID, StartOp(j) \/ StartOpFails(j)
      PROVE  NotYetPending'
  BY <1>3 DEF StartOp, StartOpFails
<1>4. ASSUME NEW j \in JobID,
             \/ Finalize(j) \/ RunCallback(j) \/ EndErase(j) \/ EndSettle(j)
             \/ ReturnUnended(j) \/ CancelInCallback(j)
      PROVE  NotYetPending'
  <2>1. driver' = driver /\ driver # "running"
    BY <1>4 DEF Finalize, RunCallback, EndErase, EndSettle, ReturnUnended, CancelInCallback,
                LoopIdle
  <2> QED
    BY <2>1
<1>5. CASE CallCanceler \/ Destroy
  BY <1>5 DEF CallCanceler, Destroy, Referenced
<1>6. ASSUME NEW t \in Thread,
             DropCanceler(t) \/ (t \in Others /\ (OtherCancelBegins(t) \/ OtherStep(t)))
      PROVE  NotYetPending'
  <2>1. driver' = driver /\ driver # "running"
    BY <1>6 DEF DropCanceler, OtherCancelBegins, OtherStep, OtherCancelsJob, OtherCancelDone,
                OtherReturns
  <2> QED
    BY <2>1
<1> QED
  BY <1>1, <1>2, <1>3, <1>4, <1>5, <1>6 DEF Next, LoopStep, CancelStep

\* A step reports the outcome only if it is the one that sets the flag.
LEMMA OutcomeStep ==
  ASSUME IInv, Next
  PROVE  \/ cbs' = cbs
         \/ cbs' = cbs + 1 /\ ~endFlag /\ endFlag' /\ driver' = driver
<1> USE DEF setVars, cancelVars, flagVars, cbVars, threadVars, lifeVars
<1>1. ASSUME NEW j \in JobID, EndSettle(j)
      PROVE  cbs' = cbs \/ (cbs' = cbs + 1 /\ ~endFlag /\ endFlag' /\ driver' = driver)
  BY <1>1 DEF EndSettle, CallCb
<1>2. CASE Destroy
  BY <1>2 DEF Destroy, DestructorCalls, CallCb
<1>3. CASE CancelStep \/ \E t \in Others : OtherStep(t)
  BY <1>3 DEF CancelStep, CallCanceler, CancelInCallback, OtherCancelBegins, DropCanceler,
              OtherStep, OtherCancelsJob, OtherCancelDone, OtherReturns
<1>4. CASE \/ Begin \/ DriverReturns
           \/ \E j \in JobID : \/ StartOp(j) \/ StartOpFails(j) \/ Finalize(j)
                               \/ RunCallback(j) \/ EndErase(j) \/ ReturnUnended(j)
  BY <1>4 DEF Begin, DriverReturns, StartOp, StartOpFails, Finalize, RunCallback, EndErase,
              ReturnUnended
<1> QED
  BY <1>1, <1>2, <1>3, <1>4 DEF Next, LoopStep

\* The flag stays set, and the driver returned.
LEMMA FlagStep ==
  ASSUME IInv, NotYetPending, Next
  PROVE  /\ endFlag => endFlag'
         /\ driver # "running" => driver' = driver
         /\ driver = "running" /\ driver' # "running" => endFlag' = endFlag
         /\ ~endFlag /\ endFlag' => driver # "running"
<1> USE DEF setVars, cancelVars, flagVars, cbVars, threadVars, lifeVars
<1>1. ASSUME NEW j \in JobID, EndSettle(j)
      PROVE  driver' = driver /\ (endFlag => endFlag') /\ driver # "running"
  BY <1>1 DEF EndSettle, NotYetPending
<1>2. CASE Destroy
  BY <1>2 DEF Destroy, Referenced
<1>3. CASE CallCanceler \/ \E j \in JobID : CancelInCallback(j)
  <2>1. LoopCancel /\ driver' = driver /\ driver # "running"
    BY <1>3 DEF CallCanceler, CancelInCallback, NotYetPending, Thread
  <2> QED
    BY <2>1 DEF LoopCancel
<1>4. ASSUME NEW t \in Others, OtherCancelBegins(t)
      PROVE  endFlag' /\ driver' = driver /\ driver # "running"
  BY <1>4 DEF OtherCancelBegins, FlagAfterTest, NotYetPending, Thread
<1>5. CASE \/ \E t \in Thread : DropCanceler(t)
           \/ \E t \in Others : OtherStep(t)
  BY <1>5 DEF DropCanceler, OtherStep, OtherCancelsJob, OtherCancelDone, OtherReturns
<1>6. CASE \/ Begin \/ DriverReturns
           \/ \E j \in JobID : \/ StartOp(j) \/ StartOpFails(j) \/ Finalize(j)
                               \/ RunCallback(j) \/ EndErase(j) \/ ReturnUnended(j)
  BY <1>6 DEF Begin, DriverReturns, StartOp, StartOpFails, Finalize, RunCallback, EndErase,
              ReturnUnended
<1> QED
  BY <1>1, <1>2, <1>3, <1>4, <1>5, <1>6 DEF Next, LoopStep, CancelStep

\* For any number of jobs and of threads calling cancel(): every step of a group
\* is one of a cancelable task or changes nothing of it.
THEOREM GroupIsTask == SafeSpec => Task!SafeSpec
<1>1. Init => Task!Init /\ NotYetPending
  BY DEF Init, Task!Init, taskStatus, NotYetPending
<1>2. IInv /\ NotYetPending /\ [Next]_vars => NotYetPending'
  <2>1. ASSUME NotYetPending, UNCHANGED vars PROVE NotYetPending'
    BY <2>1 DEF vars, NotYetPending
  <2> QED
    BY <2>1, NotYetPendingStep DEF IInv
<1>3. IInv /\ NotYetPending /\ [Next]_vars => [Task!Next]_taskStatus
  <2> SUFFICES ASSUME IInv, NotYetPending, Next PROVE [Task!Next]_taskStatus
    BY DEF vars, taskStatus
  <2> USE DEF taskStatus, Task!Next, Task!Start, Task!Settle, Task!Complete, Task!Cancel
  <2>1. cbs \in {0, 1} /\ (~endFlag => cbs = 0)
    BY DEF IInv, Winner
  <2>2. CASE cbs' = cbs + 1 /\ ~endFlag /\ endFlag' /\ driver' = driver
    BY <2>1, <2>2, FlagStep
  <2>3. CASE cbs' = cbs
    <3>1. driver \in {"running", "returned"}
      BY DEF IInv, TypeOK
    <3> QED
      BY <2>1, <2>3, <3>1, FlagStep
  <2> QED
    BY <2>2, <2>3, OutcomeStep
<1> QED
  BY <1>1, <1>2, <1>3, Invariance, PTL DEF SafeSpec, Task!SafeSpec

-----------------------------------------------------------------------------
(* On the loop's thread, a group is one of jobs *)

\* A callback belongs to a job in _jobs, until it ends that.  Operations are
\* canceled when the outcome is decided, and those that could be do not call back
\* any more.
JobsInv ==
  /\ \A j \in JobID : op[j] \in {"checked", "running"} => j \in jobs
  /\ \A j \in JobID : op[j] \in {"endok", "enderr"} => j \notin jobs
  /\ \A j \in JobID : op[j] = "checked" /\ canceler[j] # "none" => ~endFlag
  /\ \A j \in JobID : opCanceled[j] => endFlag

GInv == IInv /\ LoopInv /\ JobsInv

LEMMA JobsInvStep ==
  ASSUME GInv, Others = {}, MayFail = FALSE, Next
  PROVE  JobsInv'
<1> USE DEF GInv, IInv, TypeOK, JobsInv, setVars, cancelVars, flagVars, cbVars, threadVars,
            lifeVars
<1>1. CASE Begin
  BY <1>1 DEF Begin, NewJobID, JobID
<1>2. ASSUME NEW j \in JobID, StartOp(j)
      PROVE  JobsInv'
  BY <1>2 DEF StartOp
<1>3. ASSUME NEW j \in JobID, RunCallback(j) \/ ReturnUnended(j)
      PROVE  JobsInv'
  BY <1>3 DEF RunCallback, ReturnUnended
<1>4. ASSUME NEW j \in JobID, Finalize(j)
      PROVE  JobsInv'
  <2>1. /\ UNCHANGED <<jobs, canceler, opCanceled, endFlag>>
        /\ op' = [op EXCEPT ![j] = FinalizedAs(j)] /\ op[j] = "inflight"
    BY <1>4 DEF Finalize
  <2>2. j \in jobs /\ (endFlag /\ canceler[j] # "none" => opCanceled[j])
    BY <2>1 DEF LoopInv, QuietWhenSettled
  <2>3. FinalizedAs(j) = IF opCanceled[j] THEN "done" ELSE "checked"
    BY DEF FinalizedAs
  <2> QED
    BY <2>1, <2>2, <2>3
<1>5. ASSUME NEW j \in JobID, EndErase(j)
      PROVE  JobsInv'
  <2>1. \A k \in JobID : op[k] \in {"checked", "running", "endok", "enderr"} => k = j
    BY <1>5 DEF EndErase, LoopInv, Busy
  <2> QED
    BY <1>5, <2>1 DEF EndErase
<1>6. ASSUME NEW j \in JobID, EndSettle(j)
      PROVE  JobsInv'
  <2>1. jobs' = jobs /\ op' = [op EXCEPT ![j] = "done"]
    BY <1>6 DEF EndSettle
  <2>2. \A k \in JobID : op[k] # "checked"
    BY <1>6 DEF EndSettle, LoopInv, Busy
  <2>3. endFlag' = TRUE \/ UNCHANGED <<endFlag, opCanceled>>
    BY <1>6 DEF EndSettle
  <2> QED
    BY <2>1, <2>2, <2>3
<1>7. CASE CallCanceler \/ \E j \in JobID : CancelInCallback(j)
  <2>1. UNCHANGED <<jobs, op>> /\ LoopCancel
    BY <1>7 DEF CallCanceler, CancelInCallback
  <2>2. \A k \in JobID : op[k] # "checked"
    BY <1>7 DEF CallCanceler, CancelInCallback, LoopIdle, LoopInv, Busy
  <2>3. endFlag' = TRUE \/ UNCHANGED <<endFlag, opCanceled>>
    BY <2>1 DEF LoopCancel
  <2> QED
    BY <2>1, <2>2, <2>3
<1>8. CASE DriverReturns \/ \E t \in Thread : DropCanceler(t)
  BY <1>8 DEF DriverReturns, DropCanceler
<1>9. CASE Destroy
  <2>1. UNCHANGED <<jobs, op, canceler, opCanceled>> /\ endFlag' = TRUE
    BY <1>9 DEF Destroy
  <2>2. \A k \in JobID : op[k] # "checked"
    BY <1>9 DEF Destroy, Referenced, ClosureAlive
  <2> QED
    BY <2>1, <2>2
<1> QED
  BY <1>1, <1>2, <1>3, <1>4, <1>5, <1>6, <1>7, <1>8, <1>9
  DEF Next, LoopStep, CancelStep, OtherStep, StartOpFails

\* The phase of one job, and what changes it.
PhaseOf(j) ==
  IF op[j] \in {"running", "endok", "enderr"} THEN "running"
  ELSE IF j \notin jobs THEN "none"
  ELSE IF op[j] = "done" THEN "left"
  ELSE IF op[j] # "begun" /\ canceler[j] = "none" THEN "plain"
  ELSE "waiting"

LEMMA Phases ==
  /\ jobPhase = [j \in JobID |-> PhaseOf(j)]
  /\ jobPhase' = [j \in JobID |-> PhaseOf(j)']
BY DEF jobPhase, PhaseOf

LEMMA PhasesKept ==
  ASSUME \A k \in JobID : PhaseOf(k)' = PhaseOf(k)
  PROVE  jobPhase' = jobPhase
BY Phases

LEMMA PhaseChanged ==
  ASSUME NEW j \in JobID, \A k \in JobID \ {j} : PhaseOf(k)' = PhaseOf(k)
  PROVE  jobPhase' = [jobPhase EXCEPT ![j] = PhaseOf(j)']
BY Phases

\* The group is pending until its flag is set.
LEMMA PendingGroup ==
  ASSUME GInv
  PROVE  Group!Pending <=> ~endFlag
BY DEF GInv, IInv, TypeOK, Winner, Group!Pending, groupOutcome

LEMMA OutcomeKept == UNCHANGED <<endFlag, result>> => groupOutcome' = groupOutcome
BY DEF groupOutcome

\* The steps that only change how far an operation is.
LEMMA OperationStep ==
  ASSUME GInv, Others = {}, NEW j \in JobID,
         StartOp(j) \/ Finalize(j) \/ RunCallback(j) \/ EndErase(j) \/ ReturnUnended(j)
  PROVE  Group!Next \/ UNCHANGED <<jobPhase, groupOutcome>>
<1> USE DEF GInv, IInv, TypeOK, setVars, cancelVars, flagVars, cbVars
<1>1. UNCHANGED <<endFlag, result>> /\ groupOutcome' = groupOutcome
  BY OutcomeKept DEF StartOp, Finalize, RunCallback, EndErase, ReturnUnended
<1>2. \A k \in JobID \ {j} : PhaseOf(k)' = PhaseOf(k)
  BY DEF StartOp, Finalize, RunCallback, EndErase, ReturnUnended, PhaseOf
<1>3. jobPhase' = [jobPhase EXCEPT ![j] = PhaseOf(j)'] /\ jobPhase[j] = PhaseOf(j)
  BY <1>2, PhaseChanged, Phases
<1>4. PhaseOf(j)' = PhaseOf(j) => jobPhase' = jobPhase
  BY <1>2, PhasesKept
<1>5. CASE StartOp(j)
  <2>1. PhaseOf(j) = "waiting" /\ PhaseOf(j)' \in {"waiting", "plain"}
    BY <1>5 DEF StartOp, PhaseOf, LoopInv
  <2>2. PhaseOf(j)' = "plain" => Group!Assign(j)
    BY <1>1, <1>3, <2>1 DEF Group!Assign
  <2> QED
    BY <1>1, <1>4, <2>1, <2>2 DEF Group!Next
<1>6. CASE Finalize(j)
  <2>1. PhaseOf(j) \in {"waiting", "plain"}
    BY <1>6 DEF Finalize, PhaseOf, LoopInv
  <2>2. CASE opCanceled[j]
    <3>1. PhaseOf(j)' = "left"
      BY <1>6, <2>2 DEF Finalize, FinalizedAs, PhaseOf, LoopInv
    <3>2. ~Group!Pending
      BY <2>2, PendingGroup DEF JobsInv
    <3>3. Group!Leave(j)
      BY <1>1, <1>3, <2>1, <3>1, <3>2 DEF Group!Leave
    <3> QED
      BY <3>3 DEF Group!Next
  <2>3. CASE ~opCanceled[j]
    <3>1. PhaseOf(j)' = PhaseOf(j)
      BY <1>6, <2>3 DEF Finalize, FinalizedAs, PhaseOf, LoopInv
    <3> QED
      BY <1>1, <1>4, <3>1
  <2> QED
    BY <2>2, <2>3
<1>7. CASE RunCallback(j)
  <2>1. PhaseOf(j)' = "running"
    BY <1>7 DEF RunCallback, PhaseOf
  <2>2. \/ PhaseOf(j) = "plain"
        \/ PhaseOf(j) = "waiting" /\ ~endFlag
    BY <1>7 DEF RunCallback, PhaseOf, JobsInv
  <2>3. Group!MayCall(j)
    BY <1>3, <2>2, PendingGroup DEF Group!MayCall
  <2>4. Group!Call(j)
    BY <1>1, <1>3, <2>1, <2>3 DEF Group!Call
  <2> QED
    BY <2>4 DEF Group!Next
<1>8. CASE EndErase(j)
  <2>1. PhaseOf(j)' = PhaseOf(j)
    BY <1>8 DEF EndErase, PhaseOf
  <2> QED
    BY <1>1, <1>4, <2>1
<1>9. CASE ReturnUnended(j)
  <2>1. PhaseOf(j) = "running" /\ PhaseOf(j)' = "left"
    BY <1>9 DEF ReturnUnended, PhaseOf, JobsInv
  <2>2. Group!Leave(j)
    BY <1>1, <1>3, <2>1 DEF Group!Leave
  <2> QED
    BY <2>2 DEF Group!Next
<1> QED
  BY <1>5, <1>6, <1>7, <1>8, <1>9

LEMMA BeginStep == ASSUME GInv, Referenced, Begin PROVE Group!Next
<1> USE DEF GInv, IInv, TypeOK, setVars, cancelVars, flagVars, cbVars
<1>1. PICK j \in JobID : j = nextJobID /\ j \notin jobs /\ op[j] = "none"
  BY MaxJobsAssumption DEF Begin, JobID, Accounting
<1>2. jobs' = jobs \cup {j} /\ op' = [op EXCEPT ![j] = "begun"] /\ UNCHANGED canceler
  BY <1>1 DEF Begin, NewJobID
<1>3. Group!Pending /\ groupOutcome' = groupOutcome
  BY PendingGroup, OutcomeKept DEF Begin, LoopInv
<1>4. PhaseOf(j) = "none" /\ PhaseOf(j)' = "waiting"
  BY <1>1, <1>2 DEF PhaseOf
<1>5. \A k \in JobID \ {j} : PhaseOf(k)' = PhaseOf(k)
  BY <1>2 DEF PhaseOf
<1>6. jobPhase' = Group!With({j}) /\ Group!NotBegun({j})
  BY <1>1, <1>4, <1>5, Phases DEF Group!With, Group!NotBegun
<1>7. Group!Begin({j})
  BY <1>3, <1>6 DEF Group!Begin
<1> QED
  BY <1>1, <1>7 DEF Group!Next

\* The canceler of a job decides nothing about its phase but whether there is one.
LEMMA CancelAllPhases ==
  ASSUME GInv, CancelAllJobs, NEW k \in JobID
  PROVE  canceler'[k] = "none" <=> canceler[k] = "none"
BY DEF GInv, IInv, TypeOK, CancelAllJobs, Cancels, CalledCanceler

LEMMA EndStep == ASSUME GInv, NEW j \in JobID, EndSettle(j) PROVE Group!Next
<1> USE DEF GInv, IInv, TypeOK, setVars, cancelVars, flagVars, cbVars
<1>1. op[j] \in {"endok", "enderr"} /\ j \notin jobs /\ jobs' = jobs
      /\ op' = [op EXCEPT ![j] = "done"]
  BY DEF EndSettle, JobsInv
<1>2. \A k \in JobID \ {j} : op[k] \notin {"running", "endok", "enderr"}
  BY <1>1 DEF LoopInv, Busy
<1>3. \A k \in JobID : canceler'[k] = "none" <=> canceler[k] = "none"
  BY CancelAllPhases DEF EndSettle
<1>4. PhaseOf(j) = "running" /\ PhaseOf(j)' = "none"
  BY <1>1 DEF PhaseOf
<1>5. \A k \in JobID \ {j} : PhaseOf(k)' = PhaseOf(k) /\ (PhaseOf(k) = "none" <=> k \notin jobs)
  BY <1>1, <1>2, <1>3 DEF PhaseOf
<1>6. jobPhase' = [Group!With({}) EXCEPT ![j] = "none"] /\ jobPhase[j] = "running"
  BY <1>4, <1>5, Phases DEF Group!With
<1>7. Group!NoneLeft(jobPhase') <=> jobs = {}
  BY <1>1, <1>4, <1>5, Phases DEF Group!NoneLeft
<1>8. groupOutcome' = IF ~Group!Pending THEN groupOutcome
                      ELSE IF op[j] = "enderr" THEN "error"
                      ELSE IF Group!NoneLeft(jobPhase') THEN "ok"
                      ELSE "none"
  <2>1. CASE endFlag
    BY <2>1, PendingGroup, OutcomeKept DEF EndSettle
  <2>2. CASE ~endFlag /\ EndsGroup(j)
    BY <2>2, <1>1, <1>7, PendingGroup DEF EndSettle, EndsGroup, CallCb, groupOutcome
  <2>3. CASE ~endFlag /\ ~EndsGroup(j)
    BY <2>3, <1>7, PendingGroup, OutcomeKept DEF EndSettle, EndsGroup, Group!Pending
  <2> QED
    BY <2>1, <2>2, <2>3
<1>9. Group!End(j, {}, op[j] = "enderr")
  BY <1>6, <1>8 DEF Group!End
<1> QED
  BY <1>9 DEF Group!Next

LEMMA SettleStep ==
  ASSUME GInv, Others = {},
         CallCanceler \/ (\E j \in JobID : CancelInCallback(j)) \/ Destroy
  PROVE  Group!Next \/ UNCHANGED <<jobPhase, groupOutcome>>
<1> USE DEF GInv, IInv, TypeOK, setVars, cancelVars, flagVars, cbVars
<1>1. UNCHANGED <<jobs, op>>
      /\ \A k \in JobID : canceler'[k] = "none" <=> canceler[k] = "none"
  BY CancelAllPhases DEF CallCanceler, CancelInCallback, LoopCancel, Destroy
<1>2. jobPhase' = jobPhase
  BY <1>1, PhasesKept DEF PhaseOf
<1>3. CASE endFlag
  <2>1. UNCHANGED <<endFlag, result>>
    BY <1>3 DEF CallCanceler, CancelInCallback, LoopCancel, Destroy, DestructorCalls
  <2> QED
    BY <1>2, <2>1, OutcomeKept
<1>4. CASE ~endFlag /\ ~Destroy
  <2>1. result' = result /\ endFlag' = TRUE
    BY <1>4 DEF CallCanceler, CancelInCallback, LoopCancel
  <2>2. result = "none"
    BY <1>4 DEF Winner
  <2>3. Group!Cancel
    BY <1>2, <1>4, <2>1, <2>2, PendingGroup DEF Group!Cancel, groupOutcome
  <2> QED
    BY <2>3 DEF Group!Next
<1>5. CASE ~endFlag /\ Destroy
  <2>1. result' = DestructorResult
    BY <1>5 DEF Destroy, DestructorCalls, CallCb
  <2>2. \A k \in JobID : op[k] \notin {"running", "endok", "enderr"}
    BY <1>5 DEF Destroy, Referenced, ClosureAlive
  <2>3. Group!NoneLeft(jobPhase) <=> jobs = {}
    BY <2>2, Phases DEF Group!NoneLeft, PhaseOf
  <2>4. Group!Drop
    BY <1>2, <1>5, <2>1, <2>3, PendingGroup DEF Group!Drop, DestructorResult, groupOutcome
  <2> QED
    BY <2>4 DEF Group!Next
<1> QED
  BY <1>3, <1>4, <1>5

LEMMA JobGroupStep ==
  ASSUME GInv, Others = {}, MayFail = FALSE, Next
  PROVE  Group!Next \/ UNCHANGED <<jobPhase, groupOutcome>>
<1>1. CASE DriverReturns \/ \E t \in Thread : DropCanceler(t)
  <2>1. UNCHANGED <<jobs, op, canceler, endFlag, result>>
    BY <1>1 DEF DriverReturns, DropCanceler, cancelVars, flagVars, cbVars, setVars
  <2> QED
    BY <2>1, OutcomeKept, PhasesKept DEF PhaseOf
<1> QED
  BY <1>1, BeginStep, OperationStep, EndStep, SettleStep
  DEF Next, LoopStep, CancelStep, OtherStep, StartOpFails

\* For any number of jobs, on the loop's thread and with operations that do not call
\* back at once: a group reports success with the end of its last job and failure
\* with the first error, and no operation that could be canceled calls back once the
\* group has an outcome.
THEOREM GroupIsJobGroup ==
  ASSUME Others = {}, MayFail = FALSE
  PROVE  SafeSpec => ImplementsGroup
<1>1. Init => Group!Init /\ LoopInv /\ JobsInv
  BY LoopInvInit DEF Init, JobsInv, Group!Init, jobPhase, groupOutcome
<1>2. IInv /\ LoopInv /\ JobsInv /\ [Next]_vars => LoopInv' /\ JobsInv'
  <2> SUFFICES ASSUME IInv, LoopInv, JobsInv, [Next]_vars PROVE LoopInv' /\ JobsInv'
    OBVIOUS
  <2>1. CASE Next
    BY <2>1, LoopInvStep, JobsInvStep DEF GInv
  <2>2. CASE UNCHANGED vars
    BY <2>2, LoopInvStutters DEF vars, JobsInv
  <2> QED
    BY <2>1, <2>2
<1>3. IInv /\ LoopInv /\ JobsInv /\ [Next]_vars => [Group!Next]_<<jobPhase, groupOutcome>>
  <2> SUFFICES ASSUME IInv, LoopInv, JobsInv, Next
               PROVE  Group!Next \/ UNCHANGED <<jobPhase, groupOutcome>>
    BY PhasesKept, OutcomeKept DEF vars, PhaseOf
  <2> QED
    BY JobGroupStep DEF GInv
<1> QED
  BY <1>1, <1>2, <1>3, Invariance, PTL DEF SafeSpec, ImplementsGroup, Group!Spec

=============================================================================
