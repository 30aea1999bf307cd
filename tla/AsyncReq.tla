------------------------------ MODULE AsyncReq ------------------------------
(***************************************************************************)
(* One asynchronous file-system request of fs.cc: the request object, its  *)
(* reference count (ref.hh), the libuv thread pool that performs it, the   *)
(* finalizer the event loop runs, and the cancelers that other code holds. *)
(*                                                                         *)
(* A request of kind "fs" (stat, lstat, readdir, readlink) is performed by *)
(* libuv itself.  A request of kind "work" (AsyncWork, used by readfile)   *)
(* runs a main function on a pool thread, which yields the callback.       *)
(*                                                                         *)
(* A handle is one AsyncCanceler object: the closure makeReqCanceler       *)
(* returns, or a copy of it.  Each holds a Ref to the request until it is  *)
(* called or destroyed.                                                    *)
(***************************************************************************)
EXTENDS Integers, FiniteSets

CONSTANTS
  Thread,   \* threads that run code of the program
  Loop,     \* the one that runs the event loop
  Handle,   \* identities of AsyncCanceler objects
  NoHandle, \* not a handle
  Shared    \* TRUE when two threads may call one AsyncCanceler object at once

ASSUME ThreadAssumption == Loop \in Thread
ASSUME HandleAssumption == IsFiniteSet(Handle) /\ NoHandle \notin Handle
ASSUME SharedAssumption == Shared \in BOOLEAN

VARIABLES
  kind,      \* which of the two families of request this is
  uv,        \* where libuv has got to with it
  ecanceled, \* uv_cancel removed it from the pool's queue
  hasCb,     \* the request holds a callback
  canceled,  \* Req::canceled
  refc,      \* RefCounted::__refc
  freed,     \* the request has been deleted
  ref,       \* per handle: the Ref its closure holds
  pc,        \* per thread: how far it is inside a canceler's body
  arg,       \* per thread: the handle it is calling
  fin,       \* how far the loop is inside the request's finalizer
  cbs,       \* number of times the callback was called
  revoked,   \* a canceler returned before the loop took up the request
  fault      \* undefined behaviour that has happened

vars == <<kind, uv, ecanceled, hasCb, canceled, refc, freed, ref, pc, arg, fin,
          cbs, revoked, fault>>

uvVars     == <<kind, uv, ecanceled, hasCb>>
refVars    == <<refc, freed, fault>>
callVars   == <<pc, arg>>
finVars    == <<fin, cbs>>

TypeOK ==
  /\ kind \in {"none", "fs", "work"}
  /\ uv \in {"none", "queued", "running", "main", "posted", "failed"}
  /\ ecanceled \in BOOLEAN
  /\ hasCb \in BOOLEAN
  /\ canceled \in BOOLEAN
  /\ refc \in Nat
  /\ freed \in BOOLEAN
  /\ ref \in [Handle -> {"none", "ref", "null"}]
  /\ pc \in [Thread -> {"idle", "cancel", "flag", "reset", "release", "null"}]
  /\ arg \in [Thread -> Handle \cup {NoHandle}]
  /\ fin \in {"idle", "cb", "incb", "release", "finished"}
  /\ cbs \in Nat
  /\ revoked \in BOOLEAN
  /\ fault \in {"none", "freed", "null", "moved"}

Init ==
  /\ kind = "none"
  /\ uv = "none"
  /\ ecanceled = FALSE
  /\ hasCb = FALSE
  /\ canceled = FALSE
  /\ refc = 0
  /\ freed = FALSE
  /\ ref = [h \in Handle |-> "none"]
  /\ pc = [t \in Thread |-> "idle"]
  /\ arg = [t \in Thread |-> NoHandle]
  /\ fin = "idle"
  /\ cbs = 0
  /\ revoked = FALSE
  /\ fault = "none"

-----------------------------------------------------------------------------
(* Reference counting *)

Submitted == uv \notin {"none", "failed"}

\* Releasing a request that is already deleted touches freed memory.
ReleaseRef ==
  /\ refc' = refc - 1
  /\ freed' = IF refc = 1 THEN TRUE ELSE freed
  /\ fault' = IF freed THEN "freed" ELSE fault

\* Bug: copying a Ref does not retain.
RetainRef_Forgotten == UNCHANGED refVars

RetainRef == refc' = refc + 1 /\ UNCHANGED <<freed, fault>>

\* A new request has one reference, for its finalizer, and makeReqCanceler
\* adds one for the closure.
RefsAtSubmit == 2

\* Using the request through handle h: h holds a null pointer once another
\* caller has reset it, and the request may be gone.
Deref(h) == fault' = IF ref[h] # "ref" THEN "null"
                     ELSE IF freed THEN "freed" ELSE fault

\* Some thread is in the middle of the body of handle h.
InUse(h) == \E t \in Thread : pc[t] # "idle" /\ arg[t] = h

\* Threads other than the loop's run the program's code at any time.  The
\* loop's thread does so outside finalizers and inside the callback.
RunsUserCode(t) ==
  /\ pc[t] = "idle"
  /\ t = Loop => fin \in {"idle", "incb", "finished"}

-----------------------------------------------------------------------------
(* Submission, on the loop's thread *)

Submit(k, h) ==
  /\ uv = "none"
  /\ kind' = k
  /\ uv' = "queued"
  /\ hasCb' = (k = "fs")
  /\ refc' = RefsAtSubmit
  /\ ref' = [ref EXCEPT ![h] = "ref"]
  /\ UNCHANGED <<ecanceled, canceled, freed, callVars, finVars, revoked, fault>>

\* libuv refuses the request.  The request is deleted again and the caller
\* gets a canceler without effect.  _AsyncFSCall reports the error through
\* the parameter it has just moved into the request: the call reaches the
\* callback or an empty function, as the size of the closure has it.
SubmitFails(k, h) ==
  /\ uv = "none"
  /\ kind' = k
  /\ uv' = "failed"
  /\ freed' = TRUE
  /\ ref' = [ref EXCEPT ![h] = "null"]
  /\ \/ cbs' = cbs + 1 /\ fault' = fault
     \/ k = "fs" /\ cbs' = cbs /\ fault' = "moved"
  /\ UNCHANGED <<ecanceled, hasCb, canceled, refc, callVars, fin, revoked>>

-----------------------------------------------------------------------------
(* The thread pool *)

\* A pool thread takes the request off the queue.
PoolStart ==
  /\ uv = "queued"
  /\ uv' = "running"
  /\ UNCHANGED <<kind, ecanceled, hasCb, canceled, refVars, ref, callVars,
                 finVars, revoked>>

\* The pool thread is done with a system call.
PoolFinish ==
  /\ uv = "running" /\ kind = "fs"
  /\ uv' = "posted"
  /\ UNCHANGED <<kind, ecanceled, hasCb, canceled, refVars, ref, callVars,
                 finVars, revoked>>

\* UVWorkCB reads the flag once, before it calls main.
WorkCheck ==
  /\ uv = "running" /\ kind = "work"
  /\ uv' = IF canceled THEN "posted" ELSE "main"
  /\ UNCHANGED <<kind, ecanceled, hasCb, canceled, refVars, ref, callVars,
                 finVars, revoked>>

WorkMainReturns ==
  /\ uv = "main"
  /\ uv' = "posted"
  /\ hasCb' = TRUE
  /\ UNCHANGED <<kind, ecanceled, canceled, refVars, ref, callVars, finVars,
                 revoked>>

-----------------------------------------------------------------------------
(* The finalizer, on the loop's thread *)

\* Bug: the finalizer trusts uv_cancel's result alone.
CallsBack_IgnoresFlag == IF kind = "fs" THEN ~ecanceled ELSE hasCb

\* The condition under which the finalizer calls the callback.
CallsBack ==
  /\ ~canceled
  /\ IF kind = "fs" THEN ~ecanceled ELSE hasCb

\* Bug: the finalizer of a canceled request returns early, without releasing.
FinalizerSkip_ReturnsEarly == "finished"

FinalizerSkip == "release"

Finalize ==
  /\ uv = "posted" /\ fin = "idle" /\ pc[Loop] = "idle"
  /\ fin' = IF CallsBack THEN "cb" ELSE FinalizerSkip
  /\ UNCHANGED <<uvVars, canceled, refVars, ref, callVars, cbs, revoked>>

CallCallback ==
  /\ fin = "cb"
  /\ fin' = "incb"
  /\ cbs' = cbs + 1
  /\ UNCHANGED <<uvVars, canceled, refVars, ref, callVars, revoked>>

CallbackReturns ==
  /\ fin = "incb" /\ pc[Loop] = "idle"
  /\ fin' = "release"
  /\ UNCHANGED <<uvVars, canceled, refVars, ref, callVars, cbs, revoked>>

FinalRelease ==
  /\ fin = "release"
  /\ fin' = "finished"
  /\ ReleaseRef
  /\ UNCHANGED <<uvVars, canceled, ref, callVars, cbs, revoked>>

-----------------------------------------------------------------------------
(* Calling an AsyncCanceler, one step per access to shared memory *)

\* The test at the top of the closure; a closure already reset does nothing.
CallCanceler(t, h) ==
  /\ RunsUserCode(t)
  /\ ref[h] = "ref"
  /\ Shared \/ ~InUse(h)
  /\ pc' = [pc EXCEPT ![t] = "cancel"]
  /\ arg' = [arg EXCEPT ![t] = h]
  /\ UNCHANGED <<uvVars, canceled, refVars, ref, finVars, revoked>>

\* uv_cancel succeeds only while no pool thread has taken the request.
UvCancel(t) ==
  /\ pc[t] = "cancel"
  /\ Deref(arg[t])
  /\ pc' = [pc EXCEPT ![t] = "flag"]
  /\ IF uv = "queued"
       THEN uv' = "posted" /\ ecanceled' = TRUE
       ELSE UNCHANGED <<uv, ecanceled>>
  /\ UNCHANGED <<kind, hasCb, canceled, refc, freed, ref, arg, finVars, revoked>>

SetCanceled(t) ==
  /\ pc[t] = "flag"
  /\ Deref(arg[t])
  /\ canceled' = TRUE
  /\ pc' = [pc EXCEPT ![t] = "reset"]
  /\ UNCHANGED <<uvVars, refc, freed, ref, arg, finVars, revoked>>

\* Ref::resetSelf: test, release, store null.
ResetTest(t) ==
  /\ pc[t] = "reset"
  /\ pc' = [pc EXCEPT ![t] = IF ref[arg[t]] = "ref" THEN "release" ELSE "idle"]
  /\ UNCHANGED <<uvVars, canceled, refVars, ref, arg, finVars, revoked>>

ResetRelease(t) ==
  /\ pc[t] = "release"
  /\ ReleaseRef
  /\ pc' = [pc EXCEPT ![t] = "null"]
  /\ UNCHANGED <<uvVars, canceled, ref, arg, finVars, revoked>>

\* Bug: resetSelf releases the reference and keeps the pointer.
ResetPointer_Kept == "ref"

ResetPointer == "null"

\* The last store, after which the canceler returns.
ResetNull(t) ==
  /\ pc[t] = "null"
  /\ ref' = [ref EXCEPT ![arg[t]] = ResetPointer]
  /\ pc' = [pc EXCEPT ![t] = "idle"]
  /\ revoked' = (revoked \/ fin = "idle")
  /\ UNCHANGED <<uvVars, canceled, refVars, arg, finVars>>

-----------------------------------------------------------------------------
(* Copying and destroying AsyncCanceler objects *)

CopyHandle(t, h, g) ==
  /\ RunsUserCode(t)
  /\ ref[h] # "none" /\ ref[g] = "none"
  /\ ~InUse(h)
  /\ ref' = [ref EXCEPT ![g] = ref[h]]
  /\ IF ref[h] = "ref" THEN RetainRef ELSE UNCHANGED refVars
  /\ UNCHANGED <<uvVars, canceled, callVars, finVars, revoked>>

\* The closure's destructor releases the Ref that was not reset.
DestroyHandle(t, h) ==
  /\ RunsUserCode(t)
  /\ ref[h] # "none"
  /\ ~InUse(h)
  /\ ref' = [ref EXCEPT ![h] = "none"]
  /\ IF ref[h] = "ref" THEN ReleaseRef ELSE UNCHANGED refVars
  /\ UNCHANGED <<uvVars, canceled, callVars, finVars, revoked>>

-----------------------------------------------------------------------------

PoolStep == PoolStart \/ PoolFinish \/ WorkCheck \/ WorkMainReturns

CancelerStep(t) ==
  UvCancel(t) \/ SetCanceled(t) \/ ResetTest(t) \/ ResetRelease(t) \/ ResetNull(t)

UserStep(t) ==
  \E h \in Handle :
    \/ CallCanceler(t, h)
    \/ DestroyHandle(t, h)
    \/ \E g \in Handle : CopyHandle(t, h, g)

Next ==
  /\ fault = "none"
  /\ \/ \E k \in {"fs", "work"}, h \in Handle : Submit(k, h) \/ SubmitFails(k, h)
     \/ PoolStep
     \/ Finalize \/ CallCallback \/ CallbackReturns \/ FinalRelease
     \/ \E t \in Thread : CancelerStep(t) \/ UserStep(t)

\* The pool and the loop keep working, and code that entered a canceler leaves
\* it.  Finalize and CallbackReturns need strong fairness because the loop's
\* thread can be inside a canceler again and again: code that runs on the
\* loop's thread eventually returns to the loop.
Fairness ==
  /\ WF_vars(fault = "none" /\ PoolStep)
  /\ SF_vars(fault = "none" /\ Finalize)
  /\ WF_vars(fault = "none" /\ CallCallback)
  /\ SF_vars(fault = "none" /\ CallbackReturns)
  /\ WF_vars(fault = "none" /\ FinalRelease)
  /\ \A t \in Thread : WF_vars(fault = "none" /\ CancelerStep(t))

SafeSpec == Init /\ [][Next]_vars

Spec == SafeSpec /\ Fairness

-----------------------------------------------------------------------------
(* Properties *)

\* The handles whose closure counts for one reference: a closure that has
\* released its reference but not yet stored null counts no more.
Owners ==
  {h \in Handle : ref[h] = "ref" /\ ~ \E t \in Thread : pc[t] = "null" /\ arg[t] = h}

LoopOwns == Submitted /\ fin # "finished"

\* The reference count equals the number of parties that may still use the
\* request: every canceler closure not yet reset, and the finalizer that has
\* not run.  The request is deleted exactly when nobody is left, whatever the
\* order in which cancelers, copies, the pool and the loop get to it.
RefCountExact ==
  /\ refc = Cardinality(Owners) + (IF LoopOwns THEN 1 ELSE 0)
  /\ uv # "none" => (freed <=> refc = 0)

\* No thread reaches the request, in a canceler or in the finalizer, after it
\* was deleted, and none goes through a closure's null pointer.
NoUseAfterFree == fault \notin {"freed", "null"}

\* A canceler that has returned before the loop took up the finished request
\* keeps the callback from being called, on whatever thread it ran.
RevokedNeverCalled == revoked => cbs = 0

\* A request whose cancelers are all reset or destroyed is deleted in the end:
\* the finalizer runs even for a canceled request and drops the last reference.
NoLeak == (Submitted /\ Owners = {}) ~> freed

\* A request as a cancelable task, whichever threads its cancelers run on: it
\* is completed once the finalizer has decided to call back, and canceled from
\* the moment uv_cancel or the flag takes effect before that.
taskStatus ==
  IF cbs > 0 \/ fin = "cb" THEN "completed"
  ELSE IF ~Submitted THEN "idle"
  ELSE IF canceled \/ ecanceled THEN "canceled"
  ELSE "pending"

Task == INSTANCE CancelableTask WITH status <- taskStatus

\* A request implements CancelableTask: it settles once, a canceled request
\* never calls back, and every request settles.
ImplementsTask == Task!Spec

=============================================================================
