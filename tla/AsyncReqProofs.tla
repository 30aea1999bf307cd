--------------------------- MODULE AsyncReqProofs ---------------------------
(***************************************************************************)
(* Proofs about AsyncReq for any finite set of cancelers and any set of    *)
(* threads, when no canceler object is called by two threads at once.      *)
(***************************************************************************)
EXTENDS AsyncReq, FiniteSetTheorems, TLAPS

\* A thread inside a canceler's body is alone in it, and the closure still
\* holds its pointer until that thread's last store.
CallsExclusive ==
  \A t \in Thread : pc[t] # "idle" =>
    /\ arg[t] \in Handle
    /\ ref[arg[t]] = "ref"
    /\ \A u \in Thread \ {t} : pc[u] # "idle" => arg[u] # arg[t]

\* What the stages of a request exclude.
Stages ==
  /\ ~Submitted => fin = "idle" /\ \A h \in Handle : ref[h] # "ref"
  /\ fin # "idle" => uv = "posted"
  /\ uv = "none" => ~freed

\* What a thread inside a canceler, and one that has returned, leave behind.
Revocation ==
  /\ \A t \in Thread : pc[t] \in {"reset", "release", "null"} => canceled
  /\ revoked => Submitted /\ canceled /\ fin \notin {"cb", "incb"} /\ cbs = 0
  /\ Submitted /\ fin = "idle" => cbs = 0
  /\ uv = "none" => cbs = 0

\* The inductive invariant.
IInv ==
  /\ TypeOK
  /\ CallsExclusive
  /\ Stages
  /\ RefCountExact
  /\ NoUseAfterFree
  /\ Revocation

-----------------------------------------------------------------------------

\* The owners are counted by a natural number, which is positive when there
\* is one.
LEMMA OwnersCounted ==
  ASSUME TypeOK
  PROVE  /\ IsFiniteSet(Owners)
         /\ Cardinality(Owners) \in Nat
         /\ Owners # {} => Cardinality(Owners) > 0
<1>1. Owners \subseteq Handle
  BY DEF Owners
<1>2. IsFiniteSet(Owners)
  BY <1>1, HandleAssumption, FS_Subset
<1> QED
  BY <1>2, FS_CardinalityType, FS_EmptySet

\* While a party that owns a reference exists, the request is not deleted.
LEMMA OwnedNotFreed ==
  ASSUME TypeOK, RefCountExact, Submitted, Owners # {} \/ LoopOwns
  PROVE  refc > 0 /\ ~freed
<1>1. Cardinality(Owners) \in Nat /\ (Owners # {} => Cardinality(Owners) > 0)
  BY OwnersCounted
<1>2. refc = Cardinality(Owners) + (IF LoopOwns THEN 1 ELSE 0)
  BY DEF RefCountExact
<1>3. refc > 0
  BY <1>1, <1>2
<1> QED
  BY <1>3 DEF RefCountExact, Submitted, TypeOK

\* A thread that has not released its closure's reference is an owner's caller.
LEMMA CallerOwns ==
  ASSUME TypeOK, CallsExclusive, NEW t \in Thread, pc[t] \notin {"idle", "null"}
  PROVE  arg[t] \in Owners
BY DEF TypeOK, CallsExclusive, Owners

\* A step that leaves the parties and the count alone keeps them in agreement.
LEMMA CountUnchanged ==
  ASSUME RefCountExact, Owners' = Owners, LoopOwns' = LoopOwns,
         UNCHANGED <<refc, freed>>, uv # "none" \/ uv' = uv
  PROVE  RefCountExact'
BY DEF RefCountExact

\* Releasing a request that has not been deleted is a proper release.
LEMMA ReleaseTyped ==
  ASSUME TypeOK, refc > 0, ~freed, ReleaseRef
  PROVE  /\ refc' \in Nat
         /\ freed' \in BOOLEAN
         /\ freed' <=> refc' = 0
         /\ fault' = fault
<1>1. freed = FALSE /\ refc \in Nat
  BY DEF TypeOK
<1>2. refc' \in Nat /\ refc' = refc - 1
  BY <1>1 DEF ReleaseRef
<1>3. CASE refc = 1
  BY <1>1, <1>2, <1>3 DEF ReleaseRef
<1>4. CASE refc # 1
  <2>1. freed' = FALSE
    BY <1>1, <1>4 DEF ReleaseRef
  <2>2. fault' = fault
    BY <1>1 DEF ReleaseRef
  <2>3. refc' # 0
    BY <1>1, <1>2, <1>4
  <2> QED
    BY <1>2, <2>1, <2>2, <2>3
<1> QED
  BY <1>3, <1>4

\* Dropping one owner and its reference keeps them in agreement.
LEMMA OwnerReleased ==
  ASSUME IInv, Submitted, Submitted', NEW h \in Owners, Owners' = Owners \ {h},
         LoopOwns' = LoopOwns, ReleaseRef
  PROVE  RefCountExact'
<1> USE DEF IInv
<1>1. IsFiniteSet(Owners) /\ Cardinality(Owners) \in Nat
  BY OwnersCounted
<1>2. Cardinality(Owners') = Cardinality(Owners) - 1
  BY <1>1, FS_RemoveElement
<1>3. refc = Cardinality(Owners) + (IF LoopOwns THEN 1 ELSE 0)
  BY DEF RefCountExact
<1>4. refc' = Cardinality(Owners') + (IF LoopOwns' THEN 1 ELSE 0)
  BY <1>1, <1>2, <1>3 DEF ReleaseRef
<1>5. refc > 0 /\ ~freed
  BY OwnedNotFreed
<1>6. freed' <=> refc' = 0
  BY <1>5, ReleaseTyped
<1> QED
  BY <1>4, <1>6 DEF RefCountExact

-----------------------------------------------------------------------------
(* The initial state *)

LEMMA InitIInv == Init => IInv
<1> SUFFICES ASSUME Init PROVE IInv
  OBVIOUS
<1>1. TypeOK
  BY ThreadAssumption DEF Init, TypeOK
<1>2. Owners = {}
  BY DEF Init, Owners
<1>3. RefCountExact
  BY <1>2, FS_EmptySet DEF Init, RefCountExact, LoopOwns, Submitted
<1>4. CallsExclusive /\ Stages /\ NoUseAfterFree /\ Revocation
  BY DEF Init, CallsExclusive, Stages, NoUseAfterFree, Revocation, Submitted
<1> QED
  BY <1>1, <1>3, <1>4 DEF IInv

-----------------------------------------------------------------------------
(* One lemma per group of actions *)

LEMMA SubmitStep ==
  ASSUME IInv, NEW k \in {"fs", "work"}, NEW h \in Handle, Submit(k, h)
  PROVE  IInv'
<1> USE DEF IInv
<1>1. TypeOK'
  BY DEF Submit, TypeOK, RefsAtSubmit, callVars, finVars
<1>2. \A t \in Thread : pc[t] = "idle"
  BY DEF Submit, TypeOK, CallsExclusive, Stages, Submitted
<1>3. fin = "idle" /\ \A g \in Handle : ref[g] # "ref"
  BY DEF Submit, Stages, Submitted
<1>4. Owners = {} /\ Owners' = {h}
  BY <1>2, <1>3 DEF Owners, Submit, callVars, TypeOK
<1>5. LoopOwns' /\ ~LoopOwns
  BY <1>3 DEF LoopOwns, Submit, Submitted, finVars
<1>6. refc' = 2 /\ ~freed'
  <2>1. refc = 0 /\ ~freed
    BY <1>4, <1>5, FS_EmptySet, OwnersCounted DEF RefCountExact, Submit, Stages
  <2> QED
    BY <2>1 DEF Submit, RefsAtSubmit
<1>7. RefCountExact'
  <2>1. Cardinality({h}) = 1
    BY FS_Singleton
  <2> QED
    BY <1>4, <1>5, <1>6, <2>1 DEF RefCountExact
<1>8. CallsExclusive' /\ NoUseAfterFree'
  BY <1>2 DEF CallsExclusive, NoUseAfterFree, Submit, callVars
<1>9. Stages' /\ Revocation'
  BY <1>2, <1>3 DEF Stages, Revocation, Submit, Submitted, callVars, finVars, TypeOK
<1> QED
  BY <1>1, <1>7, <1>8, <1>9

LEMMA SubmitFailsStep ==
  ASSUME IInv, NEW k \in {"fs", "work"}, NEW h \in Handle, SubmitFails(k, h)
  PROVE  IInv'
<1> USE DEF IInv
<1>1. TypeOK'
  BY DEF SubmitFails, TypeOK, callVars
<1>2. \A t \in Thread : pc[t] = "idle"
  BY DEF SubmitFails, TypeOK, CallsExclusive, Stages, Submitted
<1>3. fin = "idle" /\ \A g \in Handle : ref[g] # "ref"
  BY DEF SubmitFails, Stages, Submitted
<1>4. Owners = {} /\ Owners' = {}
  BY <1>2, <1>3 DEF Owners, SubmitFails, callVars, TypeOK
<1>5. ~LoopOwns' /\ ~LoopOwns
  BY <1>3 DEF LoopOwns, SubmitFails, Submitted
<1>6. RefCountExact'
  BY <1>4, <1>5, FS_EmptySet DEF RefCountExact, SubmitFails
<1>7. CallsExclusive' /\ NoUseAfterFree'
  BY <1>2 DEF CallsExclusive, NoUseAfterFree, SubmitFails, callVars
<1>8. Stages' /\ Revocation'
  BY <1>2, <1>3 DEF Stages, Revocation, SubmitFails, Submitted, callVars, TypeOK
<1> QED
  BY <1>1, <1>6, <1>7, <1>8

\* The pool and the loop's finalizer, up to its release.
LEMMA DeliveryStep ==
  ASSUME IInv, PoolStep \/ Finalize \/ CallCallback \/ CallbackReturns
  PROVE  IInv'
<1> USE DEF IInv, PoolStep, PoolStart, PoolFinish, WorkCheck, WorkMainReturns,
            Finalize, FinalizerSkip, CallCallback, CallbackReturns, uvVars,
            refVars, callVars, finVars
<1>1. TypeOK'
  <2>1. CASE PoolStep
    <3>1. CASE PoolStart
      BY <3>1 DEF TypeOK
    <3>2. CASE PoolFinish
      BY <3>2 DEF TypeOK
    <3>3. CASE WorkCheck
      BY <3>3 DEF TypeOK
    <3>4. CASE WorkMainReturns
      BY <3>4 DEF TypeOK
    <3> QED
      BY <2>1, <3>1, <3>2, <3>3, <3>4
  <2>2. CASE Finalize \/ CallbackReturns
    BY <2>2 DEF TypeOK
  <2>3. CASE CallCallback
    BY <2>3 DEF TypeOK
  <2> QED
    BY <2>1, <2>2, <2>3
<1>2. Owners' = Owners
  BY DEF Owners
<1>3. LoopOwns' = LoopOwns
  BY DEF LoopOwns, Submitted
<1>4. RefCountExact'
  BY <1>2, <1>3, CountUnchanged
<1>5. CallsExclusive' /\ NoUseAfterFree'
  BY DEF CallsExclusive, NoUseAfterFree
<1>6. Stages'
  BY DEF Stages, Submitted
<1>7. Revocation'
  BY DEF Revocation, Stages, Submitted, CallsBack, TypeOK
<1> QED
  BY <1>1, <1>4, <1>5, <1>6, <1>7

\* The finalizer gives up the reference the request was created with.
LEMMA FinalReleaseStep ==
  ASSUME IInv, FinalRelease
  PROVE  IInv'
<1> USE DEF IInv
<1>1. LoopOwns /\ Submitted
  BY DEF FinalRelease, LoopOwns, Stages, Submitted
<1>2. refc > 0 /\ ~freed
  BY <1>1, OwnedNotFreed
<1>3. TypeOK'
  BY <1>2, ReleaseTyped DEF TypeOK, FinalRelease, uvVars, callVars
<1>4. Owners' = Owners
  BY DEF Owners, FinalRelease, callVars
<1>5. ~LoopOwns'
  BY DEF LoopOwns, FinalRelease
<1>6. RefCountExact'
  <2>1. Cardinality(Owners) \in Nat
    BY OwnersCounted
  <2>2. refc = Cardinality(Owners) + 1
    BY <1>1 DEF RefCountExact
  <2>3. refc' = Cardinality(Owners')
    BY <1>4, <2>1, <2>2 DEF FinalRelease, ReleaseRef
  <2>4. freed' <=> refc' = 0
    BY <1>2, ReleaseTyped DEF FinalRelease
  <2> QED
    BY <1>5, <2>1, <2>3, <2>4, <1>4 DEF RefCountExact
<1>7. CallsExclusive' /\ NoUseAfterFree'
  BY <1>2 DEF CallsExclusive, NoUseAfterFree, FinalRelease, ReleaseRef, callVars
<1>8. Stages' /\ Revocation'
  BY DEF Stages, Revocation, FinalRelease, Submitted, callVars, uvVars
<1> QED
  BY <1>3, <1>6, <1>7, <1>8

\* Inside a canceler's body, on any thread, the request is alive up to and
\* including the release, and the thread's closure is counted until then.
LEMMA CancelerStepLemma ==
  ASSUME IInv, ~Shared, NEW t \in Thread, CancelerStep(t)
  PROVE  IInv'
<1> USE DEF IInv
<1> DEFINE h == arg[t]
<1>1. h \in Handle /\ ref[h] = "ref" /\ pc[t] # "idle" /\ Submitted
  BY DEF CancelerStep, UvCancel, SetCanceled, ResetTest, ResetRelease,
         ResetNull, CallsExclusive, Stages
<1>2. \A u \in Thread \ {t} : pc[u] # "idle" => arg[u] # h
  BY <1>1 DEF CallsExclusive
<1>3. CASE pc[t] # "null"
  <2>1. h \in Owners
    BY <1>1, <1>3, CallerOwns
  <2>2. refc > 0 /\ ~freed
    BY <1>1, <2>1, OwnedNotFreed
  <2>3. CASE UvCancel(t) \/ SetCanceled(t) \/ ResetTest(t)
    <3> USE <2>3, <1>1 DEF UvCancel, SetCanceled, ResetTest, Deref, uvVars,
            refVars, callVars, finVars
    <3>1. fault' = fault
      <4>1. ~(ref[h] # "ref") /\ ~freed
        BY <1>1, <2>2
      <4> QED
        BY <4>1
    <3>a. TypeOK' /\ NoUseAfterFree'
      <4>1. CASE UvCancel(t)
        <5>1. UNCHANGED <<kind, hasCb, canceled, refc, freed, ref, arg, fin, cbs, revoked>>
          BY <4>1
        <5>2. pc' = [pc EXCEPT ![t] = "flag"]
          BY <4>1
        <5>3. pc' \in [Thread -> {"idle", "cancel", "flag", "reset", "release", "null"}]
          BY <5>2 DEF TypeOK
        <5>4. \/ uv' = uv /\ ecanceled' = ecanceled
              \/ uv' = "posted" /\ ecanceled' = TRUE
          BY <4>1
        <5> HIDE DEF UvCancel, SetCanceled, ResetTest, Deref
        <5>5. /\ uv' \in {"none", "queued", "running", "main", "posted", "failed"}
              /\ ecanceled' \in BOOLEAN
          BY <5>4 DEF TypeOK
        <5>6. fault' \in {"none", "freed", "null", "moved"}
          BY <3>1 DEF TypeOK
        <5>7. NoUseAfterFree'
          BY <3>1 DEF NoUseAfterFree
        <5> QED
          BY <5>1, <5>3, <5>5, <5>6, <5>7 DEF TypeOK
      <4>2. CASE SetCanceled(t)
        BY <3>1, <4>2 DEF TypeOK, NoUseAfterFree
      <4>3. CASE ResetTest(t)
        BY <3>1, <4>3 DEF TypeOK, NoUseAfterFree
      <4> QED
        BY <2>3, <4>1, <4>2, <4>3
    <3>2. Owners' = Owners
      BY DEF Owners, TypeOK
    <3>3. LoopOwns' = LoopOwns
      BY DEF LoopOwns, Submitted
    <3>4. RefCountExact'
      BY <3>2, <3>3, CountUnchanged DEF Submitted
    <3>5. CallsExclusive'
      BY <1>2 DEF CallsExclusive, TypeOK
    <3>6. Stages'
      BY DEF Stages, Submitted
    <3>7. Revocation'
      BY DEF Revocation, Submitted, TypeOK
    <3> QED
      BY <3>a, <3>4, <3>5, <3>6, <3>7
  <2>4. CASE ResetRelease(t)
    <3> USE <2>4, <1>1 DEF ResetRelease, uvVars, finVars
    <3>1. TypeOK' /\ NoUseAfterFree'
      BY <2>2, ReleaseTyped DEF TypeOK, NoUseAfterFree
    <3>2. Owners' = Owners \ {h}
      BY <1>1, <1>2 DEF Owners, TypeOK
    <3>3. LoopOwns' = LoopOwns
      BY DEF LoopOwns, Submitted
    <3>4. RefCountExact'
      BY <1>1, <2>1, <2>2, <3>2, <3>3, OwnerReleased DEF Submitted
    <3>5. CallsExclusive'
      BY DEF CallsExclusive, TypeOK
    <3>6. Stages'
      BY DEF Stages, Submitted
    <3>7. Revocation'
      BY DEF Revocation, Submitted, TypeOK
    <3> QED
      BY <3>1, <3>4, <3>5, <3>6, <3>7
  <2> QED
    BY <1>3, <2>3, <2>4 DEF CancelerStep, ResetNull
<1>4. CASE pc[t] = "null"
  <2> USE <1>4, <1>1 DEF ResetNull, ResetPointer, uvVars, refVars, finVars
  <2>1. ResetNull(t)
    BY DEF CancelerStep, UvCancel, SetCanceled, ResetTest, ResetRelease
  <2> USE <2>1
  <2>2. TypeOK' /\ NoUseAfterFree'
    BY DEF TypeOK, NoUseAfterFree
  <2>3. Owners' = Owners
    BY <1>2 DEF Owners, TypeOK
  <2>4. LoopOwns' = LoopOwns
    BY DEF LoopOwns, Submitted
  <2>5. RefCountExact'
    BY <2>3, <2>4, CountUnchanged
  <2>6. CallsExclusive'
    BY <1>2 DEF CallsExclusive, TypeOK
  <2>7. Stages'
    BY DEF Stages, Submitted
  <2>8. Revocation'
    BY DEF Revocation, Submitted, TypeOK
  <2> QED
    BY <2>2, <2>5, <2>6, <2>7, <2>8
<1> QED
  BY <1>3, <1>4

\* Entering a canceler changes no owner.
LEMMA CallCancelerStep ==
  ASSUME IInv, ~Shared, NEW t \in Thread, NEW h \in Handle, CallCanceler(t, h)
  PROVE  IInv'
<1> USE DEF IInv, CallCanceler, RunsUserCode, uvVars, refVars, finVars
<1>1. TypeOK' /\ NoUseAfterFree'
  BY DEF TypeOK, NoUseAfterFree
<1>2. Owners' = Owners
  BY DEF Owners, TypeOK, InUse
<1>3. LoopOwns' = LoopOwns
  BY DEF LoopOwns, Submitted
<1>4. RefCountExact'
  BY <1>2, <1>3, CountUnchanged
<1>5. CallsExclusive'
  BY DEF CallsExclusive, InUse, TypeOK
<1>6. Stages' /\ Revocation'
  BY DEF Stages, Revocation, Submitted, TypeOK
<1> QED
  BY <1>1, <1>4, <1>5, <1>6

\* A copy of a closure that holds a reference is one more owner.
LEMMA CopyHandleStep ==
  ASSUME IInv, NEW t \in Thread, NEW h \in Handle, NEW g \in Handle,
         CopyHandle(t, h, g)
  PROVE  IInv'
<1> USE DEF IInv, CopyHandle, uvVars, callVars, finVars
<1>1. \A u \in Thread : pc[u] # "idle" => arg[u] # h /\ arg[u] # g
  BY DEF InUse, CallsExclusive
<1>2. LoopOwns' = LoopOwns
  BY DEF LoopOwns, Submitted
<1>3. CallsExclusive'
  BY <1>1 DEF CallsExclusive, TypeOK
<1>4. CASE ref[h] = "ref"
  <2>1. refc' = refc + 1 /\ UNCHANGED <<freed, fault>>
    BY <1>4 DEF RetainRef
  <2>2. TypeOK' /\ NoUseAfterFree'
    BY <2>1 DEF TypeOK, NoUseAfterFree
  <2>3. g \notin Owners /\ Owners' = Owners \cup {g}
    BY <1>1, <1>4 DEF Owners, TypeOK
  <2>4. Submitted /\ h \in Owners
    BY <1>1, <1>4 DEF Stages, Owners
  <2>5. RefCountExact'
    <3>1. Cardinality(Owners) \in Nat /\ Cardinality(Owners') = Cardinality(Owners) + 1
      BY <2>3, OwnersCounted, FS_AddElement
    <3>2. refc > 0 /\ ~freed
      BY <2>4, OwnedNotFreed
    <3>3. refc' = Cardinality(Owners') + (IF LoopOwns' THEN 1 ELSE 0)
      BY <1>2, <2>1, <3>1 DEF RefCountExact
    <3> QED
      BY <2>1, <3>2, <3>3 DEF RefCountExact, TypeOK
  <2>6. Stages' /\ Revocation'
    BY <2>1, <2>4 DEF Stages, Revocation, Submitted
  <2> QED
    BY <1>3, <2>2, <2>5, <2>6
<1>5. CASE ref[h] # "ref"
  <2>1. UNCHANGED refVars
    BY <1>5
  <2>2. TypeOK' /\ NoUseAfterFree'
    BY <2>1 DEF TypeOK, NoUseAfterFree, refVars
  <2>3. Owners' = Owners
    BY <1>1, <1>5 DEF Owners, TypeOK
  <2>4. RefCountExact'
    BY <1>2, <2>1, <2>3, CountUnchanged DEF refVars
  <2>5. Stages' /\ Revocation'
    BY <1>5, <2>1 DEF Stages, Revocation, Submitted, TypeOK, refVars
  <2> QED
    BY <1>3, <2>2, <2>4, <2>5
<1> QED
  BY <1>4, <1>5

\* Destroying a closure that still holds a reference drops one owner.
LEMMA DestroyHandleStep ==
  ASSUME IInv, NEW t \in Thread, NEW h \in Handle, DestroyHandle(t, h)
  PROVE  IInv'
<1> USE DEF IInv, DestroyHandle, uvVars, callVars, finVars
<1>1. \A u \in Thread : pc[u] # "idle" => arg[u] # h
  BY DEF InUse
<1>2. LoopOwns' = LoopOwns
  BY DEF LoopOwns, Submitted
<1>3. CallsExclusive'
  BY <1>1 DEF CallsExclusive, TypeOK
<1>4. CASE ref[h] = "ref"
  <2>1. Submitted /\ h \in Owners
    BY <1>1, <1>4 DEF Stages, Owners
  <2>2. refc > 0 /\ ~freed
    BY <2>1, OwnedNotFreed
  <2>3. ReleaseRef
    BY <1>4
  <2>4. TypeOK' /\ NoUseAfterFree'
    BY <2>2, <2>3, ReleaseTyped DEF TypeOK, NoUseAfterFree
  <2>5. Owners' = Owners \ {h}
    BY <1>1, <1>4 DEF Owners, TypeOK
  <2>6. RefCountExact'
    BY <1>2, <2>1, <2>3, <2>5, OwnerReleased DEF Submitted
  <2>7. Stages' /\ Revocation'
    BY <2>1 DEF Stages, Revocation, Submitted
  <2> QED
    BY <1>3, <2>4, <2>6, <2>7
<1>5. CASE ref[h] # "ref"
  <2>1. UNCHANGED refVars
    BY <1>5
  <2>2. TypeOK' /\ NoUseAfterFree'
    BY <2>1 DEF TypeOK, NoUseAfterFree, refVars
  <2>3. Owners' = Owners
    BY <1>5 DEF Owners, TypeOK
  <2>4. RefCountExact'
    BY <1>2, <2>1, <2>3, CountUnchanged DEF refVars
  <2>5. Stages' /\ Revocation'
    BY <2>1 DEF Stages, Revocation, Submitted, TypeOK, refVars
  <2> QED
    BY <1>3, <2>2, <2>4, <2>5
<1> QED
  BY <1>4, <1>5

-----------------------------------------------------------------------------

\* Every step preserves the inductive invariant.
LEMMA NextIInv ==
  ASSUME IInv, ~Shared, [Next]_vars
  PROVE  IInv'
<1>1. CASE Next
  <2>1. CASE \E k \in {"fs", "work"}, h \in Handle : Submit(k, h) \/ SubmitFails(k, h)
    BY <2>1, SubmitStep, SubmitFailsStep
  <2>2. CASE PoolStep \/ Finalize \/ CallCallback \/ CallbackReturns
    BY <2>2, DeliveryStep
  <2>3. CASE FinalRelease
    BY <2>3, FinalReleaseStep
  <2>4. CASE \E t \in Thread : CancelerStep(t)
    BY <2>4, CancelerStepLemma
  <2>5. CASE \E t \in Thread : UserStep(t)
    BY <2>5, CallCancelerStep, CopyHandleStep, DestroyHandleStep DEF UserStep
  <2> QED
    BY <1>1, <2>1, <2>2, <2>3, <2>4, <2>5 DEF Next
<1>2. CASE UNCHANGED vars
  <2> USE <1>2 DEF IInv, vars
  <2>1. TypeOK' /\ NoUseAfterFree'
    BY DEF TypeOK, NoUseAfterFree
  <2>2. Owners' = Owners /\ LoopOwns' = LoopOwns
    BY DEF Owners, LoopOwns, Submitted
  <2>3. RefCountExact'
    BY <2>2, CountUnchanged
  <2>4. CallsExclusive' /\ Stages' /\ Revocation'
    BY DEF CallsExclusive, Stages, Revocation, Submitted
  <2> QED
    BY <2>1, <2>3, <2>4
<1> QED
  BY <1>1, <1>2

\* In every reachable state the inductive invariant holds, provided that no
\* AsyncCanceler object is called by two threads at once.
THEOREM Invariance ==
  ASSUME ~Shared
  PROVE  SafeSpec => []IInv
<1>1. Init => IInv
  BY InitIInv
<1>2. IInv /\ [Next]_vars => IInv'
  BY NextIInv
<1> QED
  BY <1>1, <1>2, PTL DEF SafeSpec

\* Every variable of a request keeps its type; in particular the reference
\* count never goes below zero.
THEOREM TypeCorrect ==
  ASSUME ~Shared
  PROVE  SafeSpec => []TypeOK
<1>1. IInv => TypeOK
  BY DEF IInv
<1> QED
  BY <1>1, Invariance, PTL

\* For any number of cancelers and threads: the reference count of a request
\* (ref.hh) is the number of its users, and it is deleted with the last one.
THEOREM RefCountCorrect ==
  ASSUME ~Shared
  PROVE  SafeSpec => []RefCountExact
<1>1. IInv => RefCountExact
  BY DEF IInv
<1> QED
  BY <1>1, Invariance, PTL

\* For any number of cancelers and threads: neither a canceler nor the
\* finalizer of fs.cc touches a deleted request.
THEOREM MemorySafe ==
  ASSUME ~Shared
  PROVE  SafeSpec => []NoUseAfterFree
<1>1. IInv => NoUseAfterFree
  BY DEF IInv
<1> QED
  BY <1>1, Invariance, PTL

\* For any number of cancelers and threads: a canceler that returned before
\* the loop took up the request has prevented the callback.
THEOREM RevocationCorrect ==
  ASSUME ~Shared
  PROVE  SafeSpec => []RevokedNeverCalled
<1>1. IInv => RevokedNeverCalled
  BY DEF IInv, Revocation, RevokedNeverCalled
<1> QED
  BY <1>1, Invariance, PTL

-----------------------------------------------------------------------------
(* Refinement of CancelableTask *)

\* What connects the pool's outcome, the flag and the finalizer.
DeliveryInv ==
  /\ Submitted => kind \in {"fs", "work"}
  /\ ecanceled => uv = "posted"
  /\ kind = "work" /\ uv \in {"queued", "running", "main"} => ~hasCb
  /\ kind = "work" /\ hasCb => ~ecanceled
  /\ ~Submitted => ~canceled
  /\ uv = "none" => ~hasCb

LEMMA DeliveryInvInit == Init => DeliveryInv
BY DEF Init, DeliveryInv, Submitted

LEMMA DeliveryInvStep ==
  ASSUME IInv, DeliveryInv, [Next]_vars
  PROVE  DeliveryInv'
<1> USE DEF IInv, DeliveryInv, Submitted, uvVars, callVars, finVars, refVars
<1>1. CASE \E k \in {"fs", "work"}, h \in Handle : Submit(k, h) \/ SubmitFails(k, h)
  <2>1. PICK k \in {"fs", "work"}, h \in Handle : Submit(k, h) \/ SubmitFails(k, h)
    BY <1>1
  <2>2. uv = "none" /\ ~canceled /\ ~hasCb /\ ~ecanceled
    BY <2>1 DEF Submit, SubmitFails
  <2>3. CASE Submit(k, h)
    <3>1. kind' = k /\ uv' = "queued" /\ hasCb' = (k = "fs")
      BY <2>3 DEF Submit
    <3>2. UNCHANGED <<ecanceled, canceled>>
      BY <2>3 DEF Submit
    <3> QED
      BY <2>2, <3>1, <3>2
  <2>4. CASE SubmitFails(k, h)
    BY <2>2, <2>4 DEF SubmitFails
  <2> QED
    BY <2>1, <2>3, <2>4
<1>2. CASE PoolStep
  BY <1>2 DEF PoolStep, PoolStart, PoolFinish, WorkCheck, WorkMainReturns
<1>3. CASE Finalize \/ CallCallback \/ CallbackReturns \/ FinalRelease
  BY <1>3 DEF Finalize, CallCallback, CallbackReturns, FinalRelease
<1>4. CASE \E t \in Thread : CancelerStep(t)
  <2>1. PICK t \in Thread : CancelerStep(t)
    BY <1>4
  <2>2. Submitted
    BY <2>1 DEF CancelerStep, UvCancel, SetCanceled, ResetTest, ResetRelease,
                ResetNull, CallsExclusive, Stages
  <2>3. CASE UvCancel(t)
    BY <2>2, <2>3 DEF UvCancel
  <2>4. CASE SetCanceled(t)
    BY <2>2, <2>4 DEF SetCanceled
  <2>5. CASE ResetTest(t) \/ ResetRelease(t) \/ ResetNull(t)
    BY <2>2, <2>5 DEF ResetTest, ResetRelease, ResetNull
  <2> QED
    BY <2>1, <2>3, <2>4, <2>5 DEF CancelerStep
<1>5. CASE \E t \in Thread : UserStep(t)
  BY <1>5 DEF UserStep, CallCanceler, DestroyHandle, CopyHandle
<1>6. CASE UNCHANGED vars
  BY <1>6 DEF vars
<1> QED
  BY <1>1, <1>2, <1>3, <1>4, <1>5, <1>6 DEF Next

\* Each step of a request is a step of a cancelable task, or leaves its status.
\* The step that completes it is the finalizer's test, not the call: a canceler
\* on another thread that comes in between is too late.
LEMMA TaskStep ==
  ASSUME IInv, DeliveryInv, [Next]_vars
  PROVE  [Task!Next]_taskStatus
<1> USE DEF IInv, DeliveryInv, Submitted, taskStatus, uvVars, callVars, finVars,
            refVars
<1>1. CASE \E k \in {"fs", "work"}, h \in Handle : Submit(k, h)
  <2>1. taskStatus = "idle" /\ taskStatus' = "pending"
    BY <1>1 DEF Submit, Revocation, Stages
  <2> QED
    BY <2>1 DEF Task!Next, Task!Start
<1>2. CASE \E k \in {"fs", "work"}, h \in Handle : SubmitFails(k, h)
  <2>1. taskStatus = "idle" /\ taskStatus' \in {"idle", "completed"}
    BY <1>2 DEF SubmitFails, Revocation, Stages
  <2> QED
    BY <2>1 DEF Task!Next, Task!FailToStart
<1>3. CASE PoolStep \/ CallbackReturns \/ FinalRelease
  <2>1. UNCHANGED <<cbs, canceled, ecanceled>> /\ fin # "cb" /\ fin' # "cb"
    BY <1>3 DEF PoolStep, PoolStart, PoolFinish, WorkCheck, WorkMainReturns,
                CallbackReturns, FinalRelease, Stages
  <2>2. Submitted /\ Submitted'
    BY <1>3 DEF PoolStep, PoolStart, PoolFinish, WorkCheck, WorkMainReturns,
                CallbackReturns, FinalRelease, Stages
  <2> QED
    BY <2>1, <2>2
<1>4. CASE Finalize
  <2>1. Submitted /\ fin = "idle" /\ cbs = 0 /\ UNCHANGED <<uv, cbs, canceled, ecanceled>>
    BY <1>4 DEF Finalize, Revocation
  <2>2. CASE CallsBack
    <3>1. taskStatus = "pending"
      BY <2>1, <2>2 DEF CallsBack
    <3>2. taskStatus' = "completed"
      BY <1>4, <2>2 DEF Finalize
    <3> QED
      BY <3>1, <3>2 DEF Task!Next, Task!Settle, Task!Complete
  <2>3. CASE ~CallsBack
    <3>1. fin' = "release"
      BY <1>4, <2>3 DEF Finalize, FinalizerSkip
    <3> QED
      BY <2>1, <3>1
  <2> QED
    BY <2>2, <2>3
<1>5. CASE CallCallback
  <2>1. cbs' > 0
    BY <1>5 DEF CallCallback, TypeOK
  <2> QED
    BY <1>5, <2>1 DEF CallCallback
<1>6. CASE \E t \in Thread : CancelerStep(t)
  <2>1. PICK t \in Thread : CancelerStep(t)
    BY <1>6
  <2>2. CASE UvCancel(t) \/ SetCanceled(t)
    <3>1. \/ taskStatus' = taskStatus
          \/ taskStatus = "pending" /\ taskStatus' = "canceled"
      BY <2>2 DEF UvCancel, SetCanceled, CallsExclusive, Stages
    <3> QED
      BY <3>1 DEF Task!Next, Task!Settle, Task!Cancel
  <2>3. CASE ResetTest(t) \/ ResetRelease(t) \/ ResetNull(t)
    BY <2>3 DEF ResetTest, ResetRelease, ResetNull, ResetPointer
  <2> QED
    BY <2>1, <2>2, <2>3 DEF CancelerStep
<1>7. CASE \E t \in Thread : UserStep(t)
  BY <1>7 DEF UserStep, CallCanceler, DestroyHandle, CopyHandle
<1>8. CASE UNCHANGED vars
  BY <1>8 DEF vars
<1> QED
  BY <1>1, <1>2, <1>3, <1>4, <1>5, <1>6, <1>7, <1>8 DEF Next

\* For any number of cancelers and threads, a request of fs.cc keeps the safety
\* part of a cancelable task's promise: one outcome, and no callback once it
\* is canceled.
THEOREM RequestIsTask ==
  ASSUME ~Shared
  PROVE  SafeSpec => Task!SafeSpec
<1>1. Init => Task!Init
  BY DEF Init, Task!Init, taskStatus, Submitted
<1>2. Init => DeliveryInv
  BY DeliveryInvInit
<1>3. IInv /\ DeliveryInv /\ [Next]_vars => DeliveryInv'
  BY DeliveryInvStep
<1>4. IInv /\ DeliveryInv /\ [Next]_vars => [Task!Next]_taskStatus
  BY TaskStep
<1>5. SafeSpec => []IInv
  BY Invariance
<1> QED
  BY <1>1, <1>2, <1>3, <1>4, <1>5, PTL DEF SafeSpec, Task!SafeSpec

=============================================================================
