------------------------------ MODULE JobGroup ------------------------------
(***************************************************************************)
(* What a group of jobs (asyncgroup.hh) promises to a client that uses it  *)
(* on the loop's thread.  A job is begun, and the operation it stands for  *)
(* calls back, unless it has been canceled; the callback ends the job.     *)
(* The group has one outcome: it succeeds with the end of the last job,    *)
(* and fails with the first error.  Once it has an outcome, no operation   *)
(* that could be canceled calls back any more.                             *)
(*                                                                         *)
(* AsyncGroup (asyncgroup.cc) implements this specification; ScanDir       *)
(* (fs.cc) and PkgDeps (deps.cc), which do not go into the steps of a      *)
(* group, use one that does.                                               *)
(***************************************************************************)

CONSTANT Job

VARIABLES
  phase,  \* per job: how far it is
  outcome \* what has become of the group

\* A job is none before it is begun and after it has been ended; waiting for its
\* operation, or waiting for a plain one, which cannot be canceled; running its
\* callback; or left, never to be ended.
TypeOK ==
  /\ phase \in [Job -> {"none", "waiting", "plain", "running", "left"}]
  /\ outcome \in {"none", "ok", "error", "canceled"}

Init == phase = [j \in Job |-> "none"] /\ outcome = "none"

Pending == outcome = "none"

\* What becomes of the jobs when new ones are begun.
With(new) == [j \in Job |-> IF j \in new THEN "waiting" ELSE phase[j]]

NotBegun(new) == \A j \in new : phase[j] = "none"

\* By the function that has made the group, or by a callback.
Begin(new) ==
  /\ Pending /\ NotBegun(new)
  /\ phase' = With(new)
  /\ UNCHANGED outcome

\* The operation of a job comes without a canceler.
Assign(j) ==
  /\ phase[j] = "waiting"
  /\ phase' = [phase EXCEPT ![j] = "plain"]
  /\ UNCHANGED outcome

MayCall(j) == phase[j] = "plain" \/ (phase[j] = "waiting" /\ Pending)

\* An operation calls back.
Call(j) ==
  /\ MayCall(j)
  /\ phase' = [phase EXCEPT ![j] = "running"]
  /\ UNCHANGED outcome

NoneLeft(phases) == \A j \in Job : phases[j] = "none"

\* A callback ends its job, and has begun new ones before.  It may be all in one
\* step with the call.
End(j, new, err) ==
  /\ phase[j] = "running" \/ MayCall(j)
  /\ new # {} => Pending /\ NotBegun(new)
  /\ phase' = [With(new) EXCEPT ![j] = "none"]
  /\ outcome' = IF ~Pending THEN outcome
                ELSE IF err THEN "error"
                ELSE IF NoneLeft(phase') THEN "ok"
                ELSE "none"

\* A callback returns without ending its job, or an operation has been canceled.
Leave(j) ==
  /\ phase[j] = "running" \/ (phase[j] \in {"waiting", "plain"} /\ ~Pending)
  /\ phase' = [phase EXCEPT ![j] = "left"]
  /\ UNCHANGED outcome

\* The group is canceled, perhaps by a callback that does nothing else.
Cancel ==
  /\ Pending /\ outcome' = "canceled"
  /\ \/ UNCHANGED phase
     \/ \E j \in Job : MayCall(j) /\ phase' = [phase EXCEPT ![j] = "left"]

\* Nobody has the group any more.
Drop ==
  /\ Pending
  /\ outcome' = IF NoneLeft(phase) THEN "ok" ELSE "error"
  /\ UNCHANGED phase

Next ==
  \/ \E new \in SUBSET Job : Begin(new)
  \/ \E j \in Job : Assign(j) \/ Call(j) \/ Leave(j)
  \/ \E j \in Job, new \in SUBSET Job, err \in BOOLEAN : End(j, new, err)
  \/ Cancel \/ Drop

Spec == Init /\ [][Next]_<<phase, outcome>>

=============================================================================
