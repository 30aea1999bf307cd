--------------------------- MODULE CancelableTask ---------------------------
(***************************************************************************)
(* What an asynchronous operation of rx promises to the code that starts   *)
(* it: the operation accepts a callback and returns an AsyncCanceler       *)
(* (asynccanceler.hh).  It settles exactly once.  Either its callback is   *)
(* called, or it has been canceled and the callback is never called.       *)
(* Checked to implement it are AsyncReq (fs.cc), AsyncGroup                *)
(* (asyncgroup.cc), ScanDir (fs.cc) as far as eachFunc does not stop it,   *)
(* and the group of processSrcFiles in PkgDeps (deps.cc).                  *)
(***************************************************************************)

VARIABLE status

Status == {"idle", "pending", "completed", "canceled"}

Settled == status \in {"completed", "canceled"}

Init == status = "idle"

\* The operation is handed to the event loop.
Start == status = "idle" /\ status' = "pending"

\* The operation cannot be started: its callback is called before the
\* function that starts it returns, and there is nothing left to cancel.
FailToStart == status = "idle" /\ status' = "completed"

\* The event loop calls the callback.
Complete == status = "pending" /\ status' = "completed"

\* A canceler takes effect.
Cancel == status = "pending" /\ status' = "canceled"

Settle == Complete \/ Cancel

Next == Start \/ FailToStart \/ Settle

Spec == Init /\ [][Next]_status /\ WF_status(Settle)

\* The safety part on its own, for the modules that implement it without
\* any fairness, and for the proofs.
SafeSpec == Init /\ [][Next]_status

=============================================================================
