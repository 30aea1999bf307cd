----------------------------- MODULE AsyncMain -----------------------------
(***************************************************************************)
(* Async::main() (async.cc) and once(), which it is built on (once.hh), by *)
(* any threads, any number of times.  The first caller creates the key of  *)
(* a thread-local variable and sets it, for its own thread, to a new       *)
(* Async; every caller then reads its own thread's value.                  *)
(***************************************************************************)
EXTENDS Integers, FiniteSets

CONSTANT Thread

VARIABLES
  s,    \* OnceFlag::s
  pc,   \* where each thread is in main(), "out" being outside
  key,  \* whether uv_key_create has been called
  tls,  \* the threads whose value of the key is an Async
  runs, \* how many times the block of RX_ONCE has been entered
  ret   \* what main() last returned to each thread

vars == <<s, pc, key, tls, runs, ret>>

TypeOK ==
  /\ s \in {0, 1}
  /\ pc \in [Thread -> {"out", "test", "cas", "create", "set", "get"}]
  /\ key \in BOOLEAN
  /\ tls \subseteq Thread
  /\ runs \in Nat
  /\ ret \in [Thread -> {"none", "async", "null", "unknown"}]

Init ==
  /\ s = 0
  /\ pc = [t \in Thread |-> "out"]
  /\ key = FALSE
  /\ tls = {}
  /\ runs = 0
  /\ ret = [t \in Thread |-> "none"]

Goto(t, l) == pc' = [pc EXCEPT ![t] = l]

Call(t) ==
  /\ pc[t] = "out"
  /\ Goto(t, "test")
  /\ UNCHANGED <<s, key, tls, runs, ret>>

\* The plain read of the flag before the atomic operation.
Test(t) ==
  /\ pc[t] = "test"
  /\ Goto(t, IF s = 0 THEN "cas" ELSE "get")
  /\ UNCHANGED <<s, key, tls, runs, ret>>

\* Bug: the flag is stored without being compared again.
Swaps_Always == TRUE

\* Whether __sync_bool_compare_and_swap succeeds.
Swaps == s = 0

CompareAndSwap(t) ==
  /\ pc[t] = "cas"
  /\ IF Swaps THEN s' = 1 /\ runs' = runs + 1 /\ Goto(t, "create")
     ELSE Goto(t, "get") /\ UNCHANGED <<s, runs>>
  /\ UNCHANGED <<key, tls, ret>>

CreateKey(t) ==
  /\ pc[t] = "create"
  /\ key' = TRUE
  /\ Goto(t, "set")
  /\ UNCHANGED <<s, tls, runs, ret>>

NewAsync(t) == {t}

SetKey(t) ==
  /\ pc[t] = "set"
  /\ tls' = tls \cup NewAsync(t)
  /\ Goto(t, "get")
  /\ UNCHANGED <<s, key, runs, ret>>

\* What a key that has not been created reads is unknown.
GetKey(t) ==
  /\ pc[t] = "get"
  /\ ret' = [ret EXCEPT ![t] = IF ~key THEN "unknown" ELSE IF t \in tls THEN "async" ELSE "null"]
  /\ Goto(t, "out")
  /\ UNCHANGED <<s, key, tls, runs>>

Step(t) == Test(t) \/ CompareAndSwap(t) \/ CreateKey(t) \/ SetKey(t) \/ GetKey(t)

Next == \E t \in Thread : Call(t) \/ Step(t)

Spec == Init /\ [][Next]_vars

-----------------------------------------------------------------------------
(* Properties *)

\* The block of RX_ONCE is entered at most once, whatever threads race for it.
PerformedOnce == runs <= 1

\* There is one main thread: main() returns an Async to no two threads, and
\* from then on always to the thread it returned it to first.
OneMainThread ==
  [][\A t, u \in Thread : ret[t] = "async" => (ret'[u] = "async" <=> u = t)]_vars

=============================================================================
