-------------------------- MODULE AsyncMainProofs --------------------------
(***************************************************************************)
(* Proofs about AsyncMain, for any set of threads.  The block of RX_ONCE   *)
(* is entered by the thread whose compare-and-swap turns the flag from 0   *)
(* to 1, so while the flag is 0 nobody has entered it, and whoever is in   *)
(* the block, or has left it as the main thread, is that one thread.       *)
(***************************************************************************)
EXTENDS AsyncMain, TLAPS

\* The threads in the block, and the one it made the main thread.
InBlock == {t \in Thread : pc[t] \in {"create", "set"}} \cup tls

OneInBlock == \A t, u \in InBlock : t = u

IInv ==
  /\ TypeOK
  /\ runs = s
  /\ s = 0 => InBlock = {}
  /\ OneInBlock
  /\ \A t \in Thread : pc[t] = "create" => t \notin tls
  /\ \A t \in tls : key /\ pc[t] \notin {"create", "set"}
  /\ \A t \in Thread : pc[t] = "set" => key
  /\ \A t \in Thread : ret[t] = "async" => t \in tls

\* The flag, and the block it guards, are used by at most one thread.
THEOREM Inductive == Spec => []IInv
<1>1. Init => IInv
  <2> SUFFICES ASSUME Init PROVE IInv
    OBVIOUS
  <2>1. TypeOK
    <3>1. s \in {0, 1} /\ key \in BOOLEAN /\ tls \subseteq Thread /\ runs \in Nat
      BY DEF Init
    <3>2. pc \in [Thread -> {"out", "test", "cas", "create", "set", "get"}]
      BY DEF Init
    <3>3. ret \in [Thread -> {"none", "async", "null", "unknown"}]
      BY DEF Init
    <3>4. QED
      BY <3>1, <3>2, <3>3 DEF TypeOK
  <2>2. InBlock = {}
    BY DEF Init, InBlock
  <2>3. QED
    BY <2>1, <2>2 DEF Init, IInv, OneInBlock
<1>2. IInv /\ [Next]_vars => IInv'
  <2> SUFFICES ASSUME IInv, [Next]_vars PROVE IInv'
    OBVIOUS
  <2> USE DEF IInv, TypeOK, InBlock, OneInBlock
  <2>1. CASE UNCHANGED vars
    BY <2>1 DEF vars
  <2>2. ASSUME NEW t \in Thread, Call(t) PROVE IInv'
    BY <2>2 DEF Call, Goto
  <2>3. ASSUME NEW t \in Thread, Test(t) PROVE IInv'
    BY <2>3 DEF Test, Goto
  <2>4. ASSUME NEW t \in Thread, CompareAndSwap(t) PROVE IInv'
    BY <2>4 DEF CompareAndSwap, Swaps, Goto
  <2>5. ASSUME NEW t \in Thread, CreateKey(t) PROVE IInv'
    BY <2>5 DEF CreateKey, Goto
  <2>6. ASSUME NEW t \in Thread, SetKey(t) PROVE IInv'
    BY <2>6 DEF SetKey, NewAsync, Goto
  <2>7. ASSUME NEW t \in Thread, GetKey(t) PROVE IInv'
    BY <2>7 DEF GetKey, Goto
  <2>8. QED
    BY <2>1, <2>2, <2>3, <2>4, <2>5, <2>6, <2>7 DEF Next, Step
<1>3. QED
  BY <1>1, <1>2, PTL DEF Spec

\* The flag and the keys have their types.
THEOREM TypeCorrect == Spec => []TypeOK
<1>1. IInv => TypeOK
  BY DEF IInv
<1>2. QED
  BY <1>1, Inductive, PTL

\* However many threads race, the block of RX_ONCE is performed at most once.
THEOREM OncePerformed == Spec => []PerformedOnce
<1>1. IInv => PerformedOnce
  BY DEF IInv, TypeOK, PerformedOnce
<1>2. QED
  BY <1>1, Inductive, PTL

\* A thread main() has returned an Async to keeps getting it, and no other does.
THEOREM MainUnique == Spec => OneMainThread
<1>1. IInv /\ [Next]_vars =>
        [\A t, u \in Thread : ret[t] = "async" => (ret'[u] = "async" <=> u = t)]_vars
  <2> SUFFICES ASSUME IInv, Next,
                      NEW t \in Thread, NEW u \in Thread, ret[t] = "async"
               PROVE ret'[u] = "async" <=> u = t
    OBVIOUS
  <2>1. t \in tls /\ key
    BY DEF IInv
  <2>2. \A v \in Thread : v \in tls => v = t
    BY <2>1 DEF IInv, OneInBlock, InBlock
  <2>3. ret \in [Thread -> {"none", "async", "null", "unknown"}]
    BY DEF IInv, TypeOK
  <2>4. ret[u] = "async" <=> u = t
    BY <2>2 DEF IInv
  <2>5. ASSUME NEW v \in Thread, GetKey(v) PROVE ret'[u] = "async" <=> u = t
    <3>1. ret' = [ret EXCEPT ![v] = IF v \in tls THEN "async" ELSE "null"]
      BY <2>1, <2>5 DEF GetKey
    <3>2. CASE u = v
      BY <2>1, <2>2, <2>3, <3>1, <3>2
    <3>3. CASE u # v
      BY <2>3, <2>4, <3>1, <3>3
    <3>4. QED
      BY <3>2, <3>3
  <2>6. ASSUME UNCHANGED ret PROVE ret'[u] = "async" <=> u = t
    BY <2>4, <2>6
  <2>7. QED
    BY <2>5, <2>6 DEF Next, Step, Call, Test, CompareAndSwap, CreateKey, SetKey
<1>2. QED
  BY <1>1, Inductive, PTL DEF Spec, OneMainThread

=============================================================================
