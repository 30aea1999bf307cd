------------------------------- MODULE Errors -------------------------------
(***************************************************************************)
(* Error (error.hh): no error, or a code with a message, in a block of     *)
(* memory that the object owns.  The message goes with the code here.      *)
(***************************************************************************)
EXTENDS Integers, Sequences, FiniteSets

CONSTANTS
  Obj,      \* objects of type Error
  Code,     \* codes, zero among them: an error of its own, as any string is
  MaxStates \* bound: blocks allocated

Null == 0

\* What a client expects: the codes there are in an error, or that it was moved from.
OK == {}
Moved == {-1}

VARIABLES
  errs,  \* the objects there are: _state, and what the client expects in it
  states \* every block ever allocated

vars == <<errs, states>>

Init == errs = <<>> /\ states = <<>>

-----------------------------------------------------------------------------

Has(o, s, holds) ==
  [x \in DOMAIN errs \cup {o} |->
    IF x = o THEN [state |-> s, holds |-> holds] ELSE errs[x]]

Usable(o) == o \in DOMAIN errs /\ errs[o].holds # Moved

Within == Len(states) < MaxStates

\* _set_state, and the constructors that do the same without a message.
SetState(c) == Append(states, [code |-> c, live |-> TRUE])

\* _copy_state, of the block s in the blocks b.
CopyState(b, s) == IF s = Null THEN b ELSE Append(b, b[s])

CopyPtr(s) == IF s = Null THEN Null ELSE Len(states) + 1

Deleted(s) == [k \in DOMAIN states |-> [states[k] EXCEPT !.live = @ /\ k # s]]

-----------------------------------------------------------------------------

ConstructOK(o) ==
  /\ o \notin DOMAIN errs
  /\ errs' = Has(o, Null, OK)
  /\ UNCHANGED states

Construct(o, c) ==
  /\ Within /\ o \notin DOMAIN errs
  /\ states' = SetState(c)
  /\ errs' = Has(o, Len(states) + 1, {c})

CopyConstruct(o, other) ==
  /\ Within /\ o \notin DOMAIN errs /\ Usable(other)
  /\ states' = CopyState(states, errs[other].state)
  /\ errs' = Has(o, CopyPtr(errs[other].state), errs[other].holds)

MoveConstruct(o, other) ==
  /\ o \notin DOMAIN errs /\ Usable(other)
  /\ errs' = [Has(o, errs[other].state, errs[other].holds) EXCEPT
                ![other] = [state |-> Null, holds |-> Moved]]
  /\ UNCHANGED states

\* Bug: an error is assigned to itself like any other.
Differ_Always(o, other) == TRUE

\* Whether the two have blocks of their own.  An object assigned to itself has not.
Differ(o, other) == errs[o].state # errs[other].state

CopyAssign(o, other) ==
  /\ Within /\ o \in DOMAIN errs /\ Usable(other)
  /\ IF Differ(o, other)
       THEN /\ states' = CopyState(Deleted(errs[o].state), errs[other].state)
            /\ errs' = Has(o, CopyPtr(errs[other].state), errs[other].holds)
       ELSE /\ errs' = Has(o, errs[o].state, errs[other].holds)
            /\ UNCHANGED states

\* The two swap their blocks, if they have any.
MoveAssign(o, other) ==
  /\ o \in DOMAIN errs /\ Usable(other) /\ o # other
  /\ errs' = [errs EXCEPT ![o] = errs[other],
                          ![other] = [state |-> errs[o].state, holds |-> Moved]]
  /\ UNCHANGED states

Destroy(o) ==
  /\ o \in DOMAIN errs
  /\ states' = Deleted(errs[o].state)
  /\ errs' = [x \in DOMAIN errs \ {o} |-> errs[x]]

Next ==
  \E o \in Obj :
    \/ ConstructOK(o) \/ Destroy(o)
    \/ \E c \in Code : Construct(o, c)
    \/ \E other \in Obj : \/ CopyConstruct(o, other) \/ MoveConstruct(o, other)
                          \/ CopyAssign(o, other) \/ MoveAssign(o, other)

-----------------------------------------------------------------------------
(* Properties *)

\* Every block has one owner until it is deleted, in whatever order errors are
\* copied, moved, assigned and destroyed.
StatesOwned ==
  \A k \in DOMAIN states :
    Cardinality({o \in DOMAIN errs : errs[o].state = k}) = IF states[k].live THEN 1 ELSE 0

\* An error is the one put into the object last: none stays none, and every
\* other keeps its code, zero too.
ErrorKept ==
  \A o \in DOMAIN errs :
    errs[o].holds # Moved =>
      errs[o].holds = IF errs[o].state = Null THEN OK ELSE {states[errs[o].state].code}

=============================================================================
