------------------------------ MODULE DirEnts ------------------------------
(***************************************************************************)
(* DirEnts (fs.hh, fs.cc): the names found in a directory, either a view   *)
(* of the buffer libuv has filled or a copy the object owns.  _vz is both  *)
(* the size of the copy and the mark of ownership: it is zero for a view.  *)
(*                                                                         *)
(* A directory is told from another by its number of entries, and sizes    *)
(* count entries.  The client declares, copies, moves and destroys objects *)
(* in the ways rx does, in any order, and with AnyUse in the others the    *)
(* class lets it.  What it should find in each is kept in `holds`.         *)
(*                                                                         *)
(* The buffers of libuv are never freed: no request is cleaned up.         *)
(***************************************************************************)
EXTENDS Integers, Sequences

CONSTANTS
  Obj,        \* objects of type DirEnts
  MaxEntries, \* bound: entries of a directory
  MaxBlocks,  \* bound: no operation begins when as many blocks were allocated
  AnyUse      \* whether the client uses objects in ways no caller in rx does

ASSUME DirEntsAssumption ==
  MaxEntries \in Nat /\ MaxBlocks \in Nat /\ AnyUse \in BOOLEAN

Null == 0

VARIABLES
  alive, \* objects constructed and not yet destroyed
  count, \* _c
  size,  \* _vz
  ptr,   \* _v, the number of a block
  heap,  \* every block ever allocated
  moved, \* objects moved from, which are to be assigned or destroyed only
  holds, \* the directory whose entries the client expects in each object
  fault  \* undefined behaviour that has happened

vars == <<alive, count, size, ptr, heap, moved, holds, fault>>

Block == [entries : 0 .. MaxEntries, live : BOOLEAN, by : {"libuv", "copy"}]

TypeOK ==
  /\ alive \subseteq Obj /\ moved \subseteq alive
  /\ count \in [Obj -> 0 .. MaxEntries]
  /\ size \in [Obj -> 0 .. MaxEntries]
  /\ heap \in Seq(Block)
  /\ ptr \in [Obj -> 0 .. Len(heap)]
  /\ holds \in [Obj -> 0 .. MaxEntries]
  /\ fault \in {"none", "null", "freed", "beyond"}

Init ==
  /\ alive = {} /\ moved = {}
  /\ count = [o \in Obj |-> 0]
  /\ size = [o \in Obj |-> 0]
  /\ ptr = [o \in Obj |-> Null]
  /\ heap = <<>>
  /\ holds = [o \in Obj |-> 0]
  /\ fault = "none"

-----------------------------------------------------------------------------
(* Memory, as the heap h has it *)

\* What goes wrong when n entries are read from p.
ReadFault(h, p, n) ==
  IF n = 0 THEN "none"
  ELSE IF p = Null THEN "null"
  ELSE IF ~h[p].live THEN "freed"
  ELSE IF n > h[p].entries THEN "beyond"
  ELSE "none"

\* The size of an object with _c and _vz, found by traversing the entries of a view.
VZ(c, z) == IF z # 0 THEN z ELSE c

\* copy(), of the z entries at p.
CopyHeap(h, p, z) ==
  IF p = Null THEN h ELSE Append(h, [entries |-> z, live |-> TRUE, by |-> "copy"])

CopyPtr(h, p) == IF p = Null THEN Null ELSE Len(h) + 1

\* The traversal and the copy of an object with _c, _vz and _v.
CopyFault(h, c, z, p) == IF p = Null /\ z # 0 THEN "none" ELSE ReadFault(h, p, VZ(c, z))

\* dealloc(), called by an object with _vz and _v if it owns them.
Dealloc(h, z, p) == IF z = 0 \/ p = Null THEN h ELSE [h EXCEPT ![p].live = FALSE]

DeallocFault(h, z, p) == IF z # 0 /\ p # Null /\ ~h[p].live THEN "freed" ELSE "none"

\* The iterator reads as many entries as there are.
IterationFault(o) == ReadFault(heap, ptr[o], count[o])

\* libuv fills a buffer of its own with the entries; an empty directory has none.
ReadDirHeap(n) ==
  IF n = 0 THEN heap ELSE Append(heap, [entries |-> n, live |-> TRUE, by |-> "libuv"])

ReadDirPtr(n) == IF n = 0 THEN Null ELSE Len(heap) + 1

Within == fault = "none" /\ Len(heap) < MaxBlocks

Usable(o) == o \in alive \ moved

-----------------------------------------------------------------------------
(* Construction *)

Construct(o, c, z, p, n) ==
  /\ Within /\ o \notin alive
  /\ alive' = alive \cup {o}
  /\ count' = [count EXCEPT ![o] = c]
  /\ size' = [size EXCEPT ![o] = z]
  /\ ptr' = [ptr EXCEPT ![o] = p]
  /\ holds' = [holds EXCEPT ![o] = n]

ConstructDefault(o) ==
  /\ Construct(o, 0, 0, Null, 0)
  /\ UNCHANGED <<heap, moved, fault>>

\* The argument of a ReadDirCallback is a view.
ConstructView(o, n) ==
  /\ Construct(o, n, 0, ReadDirPtr(n), n)
  /\ heap' = ReadDirHeap(n)
  /\ UNCHANGED <<moved, fault>>

CopyConstruct(o, b) ==
  /\ Usable(b)
  /\ Construct(o, count[b], VZ(count[b], size[b]), CopyPtr(heap, ptr[b]), holds[b])
  /\ heap' = CopyHeap(heap, ptr[b], VZ(count[b], size[b]))
  /\ fault' = CopyFault(heap, count[b], size[b], ptr[b])
  /\ UNCHANGED moved

\* The default move constructor copies the members: b still has what o has.
MoveConstruct(o, b) ==
  /\ Usable(b)
  /\ size[b] = 0 \/ AnyUse
  /\ Construct(o, count[b], size[b], ptr[b], holds[b])
  /\ moved' = moved \cup {b}
  /\ UNCHANGED <<heap, fault>>

-----------------------------------------------------------------------------
(* Assignment and destruction *)

\* Bug: an object that is assigned to keeps what it owned.
GivenUp_Kept(o) == heap

\* The heap after `if (_vz) dealloc(_v)`.
GivenUp(o) == Dealloc(heap, size[o], ptr[o])

CopyAssign(o, b) ==
  /\ Within /\ o \in alive /\ Usable(b)
  /\ o # b \/ AnyUse
  /\ LET h == GivenUp(o)
         z == VZ(count[b], size[b])
         p == IF o = b /\ size[o] # 0 THEN Null ELSE ptr[b] \* dealloc() sets _v to null
     IN  /\ count' = [count EXCEPT ![o] = count[b]]
         /\ size' = [size EXCEPT ![o] = z]
         /\ ptr' = [ptr EXCEPT ![o] = CopyPtr(h, p)]
         /\ heap' = CopyHeap(h, p, z)
         /\ fault' = IF DeallocFault(heap, size[o], ptr[o]) # "none" THEN "freed"
                     ELSE CopyFault(h, count[b], size[b], p)
  /\ holds' = [holds EXCEPT ![o] = holds[b]]
  /\ moved' = moved \ {o}
  /\ UNCHANGED alive

\* Whether a move hands over the block of b, which is copied otherwise.
Transfers(b) == size[b] # 0

\* Bug: only the object moved from gets a new number of entries.
SwappedCounts_Kept(o, b) == [count EXCEPT ![b] = count[o]]

SwappedCounts(o, b) == [count EXCEPT ![o] = count[b], ![b] = count[o]]

\* A copy replaces what o had, which is not given up.
MoveAssign(o, b) ==
  /\ Within /\ o \in alive /\ Usable(b) /\ o # b
  /\ size[b] # 0 \/ size[o] = 0 \/ AnyUse
  /\ count' = SwappedCounts(o, b)
  /\ IF Transfers(b)
       THEN /\ size' = [size EXCEPT ![o] = size[b], ![b] = size[o]]
            /\ ptr' = [ptr EXCEPT ![o] = ptr[b], ![b] = ptr[o]]
            /\ UNCHANGED <<heap, fault>>
       ELSE /\ size' = [size EXCEPT ![o] = VZ(count[b], 0)]
            /\ ptr' = [ptr EXCEPT ![o] = CopyPtr(heap, ptr[b])]
            /\ heap' = CopyHeap(heap, ptr[b], VZ(count[b], 0))
            /\ fault' = CopyFault(heap, count[b], 0, ptr[b])
  /\ holds' = [holds EXCEPT ![o] = holds[b]]
  /\ moved' = (moved \ {o}) \cup {b}
  /\ UNCHANGED alive

\* The synchronous readdir() move-assigns a view to its result.
ReadDirSync(o, n) ==
  /\ Within /\ o \in alive
  /\ size[o] = 0 \/ AnyUse
  /\ LET h == ReadDirHeap(n)
         p == ReadDirPtr(n)
     IN  /\ count' = [count EXCEPT ![o] = n]
         /\ size' = [size EXCEPT ![o] = VZ(n, 0)]
         /\ ptr' = [ptr EXCEPT ![o] = CopyPtr(h, p)]
         /\ heap' = CopyHeap(h, p, VZ(n, 0))
         /\ fault' = CopyFault(h, n, 0, p)
  /\ holds' = [holds EXCEPT ![o] = n]
  /\ moved' = moved \ {o}
  /\ UNCHANGED alive

Destroy(o) ==
  /\ fault = "none" /\ o \in alive
  /\ alive' = alive \ {o}
  /\ moved' = moved \ {o}
  /\ heap' = GivenUp(o)
  /\ fault' = DeallocFault(heap, size[o], ptr[o])
  /\ UNCHANGED <<count, size, ptr, holds>>

Next ==
  \E o \in Obj :
    \/ ConstructDefault(o) \/ Destroy(o)
    \/ \E n \in 0 .. MaxEntries : ConstructView(o, n) \/ ReadDirSync(o, n)
    \/ \E b \in Obj :
         CopyConstruct(o, b) \/ MoveConstruct(o, b) \/ CopyAssign(o, b) \/ MoveAssign(o, b)

Spec == Init /\ [][Next]_vars

-----------------------------------------------------------------------------
(* Properties *)

Owners(k) == {o \in alive : ptr[o] = k /\ size[o] # 0}

\* "Non-zero if we own _v": every copy has exactly one owner until it is freed,
\* whatever sequence of the admitted operations comes before.  None is leaked, none
\* freed twice, and none is still owned when it has been freed.
SoleOwner ==
  fault = "none" =>
    \A k \in DOMAIN heap :
      IF heap[k].by = "copy" /\ heap[k].live
        THEN \E o \in alive : Owners(k) = {o}
        ELSE Owners(k) = {}

\* An object has the entries that were read, copied or moved into it last, and an
\* iteration over them reads its own memory only.
ValueKept ==
  /\ fault = "none"
  /\ \A o \in alive \ moved :
       /\ count[o] = holds[o] /\ IterationFault(o) = "none"
       /\ ptr[o] # Null => heap[ptr[o]].entries = count[o]

=============================================================================
