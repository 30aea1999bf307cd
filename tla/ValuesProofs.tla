---------------------------- MODULE ValuesProofs ----------------------------
(***************************************************************************)
(* Proofs about DirEnts, FileData and Error, for any number of objects,    *)
(* used in any order in the ways rx uses them.                             *)
(***************************************************************************)
EXTENDS MCValues, FiniteSetTheorems, SequenceTheorems, TLAPS

-----------------------------------------------------------------------------
(* Ownership, the same for the three classes *)

\* at[o] is the block of o, 0 if it has none: the objects in D have the blocks in
\* live, which are those in use, each of them one.
Sole(D, at, live) ==
  /\ \A o \in D : at[o] # 0 => at[o] \in live
  /\ \A o, b \in D : at[o] # 0 /\ at[o] = at[b] => o = b
  /\ \A k \in live : k # 0 /\ \E o \in D : at[o] = k

\* A block in use is that of one object.
LEMMA OneOwner ==
  ASSUME NEW D, NEW at, NEW live, Sole(D, at, live), NEW k, k # 0
  PROVE  IF k \in live THEN \E o \in D : {b \in D : at[b] = k} = {o}
         ELSE {b \in D : at[b] = k} = {}
BY DEF Sole

LEMMA OwnerCount ==
  ASSUME NEW D, NEW at, NEW live, Sole(D, at, live), NEW k, k # 0
  PROVE  Cardinality({b \in D : at[b] = k}) = IF k \in live THEN 1 ELSE 0
<1> DEFINE owners == {b \in D : at[b] = k}
<1>1. IF k \in live THEN \E o \in D : owners = {o} ELSE owners = {}
  BY OneOwner
<1>2. CASE k \in live
  <2>1. PICK o \in D : owners = {o}
    BY <1>1, <1>2
  <2>2. Cardinality(owners) = 1
    BY <2>1, FS_Singleton
  <2> QED
    BY <2>2, <1>2
<1>3. CASE k \notin live
  <2>1. Cardinality(owners) = 0
    BY <1>1, <1>3, FS_EmptySet
  <2> QED
    BY <2>1, <1>3
<1> QED
  BY <1>2, <1>3

\* o comes to have nothing, or comes to be.
LEMMA TakesNone ==
  ASSUME NEW D, NEW at, NEW live, Sole(D, at, live),
         NEW o, o \in D => at[o] = 0,
         NEW at2, at2[o] = 0, \A x \in D \ {o} : at2[x] = at[x]
  PROVE  Sole(D \cup {o}, at2, live)
BY DEF Sole

\* o comes to have a block that nobody has.
LEMMA TakesNew ==
  ASSUME NEW D, NEW at, NEW live, Sole(D, at, live),
         NEW o, o \in D => at[o] = 0, NEW k, k # 0, k \notin live,
         NEW at2, at2[o] = k, \A x \in D \ {o} : at2[x] = at[x]
  PROVE  Sole(D \cup {o}, at2, live \cup {k})
BY DEF Sole

\* o gets the block of b, which is left with that of o, if o had been there.
LEMMA HandsOver ==
  ASSUME NEW D, NEW at, NEW live, Sole(D, at, live),
         NEW o, NEW b \in D, o # b,
         NEW at2, at2[o] = at[b], at2[b] = IF o \in D THEN at[o] ELSE 0,
         \A x \in D \ {o, b} : at2[x] = at[x]
  PROVE  Sole(D \cup {o}, at2, live)
BY DEF Sole

\* o goes, and its block with it.
LEMMA GivesUp ==
  ASSUME NEW D, NEW at, NEW live, Sole(D, at, live), NEW o \in D,
         NEW at2, \A x \in D \ {o} : at2[x] = at[x]
  PROVE  Sole(D \ {o}, at2, live \ {at[o]})
BY DEF Sole

\* One element more at the end of a sequence.
LEMMA Last ==
  ASSUME NEW S, NEW b \in Seq(S), NEW e \in S
  PROVE  /\ Append(b, e) \in Seq(S)
         /\ DOMAIN b = 1 .. Len(b) /\ DOMAIN Append(b, e) = 1 .. Len(b) + 1
         /\ Len(b) \in Nat /\ Len(Append(b, e)) = Len(b) + 1
         /\ \A k \in 1 .. Len(b) : Append(b, e)[k] = b[k] /\ b[k] \in S
         /\ Append(b, e)[Len(b) + 1] = e
BY AppendProperties, LenProperties, ElementOfSeq

-----------------------------------------------------------------------------
(* DirEnts *)

\* The copy an object owns.
DAt == [o \in Obj |-> IF size[o] # 0 THEN ptr[o] ELSE 0]

\* The copies not freed.
Copies(h) == {k \in DOMAIN h : h[k].by = "copy" /\ h[k].live = TRUE}

\* The buffers of libuv are never freed.
HeapOK(h) == h \in Seq(Block) /\ \A k \in DOMAIN h : h[k].by = "libuv" => h[k].live = TRUE

\* _c, _vz and _v of an object that has the n entries of a directory.
Good(c, z, p, n, h) ==
  /\ c = n /\ (c # 0 <=> p # 0)
  /\ p # 0 => h[p].entries = c
  /\ z # 0 => z = c
  /\ z = 0 /\ p # 0 => h[p].by = "libuv"

\* The inductive invariant.
DirInv ==
  /\ TypeOK /\ fault = "none" /\ HeapOK(heap)
  /\ \A o \in alive \ moved : Good(count[o], size[o], ptr[o], holds[o], heap)
  /\ Sole(alive, DAt, Copies(heap))

\* No block of heap is another one in h.
Follows(h) ==
  /\ HeapOK(h) /\ Len(h) >= Len(heap)
  /\ \A k \in DOMAIN heap : h[k].entries = heap[k].entries /\ h[k].by = heap[k].by

LEMMA HeapFacts ==
  ASSUME NEW h, HeapOK(h)
  PROVE  /\ Len(h) \in Nat /\ DOMAIN h = 1 .. Len(h)
         /\ \A k \in 1 .. Len(h) : h[k] \in Block /\ (h[k].by = "libuv" => h[k].live = TRUE)
BY LenProperties, ElementOfSeq DEF HeapOK

\* A block more, which nobody owns yet.
LEMMA Grows ==
  ASSUME NEW h, HeapOK(h), NEW e \in Block, e.live = TRUE
  PROVE  /\ HeapOK(Append(h, e)) /\ Len(Append(h, e)) = Len(h) + 1
         /\ \A k \in DOMAIN h : Append(h, e)[k] = h[k]
         /\ Append(h, e)[Len(h) + 1] = e
         /\ Len(h) + 1 # 0 /\ Len(h) + 1 \notin Copies(h)
<1>1. /\ Append(h, e) \in Seq(Block)
      /\ DOMAIN h = 1 .. Len(h) /\ DOMAIN Append(h, e) = 1 .. Len(h) + 1
      /\ Len(h) \in Nat /\ Len(Append(h, e)) = Len(h) + 1
      /\ \A k \in 1 .. Len(h) : Append(h, e)[k] = h[k]
      /\ Append(h, e)[Len(h) + 1] = e
  BY Last DEF HeapOK
<1>2. \A k \in 1 .. Len(h) + 1 : Append(h, e)[k].by = "libuv" => Append(h, e)[k].live = TRUE
  <2> TAKE k \in 1 .. Len(h) + 1
  <2>1. CASE k = Len(h) + 1
    BY <1>1, <2>1
  <2>2. CASE k # Len(h) + 1
    <3>1. k \in 1 .. Len(h)
      BY <1>1, <2>2
    <3> QED
      BY <1>1, <3>1 DEF HeapOK
  <2> QED
    BY <2>1, <2>2
<1>3. Len(h) + 1 # 0 /\ Len(h) + 1 \notin Copies(h)
  BY <1>1 DEF Copies
<1> QED
  BY <1>1, <1>2, <1>3 DEF HeapOK

\* It is one more to be owned if it is a copy.
LEMMA GrowsBy ==
  ASSUME NEW h, HeapOK(h), NEW e \in Block, e.live = TRUE
  PROVE  Copies(Append(h, e)) = IF e.by = "copy" THEN Copies(h) \cup {Len(h) + 1} ELSE Copies(h)
<1>1. /\ DOMAIN h = 1 .. Len(h) /\ DOMAIN Append(h, e) = 1 .. Len(h) + 1
      /\ Len(h) \in Nat
      /\ \A k \in 1 .. Len(h) : Append(h, e)[k] = h[k]
      /\ Append(h, e)[Len(h) + 1] = e
  BY Last DEF HeapOK
<1>2. CASE e.by = "copy"
  BY <1>1, <1>2 DEF Copies
<1>3. CASE e.by # "copy"
  BY <1>1, <1>3 DEF Copies
<1> QED
  BY <1>2, <1>3

\* What an object gives up is freed if it owned it, and was not freed before.
LEMMA GivenUpHeap ==
  ASSUME DirInv, NEW o \in alive
  PROVE  /\ Follows(GivenUp(o)) /\ Len(GivenUp(o)) = Len(heap)
         /\ Copies(GivenUp(o)) = Copies(heap) \ {DAt[o]}
         /\ DeallocFault(heap, size[o], ptr[o]) = "none"
<1> DEFINE h == GivenUp(o)
<1>1. /\ Len(heap) \in Nat /\ DOMAIN heap = 1 .. Len(heap)
      /\ \A k \in 1 .. Len(heap) : heap[k] \in Block /\ (heap[k].by = "libuv" => heap[k].live = TRUE)
  BY HeapFacts DEF DirInv
<1>2. DAt[o] = IF size[o] # 0 THEN ptr[o] ELSE 0
  BY DEF DirInv, TypeOK, DAt
<1>3. CASE DAt[o] = 0
  <2>1. h = heap /\ DeallocFault(heap, size[o], ptr[o]) = "none"
    BY <1>2, <1>3 DEF GivenUp, Dealloc, DeallocFault, Null
  <2>2. 0 \notin Copies(heap)
    BY <1>1 DEF Copies
  <2>3. Follows(heap)
    BY <1>1 DEF Follows, DirInv
  <2> QED
    BY <1>3, <2>1, <2>2, <2>3
<1>4. CASE DAt[o] # 0
  <2> DEFINE p == ptr[o]
  <2>1. p = DAt[o] /\ size[o] # 0 /\ p # 0
    BY <1>2, <1>4
  <2>2. p \in Copies(heap)
    BY <1>4, <2>1 DEF DirInv, Sole
  <2>3. p \in DOMAIN heap /\ heap[p].by = "copy" /\ heap[p].live = TRUE
    BY <2>2 DEF Copies
  <2>4. h = [heap EXCEPT ![p].live = FALSE] /\ DeallocFault(heap, size[o], p) = "none"
    BY <2>1, <2>3 DEF GivenUp, Dealloc, DeallocFault, Null
  <2> HIDE DEF h, p
  <2>5. [heap[p] EXCEPT !.live = FALSE] \in Block
    BY <1>1, <2>3 DEF Block
  <2>6. /\ DOMAIN h = 1 .. Len(heap)
        /\ h[p] = [heap[p] EXCEPT !.live = FALSE]
        /\ \A k \in DOMAIN heap \ {p} : h[k] = heap[k]
    BY <1>1, <2>3, <2>4
  <2>7. h[p].entries = heap[p].entries /\ h[p].by = "copy" /\ h[p].live = FALSE
    BY <1>1, <2>3, <2>6 DEF Block
  <2>8. h \in Seq(Block) /\ Len(h) = Len(heap)
    <3>1. heap \in Seq(Block)
      BY DEF DirInv, HeapOK
    <3>2. h = [heap EXCEPT ![p] = [heap[p] EXCEPT !.live = FALSE]]
      BY <2>4
    <3> QED
      BY <1>1, <2>3, <2>5, <3>1, <3>2, ExceptSeq
  <2>9. Follows(h)
    <3>1. \A k \in DOMAIN h : h[k].by = "libuv" => h[k].live = TRUE
      BY <1>1, <2>6, <2>7
    <3>2. \A k \in DOMAIN heap : h[k].entries = heap[k].entries /\ h[k].by = heap[k].by
      BY <2>3, <2>6, <2>7
    <3> QED
      BY <1>1, <2>8, <3>1, <3>2 DEF Follows, HeapOK
  <2>10. Copies(h) = Copies(heap) \ {p}
    <3>1. DOMAIN h = DOMAIN heap /\ h[p].live # TRUE
      BY <1>1, <2>6, <2>7
    <3> QED
      BY <2>6, <3>1 DEF Copies
  <2> QED
    BY <2>1, <2>4, <2>8, <2>9, <2>10 DEF h, p
<1> QED
  BY <1>3, <1>4

\* What libuv fills in can be copied.
LEMMA ReadDirFacts ==
  ASSUME DirInv, NEW n \in 0 .. MaxEntries
  PROVE  /\ Follows(ReadDirHeap(n))
         /\ Copies(ReadDirHeap(n)) = Copies(heap)
         /\ ReadDirPtr(n) \in 0 .. Len(ReadDirHeap(n))
         /\ Good(n, 0, ReadDirPtr(n), n, ReadDirHeap(n))
         /\ ReadDirPtr(n) # 0 => ReadDirHeap(n)[ReadDirPtr(n)].live = TRUE
<1>1. HeapOK(heap) /\ Len(heap) \in Nat /\ DOMAIN heap = 1 .. Len(heap)
  BY HeapFacts DEF DirInv
<1>2. CASE n = 0
  BY <1>1, <1>2 DEF ReadDirHeap, ReadDirPtr, Null, Follows, Good
<1>3. CASE n # 0
  <2> DEFINE e == [entries |-> n, live |-> TRUE, by |-> "libuv"]
  <2>1. e \in Block /\ e.live = TRUE /\ e.by = "libuv" /\ e.entries = n
    BY DEF Block
  <2>2. ReadDirHeap(n) = Append(heap, e) /\ ReadDirPtr(n) = Len(heap) + 1
    BY <1>3 DEF ReadDirHeap, ReadDirPtr
  <2> HIDE DEF e
  <2>3. /\ HeapOK(Append(heap, e)) /\ Len(Append(heap, e)) = Len(heap) + 1
        /\ \A k \in DOMAIN heap : Append(heap, e)[k] = heap[k]
        /\ Append(heap, e)[Len(heap) + 1] = e
    BY <1>1, <2>1, Grows
  <2>4. Copies(Append(heap, e)) = Copies(heap)
    BY <1>1, <2>1, GrowsBy
  <2>5. Follows(Append(heap, e))
    BY <1>1, <2>3 DEF Follows
  <2>6. Good(n, 0, Len(heap) + 1, n, Append(heap, e))
    BY <1>1, <1>3, <2>1, <2>3 DEF Good
  <2> QED
    BY <1>1, <2>1, <2>2, <2>3, <2>4, <2>5, <2>6
<1> QED
  BY <1>2, <1>3

\* Objects keep what they have while other blocks come and go.
LEMMA GoodOn ==
  ASSUME DirInv, Follows(heap'), NEW o,
         \A x \in alive' \ moved' :
           x = o \/ (/\ x \in alive \ moved
                     /\ count'[x] = count[x] /\ size'[x] = size[x]
                     /\ ptr'[x] = ptr[x] /\ holds'[x] = holds[x]),
         o \in alive' \ moved' => Good(count'[o], size'[o], ptr'[o], holds'[o], heap')
  PROVE  \A x \in alive' \ moved' : Good(count'[x], size'[x], ptr'[x], holds'[x], heap')
<1> SUFFICES ASSUME NEW x \in alive' \ moved', x # o
             PROVE  Good(count[x], size[x], ptr[x], holds[x], heap')
  OBVIOUS
<1>1. x \in alive \ moved
  OBVIOUS
<1>2. Good(count[x], size[x], ptr[x], holds[x], heap)
  BY <1>1 DEF DirInv
<1>3. ptr[x] # 0 => ptr[x] \in DOMAIN heap
  <2>1. ptr[x] \in 0 .. Len(heap)
    BY <1>1 DEF DirInv, TypeOK
  <2> QED
    BY <2>1, HeapFacts DEF DirInv
<1> QED
  BY <1>2, <1>3 DEF Good, Follows

\* The values of an object with the n entries of a directory, which can be read in h.
CanCopy(c, z, p, n, h) ==
  /\ c \in 0 .. MaxEntries /\ z \in 0 .. MaxEntries /\ n \in 0 .. MaxEntries
  /\ p \in 0 .. Len(h)
  /\ Good(c, z, p, n, h)
  /\ p # 0 => h[p].live = TRUE

\* o gets a copy of such an object, in the heap h.
GetsCopy(o, c, z, p, n, h) ==
  /\ size' = [size EXCEPT ![o] = VZ(c, z)]
  /\ ptr' = [ptr EXCEPT ![o] = CopyPtr(h, p)]
  /\ holds' = [holds EXCEPT ![o] = n]
  /\ heap' = CopyHeap(h, p, VZ(c, z))
  /\ fault' = CopyFault(h, c, z, p)

\* The objects other than o stay what they are, or are moved from.
OnlyFor(o, c) ==
  /\ count' \in [Obj -> 0 .. MaxEntries] /\ count'[o] = c
  /\ moved' \subseteq alive' /\ alive' = alive \cup {o}
  /\ \A x \in alive' \ moved' : x = o \/ (x \in alive \ moved /\ count'[x] = count[x])

\* What a copy puts into o, in place of nothing or of what was given up: h is the
\* heap copied from, and at tells which block each object still has in it.
LEMMA CopyInto ==
  ASSUME DirInv, NEW h, Follows(h), NEW at, Sole(alive, at, Copies(h)),
         NEW o \in Obj, o \in alive => at[o] = 0, \A x \in alive \ {o} : at[x] = DAt[x],
         NEW c, NEW z, NEW p, NEW n,
         CanCopy(c, z, p, n, h), GetsCopy(o, c, z, p, n, h), OnlyFor(o, c)
  PROVE  DirInv'
<1> USE DEF CanCopy, GetsCopy, OnlyFor
<1>1. /\ Len(h) \in Nat /\ DOMAIN h = 1 .. Len(h) /\ HeapOK(h)
      /\ \A k \in 1 .. Len(h) : h[k] \in Block
  BY HeapFacts DEF Follows
<1>2. TypeOK
  BY DEF DirInv
<1>3. VZ(c, z) = c /\ (c # 0 <=> p # 0) /\ c = n /\ (p # 0 => h[p].entries = c)
  BY DEF Good, VZ
<1>4. fault' = "none"
  BY <1>1, <1>3 DEF CopyFault, ReadFault, Null
<1>5. /\ size'[o] = c /\ ptr'[o] = CopyPtr(h, p) /\ holds'[o] = c
      /\ \A x \in Obj \ {o} : size'[x] = size[x] /\ ptr'[x] = ptr[x] /\ holds'[x] = holds[x]
  BY <1>2, <1>3 DEF TypeOK
<1>6. /\ DAt'[o] = IF c # 0 THEN CopyPtr(h, p) ELSE 0
      /\ \A x \in alive \ {o} : DAt'[x] = at[x]
  <2>1. alive \subseteq Obj
    BY <1>2 DEF TypeOK
  <2> QED
    BY <1>5, <2>1 DEF DAt
<1>7. /\ Follows(heap') /\ CopyPtr(h, p) \in 0 .. Len(heap')
      /\ Good(c, c, CopyPtr(h, p), c, heap')
  <2>1. CASE p = 0
    <3>1. heap' = h /\ CopyPtr(h, p) = 0
      BY <2>1 DEF CopyHeap, CopyPtr, Null
    <3> QED
      BY <1>1, <1>3, <2>1, <3>1 DEF Good
  <2>2. CASE p # 0
    <3> DEFINE e == [entries |-> c, live |-> TRUE, by |-> "copy"]
    <3>1. e \in Block /\ e.live = TRUE /\ e.entries = c
      BY DEF Block
    <3>2. heap' = Append(h, e) /\ CopyPtr(h, p) = Len(h) + 1
      BY <1>3, <2>2 DEF CopyHeap, CopyPtr, Null
    <3> HIDE DEF e
    <3>3. /\ HeapOK(heap') /\ Len(heap') = Len(h) + 1
          /\ \A k \in DOMAIN h : heap'[k] = h[k]
          /\ heap'[Len(h) + 1] = e
      <4>1. /\ HeapOK(Append(h, e)) /\ Len(Append(h, e)) = Len(h) + 1
            /\ \A k \in DOMAIN h : Append(h, e)[k] = h[k]
            /\ Append(h, e)[Len(h) + 1] = e
        BY <1>1, <3>1, Grows
      <4> QED
        BY <3>2, <4>1
    <3>4. \A k \in DOMAIN heap : k \in DOMAIN h
      BY <1>1, HeapFacts DEF DirInv, Follows
    <3>5. Len(heap) \in Nat
      BY HeapFacts DEF DirInv
    <3>6. Follows(heap')
      BY <1>1, <3>3, <3>4, <3>5 DEF Follows
    <3>7. Good(c, c, Len(h) + 1, c, heap')
      BY <1>1, <1>3, <2>2, <3>1, <3>3 DEF Good
    <3> QED
      BY <1>1, <3>2, <3>3, <3>6, <3>7
  <2> QED
    BY <2>1, <2>2
<1>8. Sole(alive', DAt', Copies(heap'))
  <2>1. CASE p = 0
    <3>1. heap' = h /\ c = 0
      BY <1>3, <2>1 DEF CopyHeap, Null
    <3>2. Sole(alive \cup {o}, DAt', Copies(h))
      BY <1>6, <3>1, TakesNone
    <3> QED
      BY <3>1, <3>2
  <2>2. CASE p # 0
    <3> DEFINE e == [entries |-> c, live |-> TRUE, by |-> "copy"]
               k == Len(h) + 1
    <3>1. e \in Block /\ e.live = TRUE /\ e.by = "copy"
      BY DEF Block
    <3>2. heap' = Append(h, e) /\ CopyPtr(h, p) = k
      BY <1>3, <2>2 DEF CopyHeap, CopyPtr, Null
    <3> HIDE DEF e
    <3>3. k # 0 /\ k \notin Copies(h)
      BY <1>1, <3>1, Grows
    <3>4. Copies(Append(h, e)) = Copies(h) \cup {k}
      BY <1>1, <3>1, GrowsBy
    <3>5. DAt'[o] = k
      BY <1>3, <1>6, <2>2, <3>2
    <3> HIDE DEF k
    <3>6. Sole(alive \cup {o}, DAt', Copies(h) \cup {k})
      BY <1>6, <3>3, <3>5, TakesNew
    <3>7. Copies(heap') = Copies(h) \cup {k}
      BY <3>2, <3>4
    <3> QED
      BY <3>6, <3>7, Zenon
  <2> QED
    BY <2>1, <2>2
<1>9. TypeOK'
  <2>1. Len(heap) \in Nat /\ Len(heap') \in Nat /\ Len(heap') >= Len(heap)
    BY <1>7, HeapFacts DEF DirInv, Follows
  <2>2. ptr' \in [Obj -> 0 .. Len(heap')]
    <3>1. ptr \in [Obj -> 0 .. Len(heap')]
      BY <1>2, <2>1 DEF TypeOK
    <3> QED
      BY <1>7, <3>1
  <2>3. size' \in [Obj -> 0 .. MaxEntries] /\ holds' \in [Obj -> 0 .. MaxEntries]
    BY <1>2, <1>3 DEF TypeOK
  <2>4. heap' \in Seq(Block) /\ alive' \subseteq Obj
    BY <1>2, <1>7 DEF TypeOK, Follows, HeapOK
  <2> QED
    BY <1>4, <2>2, <2>3, <2>4 DEF TypeOK
<1>10. \A x \in alive' \ moved' : Good(count'[x], size'[x], ptr'[x], holds'[x], heap')
  <2>1. alive' \subseteq Obj
    BY <1>9 DEF TypeOK
  <2>2. Good(count'[o], size'[o], ptr'[o], holds'[o], heap')
    BY <1>5, <1>7
  <2>3. \A x \in alive' \ moved' :
          x = o \/ (/\ x \in alive \ moved
                     /\ count'[x] = count[x] /\ size'[x] = size[x]
                     /\ ptr'[x] = ptr[x] /\ holds'[x] = holds[x])
    BY <1>5, <2>1
  <2> QED
    BY <1>7, <2>2, <2>3, GoodOn
<1>11. HeapOK(heap')
  BY <1>7 DEF Follows
<1> QED
  BY <1>4, <1>8, <1>9, <1>10, <1>11 DEF DirInv

LEMMA DirsInit == Init => DirInv
<1> SUFFICES ASSUME Init
             PROVE  DirInv
  OBVIOUS
<1>1. heap \in Seq(Block) /\ Len(heap) = 0 /\ DOMAIN heap = {}
  BY EmptySeq DEF Init
<1>2. TypeOK
  BY <1>1, DirEntsAssumption DEF Init, TypeOK, Null
<1>3. Sole(alive, DAt, Copies(heap)) /\ HeapOK(heap)
  BY <1>1 DEF Init, Sole, Copies, HeapOK
<1> QED
  BY <1>2, <1>3 DEF DirInv, Init

\* An object that owns nothing is constructed, as a view or with nothing in it.
LEMMA ViewInto ==
  ASSUME DirInv, Follows(heap'), Copies(heap') = Copies(heap), NEW o \in Obj, o \notin alive,
         NEW c \in 0 .. MaxEntries, NEW p \in 0 .. Len(heap'), NEW n \in 0 .. MaxEntries,
         Good(c, 0, p, n, heap'), Construct(o, c, 0, p, n), fault' = "none",
         moved \subseteq moved', moved' \subseteq alive
  PROVE  DirInv'
<1>1. /\ alive' = alive \cup {o} /\ count' = [count EXCEPT ![o] = c]
      /\ size' = [size EXCEPT ![o] = 0] /\ ptr' = [ptr EXCEPT ![o] = p]
      /\ holds' = [holds EXCEPT ![o] = n]
  BY DEF Construct
<1>2. TypeOK /\ alive \subseteq Obj
  BY DEF DirInv, TypeOK
<1>3. /\ count'[o] = c /\ size'[o] = 0 /\ ptr'[o] = p /\ holds'[o] = n
      /\ \A x \in Obj \ {o} : /\ count'[x] = count[x] /\ size'[x] = size[x]
                              /\ ptr'[x] = ptr[x] /\ holds'[x] = holds[x]
  BY <1>1, <1>2 DEF TypeOK
<1>4. DAt'[o] = 0 /\ \A x \in alive \ {o} : DAt'[x] = DAt[x]
  BY <1>2, <1>3 DEF DAt
<1>5. Sole(alive', DAt', Copies(heap'))
  <2>1. Sole(alive, DAt, Copies(heap'))
    BY DEF DirInv
  <2>2. Sole(alive \cup {o}, DAt', Copies(heap'))
    BY <1>4, <2>1, TakesNone
  <2> QED
    BY <1>1, <2>2
<1>6. TypeOK'
  <2>1. Len(heap) \in Nat /\ Len(heap') \in Nat /\ Len(heap') >= Len(heap)
    BY HeapFacts DEF DirInv, Follows
  <2>2. ptr \in [Obj -> 0 .. Len(heap')]
    BY <1>2, <2>1 DEF TypeOK
  <2>3. ptr' \in [Obj -> 0 .. Len(heap')]
    BY <1>1, <2>2
  <2>4. size' \in [Obj -> 0 .. MaxEntries]
    BY <1>1, <1>2, DirEntsAssumption DEF TypeOK
  <2>5. count' \in [Obj -> 0 .. MaxEntries] /\ holds' \in [Obj -> 0 .. MaxEntries]
    BY <1>1, <1>2 DEF TypeOK
  <2>6. heap' \in Seq(Block) /\ alive' \subseteq Obj /\ moved' \subseteq alive'
    BY <1>1, <1>2 DEF TypeOK, Follows, HeapOK
  <2> QED
    BY <2>3, <2>4, <2>5, <2>6 DEF TypeOK
<1>7. \A x \in alive' \ moved' : Good(count'[x], size'[x], ptr'[x], holds'[x], heap')
  <2>1. Good(count'[o], size'[o], ptr'[o], holds'[o], heap')
    BY <1>3
  <2>2. \A x \in alive' \ moved' :
          x = o \/ (/\ x \in alive \ moved
                     /\ count'[x] = count[x] /\ size'[x] = size[x]
                     /\ ptr'[x] = ptr[x] /\ holds'[x] = holds[x])
    BY <1>1, <1>2, <1>3
  <2> QED
    BY <2>1, <2>2, GoodOn
<1> QED
  BY <1>5, <1>6, <1>7 DEF DirInv, Follows

LEMMA DirConstructed == ASSUME DirInv, NEW o \in Obj, ConstructDefault(o) PROVE DirInv'
<1>1. Construct(o, 0, 0, 0, 0) /\ heap' = heap /\ moved' = moved /\ fault' = fault
  BY DEF ConstructDefault, Null
<1>2. o \notin alive
  BY <1>1 DEF Construct
<1>3. HeapOK(heap) /\ Len(heap) \in Nat
  BY HeapFacts DEF DirInv
<1>4. Follows(heap') /\ 0 \in 0 .. Len(heap')
  BY <1>1, <1>3 DEF Follows
<1>5. Good(0, 0, 0, 0, heap')
  BY DEF Good
<1>6. moved \subseteq alive /\ fault' = "none"
  BY <1>1 DEF DirInv, TypeOK
<1> QED
  BY <1>1, <1>2, <1>4, <1>5, <1>6, ViewInto, DirEntsAssumption

LEMMA DirViewed ==
  ASSUME DirInv, NEW o \in Obj, NEW n \in 0 .. MaxEntries, ConstructView(o, n)
  PROVE  DirInv'
<1>1. Construct(o, n, 0, ReadDirPtr(n), n) /\ heap' = ReadDirHeap(n)
      /\ moved' = moved /\ fault' = fault
  BY DEF ConstructView
<1>2. o \notin alive
  BY <1>1 DEF Construct
<1>3. /\ Follows(heap') /\ Copies(heap') = Copies(heap)
      /\ ReadDirPtr(n) \in 0 .. Len(heap')
      /\ Good(n, 0, ReadDirPtr(n), n, heap')
  BY <1>1, ReadDirFacts
<1>4. moved \subseteq alive /\ fault' = "none"
  BY <1>1 DEF DirInv, TypeOK
<1> QED
  BY <1>1, <1>2, <1>3, <1>4, ViewInto

LEMMA DirMoved ==
  ASSUME DirInv, AnyUse = FALSE, NEW o \in Obj, NEW b \in Obj, MoveConstruct(o, b)
  PROVE  DirInv'
<1>1. /\ b \in alive \ moved /\ size[b] = 0
      /\ Construct(o, count[b], 0, ptr[b], holds[b])
      /\ moved' = moved \cup {b} /\ heap' = heap /\ fault' = fault
  BY DEF MoveConstruct, Usable
<1>2. o \notin alive
  BY <1>1 DEF Construct
<1>3. HeapOK(heap) /\ Len(heap) \in Nat
  BY HeapFacts DEF DirInv
<1>4. Follows(heap')
  BY <1>1, <1>3 DEF Follows
<1>5. Good(count[b], 0, ptr[b], holds[b], heap')
  BY <1>1 DEF DirInv
<1>6. moved' \subseteq alive /\ fault' = "none" /\ moved \subseteq moved'
  BY <1>1 DEF DirInv, TypeOK
<1>7. count[b] \in 0 .. MaxEntries /\ holds[b] \in 0 .. MaxEntries /\ ptr[b] \in 0 .. Len(heap')
  BY <1>1 DEF DirInv, TypeOK
<1> QED
  BY <1>1, <1>2, <1>4, <1>5, <1>6, <1>7, ViewInto

\* What b has can be read in any heap that follows and in which its block is owned still.
LEMMA Readable ==
  ASSUME DirInv, NEW h, Follows(h), NEW b \in alive \ moved,
         DAt[b] # 0 => DAt[b] \in Copies(h)
  PROVE  CanCopy(count[b], size[b], ptr[b], holds[b], h)
<1>1. /\ Len(heap) \in Nat /\ DOMAIN heap = 1 .. Len(heap)
      /\ Len(h) \in Nat /\ DOMAIN h = 1 .. Len(h) /\ Len(h) >= Len(heap)
      /\ \A k \in 1 .. Len(h) : h[k].by = "libuv" => h[k].live = TRUE
  BY HeapFacts DEF DirInv, Follows
<1>2. TypeOK /\ b \in Obj /\ Good(count[b], size[b], ptr[b], holds[b], heap)
  BY DEF DirInv, TypeOK
<1>3. /\ count[b] \in 0 .. MaxEntries /\ size[b] \in 0 .. MaxEntries
      /\ holds[b] \in 0 .. MaxEntries /\ ptr[b] \in 0 .. Len(heap)
  BY <1>2 DEF TypeOK
<1>4. ptr[b] # 0 => /\ ptr[b] \in DOMAIN heap /\ ptr[b] \in 1 .. Len(h)
                    /\ h[ptr[b]].entries = heap[ptr[b]].entries
                    /\ h[ptr[b]].by = heap[ptr[b]].by
  BY <1>1, <1>3 DEF Follows
<1>5. Good(count[b], size[b], ptr[b], holds[b], h)
  BY <1>2, <1>4 DEF Good
<1>6. ASSUME ptr[b] # 0
      PROVE  h[ptr[b]].live = TRUE
  <2>1. CASE size[b] = 0
    BY <1>1, <1>4, <1>5, <1>6, <2>1 DEF Good
  <2>2. CASE size[b] # 0
    <3>1. DAt[b] = ptr[b]
      BY <1>2, <2>2 DEF DAt
    <3> QED
      BY <1>6, <3>1 DEF Copies
  <2> QED
    BY <2>1, <2>2
<1>7. ptr[b] \in 0 .. Len(h)
  BY <1>1, <1>3
<1> QED
  BY <1>3, <1>5, <1>6, <1>7 DEF CanCopy

LEMMA DirCopied ==
  ASSUME DirInv, NEW o \in Obj, NEW b \in Obj, CopyConstruct(o, b)
  PROVE  DirInv'
<1>1. /\ b \in alive \ moved
      /\ Construct(o, count[b], VZ(count[b], size[b]), CopyPtr(heap, ptr[b]), holds[b])
      /\ heap' = CopyHeap(heap, ptr[b], VZ(count[b], size[b]))
      /\ fault' = CopyFault(heap, count[b], size[b], ptr[b]) /\ moved' = moved
  BY DEF CopyConstruct, Usable
<1>2. /\ o \notin alive /\ alive' = alive \cup {o}
      /\ count' = [count EXCEPT ![o] = count[b]]
      /\ size' = [size EXCEPT ![o] = VZ(count[b], size[b])]
      /\ ptr' = [ptr EXCEPT ![o] = CopyPtr(heap, ptr[b])]
      /\ holds' = [holds EXCEPT ![o] = holds[b]]
  BY <1>1 DEF Construct
<1>3. Follows(heap)
  BY HeapFacts DEF DirInv, Follows
<1>4. Sole(alive, DAt, Copies(heap))
  BY DEF DirInv
<1>5. DAt[b] # 0 => DAt[b] \in Copies(heap)
  BY <1>1, <1>4 DEF Sole
<1>6. CanCopy(count[b], size[b], ptr[b], holds[b], heap)
  BY <1>1, <1>3, <1>5, Readable
<1>7. OnlyFor(o, count[b])
  BY <1>1, <1>2, <1>6 DEF DirInv, TypeOK, OnlyFor, CanCopy
<1>8. GetsCopy(o, count[b], size[b], ptr[b], holds[b], heap)
  BY <1>1, <1>2 DEF GetsCopy
<1> QED
  BY <1>2, <1>3, <1>4, <1>6, <1>7, <1>8, CopyInto

LEMMA DirDestroyed == ASSUME DirInv, NEW o, Destroy(o) PROVE DirInv'
<1>1. /\ o \in alive /\ alive' = alive \ {o} /\ moved' = moved \ {o}
      /\ heap' = GivenUp(o) /\ fault' = DeallocFault(heap, size[o], ptr[o])
      /\ count' = count /\ size' = size /\ ptr' = ptr /\ holds' = holds
  BY DEF Destroy
<1>2. Follows(heap') /\ Len(heap') = Len(heap) /\ fault' = "none"
  BY <1>1, GivenUpHeap
<1>3. Copies(heap') = Copies(heap) \ {DAt[o]}
  BY <1>1, GivenUpHeap
<1>4. DAt' = DAt
  BY <1>1 DEF DAt
<1>5. Sole(alive \ {o}, DAt, Copies(heap) \ {DAt[o]})
  BY <1>1, GivesUp DEF DirInv
<1>6. Sole(alive', DAt', Copies(heap'))
  BY <1>1, <1>3, <1>4, <1>5
<1>7. TypeOK'
  BY <1>1, <1>2 DEF DirInv, TypeOK, Follows, HeapOK
<1>8. \A x \in alive' \ moved' : x \in alive \ moved
  BY <1>1
<1>9. \A x \in alive' \ moved' : Good(count'[x], size'[x], ptr'[x], holds'[x], heap')
  <2>1. o \notin alive' \ moved'
    BY <1>1
  <2> QED
    BY <1>1, <1>2, <1>8, <2>1, GoodOn
<1> QED
  BY <1>2, <1>6, <1>7, <1>9 DEF DirInv, Follows

\* What o owned has been given up: nobody owns it in the heap that is left.
LEMMA WithoutOwned ==
  ASSUME DirInv, NEW o \in alive,
         NEW at, at[o] = 0, \A x \in alive \ {o} : at[x] = DAt[x]
  PROVE  Sole(alive, at, Copies(GivenUp(o)))
<1>1. Sole(alive \ {o}, at, Copies(heap) \ {DAt[o]})
  BY GivesUp DEF DirInv
<1>2. Sole((alive \ {o}) \cup {o}, at, Copies(heap) \ {DAt[o]})
  BY <1>1, TakesNone
<1>3. (alive \ {o}) \cup {o} = alive /\ Copies(GivenUp(o)) = Copies(heap) \ {DAt[o]}
  BY GivenUpHeap
<1> QED
  BY <1>2, <1>3

LEMMA DirAssigned ==
  ASSUME DirInv, AnyUse = FALSE, NEW o \in Obj, NEW b \in Obj, CopyAssign(o, b)
  PROVE  DirInv'
<1> DEFINE h == GivenUp(o)
           at == [x \in Obj |-> IF x = o THEN 0 ELSE DAt[x]]
<1>1. /\ o \in alive /\ b \in alive \ moved /\ o # b
  BY DEF CopyAssign, Usable
<1>2. /\ Follows(h) /\ DeallocFault(heap, size[o], ptr[o]) = "none"
  BY <1>1, GivenUpHeap
<1>3. GetsCopy(o, count[b], size[b], ptr[b], holds[b], h)
  BY <1>1, <1>2 DEF CopyAssign, GetsCopy
<1>4. at[o] = 0 /\ \A x \in alive \ {o} : at[x] = DAt[x]
  BY DEF DirInv, TypeOK
<1> HIDE DEF at
<1>5. Sole(alive, at, Copies(h))
  BY <1>1, <1>4, WithoutOwned
<1> HIDE DEF h
<1>6. DAt[b] # 0 => DAt[b] \in Copies(h)
  BY <1>1, <1>4, <1>5 DEF Sole
<1>7. CanCopy(count[b], size[b], ptr[b], holds[b], h)
  BY <1>1, <1>2, <1>6, Readable
<1>8. OnlyFor(o, count[b])
  <2>1. /\ alive' = alive /\ moved' = moved \ {o}
        /\ count' = [count EXCEPT ![o] = count[b]]
    BY DEF CopyAssign
  <2> QED
    BY <1>1, <1>7, <2>1 DEF DirInv, TypeOK, OnlyFor, CanCopy
<1> QED
  BY <1>2, <1>3, <1>4, <1>5, <1>7, <1>8, CopyInto

LEMMA DirRead ==
  ASSUME DirInv, AnyUse = FALSE, NEW o \in Obj, NEW n \in 0 .. MaxEntries, ReadDirSync(o, n)
  PROVE  DirInv'
<1> DEFINE h == ReadDirHeap(n)
           p == ReadDirPtr(n)
<1>1. /\ o \in alive /\ size[o] = 0 /\ alive' = alive /\ moved' = moved \ {o}
      /\ count' = [count EXCEPT ![o] = n]
  BY DEF ReadDirSync
<1>2. GetsCopy(o, n, 0, p, n, h)
  BY DEF ReadDirSync, GetsCopy
<1>3. /\ Follows(h) /\ Copies(h) = Copies(heap) /\ p \in 0 .. Len(h)
      /\ Good(n, 0, p, n, h) /\ (p # 0 => h[p].live = TRUE)
  BY ReadDirFacts
<1> HIDE DEF h, p
<1>4. CanCopy(n, 0, p, n, h)
  BY <1>3, DirEntsAssumption DEF CanCopy
<1>5. Sole(alive, DAt, Copies(h)) /\ DAt[o] = 0
  BY <1>1, <1>3 DEF DirInv, DAt
<1>6. OnlyFor(o, n)
  BY <1>1 DEF DirInv, TypeOK, OnlyFor
<1> QED
  BY <1>2, <1>3, <1>4, <1>5, <1>6, CopyInto

LEMMA DirMoveAssigned ==
  ASSUME DirInv, AnyUse = FALSE, NEW o \in Obj, NEW b \in Obj, MoveAssign(o, b)
  PROVE  DirInv'
<1>1. /\ o \in alive /\ b \in alive \ moved /\ o # b /\ alive' = alive
      /\ (size[b] # 0 \/ size[o] = 0)
      /\ count' = [count EXCEPT ![o] = count[b], ![b] = count[o]]
      /\ holds' = [holds EXCEPT ![o] = holds[b]]
      /\ moved' = (moved \ {o}) \cup {b}
  BY DEF MoveAssign, SwappedCounts, Usable
<1>2. TypeOK
  BY DEF DirInv
<1>3. Follows(heap)
  BY HeapFacts DEF DirInv, Follows
<1>4. Sole(alive, DAt, Copies(heap))
  BY DEF DirInv
<1>5. /\ count' \in [Obj -> 0 .. MaxEntries] /\ count'[o] = count[b]
      /\ holds' \in [Obj -> 0 .. MaxEntries]
      /\ moved' \subseteq alive' /\ alive' = alive \cup {o}
      /\ \A x \in alive' \ moved' : x = o \/ (x \in alive \ moved /\ count'[x] = count[x])
  BY <1>1, <1>2 DEF TypeOK
<1>6. CASE size[b] # 0
  <2>1. /\ size' = [size EXCEPT ![o] = size[b], ![b] = size[o]]
        /\ ptr' = [ptr EXCEPT ![o] = ptr[b], ![b] = ptr[o]]
        /\ heap' = heap /\ fault' = fault
    BY <1>6 DEF MoveAssign, Transfers
  <2>2. /\ size'[o] = size[b] /\ ptr'[o] = ptr[b] /\ holds'[o] = holds[b]
        /\ size'[b] = size[o] /\ ptr'[b] = ptr[o]
        /\ \A x \in Obj \ {o, b} : size'[x] = size[x] /\ ptr'[x] = ptr[x] /\ holds'[x] = holds[x]
    BY <1>1, <1>2, <2>1 DEF TypeOK
  <2>3. /\ DAt'[o] = DAt[b] /\ DAt'[b] = DAt[o]
        /\ \A x \in alive \ {o, b} : DAt'[x] = DAt[x]
    BY <1>1, <1>2, <2>2 DEF DAt, TypeOK
  <2>4. Sole(alive \cup {o}, DAt', Copies(heap))
    BY <1>1, <1>4, <2>3, HandsOver
  <2>5. Sole(alive', DAt', Copies(heap'))
    BY <1>5, <2>1, <2>4
  <2>6. TypeOK'
    BY <1>1, <1>2, <1>5, <2>1 DEF TypeOK
  <2>7. Good(count'[o], size'[o], ptr'[o], holds'[o], heap')
    BY <1>1, <1>5, <2>1, <2>2 DEF DirInv
  <2>8. \A x \in alive' \ moved' :
          x = o \/ (/\ x \in alive \ moved
                     /\ count'[x] = count[x] /\ size'[x] = size[x]
                     /\ ptr'[x] = ptr[x] /\ holds'[x] = holds[x])
    BY <1>1, <1>2, <1>5, <2>2 DEF TypeOK
  <2>9. \A x \in alive' \ moved' : Good(count'[x], size'[x], ptr'[x], holds'[x], heap')
    BY <1>3, <2>1, <2>7, <2>8, GoodOn
  <2> QED
    BY <2>1, <2>5, <2>6, <2>9 DEF DirInv
<1>7. CASE size[b] = 0
  <2>1. GetsCopy(o, count[b], 0, ptr[b], holds[b], heap)
    BY <1>1, <1>7 DEF MoveAssign, Transfers, GetsCopy
  <2>2. DAt[o] = 0 /\ DAt[b] = 0
    BY <1>1, <1>7 DEF DAt
  <2>3. CanCopy(count[b], size[b], ptr[b], holds[b], heap)
    BY <1>1, <1>3, <2>2, Readable
  <2>4. OnlyFor(o, count[b])
    BY <1>5 DEF OnlyFor
  <2> QED
    BY <1>3, <1>4, <1>7, <2>1, <2>2, <2>3, <2>4, CopyInto
<1> QED
  BY <1>6, <1>7

LEMMA DirsStep == ASSUME AnyUse = FALSE, DirInv, Next PROVE DirInv'
BY DirConstructed, DirDestroyed, DirViewed, DirRead, DirCopied, DirMoved, DirAssigned, DirMoveAssigned
   DEF Next

LEMMA DirsStutter == DirInv /\ UNCHANGED vars => DirInv'
BY DEF DirInv, TypeOK, DAt, vars

LEMMA DirsOwned == DirInv => SoleOwner
<1> SUFFICES ASSUME DirInv, NEW k \in DOMAIN heap
             PROVE  IF heap[k].by = "copy" /\ heap[k].live
                      THEN \E o \in alive : Owners(k) = {o}
                      ELSE Owners(k) = {}
  BY DEF SoleOwner
<1>1. k # 0 /\ heap[k] \in Block
  <2>1. heap \in Seq(Block)
    BY DEF DirInv, HeapOK
  <2> QED
    BY <2>1, LenProperties, ElementOfSeq
<1>2. heap[k].live \in BOOLEAN
  BY <1>1 DEF Block
<1>3. {o \in alive : DAt[o] = k} = Owners(k)
  BY <1>1 DEF DAt, Owners, DirInv, TypeOK
<1>4. IF k \in Copies(heap) THEN \E o \in alive : {b \in alive : DAt[b] = k} = {o}
      ELSE {b \in alive : DAt[b] = k} = {}
  BY <1>1, OneOwner DEF DirInv
<1>5. k \in Copies(heap) <=> heap[k].by = "copy" /\ heap[k].live
  BY <1>2 DEF Copies
<1> QED
  BY <1>3, <1>4, <1>5

LEMMA DirsKept == DirInv => ValueKept
<1> SUFFICES ASSUME DirInv, NEW o \in alive \ moved
             PROVE  /\ count[o] = holds[o] /\ IterationFault(o) = "none"
                    /\ ptr[o] # Null => heap[ptr[o]].entries = count[o]
  BY DEF ValueKept, DirInv
<1>1. Follows(heap)
  BY HeapFacts DEF DirInv, Follows
<1>2. DAt[o] # 0 => DAt[o] \in Copies(heap)
  BY DEF DirInv, Sole
<1>3. CanCopy(count[o], size[o], ptr[o], holds[o], heap)
  BY <1>1, <1>2, Readable
<1> QED
  BY <1>3 DEF CanCopy, Good, IterationFault, ReadFault, Null

-----------------------------------------------------------------------------
(* FileData *)

FileRec == [size : 0 .. MaxEntries, mapped : BOOLEAN, open : BOOLEAN]
DataRec == [p : Nat, z : Nat, fd : Nat, holds : Int]

\* The file of an object.
FAt == [o \in DOMAIN data |-> data[o].p]

\* The files that are open.
OpenIn(b) == {k \in DOMAIN b : b[k].open = TRUE}

\* An object has the file it should, and its size; one moved from has none.
Right(d, fs) ==
  /\ d \in DataRec /\ d.fd = d.p
  /\ d.holds = -1 => d.p = 0
  /\ d.holds # -1 => d.p = d.holds /\ d.z = IF d.p = 0 THEN 0 ELSE fs[d.p].size

\* A file is mapped as long as it is open.
FilesOK(b) ==
  /\ b \in Seq(FileRec)
  /\ \A k \in DOMAIN b : b[k].mapped = b[k].open

\* The inductive invariant.
FileInv ==
  /\ FilesOK(files)
  /\ \A o \in DOMAIN data : Right(data[o], files)
  /\ Sole(DOMAIN data, FAt, OpenIn(files))

\* The destructor closes the file of an object and unmaps the whole of it.
LEMMA ReleasedFiles ==
  ASSUME FileInv, NEW o \in DOMAIN data
  PROVE  /\ FilesOK(F!Released(data[o]))
         /\ \A k \in DOMAIN files : F!Released(data[o])[k].size = files[k].size
         /\ OpenIn(F!Released(data[o])) = OpenIn(files) \ {FAt[o]}
<1> DEFINE r == F!Released(data[o])
<1>1. /\ Len(files) \in Nat /\ DOMAIN files = 1 .. Len(files)
      /\ \A k \in 1 .. Len(files) : files[k] \in FileRec /\ files[k].mapped = files[k].open
  BY LenProperties, ElementOfSeq DEF FileInv, FilesOK
<1>2. /\ FAt[o] = data[o].p /\ data[o].fd = data[o].p /\ data[o].p \in Nat
      /\ data[o].z \in Nat
      /\ data[o].p # 0 => data[o].z = files[data[o].p].size
  BY DEF FileInv, Right, DataRec, FAt
<1>3. \A k \in 1 .. Len(files) :
        /\ r[k] \in FileRec /\ r[k].size = files[k].size /\ r[k].mapped = r[k].open
        /\ (r[k].open = TRUE) <=> (files[k].open = TRUE /\ k # FAt[o])
  <2> TAKE k \in 1 .. Len(files)
  <2>1. r[k] = [files[k] EXCEPT !.mapped = @ /\ ~(k = data[o].p /\ files[k].size <= data[o].z),
                                !.open = @ /\ k # data[o].fd]
    BY <1>1 DEF F!Released
  <2>2. files[k] \in FileRec /\ files[k].mapped = files[k].open
    BY <1>1
  <2>3. files[k].size \in 0 .. MaxEntries /\ files[k].mapped \in BOOLEAN /\ files[k].open \in BOOLEAN
    BY <2>2 DEF FileRec
  <2>4. k = data[o].p => files[k].size <= data[o].z
    <3>1. SUFFICES ASSUME k = data[o].p
                   PROVE  files[k].size <= data[o].z
      OBVIOUS
    <3>2. data[o].z = files[k].size
      BY <1>1, <1>2, <3>1
    <3> QED
      BY <2>3, <3>2
  <2>5. r[k] = [size |-> files[k].size,
                mapped |-> files[k].mapped /\ ~(k = data[o].p /\ files[k].size <= data[o].z),
                open |-> files[k].open /\ k # data[o].fd]
    BY <2>1, <2>2 DEF FileRec
  <2>6. (files[k].mapped /\ ~(k = data[o].p /\ files[k].size <= data[o].z))
          = (files[k].open /\ k # data[o].fd)
    BY <1>2, <2>2, <2>3, <2>4
  <2>7. r[k].size = files[k].size /\ r[k].mapped = r[k].open
    BY <2>5, <2>6
  <2>8. r[k] \in FileRec
    BY <2>3, <2>5 DEF FileRec
  <2>9. r[k].open = (files[k].open /\ k # data[o].fd)
    BY <2>5
  <2>10. (r[k].open = TRUE) <=> (files[k].open = TRUE /\ k # FAt[o])
    BY <1>2, <2>3, <2>9
  <2> QED
    BY <2>7, <2>8, <2>10
<1>4. r \in [1 .. Len(files) -> FileRec] /\ DOMAIN r = DOMAIN files
  <2>1. DOMAIN r = 1 .. Len(files) /\ r = [k \in 1 .. Len(files) |-> r[k]]
    BY <1>1 DEF F!Released
  <2> QED
    BY <1>1, <1>3, <2>1
<1>5. r \in Seq(FileRec)
  BY <1>1, <1>4, IsASeq
<1>6. OpenIn(r) = OpenIn(files) \ {FAt[o]}
  <2> HIDE DEF r
  <2> QED
    BY <1>1, <1>3, <1>4 DEF OpenIn
<1> QED
  BY <1>1, <1>3, <1>4, <1>5, <1>6 DEF FilesOK

\* One more file, open or not.
LEMMA OpenedFiles ==
  ASSUME FilesOK(files), NEW n \in 0 .. MaxEntries, NEW m \in BOOLEAN
  PROVE  /\ FilesOK(F!Opened(n, m))
         /\ \A k \in DOMAIN files : F!Opened(n, m)[k] = files[k]
         /\ Len(files) + 1 \in Nat \ {0} /\ Len(files) + 1 \notin OpenIn(files)
         /\ F!Opened(n, m)[Len(files) + 1].size = n
         /\ OpenIn(F!Opened(n, m)) = IF m THEN OpenIn(files) \cup {Len(files) + 1} ELSE OpenIn(files)
<1> DEFINE e == [size |-> n, mapped |-> m, open |-> m]
           r == F!Opened(n, m)
<1>1. e \in FileRec /\ e.mapped = e.open /\ e.size = n
  BY DEF FileRec
<1>2. (e.open = TRUE) <=> m
  OBVIOUS
<1>3. r = Append(files, e)
  BY DEF F!Opened
<1>4. files \in Seq(FileRec) /\ \A k \in DOMAIN files : files[k].mapped = files[k].open
  BY DEF FilesOK
<1> HIDE DEF e, r
<1>5. /\ r \in Seq(FileRec)
      /\ DOMAIN files = 1 .. Len(files) /\ DOMAIN r = 1 .. Len(files) + 1
      /\ Len(files) \in Nat
      /\ \A k \in 1 .. Len(files) : r[k] = files[k]
      /\ r[Len(files) + 1] = e
  BY <1>1, <1>3, <1>4, Last
<1>6. FilesOK(r)
  <2>1. ASSUME NEW k \in 1 .. Len(files) + 1
        PROVE  r[k].mapped = r[k].open
    <3>1. CASE k = Len(files) + 1
      BY <1>1, <1>5, <3>1
    <3>2. CASE k # Len(files) + 1
      <4>1. k \in 1 .. Len(files)
        BY <1>5, <3>2
      <4> QED
        BY <1>4, <1>5, <4>1
    <3> QED
      BY <3>1, <3>2
  <2> QED
    BY <1>5, <2>1 DEF FilesOK
<1>7. Len(files) + 1 \notin OpenIn(files)
  BY <1>5 DEF OpenIn
<1>8. OpenIn(r) = IF m THEN OpenIn(files) \cup {Len(files) + 1} ELSE OpenIn(files)
  <2>1. \A k \in 1 .. Len(files) : r[k].open = files[k].open
    BY <1>5
  <2>2. CASE m
    BY <1>2, <1>5, <2>1, <2>2 DEF OpenIn
  <2>3. CASE ~m
    BY <1>2, <1>5, <2>1, <2>3 DEF OpenIn
  <2> QED
    BY <2>2, <2>3
<1> QED
  BY <1>1, <1>5, <1>6, <1>7, <1>8 DEF r

\* An object keeps its file while others come and go.
LEMMA StillRight ==
  ASSUME FileInv, \A k \in DOMAIN files : files'[k].size = files[k].size,
         NEW x \in DOMAIN data
  PROVE  Right(data[x], files')
<1>1. Right(data[x], files)
  BY DEF FileInv
<1>2. data[x].p # 0 => data[x].p \in DOMAIN files
  BY DEF FileInv, Sole, OpenIn, FAt
<1> QED
  BY <1>1, <1>2 DEF Right

LEMMA FilesInit == F!Init => FileInv
BY EmptySeq DEF F!Init, FileInv, FilesOK, Sole, FAt, OpenIn

LEMMA ReadFails == ASSUME FileInv, NEW n \in 0 .. MaxEntries, F!ReadFileFails(n) PROVE FileInv'
<1>1. files' = F!Opened(n, FALSE) /\ data' = data
  BY DEF F!ReadFileFails
<1>2. FilesOK(files)
  BY DEF FileInv
<1>3. FilesOK(files') /\ \A k \in DOMAIN files : files'[k] = files[k]
  BY <1>1, <1>2, OpenedFiles
<1>4. OpenIn(files') = OpenIn(files)
  BY <1>1, <1>2, OpenedFiles
<1>5. \A x \in DOMAIN data' : Right(data'[x], files')
  BY <1>1, <1>3, StillRight
<1>6. FAt' = FAt
  BY <1>1 DEF FAt
<1> QED
  BY <1>1, <1>3, <1>4, <1>5, <1>6 DEF FileInv

LEMMA DefaultData == ASSUME FileInv, NEW o, F!ConstructDefault(o) PROVE FileInv'
<1>1. /\ DOMAIN data' = DOMAIN data \cup {o} /\ o \notin DOMAIN data
      /\ data'[o] = [p |-> 0, z |-> 0, fd |-> 0, holds |-> 0]
      /\ \A x \in DOMAIN data : data'[x] = data[x]
      /\ files' = files
  BY DEF F!ConstructDefault, F!Has, F!Empty, F!None
<1>2. FAt'[o] = 0 /\ \A x \in DOMAIN data \ {o} : FAt'[x] = FAt[x]
  BY <1>1 DEF FAt
<1>3. Sole(DOMAIN data \cup {o}, FAt', OpenIn(files))
  BY <1>1, <1>2, TakesNone DEF FileInv
<1>4. Right(data'[o], files')
  BY <1>1 DEF Right, DataRec
<1>5. \A x \in DOMAIN data' : Right(data'[x], files')
  BY <1>1, <1>4 DEF FileInv
<1> QED
  BY <1>1, <1>3, <1>5 DEF FileInv

\* Both forms of reading a file into an object that has none.
LEMMA DataRead ==
  ASSUME FileInv, NEW o, NEW n \in 0 .. MaxEntries, o \in DOMAIN data => data[o].p = 0,
         files' = F!Opened(n, TRUE), data' = F!Has(o, F!Of(n))
  PROVE  FileInv'
<1> DEFINE k == Len(files) + 1
<1>1. /\ DOMAIN data' = DOMAIN data \cup {o}
      /\ data'[o] = [p |-> k, z |-> n, fd |-> k, holds |-> k]
      /\ \A x \in DOMAIN data \ {o} : data'[x] = data[x]
  BY DEF F!Has, F!Of
<1>2. FilesOK(files)
  BY DEF FileInv
<1>3. /\ FilesOK(files') /\ \A j \in DOMAIN files : files'[j] = files[j]
      /\ k \in Nat \ {0} /\ k \notin OpenIn(files)
      /\ files'[k].size = n
  BY <1>2, OpenedFiles
<1>4. OpenIn(files') = OpenIn(files) \cup {k}
  BY <1>2, OpenedFiles
<1> HIDE DEF k
<1>5. FAt'[o] = k /\ \A x \in DOMAIN data \ {o} : FAt'[x] = FAt[x]
  BY <1>1 DEF FAt
<1>6. o \in DOMAIN data => FAt[o] = 0
  BY DEF FAt
<1>7. Sole(DOMAIN data \cup {o}, FAt', OpenIn(files) \cup {k})
  <2>1. Sole(DOMAIN data, FAt, OpenIn(files)) /\ k # 0 /\ k \notin OpenIn(files)
    BY <1>3 DEF FileInv
  <2> QED
    BY <1>5, <1>6, <2>1, TakesNew
<1>8. Right(data'[o], files')
  <2>1. k \in Nat /\ k # 0 /\ n \in Nat /\ k # -1
    BY <1>3
  <2>2. data'[o] \in DataRec
    BY <1>1, <2>1 DEF DataRec
  <2>3. data'[o].p = k /\ data'[o].fd = k /\ data'[o].holds = k /\ data'[o].z = n
    BY <1>1
  <2>4. files'[k].size = n
    BY <1>3
  <2> QED
    BY <2>1, <2>2, <2>3, <2>4 DEF Right
<1>9. \A x \in DOMAIN data \ {o} : Right(data'[x], files')
  BY <1>1, <1>3, StillRight
<1>10. \A x \in DOMAIN data' : Right(data'[x], files')
  BY <1>1, <1>8, <1>9
<1>11. Sole(DOMAIN data', FAt', OpenIn(files'))
  BY <1>1, <1>4, <1>7, Zenon
<1> QED
  BY <1>3, <1>10, <1>11 DEF FileInv

LEMMA DataMoved == ASSUME FileInv, AnyUse = FALSE, NEW o, NEW b, F!MoveConstruct(o, b) PROVE FileInv'
<1>1. /\ o \notin DOMAIN data /\ b \in DOMAIN data /\ data[b].p = 0 /\ data[b].holds # -1
      /\ data' = [F!Has(o, data[b]) EXCEPT ![b].holds = -1]
      /\ files' = files
  BY DEF F!MoveConstruct, F!Usable, F!None, F!Moved
<1>2. Right(data[b], files)
  BY <1>1 DEF FileInv
<1>3. /\ DOMAIN data' = DOMAIN data \cup {o}
      /\ data'[o] = data[b] /\ data'[b] = [data[b] EXCEPT !.holds = -1]
      /\ \A x \in DOMAIN data \ {b} : data'[x] = data[x]
  BY <1>1 DEF F!Has
<1>4. data'[b].p = 0 /\ Right(data'[b], files')
  BY <1>1, <1>2, <1>3 DEF Right, DataRec
<1>5. FAt'[o] = 0 /\ \A x \in DOMAIN data \ {o} : FAt'[x] = FAt[x]
  BY <1>1, <1>3, <1>4 DEF FAt
<1>6. Sole(DOMAIN data \cup {o}, FAt', OpenIn(files))
  BY <1>1, <1>5, TakesNone DEF FileInv
<1>7. \A x \in DOMAIN data' : Right(data'[x], files')
  BY <1>1, <1>2, <1>3, <1>4 DEF FileInv
<1> QED
  BY <1>1, <1>3, <1>6, <1>7 DEF FileInv

LEMMA DataAssigned == ASSUME FileInv, NEW o, NEW b, F!MoveAssign(o, b) PROVE FileInv'
<1> DEFINE at == [x \in DOMAIN data |-> IF x = o THEN 0 ELSE FAt[x]]
<1>1. /\ o \in DOMAIN data /\ b \in DOMAIN data /\ o # b /\ data[b].holds # -1
      /\ files' = F!Released(data[o])
      /\ DOMAIN data' = DOMAIN data
      /\ data'[o] = data[b]
      /\ data'[b] = [p |-> 0, z |-> data[o].z, fd |-> 0, holds |-> -1]
      /\ \A x \in DOMAIN data \ {o, b} : data'[x] = data[x]
  BY DEF F!MoveAssign, F!AfterMove, F!Usable, F!Moved, F!None, F!Empty
<1>2. /\ FilesOK(files') /\ \A k \in DOMAIN files : files'[k].size = files[k].size
  BY <1>1, ReleasedFiles
<1>3. OpenIn(files') = OpenIn(files) \ {FAt[o]}
  BY <1>1, ReleasedFiles
<1>4. at[o] = 0 /\ at[b] = data[b].p /\ \A x \in DOMAIN data \ {o} : at[x] = FAt[x]
  BY <1>1 DEF FAt
<1>5. FAt'[o] = at[b] /\ FAt'[b] = 0 /\ \A x \in DOMAIN data \ {o, b} : FAt'[x] = at[x]
  BY <1>1, <1>4 DEF FAt
<1> HIDE DEF at
<1>6. Sole(DOMAIN data \ {o}, at, OpenIn(files'))
  <2>1. Sole(DOMAIN data \ {o}, at, OpenIn(files) \ {FAt[o]})
    BY <1>1, <1>4, GivesUp DEF FileInv
  <2> QED
    BY <1>3, <2>1, Zenon
<1>7. Sole((DOMAIN data \ {o}) \cup {o}, FAt', OpenIn(files'))
  BY <1>1, <1>5, <1>6, HandsOver
<1>8. Sole(DOMAIN data', FAt', OpenIn(files'))
  <2>1. (DOMAIN data \ {o}) \cup {o} = DOMAIN data'
    BY <1>1
  <2> QED
    BY <1>7, <2>1, Zenon
<1>9. Right(data'[b], files')
  <2>1. data[o] \in DataRec
    BY <1>1 DEF FileInv, Right
  <2> QED
    BY <1>1, <2>1 DEF Right, DataRec
<1>10. \A x \in DOMAIN data \ {b} : Right(data'[x], files')
  BY <1>1, <1>2, StillRight
<1>11. \A x \in DOMAIN data' : Right(data'[x], files')
  BY <1>1, <1>9, <1>10
<1> QED
  BY <1>2, <1>8, <1>11 DEF FileInv

LEMMA DataDestroyed == ASSUME FileInv, NEW o, F!Destroy(o) PROVE FileInv'
<1>1. /\ o \in DOMAIN data /\ files' = F!Released(data[o])
      /\ DOMAIN data' = DOMAIN data \ {o}
      /\ \A x \in DOMAIN data \ {o} : data'[x] = data[x]
  BY DEF F!Destroy
<1>2. /\ FilesOK(files') /\ \A k \in DOMAIN files : files'[k].size = files[k].size
  BY <1>1, ReleasedFiles
<1>3. OpenIn(files') = OpenIn(files) \ {FAt[o]}
  BY <1>1, ReleasedFiles
<1>4. \A x \in DOMAIN data \ {o} : FAt'[x] = FAt[x]
  BY <1>1 DEF FAt
<1>5. Sole(DOMAIN data \ {o}, FAt', OpenIn(files) \ {FAt[o]})
  BY <1>1, <1>4, GivesUp DEF FileInv
<1>6. Sole(DOMAIN data', FAt', OpenIn(files'))
  BY <1>1, <1>3, <1>5, Zenon
<1>7. \A x \in DOMAIN data' : Right(data'[x], files')
  BY <1>1, <1>2, StillRight
<1> QED
  BY <1>2, <1>6, <1>7 DEF FileInv

LEMMA FilesStep == ASSUME AnyUse = FALSE, FileInv, F!Next PROVE FileInv'
<1>1. ASSUME NEW n \in 0 .. MaxEntries, F!ReadFileFails(n) PROVE FileInv'
  BY <1>1, ReadFails
<1>2. ASSUME NEW o, NEW n \in 1 .. MaxEntries, F!ConstructRead(o, n) \/ F!ReadFileSync(o, n)
      PROVE  FileInv'
  <2>1. n \in 0 .. MaxEntries
    BY DirEntsAssumption
  <2>2. /\ o \in DOMAIN data => data[o].p = 0
        /\ files' = F!Opened(n, TRUE) /\ data' = F!Has(o, F!Of(n))
    BY <1>2 DEF F!ConstructRead, F!ReadFileSync, F!None
  <2> QED
    BY <2>1, <2>2, DataRead
<1> QED
  BY <1>1, <1>2, DefaultData, DataDestroyed, DataMoved, DataAssigned DEF F!Next

LEMMA FilesStutter == FileInv /\ UNCHANGED <<data, files>> => FileInv'
BY DEF FileInv, FAt

LEMMA FilesKept == FileInv => F!DataKept
BY DEF FileInv, Right, F!DataKept, F!Moved, F!None

LEMMA FilesOwned == FileInv => F!FilesOwned
<1> SUFFICES ASSUME FileInv
             PROVE  F!FilesOwned
  OBVIOUS
<1>1. ASSUME NEW k \in DOMAIN files
      PROVE  LET owners == {o \in DOMAIN data : data[o].p = k}
             IN /\ owners = {o \in DOMAIN data : data[o].fd = k}
                /\ F!Cardinality(owners) = IF files[k].open THEN 1 ELSE 0
                /\ files[k].mapped = files[k].open
  <2> DEFINE owners == {o \in DOMAIN data : data[o].p = k}
  <2>1. k # 0 /\ files[k] \in FileRec /\ files[k].mapped = files[k].open
    BY LenProperties, ElementOfSeq DEF FileInv, FilesOK
  <2>2. files[k].open \in BOOLEAN
    BY <2>1 DEF FileRec
  <2>3. owners = {o \in DOMAIN data : data[o].fd = k}
    BY DEF FileInv, Right
  <2>4. Cardinality({o \in DOMAIN data : FAt[o] = k}) = IF k \in OpenIn(files) THEN 1 ELSE 0
    BY <2>1, OwnerCount DEF FileInv
  <2>5. {o \in DOMAIN data : FAt[o] = k} = owners
    BY DEF FAt
  <2>6. k \in OpenIn(files) <=> files[k].open
    BY <2>2 DEF OpenIn
  <2> HIDE DEF owners
  <2>7. Cardinality(owners) = IF files[k].open THEN 1 ELSE 0
    BY <2>4, <2>5, <2>6
  <2>8. F!Cardinality(owners) = Cardinality(owners)
    BY DEF F!Cardinality, Cardinality
  <2> QED
    BY <2>1, <2>3, <2>7, <2>8 DEF owners
<1> QED
  BY <1>1 DEF F!FilesOwned

-----------------------------------------------------------------------------
(* Error *)

StateBlock == [code : 0 .. 1, live : BOOLEAN]
LiveBlock == [code : 0 .. 1, live : {TRUE}]

\* The block of an error.
At == [o \in DOMAIN errs |-> errs[o].state]

\* The blocks not deleted.
LiveIn(b) == {k \in DOMAIN b : b[k].live = TRUE}

\* The inductive invariant.
ErrInv ==
  /\ states \in Seq(StateBlock)
  /\ Sole(DOMAIN errs, At, LiveIn(states))
  /\ E!ErrorKept

\* A deleted block keeps its code, and nobody has it.
LEMMA DeletedStates ==
  ASSUME states \in Seq(StateBlock), NEW s
  PROVE  /\ E!Deleted(s) \in Seq(StateBlock)
         /\ DOMAIN E!Deleted(s) = DOMAIN states
         /\ Len(E!Deleted(s)) = Len(states)
         /\ \A k \in DOMAIN states : E!Deleted(s)[k].code = states[k].code
         /\ LiveIn(E!Deleted(s)) = LiveIn(states) \ {s}
<1> DEFINE d == E!Deleted(s)
<1>1. Len(states) \in Nat /\ DOMAIN states = 1 .. Len(states)
      /\ \A k \in 1 .. Len(states) : states[k] \in StateBlock
  BY LenProperties, ElementOfSeq
<1>2. d = [k \in 1 .. Len(states) |-> [states[k] EXCEPT !.live = @ /\ k # s]]
  BY <1>1 DEF E!Deleted
<1>3. \A k \in 1 .. Len(states) :
        /\ d[k] \in StateBlock /\ d[k].code = states[k].code
        /\ d[k].live <=> states[k].live /\ k # s
  <2> TAKE k \in 1 .. Len(states)
  <2>1. states[k] \in StateBlock /\ d[k] = [states[k] EXCEPT !.live = @ /\ k # s]
    BY <1>1, <1>2
  <2> QED
    BY <2>1 DEF StateBlock
<1>4. d \in [1 .. Len(states) -> StateBlock]
  BY <1>2, <1>3
<1>5. d \in Seq(StateBlock) /\ Len(d) = Len(states) /\ DOMAIN d = DOMAIN states
  BY <1>1, <1>4, IsASeq, LenProperties
<1>6. \A k \in 1 .. Len(states) : states[k].live \in BOOLEAN /\ d[k].live \in BOOLEAN
  BY <1>1, <1>3 DEF StateBlock
<1>7. \A k \in 1 .. Len(states) : (d[k].live = TRUE) <=> (states[k].live = TRUE /\ k # s)
  BY <1>3, <1>6
<1>8. LiveIn(d) = LiveIn(states) \ {s}
  BY <1>1, <1>5, <1>7 DEF LiveIn
<1> QED
  BY <1>1, <1>3, <1>5, <1>8

\* A block more leaves the others as they are ...
LEMMA AppendedStates ==
  ASSUME NEW b \in Seq(StateBlock), NEW e \in LiveBlock
  PROVE  /\ Append(b, e) \in Seq(StateBlock)
         /\ \A k \in DOMAIN b : Append(b, e)[k] = b[k]
         /\ Append(b, e)[Len(b) + 1] = e /\ Len(b) + 1 # 0
<1> e \in StateBlock
  BY DEF StateBlock, LiveBlock
<1> QED
  BY Last

\* ... and is the only one that is new.
LEMMA AppendedLive ==
  ASSUME NEW b \in Seq(StateBlock), NEW e \in LiveBlock
  PROVE  /\ LiveIn(Append(b, e)) = LiveIn(b) \cup {Len(b) + 1}
         /\ Len(b) + 1 \notin LiveIn(b)
<1>1. e \in StateBlock /\ e.live = TRUE
  BY DEF StateBlock, LiveBlock
<1>2. /\ DOMAIN b = 1 .. Len(b) /\ DOMAIN Append(b, e) = 1 .. Len(b) + 1
      /\ Len(b) \in Nat
      /\ \A k \in 1 .. Len(b) : Append(b, e)[k] = b[k]
      /\ Append(b, e)[Len(b) + 1] = e
  BY <1>1, Last
<1> QED
  BY <1>1, <1>2 DEF LiveIn

\* What the objects not touched have stays the same.
LEMMA KeptOn ==
  ASSUME ErrInv, \A k \in DOMAIN states : states'[k].code = states[k].code,
         NEW o,
         o \in DOMAIN errs' => errs'[o].holds = IF errs'[o].state = 0 THEN {}
                                               ELSE {states'[errs'[o].state].code},
         \A x \in DOMAIN errs' \ {o} :
           (x \in DOMAIN errs /\ errs'[x] = errs[x]) \/ errs'[x].holds = E!Moved
  PROVE  E!ErrorKept'
<1> SUFFICES ASSUME NEW x \in DOMAIN errs', errs'[x].holds # E!Moved
             PROVE  errs'[x].holds = IF errs'[x].state = 0 THEN {}
                                     ELSE {states'[errs'[x].state].code}
  BY DEF E!ErrorKept, E!Null, E!OK
<1> SUFFICES ASSUME x \in DOMAIN errs, errs'[x] = errs[x]
             PROVE  errs[x].holds = IF errs[x].state = 0 THEN {}
                                    ELSE {states'[errs[x].state].code}
  OBVIOUS
<1>1. errs[x].holds = IF errs[x].state = 0 THEN {} ELSE {states[errs[x].state].code}
  BY DEF ErrInv, E!ErrorKept, E!Null, E!OK
<1>2. errs[x].state # 0 => errs[x].state \in DOMAIN states
  BY DEF ErrInv, Sole, LiveIn, At
<1> QED
  BY <1>1, <1>2

LEMMA ErrInit == E!Init => ErrInv
BY EmptySeq DEF E!Init, ErrInv, Sole, At, LiveIn, E!ErrorKept

LEMMA ConstructOKInv == ASSUME ErrInv, NEW o, E!ConstructOK(o) PROVE ErrInv'
<1>1. /\ DOMAIN errs' = DOMAIN errs \cup {o} /\ o \notin DOMAIN errs
      /\ errs'[o].state = 0 /\ errs'[o].holds = {}
      /\ \A x \in DOMAIN errs : errs'[x] = errs[x]
      /\ states' = states
  BY DEF E!ConstructOK, E!Has, E!Null, E!OK
<1>2. Sole(DOMAIN errs, At, LiveIn(states))
  BY DEF ErrInv
<1>3. At'[o] = 0 /\ \A x \in DOMAIN errs \ {o} : At'[x] = At[x]
  BY <1>1 DEF At
<1>4. Sole(DOMAIN errs', At', LiveIn(states'))
  BY <1>1, <1>2, <1>3, TakesNone
<1>5. E!ErrorKept'
  BY <1>1, KeptOn
<1> QED
  BY <1>1, <1>4, <1>5 DEF ErrInv

LEMMA ConstructInv ==
  ASSUME ErrInv, NEW o, NEW c \in 0 .. 1, E!Construct(o, c)
  PROVE  ErrInv'
<1> DEFINE e == [code |-> c, live |-> TRUE]
           n == Len(states) + 1
<1>1. /\ states' = Append(states, e) /\ e \in LiveBlock
      /\ e.code = c /\ n = Len(states) + 1
  BY DEF E!Construct, E!SetState, LiveBlock
<1>2. states \in Seq(StateBlock) /\ Sole(DOMAIN errs, At, LiveIn(states))
  BY DEF ErrInv
<1>3. errs' = E!Has(o, n, {c}) /\ o \notin DOMAIN errs
  BY DEF E!Construct
<1>4. /\ DOMAIN errs' = DOMAIN errs \cup {o} /\ o \notin DOMAIN errs
      /\ errs'[o].state = n /\ errs'[o].holds = {c}
      /\ \A x \in DOMAIN errs : errs'[x] = errs[x]
  BY <1>3 DEF E!Has
<1>5. At'[o] = n /\ \A x \in DOMAIN errs \ {o} : At'[x] = At[x]
  BY <1>4 DEF At
<1> HIDE DEF e, n
<1>6. /\ states' \in Seq(StateBlock)
      /\ \A k \in DOMAIN states : states'[k] = states[k]
      /\ states'[n] = e /\ n # 0
  BY <1>1, <1>2, AppendedStates
<1>7. n \notin LiveIn(states) /\ LiveIn(states') = LiveIn(states) \cup {n}
  BY <1>1, <1>2, AppendedLive
<1>8. Sole(DOMAIN errs \cup {o}, At', LiveIn(states) \cup {n})
  BY <1>2, <1>4, <1>5, <1>6, <1>7, TakesNew
<1>9. Sole(DOMAIN errs', At', LiveIn(states'))
  BY <1>4, <1>7, <1>8, Zenon
<1>10. \A k \in DOMAIN states : states'[k].code = states[k].code
  BY <1>6
<1>11. errs'[o].holds = IF errs'[o].state = 0 THEN {} ELSE {states'[errs'[o].state].code}
  BY <1>1, <1>4, <1>6
<1>12. E!ErrorKept'
  BY <1>4, <1>10, <1>11, KeptOn
<1> QED
  BY <1>6, <1>9, <1>12 DEF ErrInv

LEMMA MoveConstructInv ==
  ASSUME ErrInv, NEW o, NEW b, E!MoveConstruct(o, b)
  PROVE  ErrInv'
<1>1. /\ DOMAIN errs' = DOMAIN errs \cup {o} /\ o \notin DOMAIN errs /\ b \in DOMAIN errs
      /\ errs'[o].state = errs[b].state /\ errs'[o].holds = errs[b].holds
      /\ errs'[b].state = 0 /\ errs'[b].holds = E!Moved
      /\ \A x \in DOMAIN errs \ {b} : errs'[x] = errs[x]
      /\ states' = states /\ errs[b].holds # E!Moved
  BY DEF E!MoveConstruct, E!Has, E!Null, E!Usable
<1>2. Sole(DOMAIN errs, At, LiveIn(states))
  BY DEF ErrInv
<1>3. /\ At'[o] = At[b] /\ At'[b] = 0
      /\ \A x \in DOMAIN errs \ {o, b} : At'[x] = At[x]
  BY <1>1 DEF At
<1>4. Sole(DOMAIN errs', At', LiveIn(states'))
  BY <1>1, <1>2, <1>3, HandsOver
<1>5. errs[b].holds = IF errs[b].state = 0 THEN {} ELSE {states[errs[b].state].code}
  BY <1>1 DEF ErrInv, E!ErrorKept, E!Null, E!OK
<1>6. E!ErrorKept'
  BY <1>1, <1>5, KeptOn
<1> QED
  BY <1>1, <1>4, <1>6 DEF ErrInv

LEMMA MoveAssignInv ==
  ASSUME ErrInv, NEW o, NEW b, E!MoveAssign(o, b)
  PROVE  ErrInv'
<1>1. /\ DOMAIN errs' = DOMAIN errs /\ o \in DOMAIN errs /\ b \in DOMAIN errs /\ o # b
      /\ errs'[o].state = errs[b].state /\ errs'[o].holds = errs[b].holds
      /\ errs'[b].state = errs[o].state /\ errs'[b].holds = E!Moved
      /\ \A x \in DOMAIN errs \ {o, b} : errs'[x] = errs[x]
      /\ states' = states /\ errs[b].holds # E!Moved
  BY DEF E!MoveAssign, E!Usable
<1>2. Sole(DOMAIN errs, At, LiveIn(states))
  BY DEF ErrInv
<1>3. /\ At'[o] = At[b] /\ At'[b] = At[o]
      /\ \A x \in DOMAIN errs \ {o, b} : At'[x] = At[x]
  BY <1>1 DEF At
<1>4. DOMAIN errs' = DOMAIN errs \cup {o}
  BY <1>1
<1>5. Sole(DOMAIN errs', At', LiveIn(states'))
  BY <1>1, <1>2, <1>3, <1>4, HandsOver
<1>6. errs[b].holds = IF errs[b].state = 0 THEN {} ELSE {states[errs[b].state].code}
  BY <1>1 DEF ErrInv, E!ErrorKept, E!Null, E!OK
<1>7. E!ErrorKept'
  BY <1>1, <1>6, KeptOn
<1> QED
  BY <1>1, <1>5, <1>7 DEF ErrInv

LEMMA DestroyInv ==
  ASSUME ErrInv, NEW o, E!Destroy(o)
  PROVE  ErrInv'
<1>1. /\ DOMAIN errs' = DOMAIN errs \ {o} /\ o \in DOMAIN errs
      /\ \A x \in DOMAIN errs \ {o} : errs'[x] = errs[x]
      /\ states' = E!Deleted(At[o])
  BY DEF E!Destroy, At
<1>2. states \in Seq(StateBlock) /\ Sole(DOMAIN errs, At, LiveIn(states))
  BY DEF ErrInv
<1>3. /\ states' \in Seq(StateBlock)
      /\ \A k \in DOMAIN states : states'[k].code = states[k].code
      /\ LiveIn(states') = LiveIn(states) \ {At[o]}
  BY <1>1, <1>2, DeletedStates
<1>4. \A x \in DOMAIN errs \ {o} : At'[x] = At[x]
  BY <1>1 DEF At
<1>5. Sole(DOMAIN errs', At', LiveIn(states'))
  BY <1>1, <1>2, <1>3, <1>4, GivesUp
<1>6. E!ErrorKept'
  BY <1>1, <1>3, KeptOn
<1> QED
  BY <1>3, <1>5, <1>6 DEF ErrInv

\* A copy in place of nothing, or of a block given up: at[o] is what o has no more.
LEMMA Copied ==
  ASSUME ErrInv, NEW d \in Seq(StateBlock), NEW at,
         NEW o, NEW b \in DOMAIN errs, b # o,
         Sole(DOMAIN errs, at, LiveIn(d)), o \in DOMAIN errs => at[o] = 0,
         \A x \in DOMAIN errs \ {o} : at[x] = At[x],
         DOMAIN d = DOMAIN states, Len(d) = Len(states),
         \A k \in DOMAIN states : d[k].code = states[k].code,
         errs[b].holds # E!Moved,
         states' = E!CopyState(d, errs[b].state),
         errs' = E!Has(o, E!CopyPtr(errs[b].state), errs[b].holds)
  PROVE  ErrInv'
<1> DEFINE s == errs[b].state
           n == Len(d) + 1
<1>0. n = Len(d) + 1
  OBVIOUS
<1>1. errs[b].holds = IF s = 0 THEN {} ELSE {states[s].code}
  BY DEF ErrInv, E!ErrorKept, E!Null, E!OK
<1> HIDE DEF s, n
<1>2. /\ DOMAIN errs' = DOMAIN errs \cup {o}
      /\ errs'[o].state = (IF s = 0 THEN 0 ELSE n) /\ errs'[o].holds = errs[b].holds
      /\ \A x \in DOMAIN errs \ {o} : errs'[x] = errs[x]
  BY DEF E!Has, E!CopyPtr, E!Null, s, n
<1>3. At'[o] = (IF s = 0 THEN 0 ELSE n) /\ \A x \in DOMAIN errs \ {o} : At'[x] = at[x]
  BY <1>2 DEF At
<1>4. CASE s = 0
  <2>1. states' = d
    BY <1>4 DEF E!CopyState, E!Null, s
  <2>2. Sole(DOMAIN errs', At', LiveIn(states'))
    <3>1. Sole(DOMAIN errs \cup {o}, At', LiveIn(d))
      BY <1>3, <1>4, TakesNone
    <3> QED
      BY <1>2, <2>1, <3>1, Zenon
  <2>3. E!ErrorKept'
    BY <1>1, <1>2, <1>4, <2>1, KeptOn
  <2> QED
    BY <2>1, <2>2, <2>3 DEF ErrInv
<1>5. CASE s # 0
  <2>1. states' = Append(d, d[s])
    BY <1>5 DEF E!CopyState, E!Null, s
  <2>2. at[b] = s
    BY DEF At, s
  <2>3. s \in DOMAIN d /\ d[s].live = TRUE
    BY <1>5, <2>2 DEF Sole, LiveIn
  <2>4. d[s] \in LiveBlock
    <3>1. d[s] \in StateBlock
      BY <2>3, LenProperties, ElementOfSeq
    <3> QED
      BY <2>3, <3>1 DEF StateBlock, LiveBlock
  <2>5. /\ states' \in Seq(StateBlock)
        /\ \A k \in DOMAIN d : states'[k] = d[k]
        /\ states'[n] = d[s] /\ n # 0
    BY <2>1, <2>4, <1>0, AppendedStates
  <2>5a. n \notin LiveIn(d) /\ LiveIn(Append(d, d[s])) = LiveIn(d) \cup {n}
    BY <2>4, <1>0, AppendedLive
  <2>6. Sole(DOMAIN errs', At', LiveIn(states'))
    <3>1. Sole(DOMAIN errs \cup {o}, At', LiveIn(d) \cup {n})
      <4>1. At'[o] = n /\ n # 0 /\ n \notin LiveIn(d)
        BY <1>3, <1>5, <2>5, <2>5a
      <4> QED
        BY <1>3, <4>1, TakesNew
    <3> QED
      BY <1>2, <2>1, <2>5a, <3>1, Zenon
  <2>7. states'[n].code = states[s].code
    BY <2>3, <2>5
  <2>8. \A k \in DOMAIN states : states'[k].code = states[k].code
    BY <2>5
  <2>9. errs'[o].holds = IF errs'[o].state = 0 THEN {} ELSE {states'[errs'[o].state].code}
    <3>1. errs'[o].state = n /\ n # 0 /\ errs'[o].holds = {states[s].code}
      BY <1>1, <1>2, <1>5, <2>5
    <3> QED
      BY <2>7, <3>1
  <2>10. \A x \in DOMAIN errs' \ {o} : x \in DOMAIN errs /\ errs'[x] = errs[x]
    BY <1>2
  <2>11. E!ErrorKept'
    BY <2>8, <2>9, <2>10, KeptOn
  <2> QED
    BY <2>5, <2>6, <2>11 DEF ErrInv
<1> QED
  BY <1>4, <1>5

LEMMA CopyConstructInv ==
  ASSUME ErrInv, NEW o, NEW b, E!CopyConstruct(o, b)
  PROVE  ErrInv'
<1>1. /\ o \notin DOMAIN errs /\ b \in DOMAIN errs /\ errs[b].holds # E!Moved
      /\ states' = E!CopyState(states, errs[b].state)
      /\ errs' = E!Has(o, E!CopyPtr(errs[b].state), errs[b].holds)
  BY DEF E!CopyConstruct, E!Usable
<1>2. states \in Seq(StateBlock) /\ Sole(DOMAIN errs, At, LiveIn(states))
  BY DEF ErrInv
<1> QED
  BY <1>1, <1>2, Copied

LEMMA CopyAssignInv ==
  ASSUME ErrInv, NEW o, NEW b, E!CopyAssign(o, b)
  PROVE  ErrInv'
<1>1. o \in DOMAIN errs /\ b \in DOMAIN errs /\ errs[b].holds # E!Moved
  BY DEF E!CopyAssign, E!Usable
<1>2. states \in Seq(StateBlock) /\ Sole(DOMAIN errs, At, LiveIn(states))
  BY DEF ErrInv
<1>3. CASE errs[o].state # errs[b].state
  <2> DEFINE d == E!Deleted(At[o])
             at == [x \in DOMAIN errs |-> IF x = o THEN 0 ELSE At[x]]
  <2>1. /\ states' = E!CopyState(d, errs[b].state)
        /\ errs' = E!Has(o, E!CopyPtr(errs[b].state), errs[b].holds)
    BY <1>1, <1>3 DEF E!CopyAssign, E!Differ, At
  <2>2. /\ d \in Seq(StateBlock) /\ DOMAIN d = DOMAIN states /\ Len(d) = Len(states)
        /\ \A k \in DOMAIN states : d[k].code = states[k].code
        /\ LiveIn(d) = LiveIn(states) \ {At[o]}
    BY <1>2, DeletedStates
  <2>3. at[o] = 0 /\ \A x \in DOMAIN errs \ {o} : at[x] = At[x]
    BY <1>1
  <2> HIDE DEF d, at
  <2>4. Sole(DOMAIN errs \ {o}, at, LiveIn(d))
    BY <1>1, <1>2, <2>2, <2>3, GivesUp
  <2>5. Sole((DOMAIN errs \ {o}) \cup {o}, at, LiveIn(d))
    BY <2>3, <2>4, TakesNone
  <2>6. Sole(DOMAIN errs, at, LiveIn(d))
    <3>1. (DOMAIN errs \ {o}) \cup {o} = DOMAIN errs
      BY <1>1
    <3> QED
      BY <2>5, <3>1
  <2> QED
    BY <1>1, <1>3, <2>1, <2>2, <2>3, <2>6, Copied
<1>4. CASE errs[o].state = errs[b].state
  <2>1. /\ states' = states /\ DOMAIN errs' = DOMAIN errs
        /\ errs'[o].state = errs[o].state /\ errs'[o].holds = errs[b].holds
        /\ \A x \in DOMAIN errs \ {o} : errs'[x] = errs[x]
    BY <1>1, <1>4 DEF E!CopyAssign, E!Differ, E!Has
  <2>2. At' = At
    BY <2>1 DEF At
  <2>3. errs[b].holds = IF errs[b].state = 0 THEN {} ELSE {states[errs[b].state].code}
    BY <1>1 DEF ErrInv, E!ErrorKept, E!Null, E!OK
  <2>4. E!ErrorKept'
    BY <1>4, <2>1, <2>3, KeptOn
  <2> QED
    BY <1>2, <2>1, <2>2, <2>4 DEF ErrInv
<1> QED
  BY <1>3, <1>4

LEMMA ErrStep == ErrInv /\ E!Next => ErrInv'
BY ConstructOKInv, ConstructInv, CopyConstructInv, MoveConstructInv, CopyAssignInv, MoveAssignInv, DestroyInv
   DEF E!Next

LEMMA ErrStutters == ErrInv /\ UNCHANGED <<errs, states>> => ErrInv'
BY DEF ErrInv, At, LiveIn, E!ErrorKept

LEMMA ErrOwned == ErrInv => E!StatesOwned
<1> SUFFICES ASSUME ErrInv
             PROVE  E!StatesOwned
  OBVIOUS
<1>1. ASSUME NEW k \in DOMAIN states
      PROVE  E!Cardinality({o \in DOMAIN errs : errs[o].state = k}) = IF states[k].live THEN 1 ELSE 0
  <2>1. states \in Seq(StateBlock)
    BY DEF ErrInv
  <2>2. k # 0 /\ states[k] \in StateBlock
    BY <2>1, LenProperties, ElementOfSeq
  <2>3. states[k].live \in BOOLEAN
    BY <2>2 DEF StateBlock
  <2>4. Cardinality({o \in DOMAIN errs : At[o] = k}) = IF k \in LiveIn(states) THEN 1 ELSE 0
    BY <2>2, OwnerCount DEF ErrInv
  <2>5. {o \in DOMAIN errs : At[o] = k} = {o \in DOMAIN errs : errs[o].state = k}
    BY DEF At
  <2>6. k \in LiveIn(states) <=> states[k].live
    BY <2>3 DEF LiveIn
  <2>7. Cardinality({o \in DOMAIN errs : errs[o].state = k}) = IF states[k].live THEN 1 ELSE 0
    BY <2>4, <2>5, <2>6
  <2> QED
    BY <2>7 DEF E!Cardinality, Cardinality
<1> QED
  BY <1>1 DEF E!StatesOwned

-----------------------------------------------------------------------------
(* The three together *)

ValuesInv == DirInv /\ FileInv /\ ErrInv

LEMMA ValuesAlways == ASSUME AnyUse = FALSE PROVE MCSpec => []ValuesInv
<1>1. MCInit => ValuesInv
  BY DirsInit, FilesInit, ErrInit DEF MCInit, ValuesInv
<1>2. ValuesInv /\ [MCNext]_<<class, vars, data, files, errs, states>> => ValuesInv'
  <2> SUFFICES ASSUME ValuesInv, [MCNext]_<<class, vars, data, files, errs, states>>
               PROVE  ValuesInv'
    OBVIOUS
  <2>1. CASE Next /\ UNCHANGED <<data, files, errs, states>>
    BY <2>1, DirsStep, FilesStutter, ErrStutters DEF ValuesInv
  <2>2. CASE F!Next /\ UNCHANGED <<vars, errs, states>>
    BY <2>2, FilesStep, DirsStutter, ErrStutters DEF ValuesInv
  <2>3. CASE E!Next /\ UNCHANGED <<vars, data, files>>
    BY <2>3, ErrStep, DirsStutter, FilesStutter DEF ValuesInv
  <2>4. CASE UNCHANGED <<class, vars, data, files, errs, states>>
    BY <2>4, DirsStutter, FilesStutter, ErrStutters DEF ValuesInv
  <2> QED
    BY <2>1, <2>2, <2>3, <2>4 DEF MCNext
<1> QED
  BY <1>1, <1>2, PTL DEF MCSpec

\* Whatever the objects of a class are made to do, every copy of a directory's
\* entries, every open file and every block of an error has one owner, and is
\* freed, closed or deleted once, when its owner gives it up.
THEOREM ValuesOwned == ASSUME AnyUse = FALSE PROVE MCSpec => []Owned
<1>1. ValuesInv => Owned
  BY DirsOwned, FilesOwned, ErrOwned DEF ValuesInv, Owned
<1> QED
  BY <1>1, ValuesAlways, PTL

\* Every object that was not moved from has what was put into it last: an iteration
\* over entries reads them and nothing else, a file has its size, and an error its
\* code, whichever object was copied or moved, destroyed or assigned meanwhile.
THEOREM ValuesKept == ASSUME AnyUse = FALSE PROVE MCSpec => []Kept
<1>1. ValuesInv => Kept
  BY DirsKept, FilesKept DEF ValuesInv, ErrInv, Kept
<1> QED
  BY <1>1, ValuesAlways, PTL

=============================================================================
