--------------------------- MODULE GLObjectsProofs ---------------------------
(***************************************************************************)
(* What is proved of the objects of GL: the buffer objects of a context,   *)
(* and the names of objects that TokenManager gives out.                   *)
(*                                                                         *)
(* PointersLive holds for every set of names, addresses, texture units and *)
(* sizes.  It is not inductive: deleting a name clears the slots whose     *)
(* object carries the name, and that is the object the manager deletes     *)
(* only because the manager keeps every object under its own name.         *)
(* CopiesStayInside holds for all sizes whose sums do not wrap, and rests  *)
(* on the store never being smaller than the size that is tested against.  *)
(*                                                                         *)
(* RunsSortedAndMerged and ImplementsNameSpace hold for every number of    *)
(* tokens, every batch and every limit below the number of tokens.  The    *)
(* loops of the code are recursive functions; that each has a value, and   *)
(* what it keeps, is shown with the least turn that would break it.        *)
(***************************************************************************)
EXTENDS BufferObjects, TokenManager, FiniteSetTheorems, SequenceTheorems,
        WellFoundedInduction, TLAPS

\* The manager keeps an object under the name stored in it.
ObjectsKeyed == \A n \in Names : mBuffers[n] # None => n # 0 /\ obj[mBuffers[n]].name = n

\* The room behind an object is what its size says.
RoomFits == \A o \in Objects : obj[o].size <= obj[o].room

\* The copies stay inside where no sum wraps.
CopiesSafe == SumsFit => CopiesStayInside

IInv == TypeOK /\ PointersLive /\ ObjectsKeyed /\ RoomFits /\ CopiesSafe

\* An address that holds no object of the manager is in no slot.
LEMMA FreeAddressUnbound ==
  ASSUME TypeOK, PointersLive, NEW o \in Objects, ~Live(o)
  PROVE  \A s \in Slots : bound[s] # o
BY BufferAssumption DEF TypeOK, PointersLive, Live

LEMMA InitIInv == Init => IInv
<1> SUFFICES ASSUME Init PROVE IInv
  OBVIOUS
<1> USE BufferAssumption DEF Init
<1>1. Empty \in [name : Names, size : Sizes, room : Sizes] /\ Empty.size <= Empty.room
  BY DEF Empty
<1>2. TypeOK
  BY <1>1 DEF TypeOK
<1>3. PointersLive /\ ObjectsKeyed /\ CopiesSafe
  BY DEF PointersLive, ObjectsKeyed, CopiesSafe, CopiesStayInside
<1>4. RoomFits
  BY <1>1 DEF RoomFits
<1> QED
  BY <1>2, <1>3, <1>4 DEF IInv

LEMMA BindNewKeeps ==
  ASSUME IInv, NEW t \in Targets, NEW n \in Names, NEW o \in Objects, BindNew(t, n, o)
  PROVE  IInv'
<1> USE BufferAssumption DEF IInv
<1>a. t \in Slots
  BY DEF Slots
<1>1. TypeOK'
  BY <1>a DEF BindNew, TypeOK
<1>2. o # None /\ \A s \in Slots : bound[s] # o
  BY FreeAddressUnbound DEF BindNew
<1>3. PointersLive'
  <2> SUFFICES ASSUME NEW s \in Slots, bound'[s] # None
               PROVE  mBuffers'[obj'[bound'[s]].name] = bound'[s]
    BY DEF PointersLive
  <2>1. CASE s = t
    BY <2>1, <1>a DEF BindNew, TypeOK
  <2>2. CASE s # t
    <3>1. bound'[s] = bound[s] /\ bound[s] # o /\ bound[s] \in Objects
      BY <2>2, <1>2 DEF BindNew, TypeOK
    <3>2. obj'[bound[s]] = obj[bound[s]]
      BY <3>1 DEF BindNew, TypeOK
    <3>3. mBuffers[obj[bound[s]].name] = bound[s]
      BY <3>1 DEF PointersLive
    <3>4. obj[bound[s]].name # n
      BY <3>1, <3>3 DEF BindNew
    <3> QED
      BY <3>1, <3>2, <3>3, <3>4 DEF BindNew, TypeOK
  <2> QED
    BY <2>1, <2>2
<1>4. ObjectsKeyed'
  <2> SUFFICES ASSUME NEW k \in Names, mBuffers'[k] # None
               PROVE  k # 0 /\ obj'[mBuffers'[k]].name = k
    BY DEF ObjectsKeyed
  <2>1. CASE k = n
    BY <2>1 DEF BindNew, TypeOK
  <2>2. CASE k # n
    <3>1. mBuffers'[k] = mBuffers[k] /\ mBuffers[k] # o
      BY <2>2 DEF BindNew, TypeOK, Live
    <3> QED
      BY <3>1 DEF BindNew, TypeOK, ObjectsKeyed
  <2> QED
    BY <2>1, <2>2
<1>5. RoomFits'
  BY DEF BindNew, TypeOK, RoomFits
<1>6. CopiesSafe'
  BY DEF BindNew, CopiesSafe, CopiesStayInside
<1> QED
  BY <1>1, <1>3, <1>4, <1>5, <1>6

LEMMA BufferDataKeeps ==
  ASSUME IInv, NEW t \in Targets, NEW size \in Sizes, NEW ok \in BOOLEAN,
         glBufferData(t, size, ok)
  PROVE  IInv'
<1> USE BufferAssumption DEF IInv
<1> DEFINE o == bound[t]
           b == allocateStore(obj[o], size, ok)
<1>1. o \in Objects
  BY DEF glBufferData, TypeOK, Slots
<1>2. obj[o] \in [name : Names, size : Sizes, room : Sizes] /\ obj[o].size <= obj[o].room
  BY <1>1 DEF TypeOK, RoomFits
<1>3. /\ b \in [name : Names, size : Sizes, room : Sizes]
      /\ b.name = obj[o].name /\ b.size <= b.room
      /\ ok \/ size = obj[o].size => b.size = size
  BY <1>2 DEF allocateStore
<1>4. obj' = [obj EXCEPT ![o] = b] /\ UNCHANGED <<used, mBuffers, bound, activeTexture>>
  BY DEF glBufferData
<1> HIDE DEF b
<1>5. TypeOK'
  BY <1>1, <1>3, <1>4 DEF TypeOK, glBufferData
<1>6. \A p \in Objects : obj'[p].name = obj[p].name
  BY <1>1, <1>3, <1>4 DEF TypeOK
<1>7. PointersLive' /\ ObjectsKeyed'
  BY <1>4, <1>6 DEF TypeOK, PointersLive, ObjectsKeyed
<1>8. RoomFits'
  BY <1>1, <1>3, <1>4 DEF TypeOK, RoomFits
<1>9. CopiesSafe'
  <2>0. size \in Nat /\ b.size \in Nat /\ b.room \in Nat
    BY <1>3
  <2>1. (ok \/ size = obj[o].size) => ~(size > b.room)
    BY <1>3, <2>0
  <2> QED
    BY <2>1 DEF glBufferData, CopiesSafe, CopiesStayInside, b
<1> QED
  BY <1>5, <1>7, <1>8, <1>9

LEMMA DeleteKeeps ==
  ASSUME IInv, NEW ns \in SUBSET Names, glDeleteBuffers(ns)
  PROVE  IInv'
<1> USE BufferAssumption DEF IInv
<1>1. TypeOK'
  BY DEF glDeleteBuffers, deleteBuffers, Unbound, TypeOK, Empty
<1>2. ASSUME NEW o \in Objects, NEW n \in Names, mBuffers[n] = o, n \notin ns
      PROVE  obj'[o] = obj[o] /\ mBuffers'[n] = o
  BY <1>2 DEF glDeleteBuffers, deleteBuffers, TypeOK, ObjectsKeyed
<1>3. PointersLive'
  <2> SUFFICES ASSUME NEW s \in Slots, bound'[s] # None
               PROVE  mBuffers'[obj'[bound'[s]].name] = bound'[s]
    BY DEF PointersLive
  <2>1. /\ bound'[s] = bound[s] /\ bound[s] \in Objects
        /\ obj[bound[s]].name \notin ns \ {0} /\ obj[bound[s]].name \in Names
    BY DEF glDeleteBuffers, Unbound, TypeOK
  <2>2. mBuffers[obj[bound[s]].name] = bound[s] /\ obj[bound[s]].name # 0
    BY <2>1 DEF PointersLive, ObjectsKeyed
  <2> QED
    BY <1>2, <2>1, <2>2, ZenonT(60)
<1>4. ObjectsKeyed'
  <2> SUFFICES ASSUME NEW n \in Names, mBuffers'[n] # None
               PROVE  n # 0 /\ obj'[mBuffers'[n]].name = n
    BY DEF ObjectsKeyed
  <2>1. mBuffers'[n] = mBuffers[n] /\ n \notin ns \ {0} /\ mBuffers[n] \in Objects
    BY DEF glDeleteBuffers, deleteBuffers, TypeOK
  <2> QED
    BY <1>2, <2>1 DEF ObjectsKeyed
<1>5. RoomFits'
  BY DEF glDeleteBuffers, deleteBuffers, RoomFits, TypeOK, Empty
<1>6. CopiesSafe'
  BY DEF glDeleteBuffers, CopiesSafe, CopiesStayInside
<1> QED
  BY <1>1, <1>3, <1>4, <1>5, <1>6

\* The calls that only move pointers between slots, or names in and out of
\* use.
LEMMA PointersKeep ==
  ASSUME IInv, mBuffers' = mBuffers, obj' = obj, outside' = outside,
         used' \in SUBSET Names, activeTexture' \in Units,
         NEW s \in Slots, NEW p \in {bound[x] : x \in Slots} \union {None}
                                      \union {mBuffers[n] : n \in Names},
         bound' = [bound EXCEPT ![s] = p]
  PROVE  IInv'
<1> USE BufferAssumption DEF IInv
<1>1. p \in Objects \union {None}
  BY DEF TypeOK
<1>2. p # None => mBuffers[obj[p].name] = p
  BY DEF TypeOK, PointersLive, ObjectsKeyed
<1> QED
  BY <1>1, <1>2 DEF TypeOK, PointersLive, ObjectsKeyed, RoomFits, CopiesSafe,
                      CopiesStayInside

LEMMA NextIInv == IInv /\ [Next]_vars => IInv'
<1> SUFFICES ASSUME IInv, [Next]_vars PROVE IInv'
  OBVIOUS
<1> USE BufferAssumption
<1>s. Targets \subseteq Slots /\ Units \subseteq Slots
      /\ {"array", "vertex", "normal", "color"} \subseteq Slots
  BY DEF Slots, Targets
<1>0. CASE UNCHANGED vars
  BY <1>0 DEF IInv, TypeOK, PointersLive, ObjectsKeyed, RoomFits, CopiesSafe,
              CopiesStayInside, vars
<1>1. CASE \E ns \in SUBSET Names : glGenBuffers(ns)
  BY <1>1 DEF glGenBuffers, IInv, TypeOK, PointersLive, ObjectsKeyed, RoomFits,
              CopiesSafe, CopiesStayInside
<1>2. CASE \E ns \in SUBSET Names : glDeleteBuffers(ns)
  BY <1>2, DeleteKeeps
<1>3. CASE \E t \in Targets : UnbindBuffer(t)
  BY <1>3, <1>s, PointersKeep DEF UnbindBuffer, IInv, TypeOK
<1>4. CASE \E t \in Targets, n \in Names : BindExisting(t, n)
  BY <1>4, <1>s, PointersKeep DEF BindExisting, IInv, TypeOK
<1>5. CASE \E t \in Targets, n \in Names, o \in Objects : BindNew(t, n, o)
  BY <1>5, BindNewKeeps
<1>6. CASE \E t \in Targets, size \in Sizes, ok \in BOOLEAN : glBufferData(t, size, ok)
  BY <1>6, BufferDataKeeps
<1>7. CASE \E t \in Targets, size \in Sizes, offset \in Sizes :
             glBufferSubData(t, offset, size)
  <2> PICK t \in Targets, size \in Sizes, offset \in Sizes : glBufferSubData(t, offset, size)
    BY <1>7
  <2>1. bound[t] \in Objects
    BY <1>s DEF glBufferSubData, IInv, TypeOK
  <2>2. /\ obj[bound[t]] \in [name : Names, size : Sizes, room : Sizes]
        /\ obj[bound[t]].size <= obj[bound[t]].room
    BY <2>1 DEF IInv, TypeOK, RoomFits
  <2>3. /\ SignedSum(offset, size) <= obj[bound[t]].size
        /\ outside' = (outside \/ offset + size > obj[bound[t]].room)
    BY DEF glBufferSubData
  <2>4. SumsFit => ~(offset + size > obj[bound[t]].room)
    <3>1. /\ offset \in Nat /\ size \in Nat
          /\ obj[bound[t]].size \in Nat /\ obj[bound[t]].room \in Nat
      BY <2>2
    <3>2. SumsFit => SignedSum(offset, size) = offset + size
      BY DEF SumsFit, SignedSum
    <3> QED
      BY <2>2, <2>3, <3>1, <3>2
  <2>5. CopiesSafe' /\ outside' \in BOOLEAN
    <3>1. SumsFit' <=> SumsFit
      BY DEF SumsFit
    <3> QED BY <2>3, <2>4, <3>1 DEF IInv, TypeOK, CopiesSafe, CopiesStayInside
  <2> QED
    BY <2>5 DEF glBufferSubData, IInv, TypeOK, PointersLive, ObjectsKeyed, RoomFits,
                CopiesSafe, CopiesStayInside
<1>8. CASE \E a \in {"vertex", "normal", "color"} : Pointer(a)
  BY <1>8, <1>s, PointersKeep DEF Pointer, IInv, TypeOK
<1>9. CASE glTexCoordPointer
  BY <1>9, <1>s, PointersKeep DEF glTexCoordPointer, IInv, TypeOK
<1>10. CASE \E u \in Units : glClientActiveTexture(u)
  BY <1>10 DEF glClientActiveTexture, IInv, TypeOK, PointersLive, ObjectsKeyed, RoomFits,
               CopiesSafe, CopiesStayInside
<1> QED
  BY <1>0, <1>1, <1>2, <1>3, <1>4, <1>5, <1>6, <1>7, <1>8, <1>9, <1>10 DEF Next

\* No slot of the context or of its vertex arrays ever holds a dangling
\* buffer pointer, for any number of names, buffers and texture units.
THEOREM BufferPointersLive == Spec => []PointersLive
<1>1. IInv => PointersLive
  BY DEF IInv
<1> QED
  BY InitIInv, NextIInv, <1>1, PTL DEF Spec

\* No glBufferData or glBufferSubData copies past the memory of its buffer,
\* for any failures of malloc and any sizes and offsets whose sums fit a
\* GLintptr; where one does not, the test of glBufferSubData passes.
THEOREM BufferCopiesInside == SumsFit => (Spec => []CopiesStayInside)
<1> SUFFICES ASSUME SumsFit PROVE Spec => []CopiesStayInside
  OBVIOUS
<1>1. IInv => CopiesStayInside
  BY DEF IInv, CopiesSafe
<1> QED
  BY InitIInv, NextIInv, <1>1, PTL DEF Spec
-----------------------------------------------------------------------------
\* A vector of runs in order: no run is empty, none reaches above the limit,
\* and between any two of them there is a free token.
RunType == [first : Nat, length : Nat]

Sorted(r) ==
  /\ r \in Seq(RunType)
  /\ \A i \in 1 .. Len(r) : r[i].length > 0 /\ r[i].first + r[i].length <= NameLimit
  /\ \A i, j \in 1 .. Len(r) : i < j => r[i].first + r[i].length < r[j].first

\* Whether a run, or a vector, holds a token.
Inside(run, n) == run.first <= n /\ n < run.first + run.length

Holds(r, n) == \E i \in 1 .. Len(r) : Inside(r[i], n)

\* A sum that stays below TokenCount does not wrap.
LEMMA NoWrap ==
  ASSUME NEW x \in Nat, x < TokenCount
  PROVE  Wrap(x) = x
BY TokenAssumption DEF Wrap

\* The bounds, as the provers need them.
LEMMA LimitType == NameLimit \in Nat /\ NameLimit < TokenCount /\ TokenCount \in Nat /\ NameLimit >= 1
BY BoundsAssumption, TokenAssumption

\* What is known of a run of a vector in order.
LEMMA RunFacts ==
  ASSUME NEW r, Sorted(r), NEW i \in 1 .. Len(r)
  PROVE  /\ r[i] \in RunType /\ r[i].first \in Nat /\ r[i].length \in Nat /\ r[i].length > 0
         /\ r[i].first + r[i].length <= NameLimit
         /\ RunEnd(r[i]) = r[i].first + r[i].length
<1>1. r[i] \in RunType
  BY ElementOfSeq DEF Sorted
<1>2. r[i].first \in Nat /\ r[i].length \in Nat
  BY ONLY <1>1 DEF RunType
<1>3. r[i].length > 0 /\ r[i].first + r[i].length <= NameLimit
  BY DEF Sorted
<1>4. Wrap(r[i].first + r[i].length) = r[i].first + r[i].length
  <2> DEFINE x == r[i].first + r[i].length
  <2>1. x \in Nat /\ x < TokenCount
    BY ONLY <1>2, <1>3, LimitType
  <2> HIDE DEF x
  <2>2. Wrap(x) = x
    BY ONLY <2>1, NoWrap
  <2> QED BY <2>2 DEF x
<1> QED BY <1>1, <1>2, <1>3, <1>4 DEF RunEnd

\* The names of a vector are the tokens inside its runs.
LEMMA NamesHeld ==
  ASSUME NEW r \in Seq(RunType)
  PROVE  /\ NamesOf(r) \subseteq Nat
         /\ \A n \in Nat : n \in NamesOf(r) <=> Holds(r, n)
<1>1. Range(r) = {r[i] : i \in 1 .. Len(r)}
  BY LenProperties DEF Range
<1>2. \A i \in 1 .. Len(r) : r[i].first \in Nat /\ r[i].length \in Nat
  <2> SUFFICES ASSUME NEW i \in 1 .. Len(r) PROVE r[i].first \in Nat /\ r[i].length \in Nat
    OBVIOUS
  <2>1. r[i] \in RunType
    BY ElementOfSeq
  <2> QED BY ONLY <2>1 DEF RunType
<1>3. ASSUME NEW n
      PROVE  n \in NamesOf(r)
               <=> \E i \in 1 .. Len(r) : n \in r[i].first .. r[i].first + r[i].length - 1
  BY <1>1 DEF NamesOf
<1>4. ASSUME NEW n \in NamesOf(r) PROVE n \in Nat
  BY ONLY <1>2, <1>3, <1>4
<1>5. ASSUME NEW n \in Nat PROVE n \in NamesOf(r) <=> Holds(r, n)
  <2>1. \A i \in 1 .. Len(r) : n \in r[i].first .. r[i].first + r[i].length - 1 <=> Inside(r[i], n)
    BY ONLY <1>2, <1>5 DEF Inside
  <2> QED BY ONLY <1>3, <2>1 DEF Holds
<1> QED BY <1>4, <1>5

\* Concatenation, with the lengths named.
Joined(S, u, v, m, n) ==
  /\ u \o v \in Seq(S) /\ Len(u \o v) = n
  /\ \A j \in 1 .. n : (u \o v)[j] = IF j <= m THEN u[j] ELSE v[j - m]

\* What the library says of a concatenation.
LEMMA Concatenated ==
  ASSUME NEW S, NEW u \in Seq(S), NEW v \in Seq(S)
  PROVE  Joined(S, u, v, Len(u), Len(u) + Len(v))
BY ConcatProperties DEF Joined

\* The element-wise meaning of the two operations on vectors.
Extended(q, S, r, i, e) ==
  /\ q \in Seq(S) /\ Len(q) = Len(r) + 1
  /\ \A j \in 1 .. Len(r) + 1 : q[j] = IF j < i THEN r[j] ELSE IF j = i THEN e ELSE r[j - 1]

LEMMA Inserted ==
  ASSUME NEW S, NEW r \in Seq(S), NEW i \in 1 .. Len(r) + 1, NEW e \in S
  PROVE  Extended(InsertAt(r, i, e), S, r, i, e)
<1> DEFINE a == SubSeq(r, 1, i - 1)
           b == <<e>>
           c == SubSeq(r, i, Len(r))
<1>0. Len(r) \in Nat /\ \A j \in 1 .. Len(r) : r[j] \in S
  BY LenProperties, ElementOfSeq
<1>1. a \in Seq(S) /\ Len(a) = i - 1 /\ \A j \in 1 .. i - 1 : a[j] = r[j]
  <2>1. \A j \in 1 .. i - 1 : r[j] \in S
    BY <1>0
  <2>2. /\ a \in Seq(S) /\ Len(a) = IF 1 <= i - 1 THEN i - 1 - 1 + 1 ELSE 0
        /\ \A j \in 1 .. i - 1 - 1 + 1 : a[j] = r[1 + j - 1]
    BY <1>0, <2>1, SubSeqProperties
  <2> HIDE DEF a
  <2> QED BY <1>0, <2>2
<1>2. b \in Seq(S) /\ Len(b) = 1 /\ b[1] = e
  OBVIOUS
<1>3. c \in Seq(S) /\ Len(c) = Len(r) - i + 1 /\ \A j \in 1 .. Len(r) - i + 1 : c[j] = r[i + j - 1]
  <2>1. \A j \in i .. Len(r) : r[j] \in S
    BY <1>0
  <2>2. /\ c \in Seq(S) /\ Len(c) = IF i <= Len(r) THEN Len(r) - i + 1 ELSE 0
        /\ \A j \in 1 .. Len(r) - i + 1 : c[j] = r[i + j - 1]
    BY <1>0, <2>1, SubSeqProperties
  <2> HIDE DEF c
  <2> QED BY <1>0, <2>2
<1>i. InsertAt(r, i, e) = (a \o b) \o c
  BY DEF InsertAt
<1> HIDE DEF a, b, c
<1>4. /\ a \o b \in Seq(S) /\ Len(a \o b) = i
      /\ \A j \in 1 .. i : (a \o b)[j] = IF j <= i - 1 THEN a[j] ELSE b[j - (i - 1)]
  <2>1. Len(a) + Len(b) = i
    BY ONLY <1>1, <1>2, i \in 1 .. Len(r) + 1, <1>0
  <2>2. Joined(S, a, b, Len(a), Len(a) + Len(b))
    BY ONLY <1>1, <1>2, Concatenated
  <2>3. Joined(S, a, b, i - 1, i)
    BY ONLY <1>1, <1>2, <2>1, <2>2
  <2> QED BY ONLY <2>3 DEF Joined
<1> DEFINE d == a \o b
<1> HIDE DEF d
<1>5. d \in Seq(S) /\ Len(d) = i /\ \A j \in 1 .. i : d[j] = IF j <= i - 1 THEN a[j] ELSE b[j - (i - 1)]
  BY <1>4 DEF d
<1>6. /\ d \o c \in Seq(S) /\ Len(d \o c) = Len(r) + 1
      /\ \A j \in 1 .. Len(r) + 1 : (d \o c)[j] = IF j <= i THEN d[j] ELSE c[j - i]
  <2>1. Len(d) + Len(c) = Len(r) + 1
    BY ONLY <1>0, <1>3, <1>5, i \in 1 .. Len(r) + 1
  <2>2. Joined(S, d, c, Len(d), Len(d) + Len(c))
    BY ONLY <1>3, <1>5, Concatenated
  <2>3. Joined(S, d, c, i, Len(r) + 1)
    BY ONLY <1>3, <1>5, <2>1, <2>2
  <2> QED BY ONLY <2>3 DEF Joined
<1> DEFINE q == d \o c
<1>q. q = InsertAt(r, i, e)
  BY <1>i DEF d
<1> HIDE DEF q
<1>7. /\ q \in Seq(S) /\ Len(q) = Len(r) + 1
      /\ \A j \in 1 .. Len(r) + 1 : q[j] = IF j <= i THEN d[j] ELSE c[j - i]
  BY <1>6 DEF q
<1>8. ASSUME NEW j \in 1 .. Len(r) + 1
      PROVE  q[j] = IF j < i THEN r[j] ELSE IF j = i THEN e ELSE r[j - 1]
  <2>1. CASE j < i
    <3>1. j <= i /\ j \in 1 .. i /\ j <= i - 1 /\ j \in 1 .. i - 1
      BY <1>0, <2>1
    <3> QED BY ONLY <1>1, <1>5, <1>7, <1>8, <2>1, <3>1
  <2>2. CASE j = i
    <3>1. i <= i /\ i \in 1 .. i /\ ~(i <= i - 1) /\ i - (i - 1) = 1
      BY <1>0
    <3> QED BY ONLY <1>2, <1>5, <1>7, <1>8, <2>2, <3>1
  <2>3. CASE j > i
    <3>1. ~(j <= i) /\ j - i \in 1 .. Len(r) - i + 1 /\ i + (j - i) - 1 = j - 1 /\ ~(j < i) /\ j # i
      BY <1>0, <2>3
    <3> QED BY ONLY <1>3, <1>7, <1>8, <3>1
  <2> QED BY <2>1, <2>2, <2>3
<1>9. Extended(q, S, r, i, e)
  BY ONLY <1>7, <1>8 DEF Extended
<1> QED BY ONLY <1>9, <1>q

\* What remains of a vector when entry i is erased.
LEMMA Removed ==
  ASSUME NEW S, NEW r \in Seq(S), NEW i \in 1 .. Len(r)
  PROVE  /\ RemoveAt(r, i) \in Seq(S) /\ Len(RemoveAt(r, i)) = Len(r) - 1
         /\ \A j \in 1 .. Len(r) - 1 : RemoveAt(r, i)[j] = IF j < i THEN r[j] ELSE r[j + 1]
<1> DEFINE a == SubSeq(r, 1, i - 1)
           c == SubSeq(r, i + 1, Len(r))
<1>0. Len(r) \in Nat /\ \A j \in 1 .. Len(r) : r[j] \in S
  BY LenProperties, ElementOfSeq
<1>1. a \in Seq(S) /\ Len(a) = i - 1 /\ \A j \in 1 .. i - 1 : a[j] = r[j]
  <2>1. \A j \in 1 .. i - 1 : r[j] \in S
    BY <1>0
  <2>2. /\ a \in Seq(S) /\ Len(a) = IF 1 <= i - 1 THEN i - 1 - 1 + 1 ELSE 0
        /\ \A j \in 1 .. i - 1 - 1 + 1 : a[j] = r[1 + j - 1]
    BY <1>0, <2>1, SubSeqProperties
  <2> HIDE DEF a
  <2> QED BY <1>0, <2>2
<1>3. c \in Seq(S) /\ Len(c) = Len(r) - i /\ \A j \in 1 .. Len(r) - i : c[j] = r[i + j]
  <2>1. \A j \in i + 1 .. Len(r) : r[j] \in S
    BY <1>0
  <2>2. /\ c \in Seq(S) /\ Len(c) = IF i + 1 <= Len(r) THEN Len(r) - (i + 1) + 1 ELSE 0
        /\ \A j \in 1 .. Len(r) - (i + 1) + 1 : c[j] = r[(i + 1) + j - 1]
    BY <1>0, <2>1, SubSeqProperties
  <2> HIDE DEF c
  <2> QED BY <1>0, <2>2
<1>i. RemoveAt(r, i) = a \o c
  BY DEF RemoveAt
<1> HIDE DEF a, c
<1>6. /\ a \o c \in Seq(S) /\ Len(a \o c) = Len(r) - 1
      /\ \A j \in 1 .. Len(r) - 1 : (a \o c)[j] = IF j <= i - 1 THEN a[j] ELSE c[j - (i - 1)]
  <2>1. Len(a) + Len(c) = Len(r) - 1
    BY ONLY <1>0, <1>1, <1>3, i \in 1 .. Len(r)
  <2>2. Joined(S, a, c, Len(a), Len(a) + Len(c))
    BY ONLY <1>1, <1>3, Concatenated
  <2>3. Joined(S, a, c, i - 1, Len(r) - 1)
    BY ONLY <1>1, <1>3, <2>1, <2>2
  <2> QED BY ONLY <2>3 DEF Joined
<1> DEFINE q == a \o c
<1>q. q = RemoveAt(r, i)
  BY <1>i
<1> HIDE DEF q
<1>7. /\ q \in Seq(S) /\ Len(q) = Len(r) - 1
      /\ \A j \in 1 .. Len(r) - 1 : q[j] = IF j <= i - 1 THEN a[j] ELSE c[j - (i - 1)]
  BY <1>6 DEF q
<1>8. ASSUME NEW j \in 1 .. Len(r) - 1
      PROVE  q[j] = IF j < i THEN r[j] ELSE r[j + 1]
  <2>1. CASE j < i
    <3>1. j <= i - 1 /\ j \in 1 .. i - 1
      BY <1>0, <2>1
    <3> QED BY ONLY <1>1, <1>7, <1>8, <2>1, <3>1
  <2>2. CASE j >= i
    <3>1. ~(j <= i - 1) /\ j - (i - 1) \in 1 .. Len(r) - i /\ i + (j - (i - 1)) = j + 1 /\ ~(j < i)
      BY <1>0, <2>2
    <3> QED BY ONLY <1>3, <1>7, <1>8, <3>1
  <2> QED BY <2>1, <2>2
<1> QED BY <1>7, <1>8, <1>q

\* q holds what r holds, and the token.
Adds(q, r, token) == Sorted(q) /\ \A n \in Nat : Holds(q, n) <=> Holds(r, n) \/ n = token

\* Where a run for a token belongs.
Place(r, token, i) ==
  /\ i \in 1 .. Len(r) + 1
  /\ \A j \in 1 .. Len(r) : j < i => r[j].first + r[j].length <= token
  /\ \A j \in 1 .. Len(r) : j >= i => token < r[j].first

\* A run s takes the place of run p of r; the others stay.
Replaced(q, r, p, s) ==
  /\ q \in Seq(RunType) /\ Len(q) = Len(r) /\ q[p] = s
  /\ \A j \in 1 .. Len(r) : j # p => q[j] = r[j]

\* Run p becomes s, which fits between its neighbours.
LEMMA ReplaceSorted ==
  ASSUME NEW r, Sorted(r), NEW p \in 1 .. Len(r), NEW s \in RunType, NEW q, Replaced(q, r, p, s),
         s.length > 0, s.first + s.length <= NameLimit,
         \A j \in 1 .. Len(r) : j < p => r[j].first + r[j].length < s.first,
         \A j \in 1 .. Len(r) : j > p => s.first + s.length < r[j].first
  PROVE  Sorted(q)
<1>1. /\ q \in Seq(RunType) /\ Len(q) = Len(r) /\ q[p] = s
      /\ \A j \in 1 .. Len(r) : j # p => q[j] = r[j]
  BY DEF Replaced
<1>2. \A i \in 1 .. Len(q) : q[i].length > 0 /\ q[i].first + q[i].length <= NameLimit
  BY <1>1 DEF Sorted
<1>3. ASSUME NEW i \in 1 .. Len(q), NEW j \in 1 .. Len(q), i < j
      PROVE  q[i].first + q[i].length < q[j].first
  <2>1. CASE i = p
    <3>1. j > p /\ j # p /\ j \in 1 .. Len(r)
      BY ONLY <1>1, <1>3, <2>1, Len(r) \in Nat, p \in 1 .. Len(r)
    <3>2. q[j] = r[j] /\ s.first + s.length < r[j].first
      BY <1>1, <3>1
    <3> QED BY ONLY <1>1, <2>1, <3>2
  <2>2. CASE j = p
    <3>1. i < p /\ i # p /\ i \in 1 .. Len(r)
      BY ONLY <1>1, <1>3, <2>2, p \in 1 .. Len(r)
    <3>2. q[i] = r[i] /\ r[i].first + r[i].length < s.first
      BY <1>1, <3>1
    <3> QED BY ONLY <1>1, <2>2, <3>2
  <2>3. CASE i # p /\ j # p
    <3>1. q[i] = r[i] /\ q[j] = r[j]
      BY ONLY <1>1, <1>3, <2>3
    <3>2. r[i].first + r[i].length < r[j].first
      BY ONLY <1>1, <1>3, Sorted(r) DEF Sorted
    <3> QED BY ONLY <3>1, <3>2
  <2> QED BY <2>1, <2>2, <2>3
<1> QED BY ONLY <1>1, <1>2, <1>3 DEF Sorted

\* What the new vector holds differs only by the run that was replaced.
LEMMA ReplaceHolds ==
  ASSUME NEW r, NEW p \in 1 .. Len(r), NEW s, NEW q, Replaced(q, r, p, s), NEW n
  PROVE  Holds(q, n) <=> Inside(s, n) \/ \E j \in 1 .. Len(r) : j # p /\ Inside(r[j], n)
BY DEF Replaced, Holds

\* A run s is inserted before position p.
LEMMA InsertSorted ==
  ASSUME NEW r, Sorted(r), NEW p \in 1 .. Len(r) + 1, NEW s \in RunType,
         s.length > 0, s.first + s.length <= NameLimit,
         \A j \in 1 .. Len(r) : j < p => r[j].first + r[j].length < s.first,
         \A j \in 1 .. Len(r) : j >= p => s.first + s.length < r[j].first
  PROVE  /\ Sorted(InsertAt(r, p, s))
         /\ \A n : Holds(InsertAt(r, p, s), n) <=> Holds(r, n) \/ Inside(s, n)
<1> DEFINE q == InsertAt(r, p, s)
<1>0. Len(r) \in Nat /\ r \in Seq(RunType)
  BY LenProperties DEF Sorted
<1>1. /\ q \in Seq(RunType) /\ Len(q) = Len(r) + 1
      /\ \A j \in 1 .. Len(r) + 1 : q[j] = IF j < p THEN r[j] ELSE IF j = p THEN s ELSE r[j - 1]
  <2>1. Extended(q, RunType, r, p, s)
    BY ONLY <1>0, p \in 1 .. Len(r) + 1, s \in RunType, Inserted
  <2> QED BY ONLY <2>1 DEF Extended
<1> HIDE DEF q
<1>2. /\ \A j \in 1 .. Len(r) : j < p => q[j] = r[j]
      /\ q[p] = s
      /\ \A j \in 1 .. Len(r) : j >= p => q[j + 1] = r[j]
  <2>1. ASSUME NEW j \in 1 .. Len(r), j < p PROVE q[j] = r[j]
    BY ONLY <1>0, <1>1, <2>1
  <2>2. q[p] = s
    BY ONLY <1>0, <1>1, p \in 1 .. Len(r) + 1
  <2>3. ASSUME NEW j \in 1 .. Len(r), j >= p PROVE q[j + 1] = r[j]
    <3>1. j + 1 \in 1 .. Len(r) + 1 /\ ~(j + 1 < p) /\ j + 1 # p /\ (j + 1) - 1 = j
      BY ONLY <1>0, <2>3, p \in 1 .. Len(r) + 1
    <3> QED BY ONLY <1>1, <3>1
  <2> QED BY <2>1, <2>2, <2>3
\* The index in r of an entry of q.
<1>3. ASSUME NEW i \in 1 .. Len(q), i # p
      PROVE  \E k \in 1 .. Len(r) : /\ q[i] = r[k]
                                    /\ ((i < p /\ k = i) \/ (i > p /\ k = i - 1))
  <2>1. CASE i < p
    <3>1. i \in 1 .. Len(r)
      BY ONLY <1>0, <1>1, <1>3, <2>1, p \in 1 .. Len(r) + 1
    <3> QED BY <1>2, <2>1, <3>1
  <2>2. CASE i > p
    <3>1. i - 1 \in 1 .. Len(r) /\ i - 1 >= p /\ (i - 1) + 1 = i
      BY ONLY <1>0, <1>1, <1>3, <2>2, p \in 1 .. Len(r) + 1
    <3>2. q[(i - 1) + 1] = r[i - 1]
      BY ONLY <1>2, <3>1
    <3> QED BY ONLY <2>2, <3>1, <3>2
  <2> QED BY <1>0, <1>1, <1>3, <2>1, <2>2
<1>4. \A i \in 1 .. Len(q) : q[i].length > 0 /\ q[i].first + q[i].length <= NameLimit
  BY <1>2, <1>3 DEF Sorted
<1>5. ASSUME NEW i \in 1 .. Len(q), NEW j \in 1 .. Len(q), i < j
      PROVE  q[i].first + q[i].length < q[j].first
  <2>0. i \in Nat /\ j \in Nat /\ p \in Nat
    BY ONLY <1>0, <1>1, <1>5, p \in 1 .. Len(r) + 1
  <2>1. CASE i = p
    <3>1. PICK k \in 1 .. Len(r) : q[j] = r[k] /\ k = j - 1
      BY ONLY <1>3, <1>5, <2>0, <2>1
    <3>2. k >= p
      BY ONLY <1>5, <2>0, <2>1, <3>1
    <3>3. s.first + s.length < r[k].first
      BY <3>2
    <3> QED BY ONLY <1>2, <2>1, <3>1, <3>3
  <2>2. CASE j = p
    <3>1. PICK k \in 1 .. Len(r) : q[i] = r[k] /\ k = i
      BY ONLY <1>3, <1>5, <2>0, <2>2
    <3>2. k < p
      BY ONLY <1>5, <2>0, <2>2, <3>1
    <3>3. r[k].first + r[k].length < s.first
      BY <3>2
    <3> QED BY ONLY <1>2, <2>2, <3>1, <3>3
  <2>3. CASE i # p /\ j # p
    <3>1. PICK k \in 1 .. Len(r) : q[i] = r[k] /\ ((i < p /\ k = i) \/ (i > p /\ k = i - 1))
      BY ONLY <1>3, <1>5, <2>3
    <3>2. PICK m \in 1 .. Len(r) : q[j] = r[m] /\ ((j < p /\ m = j) \/ (j > p /\ m = j - 1))
      BY ONLY <1>3, <1>5, <2>3
    <3>3. k < m
      BY ONLY <1>5, <2>0, <3>1, <3>2
    <3>4. r[k].first + r[k].length < r[m].first
      BY ONLY <3>3, Sorted(r) DEF Sorted
    <3> QED BY ONLY <3>1, <3>2, <3>4
  <2> QED BY <2>1, <2>2, <2>3
<1>6. Sorted(q)
  BY ONLY <1>1, <1>4, <1>5 DEF Sorted
<1>7. ASSUME NEW n PROVE Holds(q, n) <=> Holds(r, n) \/ Inside(s, n)
  <2>1. ASSUME Holds(q, n) PROVE Holds(r, n) \/ Inside(s, n)
    <3>1. PICK i \in 1 .. Len(q) : Inside(q[i], n)
      BY ONLY <2>1 DEF Holds
    <3> QED BY ONLY <1>2, <1>3, <3>1 DEF Holds
  <2>2. ASSUME Inside(s, n) PROVE Holds(q, n)
    <3>1. p \in 1 .. Len(q)
      BY ONLY <1>1, p \in 1 .. Len(r) + 1
    <3> QED BY ONLY <1>2, <2>2, <3>1 DEF Holds
  <2>3. ASSUME Holds(r, n) PROVE Holds(q, n)
    <3>1. PICK k \in 1 .. Len(r) : Inside(r[k], n)
      BY ONLY <2>3 DEF Holds
    <3>2. k \in 1 .. Len(q) /\ k + 1 \in 1 .. Len(q) /\ (k < p \/ k >= p)
      BY ONLY <1>0, <1>1, p \in 1 .. Len(r) + 1
    <3> QED BY ONLY <1>2, <3>1, <3>2 DEF Holds
  <2> QED BY <2>1, <2>2, <2>3
<1> QED BY <1>6, <1>7 DEF q

\* Run p is removed.
LEMMA RemoveSorted ==
  ASSUME NEW r, Sorted(r), NEW p \in 1 .. Len(r)
  PROVE  /\ Sorted(RemoveAt(r, p))
         /\ \A n : Holds(RemoveAt(r, p), n) <=> \E j \in 1 .. Len(r) : j # p /\ Inside(r[j], n)
<1> DEFINE q == RemoveAt(r, p)
<1>0. Len(r) \in Nat /\ r \in Seq(RunType)
  BY LenProperties DEF Sorted
<1>1. /\ q \in Seq(RunType) /\ Len(q) = Len(r) - 1
      /\ \A j \in 1 .. Len(r) - 1 : q[j] = IF j < p THEN r[j] ELSE r[j + 1]
  BY ONLY <1>0, p \in 1 .. Len(r), Removed
<1> HIDE DEF q
<1>3. ASSUME NEW i \in 1 .. Len(q)
      PROVE  \E k \in 1 .. Len(r) : k # p /\ q[i] = r[k] /\ ((i < p /\ k = i) \/ (i >= p /\ k = i + 1))
  <2>1. i \in 1 .. Len(r) /\ i + 1 \in 1 .. Len(r) /\ i \in 1 .. Len(r) - 1
    BY ONLY <1>0, <1>1, <1>3, p \in 1 .. Len(r)
  <2>2. CASE i < p
    BY ONLY <1>1, <2>1, <2>2
  <2>3. CASE i >= p
    <3>1. ~(i < p) /\ i + 1 # p
      BY ONLY <2>1, <2>3, <1>0, p \in 1 .. Len(r)
    <3> QED BY ONLY <1>1, <2>1, <2>3, <3>1
  <2> QED BY <1>0, <2>1, <2>2, <2>3
<1>4. \A i \in 1 .. Len(q) : q[i].length > 0 /\ q[i].first + q[i].length <= NameLimit
  BY <1>3 DEF Sorted
<1>5. ASSUME NEW i \in 1 .. Len(q), NEW j \in 1 .. Len(q), i < j
      PROVE  q[i].first + q[i].length < q[j].first
  <2>1. PICK k \in 1 .. Len(r) : q[i] = r[k] /\ ((i < p /\ k = i) \/ (i >= p /\ k = i + 1))
    BY ONLY <1>3, <1>5
  <2>2. PICK m \in 1 .. Len(r) : q[j] = r[m] /\ ((j < p /\ m = j) \/ (j >= p /\ m = j + 1))
    BY ONLY <1>3, <1>5
  <2>3. k < m
    BY ONLY <1>0, <1>1, <1>5, <2>1, <2>2, p \in 1 .. Len(r)
  <2>4. r[k].first + r[k].length < r[m].first
    BY ONLY <2>3, Sorted(r) DEF Sorted
  <2> QED BY ONLY <2>1, <2>2, <2>4
<1>6. Sorted(q)
  BY ONLY <1>1, <1>4, <1>5 DEF Sorted
<1>7. ASSUME NEW n PROVE Holds(q, n) <=> \E j \in 1 .. Len(r) : j # p /\ Inside(r[j], n)
  <2>1. ASSUME Holds(q, n) PROVE \E j \in 1 .. Len(r) : j # p /\ Inside(r[j], n)
    BY ONLY <1>3, <2>1 DEF Holds
  <2>2. ASSUME NEW j \in 1 .. Len(r), j # p, Inside(r[j], n) PROVE Holds(q, n)
    <3>1. CASE j < p
      <4>1. j \in 1 .. Len(r) - 1
        BY ONLY <1>0, <2>2, <3>1, p \in 1 .. Len(r)
      <4>2. q[j] = r[j]
        BY ONLY <1>1, <3>1, <4>1
      <4> QED BY ONLY <1>1, <2>2, <4>1, <4>2 DEF Holds
    <3>2. CASE j > p
      <4>1. j - 1 \in 1 .. Len(r) - 1 /\ ~(j - 1 < p) /\ (j - 1) + 1 = j
        BY ONLY <1>0, <2>2, <3>2, p \in 1 .. Len(r)
      <4>2. q[j - 1] = r[j]
        BY ONLY <1>1, <4>1
      <4> QED BY ONLY <1>1, <2>2, <4>1, <4>2 DEF Holds
    <3> QED BY ONLY <1>0, <2>2, <3>1, <3>2, p \in 1 .. Len(r)
  <2> QED BY <2>1, <2>2
<1> QED BY <1>6, <1>7 DEF q

\* An assignment to one entry of the vector.
LEMMA ExceptReplaces ==
  ASSUME NEW r \in Seq(RunType), NEW p \in 1 .. Len(r), NEW s \in RunType
  PROVE  Replaced([r EXCEPT ![p] = s], r, p, s)
<1>1. /\ [r EXCEPT ![p] = s] \in Seq(RunType) /\ Len([r EXCEPT ![p] = s]) = Len(r)
      /\ \A j \in 1 .. Len(r) : [r EXCEPT ![p] = s][j] = IF j = p THEN s ELSE r[j]
  BY ExceptSeq
<1> QED BY <1>1 DEF Replaced

\* The fields of a run.
LEMMA RunIs ==
  ASSUME NEW a \in Nat, NEW b \in Nat
  PROVE  Run(a, b) \in RunType /\ Run(a, b).first = a /\ Run(a, b).length = b
BY DEF Run, RunType

\* What is known where a token is inserted.
Between(r, token, i) ==
  /\ Sorted(r) /\ token \in Nat /\ token < NameLimit /\ Place(r, token, i)

\* The token after one below the limit.
LEMMA NextToken ==
  ASSUME NEW token \in Nat, token < NameLimit
  PROVE  Wrap(token + 1) = token + 1
<1>1. token + 1 \in Nat /\ token + 1 < TokenCount
  BY LimitType
<1> DEFINE x == token + 1
<1> HIDE DEF x
<1>2. x \in Nat /\ x < TokenCount
  BY <1>1 DEF x
<1>3. Wrap(x) = x
  BY ONLY <1>2, NoWrap
<1> QED BY <1>3 DEF x

\* What that says of the vector, the token and the place.
LEMMA BetweenFacts ==
  ASSUME NEW r, NEW token, NEW i, Between(r, token, i)
  PROVE  /\ Sorted(r) /\ token \in Nat /\ token < NameLimit /\ r \in Seq(RunType)
         /\ Len(r) \in Nat /\ i \in 1 .. Len(r) + 1 /\ Place(r, token, i)
<1>1. Sorted(r) /\ token \in Nat /\ token < NameLimit /\ Place(r, token, i)
  BY DEF Between
<1>2. r \in Seq(RunType)
  BY ONLY <1>1 DEF Sorted
<1>3. Len(r) \in Nat
  BY ONLY <1>2, LenProperties
<1>4. i \in 1 .. Len(r) + 1
  BY ONLY <1>1 DEF Place
<1> QED BY ONLY <1>1, <1>2, <1>3, <1>4

\* A token that does not touch the run before it leaves a gap to all of them.
LEMMA GapBefore ==
  ASSUME NEW r, NEW token, NEW i, Between(r, token, i), ~(i > 1 /\ RunEnd(r[i - 1]) = token),
         NEW j \in 1 .. Len(r), j < i
  PROVE  r[j].first + r[j].length < token
<1>0. /\ Sorted(r) /\ token \in Nat /\ Len(r) \in Nat
      /\ i \in 1 .. Len(r) + 1 /\ Place(r, token, i)
  BY ONLY Between(r, token, i), BetweenFacts
<1>1. r[j].first \in Nat /\ r[j].length \in Nat /\ RunEnd(r[j]) = r[j].first + r[j].length
  BY ONLY <1>0, j \in 1 .. Len(r), RunFacts
<1>2. r[j].first + r[j].length <= token
  BY ONLY <1>0, j \in 1 .. Len(r), j < i DEF Place
<1>3. CASE j = i - 1
  <2>1. i > 1
    BY ONLY <1>0, j \in 1 .. Len(r), j < i
  <2>2. RunEnd(r[j]) # token
    BY <1>3, <2>1
  <2> QED BY ONLY <1>0, <1>1, <1>2, <2>2
<1>4. CASE j < i - 1
  <2> DEFINE p == i - 1
  <2>1. p \in 1 .. Len(r) /\ p < i /\ j < p
    BY ONLY <1>0, <1>4, j \in 1 .. Len(r)
  <2> HIDE DEF p
  <2>2. r[j].first + r[j].length < r[p].first
    BY ONLY <1>0, <2>1, j \in 1 .. Len(r) DEF Sorted
  <2>3. r[p].first \in Nat /\ r[p].length \in Nat
    BY ONLY <1>0, <2>1, RunFacts
  <2>4. r[p].first + r[p].length <= token
    BY ONLY <1>0, <2>1 DEF Place
  <2>5. r[p].first <= token
    BY ONLY <1>0, <2>3, <2>4
  <2> QED BY ONLY <1>0, <1>1, <2>2, <2>3, <2>5
<1> QED BY ONLY <1>0, <1>3, <1>4, j \in 1 .. Len(r), j < i

\* A token that does not touch the run after it leaves a gap to all of them.
LEMMA GapAfter ==
  ASSUME NEW r, NEW token, NEW i, Between(r, token, i),
         ~(i <= Len(r) /\ Wrap(token + 1) = r[i].first), NEW j \in 1 .. Len(r), j >= i
  PROVE  token + 1 < r[j].first
<1>0. /\ Sorted(r) /\ token \in Nat /\ token < NameLimit /\ Len(r) \in Nat
      /\ i \in 1 .. Len(r) + 1 /\ Place(r, token, i)
  BY ONLY Between(r, token, i), BetweenFacts
<1>1. i \in 1 .. Len(r) /\ i <= Len(r)
  BY ONLY <1>0, j \in 1 .. Len(r), j >= i
<1>2. r[i].first \in Nat /\ r[i].length \in Nat /\ r[j].first \in Nat
  BY ONLY <1>0, <1>1, j \in 1 .. Len(r), RunFacts
<1>3. token < r[i].first
  BY ONLY <1>0, <1>1 DEF Place
<1>4. token + 1 # r[i].first
  <2>1. Wrap(token + 1) = token + 1
    BY ONLY <1>0, NextToken
  <2> QED BY <1>1, <2>1
<1>5. token + 1 < r[i].first
  BY ONLY <1>0, <1>2, <1>3, <1>4
<1>6. CASE j = i
  BY ONLY <1>5, <1>6
<1>7. CASE i < j
  <2>1. r[i].first + r[i].length < r[j].first
    BY ONLY <1>0, <1>1, <1>7, j \in 1 .. Len(r) DEF Sorted
  <2>2. r[i].first <= r[j].first
    BY ONLY <1>2, <2>1
  <2> QED BY ONLY <1>0, <1>2, <1>5, <2>2
<1> QED BY ONLY <1>1, <1>6, <1>7, j \in 1 .. Len(r), j >= i

\* The lengths of a run and its neighbours, added up.
LEMMA PlusOne ==
  ASSUME NEW a \in Nat, NEW b \in Nat
  PROVE  a + (b + 1) = (a + b) + 1
OBVIOUS

\* What a run holds that begins and ends where it is said to.
LEMMA InsideOf ==
  ASSUME NEW run, NEW a, NEW e, run.first = a, run.first + run.length = e, NEW n
  PROVE  Inside(run, n) <=> a <= n /\ n < e
BY DEF Inside

\* The token joins the run before it.
GrowPrev(r, i) == [r EXCEPT ![i - 1] = Run(@.first, Wrap(@.length + 1))]

LEMMA JoinPrev ==
  ASSUME NEW r, NEW token, NEW i, Between(r, token, i), i > 1, RunEnd(r[i - 1]) = token,
         ~(i <= Len(r) /\ Wrap(token + 1) = r[i].first)
  PROVE  Adds(GrowPrev(r, i), r, token)
<1> DEFINE p == i - 1
           s == Run(r[p].first, Wrap(r[p].length + 1))
           q == [r EXCEPT ![p] = s]
<1>0. /\ Sorted(r) /\ token \in Nat /\ token < NameLimit /\ r \in Seq(RunType) /\ Len(r) \in Nat
      /\ i \in 1 .. Len(r) + 1 /\ Place(r, token, i)
  BY ONLY Between(r, token, i), BetweenFacts
<1>1. p \in 1 .. Len(r) /\ i = p + 1
  BY <1>0
<1>e. RunEnd(r[p]) = token
  OBVIOUS
<1>g. \A j \in 1 .. Len(r) : j >= i => token + 1 < r[j].first
  BY GapAfter
<1> HIDE DEF p
<1>2. /\ r[p].first \in Nat /\ r[p].length \in Nat /\ r[p].length > 0
      /\ r[p].first + r[p].length = token
  BY ONLY <1>0, <1>1, <1>e, RunFacts
<1>3. Wrap(r[p].length + 1) = r[p].length + 1
  <2>1. r[p].length < NameLimit
    BY ONLY <1>0, <1>2, LimitType
  <2> QED BY ONLY <1>2, <2>1, NextToken
<1>4. s \in RunType /\ s.first = r[p].first /\ s.length = r[p].length + 1
  <2>1. r[p].length + 1 \in Nat
    BY ONLY <1>2
  <2> QED BY ONLY <1>2, <1>3, <2>1, RunIs
<1> HIDE DEF s
<1>5. Replaced(q, r, p, s)
  BY ONLY <1>0, <1>1, <1>4, ExceptReplaces
<1>6. \A j \in 1 .. Len(r) : j < p => r[j].first + r[j].length < s.first
  BY ONLY <1>0, <1>1, <1>4 DEF Sorted
<1>e1. s.first + s.length = token + 1
  BY ONLY <1>2, <1>4, PlusOne
<1>7. ASSUME NEW j \in 1 .. Len(r), j > p PROVE s.first + s.length < r[j].first
  <2>1. j >= i
    BY ONLY <1>0, <1>1, <1>7
  <2>2. token + 1 < r[j].first
    BY ONLY <1>7, <1>g, <2>1
  <2> QED BY ONLY <1>e1, <2>2
<1>8. s.length > 0 /\ s.first + s.length <= NameLimit
  BY ONLY <1>0, <1>2, <1>4, <1>e1, LimitType
<1> HIDE DEF q
<1>9. Sorted(q)
  BY ONLY <1>0, <1>1, <1>4, <1>5, <1>6, <1>7, <1>8, ReplaceSorted
<1>10. ASSUME NEW n \in Nat PROVE Holds(q, n) <=> Holds(r, n) \/ n = token
  <2>1. Holds(q, n) <=> Inside(s, n) \/ \E j \in 1 .. Len(r) : j # p /\ Inside(r[j], n)
    BY ONLY <1>1, <1>5, ReplaceHolds
  <2>2. Inside(s, n) <=> Inside(r[p], n) \/ n = token
    <3>1. Inside(s, n) <=> r[p].first <= n /\ n < token + 1
      BY ONLY <1>4, <1>e1, InsideOf
    <3>2. Inside(r[p], n) <=> r[p].first <= n /\ n < token
      BY ONLY <1>2, InsideOf
    <3>3. r[p].first <= token
      BY ONLY <1>0, <1>2
    <3> QED BY ONLY <1>0, <1>2, <3>1, <3>2, <3>3, n \in Nat
  <2> QED BY ONLY <1>1, <2>1, <2>2 DEF Holds
<1>11. Adds(q, r, token)
  BY ONLY <1>9, <1>10 DEF Adds
<1> QED BY <1>11 DEF q, s, p, GrowPrev

\* The token joins the run after it.
GrowNext(r, i) == [r EXCEPT ![i] = Run(Wrap(@.first - 1), Wrap(@.length + 1))]

LEMMA JoinNext ==
  ASSUME NEW r, NEW token, NEW i, Between(r, token, i), i <= Len(r), Wrap(token + 1) = r[i].first,
         ~(i > 1 /\ RunEnd(r[i - 1]) = token)
  PROVE  Adds(GrowNext(r, i), r, token)
<1> DEFINE s == Run(Wrap(r[i].first - 1), Wrap(r[i].length + 1))
           q == [r EXCEPT ![i] = s]
<1>0. /\ Sorted(r) /\ token \in Nat /\ token < NameLimit /\ r \in Seq(RunType) /\ Len(r) \in Nat
      /\ i \in 1 .. Len(r) /\ Place(r, token, i)
  <2>1. /\ Sorted(r) /\ token \in Nat /\ token < NameLimit /\ r \in Seq(RunType)
        /\ Len(r) \in Nat /\ i \in 1 .. Len(r) + 1 /\ Place(r, token, i)
    BY ONLY Between(r, token, i), BetweenFacts
  <2> QED BY ONLY <2>1, i <= Len(r)
<1>1. r[i].first = token + 1
  BY ONLY <1>0, NextToken, Wrap(token + 1) = r[i].first
<1>2. r[i].length \in Nat /\ r[i].length > 0 /\ r[i].first + r[i].length <= NameLimit
  BY ONLY <1>0, RunFacts
<1>3. Wrap(r[i].length + 1) = r[i].length + 1
  <2>1. r[i].length < NameLimit
    BY ONLY <1>0, <1>1, <1>2, LimitType
  <2> QED BY ONLY <1>2, <2>1, NextToken
<1>4. Wrap(r[i].first - 1) = token
  <2>1. r[i].first - 1 = token
    BY ONLY <1>0, <1>1
  <2>2. Wrap(token) = token
    BY ONLY <1>0, LimitType, NoWrap
  <2> QED BY ONLY <2>1, <2>2
<1>5. s \in RunType /\ s.first = token /\ s.length = r[i].length + 1
  <2>1. r[i].length + 1 \in Nat
    BY ONLY <1>2
  <2> QED BY ONLY <1>0, <1>3, <1>4, <2>1, RunIs
<1> HIDE DEF s
<1>6. Replaced(q, r, i, s)
  BY ONLY <1>0, <1>5, ExceptReplaces
<1>7. \A j \in 1 .. Len(r) : j < i => r[j].first + r[j].length < s.first
  <2>1. \A j \in 1 .. Len(r) : j < i => r[j].first + r[j].length < token
    BY GapBefore
  <2> QED BY ONLY <1>5, <2>1
<1>8. \A j \in 1 .. Len(r) : j > i => s.first + s.length < r[j].first
  <2>1. s.first + s.length = r[i].first + r[i].length
    BY ONLY <1>0, <1>1, <1>2, <1>5
  <2> QED BY ONLY <1>0, <2>1 DEF Sorted
<1>9. s.length > 0 /\ s.first + s.length <= NameLimit
  BY ONLY <1>0, <1>1, <1>2, <1>5, LimitType
<1> HIDE DEF q
<1>10. Sorted(q)
  BY ONLY <1>0, <1>5, <1>6, <1>7, <1>8, <1>9, ReplaceSorted
<1>11. ASSUME NEW n \in Nat PROVE Holds(q, n) <=> Holds(r, n) \/ n = token
  <2>1. Holds(q, n) <=> Inside(s, n) \/ \E j \in 1 .. Len(r) : j # i /\ Inside(r[j], n)
    BY ONLY <1>0, <1>6, ReplaceHolds
  <2>2. Inside(s, n) <=> Inside(r[i], n) \/ n = token
    BY ONLY <1>0, <1>1, <1>2, <1>5, n \in Nat DEF Inside
  <2> QED BY ONLY <1>0, <2>1, <2>2 DEF Holds
<1>12. Adds(q, r, token)
  BY ONLY <1>10, <1>11 DEF Adds
<1> QED BY <1>12 DEF q, s, GrowNext

\* Runs i - 1 and i grow together.
LEMMA JoinBoth ==
  ASSUME NEW r, NEW token, NEW i, Between(r, token, i), i > 1, RunEnd(r[i - 1]) = token,
         i <= Len(r), Wrap(token + 1) = r[i].first
  PROVE  Adds(RemoveAt([r EXCEPT ![i - 1] = Run(@.first, Wrap(@.length + 1 + r[i].length))], i),
              r, token)
<1> DEFINE p == i - 1
           s == Run(r[p].first, Wrap(r[p].length + 1 + r[i].length))
           v == [r EXCEPT ![p] = s]
           w == RemoveAt(r, i)
           q == RemoveAt(v, i)
<1>0. /\ Sorted(r) /\ token \in Nat /\ token < NameLimit /\ r \in Seq(RunType) /\ Len(r) \in Nat
      /\ i \in 1 .. Len(r) /\ Place(r, token, i)
  <2>1. /\ Sorted(r) /\ token \in Nat /\ token < NameLimit /\ r \in Seq(RunType)
        /\ Len(r) \in Nat /\ i \in 1 .. Len(r) + 1 /\ Place(r, token, i)
    BY ONLY Between(r, token, i), BetweenFacts
  <2> QED BY ONLY <2>1, i <= Len(r)
<1>1. p \in 1 .. Len(r) /\ i = p + 1 /\ RunEnd(r[p]) = token
  BY <1>0
<1> HIDE DEF p
<1>2. /\ r[p].first \in Nat /\ r[p].length \in Nat /\ r[p].length > 0
      /\ r[p].first + r[p].length = token
  BY ONLY <1>0, <1>1, RunFacts
<1>3. r[i].first = token + 1
  BY ONLY <1>0, NextToken, Wrap(token + 1) = r[i].first
<1>4. r[i].length \in Nat /\ r[i].length > 0 /\ r[i].first + r[i].length <= NameLimit
  BY ONLY <1>0, RunFacts
<1> DEFINE x == r[p].length + 1 + r[i].length
<1>5. x \in Nat /\ x < TokenCount /\ r[p].first + x = r[i].first + r[i].length /\ x > 0
  <2>1. x \in Nat /\ x > 0
    BY ONLY <1>2, <1>4
  <2>2. r[p].first + x = r[i].first + r[i].length
    <3> DEFINE a == r[p].first
               b == r[p].length
               c == r[i].length
    <3>1. a \in Nat /\ b \in Nat /\ c \in Nat /\ token \in Nat /\ a + b = token
      BY <1>0, <1>2, <1>4
    <3> HIDE DEF a, b, c
    <3>2. a + (b + 1 + c) = token + 1 + c
      BY ONLY <3>1
    <3> QED BY <1>3, <3>2 DEF a, b, c
  <2> HIDE DEF x
  <2>3. x <= NameLimit
    BY ONLY <1>2, <1>4, <2>1, <2>2, LimitType
  <2> QED BY ONLY <2>1, <2>2, <2>3, LimitType
<1>6. s = Run(r[p].first, Wrap(x))
  OBVIOUS
<1> HIDE DEF x, s
<1>7. s \in RunType /\ s.first = r[p].first /\ s.length = x
  <2>1. Wrap(x) = x
    BY ONLY <1>5, NoWrap
  <2> QED BY ONLY <1>2, <1>5, <1>6, <2>1, RunIs
<1>8. Replaced(v, r, p, s)
  BY ONLY <1>0, <1>1, <1>7, ExceptReplaces
<1> HIDE DEF v
<1>9. v \in Seq(RunType) /\ Len(v) = Len(r) /\ v[p] = s /\ \A j \in 1 .. Len(r) : j # p => v[j] = r[j]
  BY ONLY <1>8 DEF Replaced
<1>10. /\ q \in Seq(RunType) /\ Len(q) = Len(r) - 1
       /\ \A j \in 1 .. Len(r) - 1 : q[j] = IF j < i THEN v[j] ELSE v[j + 1]
  <2>1. i \in 1 .. Len(v)
    BY ONLY <1>0, <1>9
  <2>2. /\ q \in Seq(RunType) /\ Len(q) = Len(v) - 1
        /\ \A j \in 1 .. Len(v) - 1 : q[j] = IF j < i THEN v[j] ELSE v[j + 1]
    BY ONLY <1>9, <2>1, Removed
  <2> QED BY ONLY <1>9, <2>2
<1>11. /\ w \in Seq(RunType) /\ Len(w) = Len(r) - 1
       /\ \A j \in 1 .. Len(r) - 1 : w[j] = IF j < i THEN r[j] ELSE r[j + 1]
  BY ONLY <1>0, Removed
<1>12. Sorted(w)
  BY ONLY <1>0, RemoveSorted
<1> HIDE DEF q, w
<1>13. p \in 1 .. Len(w) /\ Len(w) = Len(q) /\ p < i
  BY ONLY <1>0, <1>1, <1>10, <1>11
<1>14. Replaced(q, w, p, s)
  <2>1. q[p] = s
    <3>1. p \in 1 .. Len(r) - 1
      BY ONLY <1>11, <1>13
    <3> QED BY ONLY <1>9, <1>10, <1>13, <3>1
  <2>2. ASSUME NEW j \in 1 .. Len(w), j # p PROVE q[j] = w[j]
    <3>1. /\ j \in 1 .. Len(r) - 1 /\ j \in 1 .. Len(r) /\ j + 1 \in 1 .. Len(r)
          /\ (~(j < i) => j + 1 # p)
      BY ONLY <1>0, <1>1, <1>11, <2>2
    <3>2. v[j] = r[j] /\ (~(j < i) => v[j + 1] = r[j + 1])
      BY ONLY <1>9, <2>2, <3>1
    <3>3. CASE j < i
      BY ONLY <1>10, <1>11, <3>1, <3>2, <3>3
    <3>4. CASE ~(j < i)
      BY ONLY <1>10, <1>11, <3>1, <3>2, <3>4
    <3> QED BY <3>3, <3>4
  <2> QED BY ONLY <1>10, <1>11, <2>1, <2>2 DEF Replaced
<1>15. ASSUME NEW j \in 1 .. Len(w), j < p PROVE w[j].first + w[j].length < s.first
  <2>1. j \in 1 .. Len(r) - 1 /\ j \in 1 .. Len(r) /\ j < i
    BY ONLY <1>0, <1>1, <1>11, <1>15
  <2>2. w[j] = r[j]
    BY ONLY <1>11, <2>1
  <2>3. r[j].first + r[j].length < r[p].first
    BY ONLY <1>0, <1>1, <1>15, <2>1 DEF Sorted
  <2> QED BY ONLY <1>7, <2>2, <2>3
<1>16. ASSUME NEW j \in 1 .. Len(w), j > p PROVE s.first + s.length < w[j].first
  <2>1. j \in 1 .. Len(r) - 1 /\ j + 1 \in 1 .. Len(r) /\ ~(j < i) /\ i < j + 1
    BY ONLY <1>0, <1>1, <1>11, <1>16
  <2>2. w[j] = r[j + 1]
    BY ONLY <1>11, <2>1
  <2>3. r[i].first + r[i].length < r[j + 1].first
    BY ONLY <1>0, <2>1 DEF Sorted
  <2> QED BY ONLY <1>5, <1>7, <2>2, <2>3
<1>17. s.length > 0 /\ s.first + s.length <= NameLimit
  BY ONLY <1>4, <1>5, <1>7
<1>18. Sorted(q)
  BY ONLY <1>7, <1>12, <1>13, <1>14, <1>15, <1>16, <1>17, ReplaceSorted
<1>19. ASSUME NEW n \in Nat PROVE Holds(q, n) <=> Holds(r, n) \/ n = token
  <2>1. Holds(q, n) <=> Inside(s, n) \/ \E j \in 1 .. Len(w) : j # p /\ Inside(w[j], n)
    BY ONLY <1>13, <1>14, ReplaceHolds
  <2>2. Inside(s, n) <=> Inside(r[p], n) \/ n = token \/ Inside(r[i], n)
    <3> DEFINE e == r[i].first + r[i].length
    <3>1. Inside(s, n) <=> r[p].first <= n /\ n < e
      BY ONLY <1>5, <1>7, InsideOf
    <3>2. Inside(r[p], n) <=> r[p].first <= n /\ n < token
      BY ONLY <1>2, InsideOf
    <3>3. Inside(r[i], n) <=> token + 1 <= n /\ n < e
      BY ONLY <1>3, InsideOf
    <3>4. r[p].first <= token
      BY ONLY <1>0, <1>2
    <3>5. e \in Nat /\ token < e
      <4>1. r[i].first \in Nat /\ token < r[i].first
        BY ONLY <1>0, <1>3
      <4> QED BY ONLY <1>0, <1>4, <4>1
    <3> HIDE DEF e
    <3> QED BY ONLY <1>0, <1>2, <3>1, <3>2, <3>3, <3>4, <3>5, n \in Nat
  <2>3. ASSUME NEW j \in 1 .. Len(w), j # p, Inside(w[j], n) PROVE Holds(r, n)
    <3>1. j \in 1 .. Len(r) - 1 /\ j \in 1 .. Len(r) /\ j + 1 \in 1 .. Len(r)
      BY ONLY <1>0, <1>11, <2>3
    <3>2. w[j] = r[j] \/ w[j] = r[j + 1]
      BY ONLY <1>11, <3>1
    <3> QED BY ONLY <2>3, <3>1, <3>2 DEF Holds
  <2>4. ASSUME NEW k \in 1 .. Len(r), k # p, k # i, Inside(r[k], n)
        PROVE  \E j \in 1 .. Len(w) : j # p /\ Inside(w[j], n)
    <3>1. CASE k < i
      <4>1. k \in 1 .. Len(r) - 1
        BY ONLY <1>0, <2>4, <3>1
      <4>2. w[k] = r[k]
        BY ONLY <1>11, <3>1, <4>1
      <4> QED BY ONLY <1>11, <2>4, <4>1, <4>2
    <3>2. CASE k > i
      <4>1. k - 1 \in 1 .. Len(r) - 1 /\ ~(k - 1 < i) /\ (k - 1) + 1 = k /\ k - 1 # p
        BY ONLY <1>0, <1>1, <2>4, <3>2
      <4>2. w[k - 1] = r[k]
        BY ONLY <1>11, <4>1
      <4> QED BY ONLY <1>11, <2>4, <4>1, <4>2
    <3> QED BY ONLY <1>0, <2>4, <3>1, <3>2
  <2>5. Holds(r, n) <=> \/ Inside(r[p], n) \/ Inside(r[i], n)
                        \/ \E k \in 1 .. Len(r) : k # p /\ k # i /\ Inside(r[k], n)
    BY ONLY <1>0, <1>1 DEF Holds
  <2> QED BY ONLY <2>1, <2>2, <2>3, <2>4, <2>5
<1>20. Adds(q, r, token)
  BY ONLY <1>18, <1>19 DEF Adds
<1> QED BY <1>20 DEF q, v, s, x, p

\* The token touches no run.
LEMMA JoinNone ==
  ASSUME NEW r, NEW token, NEW i, Between(r, token, i),
         ~(i > 1 /\ RunEnd(r[i - 1]) = token), ~(i <= Len(r) /\ Wrap(token + 1) = r[i].first)
  PROVE  Adds(InsertAt(r, i, Run(token, 1)), r, token)
<1> DEFINE s == Run(token, 1)
<1>0. /\ Sorted(r) /\ token \in Nat /\ token < NameLimit /\ r \in Seq(RunType) /\ Len(r) \in Nat
      /\ i \in 1 .. Len(r) + 1 /\ Place(r, token, i)
  BY ONLY Between(r, token, i), BetweenFacts
<1>1. s \in RunType /\ s.first = token /\ s.length = 1
  BY ONLY <1>0, RunIs
<1> HIDE DEF s
<1>2. \A j \in 1 .. Len(r) : j < i => r[j].first + r[j].length < s.first
  <2>1. \A j \in 1 .. Len(r) : j < i => r[j].first + r[j].length < token
    BY GapBefore
  <2> QED BY ONLY <1>1, <2>1
<1>3. \A j \in 1 .. Len(r) : j >= i => s.first + s.length < r[j].first
  <2>1. \A j \in 1 .. Len(r) : j >= i => token + 1 < r[j].first
    BY GapAfter
  <2> QED BY ONLY <1>1, <2>1
<1>4. s.length > 0 /\ s.first + s.length <= NameLimit
  BY ONLY <1>0, <1>1, LimitType
<1>5. /\ Sorted(InsertAt(r, i, s))
      /\ \A n : Holds(InsertAt(r, i, s), n) <=> Holds(r, n) \/ Inside(s, n)
  BY ONLY <1>0, <1>1, <1>2, <1>3, <1>4, InsertSorted
<1>6. \A n \in Nat : Inside(s, n) <=> n = token
  BY ONLY <1>0, <1>1 DEF Inside
<1>7. Adds(InsertAt(r, i, s), r, token)
  BY ONLY <1>5, <1>6 DEF Adds
<1> QED BY <1>7 DEF s

\* insertTokenAt adds the token and nothing else, and keeps the runs apart.
LEMMA InsertToken ==
  ASSUME NEW r, NEW token, NEW i, Between(r, token, i)
  PROVE  Adds(insertTokenAt(r, token, i), r, token)
<1> DEFINE jp == i > 1 /\ RunEnd(r[i - 1]) = token
           jn == i <= Len(r) /\ Wrap(token + 1) = r[i].first
<1>1. CASE jp /\ jn
  <2>1. insertTokenAt(r, token, i)
          = RemoveAt([r EXCEPT ![i - 1] = Run(@.first, Wrap(@.length + 1 + r[i].length))], i)
    BY <1>1 DEF insertTokenAt
  <2> QED BY <1>1, <2>1, JoinBoth
<1>2. CASE jp /\ ~jn
  <2>1. insertTokenAt(r, token, i) = GrowPrev(r, i)
    BY <1>2 DEF insertTokenAt, GrowPrev
  <2>2. Adds(GrowPrev(r, i), r, token)
    BY ONLY Between(r, token, i), <1>2, JoinPrev
  <2> QED BY ONLY <2>1, <2>2
<1>3. CASE ~jp /\ jn
  <2>1. insertTokenAt(r, token, i) = GrowNext(r, i)
    BY <1>3 DEF insertTokenAt, GrowNext
  <2>2. Adds(GrowNext(r, i), r, token)
    BY ONLY Between(r, token, i), <1>3, JoinNext
  <2> QED BY ONLY <2>1, <2>2
<1>4. CASE ~jp /\ ~jn
  <2>1. insertTokenAt(r, token, i) = InsertAt(r, i, Run(token, 1))
    BY <1>4 DEF insertTokenAt
  <2> QED BY <1>4, <2>1, JoinNone
<1> QED BY <1>1, <1>2, <1>3, <1>4

\* A nonempty set of naturals has a least element.
LEMMA NatMin ==
  ASSUME NEW S, S \subseteq Nat, S # {}
  PROVE  \E m \in S : \A n \in S : m <= n
<1> DEFINE R == OpToRel(<, Nat)
<1>1. IsWellFoundedOn(R, Nat)
  BY NatLessThanWellFounded
<1> HIDE DEF R
<1>2. PICK m \in S : \A n \in S : ~(<<n, m>> \in R)
  BY <1>1, WFMin
<1>3. \A n \in S : n < m => <<n, m>> \in R
  BY DEF R, OpToRel
<1>4. ASSUME NEW n \in S PROVE m <= n
  <2>1. ~(n < m)
    BY <1>2, <1>3
  <2> QED
    BY <2>1, S \subseteq Nat
<1> QED
  BY <1>4
-----------------------------------------------------------------------------
\* The states of the search after each of the rounds 0 .. n.
Started(r) == [l |-> 1, h |-> Len(r), index |-> NAME_NOT_FOUND]

Rounds(f, r, token, n) ==
  [k \in 0 .. n |-> IF k = 0 THEN Started(r) ELSE Round(r, token, f[k - 1])]

\* The recursion that defines the search has a solution.
LEMMA RoundsExist ==
  ASSUME NEW r, NEW token, NEW n \in Nat
  PROVE  \E f : f = Rounds(f, r, token, n)
<1> DEFINE Off == {m \in Nat : ~\E f : f = Rounds(f, r, token, m)}
<1>1. ASSUME Off # {} PROVE FALSE
  <2>1. PICK m \in Off : \A j \in Off : m <= j
    <3>1. Off \subseteq Nat
      OBVIOUS
    <3> HIDE DEF Off
    <3> QED BY <1>1, <3>1, NatMin
  <2>2. m \in Nat /\ ~\E f : f = Rounds(f, r, token, m)
    BY <2>1
  <2>3. CASE m = 0
    <3> DEFINE g == [k \in 0 .. 0 |-> Started(r)]
    <3>1. g = Rounds(g, r, token, 0)
      BY DEF Rounds
    <3> QED BY ONLY <2>2, <2>3, <3>1
  <2>4. CASE m # 0
    <3>1. m - 1 \in Nat /\ ~(m <= m - 1)
      BY ONLY <2>2, <2>4
    <3>2. PICK f : f = Rounds(f, r, token, m - 1)
      BY <2>1, <3>1
    <3> DEFINE g == [k \in 0 .. m |-> IF k = m THEN Round(r, token, f[m - 1]) ELSE f[k]]
    <3>3. ASSUME NEW k \in 0 .. m
          PROVE  g[k] = IF k = 0 THEN Started(r) ELSE Round(r, token, g[k - 1])
      <4>1. CASE k = m
        <5>1. m - 1 \in 0 .. m /\ m - 1 # m
          BY ONLY <2>2, <3>1
        <5>2. g[m - 1] = f[m - 1]
          BY ONLY <5>1
        <5> QED BY ONLY <2>4, <3>3, <4>1, <5>2
      <4>2. CASE k # m
        <5>1. k \in 0 .. m - 1 /\ (k # 0 => k - 1 \in 0 .. m /\ k - 1 # m)
          BY ONLY <2>2, <3>3, <4>2
        <5>2. f[k] = IF k = 0 THEN Started(r) ELSE Round(r, token, f[k - 1])
          BY ONLY <3>2, <5>1 DEF Rounds
        <5>3. g[k] = f[k] /\ (k # 0 => g[k - 1] = f[k - 1])
          BY ONLY <3>3, <4>2, <5>1
        <5> QED BY ONLY <5>2, <5>3
      <4> QED BY <4>1, <4>2
    <3>4. g = [k \in 0 .. m |-> g[k]]
      OBVIOUS
    <3> HIDE DEF g
    <3>5. g = Rounds(g, r, token, m)
      BY ONLY <3>3, <3>4 DEF Rounds
    <3> QED BY ONLY <2>2, <3>5
  <2> QED BY <2>3, <2>4
<1> QED BY <1>1

\* A search that goes on has every run before l below the token, every run
\* after h above it, and one run less to look at in every round; one that has
\* ended on a run ended on the run that holds the token.
Searching(r, token, s, k) ==
  /\ s.index = NAME_NOT_FOUND
  /\ s.l \in Int /\ s.h \in Int /\ 1 <= s.l /\ s.l <= s.h + 1 /\ s.h <= Len(r)
  /\ s.h - s.l + 1 <= Len(r) - k
  /\ \A j \in 1 .. Len(r) : j < s.l => r[j].first + r[j].length <= token
  /\ \A j \in 1 .. Len(r) : j > s.h => token < r[j].first

HasFound(r, token, s) == s.l = s.index /\ s.index \in 1 .. Len(r) /\ Inside(r[s.index], token)

\* The fields of a state of the search.
LEMMA StateIs ==
  ASSUME NEW a, NEW b, NEW c
  PROVE  LET s == [l |-> a, h |-> b, index |-> c] IN s.l = a /\ s.h = b /\ s.index = c
OBVIOUS

\* A round keeps to one or the other.
LEMMA RoundKeeps ==
  ASSUME NEW r, Sorted(r), NEW token \in Nat, NEW s, NEW k \in Nat, k < Len(r),
         Searching(r, token, s, k) \/ HasFound(r, token, s)
  PROVE  Searching(r, token, Round(r, token, s), k + 1) \/ HasFound(r, token, Round(r, token, s))
<1>0. Len(r) \in Nat
  BY LenProperties DEF Sorted
<1>1. CASE HasFound(r, token, s)
  <2>1. s.index # NAME_NOT_FOUND
    BY ONLY <1>0, <1>1 DEF HasFound, NAME_NOT_FOUND
  <2>2. Round(r, token, s) = s
    BY ONLY <2>1 DEF Round
  <2> QED BY ONLY <1>1, <2>2
<1>2. CASE Searching(r, token, s, k) /\ s.l > s.h
  <2>1. Round(r, token, s) = s
    BY ONLY <1>2 DEF Round
  <2>2. Searching(r, token, s, k + 1)
    BY ONLY <1>0, <1>2, k \in Nat, k < Len(r) DEF Searching
  <2> QED BY ONLY <2>1, <2>2
<1>3. CASE Searching(r, token, s, k) /\ s.l <= s.h
  <2> DEFINE mid == s.l + (s.h - s.l) \div 2
  <2>1. /\ s.index = NAME_NOT_FOUND
        /\ s.l \in Int /\ s.h \in Int /\ 1 <= s.l /\ s.l <= s.h /\ s.h <= Len(r)
        /\ s.h - s.l + 1 <= Len(r) - k
    BY ONLY <1>3 DEF Searching
  <2>2. mid \in 1 .. Len(r) /\ s.l <= mid /\ mid <= s.h
    <3> DEFINE a == s.l
               b == s.h
    <3>1. a \in Int /\ b \in Int /\ 1 <= a /\ a <= b /\ b <= Len(r)
      BY ONLY <2>1
    <3> HIDE DEF a, b
    <3>2. a + (b - a) \div 2 \in Int /\ a <= a + (b - a) \div 2 /\ a + (b - a) \div 2 <= b
      BY ONLY <3>1
    <3>3. a + (b - a) \div 2 \in 1 .. Len(r)
      BY ONLY <1>0, <3>1, <3>2
    <3> QED BY ONLY <3>2, <3>3 DEF a, b
  <2>3. Round(r, token, s)
          = IF token < r[mid].first THEN [l |-> s.l, h |-> mid - 1, index |-> s.index]
            ELSE IF token >= RunEnd(r[mid]) THEN [l |-> mid + 1, h |-> s.h, index |-> s.index]
            ELSE [l |-> mid, h |-> s.h, index |-> mid]
    BY ONLY <2>1 DEF Round
  <2> HIDE DEF mid
  <2>4. /\ r[mid].first \in Nat /\ r[mid].length \in Nat
        /\ RunEnd(r[mid]) = r[mid].first + r[mid].length
    BY ONLY <2>2, Sorted(r), RunFacts
  <2> DEFINE t == Round(r, token, s)
  <2>5. CASE token < r[mid].first
    <3>1. t.l = s.l /\ t.h = mid - 1 /\ t.index = s.index
      BY ONLY <2>3, <2>5, StateIs
    <3> HIDE DEF t
    <3>2. \A j \in 1 .. Len(r) : j > t.h => token < r[j].first
      <4> SUFFICES ASSUME NEW j \in 1 .. Len(r), j > t.h PROVE token < r[j].first
        OBVIOUS
      <4>1. CASE j = mid
        BY ONLY <2>5, <4>1
      <4>2. CASE j > mid
        <5>1. r[mid].first + r[mid].length < r[j].first
          BY ONLY <2>2, <4>2, Sorted(r) DEF Sorted
        <5>2. r[j].first \in Nat
          BY ONLY Sorted(r), RunFacts
        <5> QED BY ONLY <2>4, <2>5, <5>1, <5>2, token \in Nat
      <4> QED BY ONLY <2>2, <3>1, <4>1, <4>2, j > t.h
    <3>3. \A j \in 1 .. Len(r) : j < t.l => r[j].first + r[j].length <= token
      BY ONLY <1>3, <3>1 DEF Searching
    <3>4. t.h - t.l + 1 <= Len(r) - (k + 1)
      BY ONLY <1>0, <2>1, <2>2, <3>1, k \in Nat
    <3>5. t.l \in Int /\ t.h \in Int /\ 1 <= t.l /\ t.l <= t.h + 1 /\ t.h <= Len(r)
      BY ONLY <1>0, <2>1, <2>2, <3>1
    <3>6. Searching(r, token, t, k + 1)
      BY ONLY <2>1, <3>1, <3>2, <3>3, <3>4, <3>5 DEF Searching
    <3> QED BY ONLY <3>6 DEF t
  <2>6. CASE ~(token < r[mid].first) /\ token >= RunEnd(r[mid])
    <3>1. t.l = mid + 1 /\ t.h = s.h /\ t.index = s.index
      BY ONLY <2>3, <2>6, StateIs
    <3> HIDE DEF t
    <3>2. \A j \in 1 .. Len(r) : j < t.l => r[j].first + r[j].length <= token
      <4> SUFFICES ASSUME NEW j \in 1 .. Len(r), j < t.l PROVE r[j].first + r[j].length <= token
        OBVIOUS
      <4>1. CASE j = mid
        BY ONLY <2>4, <2>6, <4>1, token \in Nat
      <4>2. CASE j < mid
        <5>1. r[j].first + r[j].length < r[mid].first
          BY ONLY <2>2, <4>2, Sorted(r) DEF Sorted
        <5>2. r[j].first \in Nat /\ r[j].length \in Nat
          BY ONLY Sorted(r), RunFacts
        <5> QED BY ONLY <2>4, <2>6, <5>1, <5>2, token \in Nat
      <4> QED BY ONLY <2>2, <3>1, <4>1, <4>2, j < t.l
    <3>3. \A j \in 1 .. Len(r) : j > t.h => token < r[j].first
      BY ONLY <1>3, <3>1 DEF Searching
    <3>4. t.h - t.l + 1 <= Len(r) - (k + 1)
      BY ONLY <1>0, <2>1, <2>2, <3>1, k \in Nat
    <3>5. t.l \in Int /\ t.h \in Int /\ 1 <= t.l /\ t.l <= t.h + 1 /\ t.h <= Len(r)
      BY ONLY <1>0, <2>1, <2>2, <3>1
    <3>6. Searching(r, token, t, k + 1)
      BY ONLY <2>1, <3>1, <3>2, <3>3, <3>4, <3>5 DEF Searching
    <3> QED BY ONLY <3>6 DEF t
  <2>7. CASE ~(token < r[mid].first) /\ ~(token >= RunEnd(r[mid]))
    <3>1. t.l = mid /\ t.index = mid
      BY ONLY <2>3, <2>7, StateIs
    <3> HIDE DEF t
    <3>2. HasFound(r, token, t)
      BY ONLY <2>2, <2>4, <2>7, <3>1, token \in Nat DEF HasFound, Inside
    <3> QED BY ONLY <3>2 DEF t
  <2> QED BY ONLY <2>5, <2>6, <2>7
<1>4. s.l > s.h \/ s.l <= s.h \/ ~Searching(r, token, s, k)
  BY ONLY <1>0 DEF Searching
<1> QED BY <1>1, <1>2, <1>3, <1>4

\* What the search answers for a vector in order: the run that holds the
\* token, or that none does and where its run belongs.
Found(r, token, at) ==
  \/ at.index \in 1 .. Len(r) /\ Inside(r[at.index], token)
  \/ at.index = NAME_NOT_FOUND /\ Place(r, token, at.order)

\* The search of Tokenizer answers that.
LEMMA SearchFinds ==
  ASSUME NEW r, Sorted(r), NEW token \in Nat
  PROVE  Found(r, token, indexOrderOf(r, token))
<1>0. Len(r) \in Nat
  BY LenProperties DEF Sorted
<1> DEFINE f == CHOOSE g : g = Rounds(g, r, token, Len(r))
<1>1. indexOrderOf(r, token) = [index |-> f[Len(r)].index, order |-> f[Len(r)].l]
  BY DEF indexOrderOf, Rounds, Started
<1>2. f = Rounds(f, r, token, Len(r))
  BY ONLY <1>0, RoundsExist
<1> HIDE DEF f
<1>3. f[0] = Started(r) /\ \A k \in 0 .. Len(r) : k # 0 => f[k] = Round(r, token, f[k - 1])
  <2>1. 0 \in 0 .. Len(r)
    BY ONLY <1>0
  <2>2. \A k \in 0 .. Len(r) : f[k] = IF k = 0 THEN Started(r) ELSE Round(r, token, f[k - 1])
    BY ONLY <1>2 DEF Rounds
  <2> QED BY ONLY <2>1, <2>2
<1> DEFINE Off == {k \in 0 .. Len(r) : ~(Searching(r, token, f[k], k) \/ HasFound(r, token, f[k]))}
<1>4. ASSUME Off # {} PROVE FALSE
  <2>1. PICK k \in Off : \A j \in Off : k <= j
    <3>1. Off \subseteq Nat
      BY ONLY <1>0
    <3> HIDE DEF Off
    <3> QED BY <1>4, <3>1, NatMin
  <2>2. k \in 0 .. Len(r) /\ ~(Searching(r, token, f[k], k) \/ HasFound(r, token, f[k]))
    BY <2>1
  <2>3. CASE k = 0
    <3>1. f[0].l = 1 /\ f[0].h = Len(r) /\ f[0].index = NAME_NOT_FOUND
      BY ONLY <1>3 DEF Started
    <3>2. Searching(r, token, f[0], 0)
      BY ONLY <1>0, <3>1 DEF Searching
    <3> QED BY ONLY <2>2, <2>3, <3>2
  <2>4. CASE k # 0
    <3>1. k - 1 \in 0 .. Len(r) /\ ~(k <= k - 1) /\ k - 1 \in Nat /\ k - 1 < Len(r) /\ (k - 1) + 1 = k
      BY ONLY <1>0, <2>2, <2>4
    <3>2. Searching(r, token, f[k - 1], k - 1) \/ HasFound(r, token, f[k - 1])
      BY <2>1, <3>1
    <3>3. f[k] = Round(r, token, f[k - 1])
      BY ONLY <1>3, <2>2, <2>4
    <3> DEFINE t == f[k - 1]
               i == k - 1
    <3> HIDE DEF t, i
    <3>4. i \in Nat /\ i < Len(r) /\ (Searching(r, token, t, i) \/ HasFound(r, token, t))
      BY <3>1, <3>2 DEF t, i
    <3>5. Searching(r, token, Round(r, token, t), i + 1) \/ HasFound(r, token, Round(r, token, t))
      BY ONLY <3>4, Sorted(r), token \in Nat, RoundKeeps
    <3>6. i + 1 = k /\ Round(r, token, t) = f[k]
      BY ONLY <3>1, <3>3 DEF i, t
    <3> QED BY ONLY <2>2, <3>5, <3>6
  <2> QED BY <2>3, <2>4
<1> DEFINE s == f[Len(r)]
<1>5. Searching(r, token, s, Len(r)) \/ HasFound(r, token, s)
  <2>1. Len(r) \in 0 .. Len(r)
    BY ONLY <1>0
  <2> QED BY <1>4, <2>1
<1> DEFINE at == indexOrderOf(r, token)
<1>6. at.index = s.index /\ at.order = s.l
  BY ONLY <1>1
<1> HIDE DEF s, at
<1>7. ASSUME HasFound(r, token, s) PROVE Found(r, token, at)
  BY ONLY <1>6, <1>7 DEF HasFound, Found
<1>8. ASSUME Searching(r, token, s, Len(r)) PROVE Found(r, token, at)
  <2>1. s.l \in Int /\ s.h \in Int /\ s.l = s.h + 1 /\ 1 <= s.l /\ s.h <= Len(r)
    BY ONLY <1>0, <1>8 DEF Searching
  <2>2. s.l \in 1 .. Len(r) + 1 /\ \A j \in 1 .. Len(r) : j >= s.l => j > s.h
    BY ONLY <1>0, <2>1
  <2>3. Place(r, token, s.l)
    BY ONLY <1>8, <2>2 DEF Searching, Place
  <2> QED BY ONLY <1>6, <1>8, <2>3 DEF Found, Searching
<1>9. Found(r, token, at)
  BY ONLY <1>5, <1>7, <1>8
<1> QED BY ONLY <1>9 DEF at

\* Two runs share no token.
LEMMA Apart ==
  ASSUME NEW r, Sorted(r), NEW i \in 1 .. Len(r), NEW j \in 1 .. Len(r), i # j,
         NEW n \in Nat, Inside(r[i], n)
  PROVE  ~Inside(r[j], n)
<1>0. i \in Int /\ j \in Int
  OBVIOUS
<1>1. /\ r[i].first \in Nat /\ r[i].length \in Nat /\ r[j].first \in Nat /\ r[j].length \in Nat
  BY ONLY Sorted(r), i \in 1 .. Len(r), j \in 1 .. Len(r), RunFacts
<1>2. CASE i < j
  <2>1. r[i].first + r[i].length < r[j].first
    BY ONLY <1>2, Sorted(r), i \in 1 .. Len(r), j \in 1 .. Len(r) DEF Sorted
  <2> QED BY ONLY <1>1, <2>1, n \in Nat, Inside(r[i], n) DEF Inside
<1>3. CASE j < i
  <2>1. r[j].first + r[j].length < r[i].first
    BY ONLY <1>3, Sorted(r), i \in 1 .. Len(r), j \in 1 .. Len(r) DEF Sorted
  <2> QED BY ONLY <1>1, <2>1, n \in Nat, Inside(r[i], n) DEF Inside
<1> QED BY ONLY <1>0, <1>2, <1>3, i # j

\* A token that has its place between the runs is in none of them.
LEMMA PlaceFree ==
  ASSUME NEW r, Sorted(r), NEW token \in Nat, NEW i, Place(r, token, i)
  PROVE  ~Holds(r, token)
<1> SUFFICES ASSUME NEW j \in 1 .. Len(r), Inside(r[j], token) PROVE FALSE
  BY DEF Holds
<1>0. Len(r) \in Nat /\ i \in Int /\ j \in Int
  BY LenProperties DEF Sorted, Place
<1>1. r[j].first \in Nat /\ r[j].length \in Nat
  BY ONLY Sorted(r), RunFacts
<1>2. r[j].first + r[j].length <= token \/ token < r[j].first
  BY ONLY <1>0, Place(r, token, i) DEF Place
<1> QED BY ONLY <1>1, <1>2, token \in Nat, Inside(r[j], token) DEF Inside

\* isTokenValid() answers whether the token is in a run.
LEMMA AcquiredIsHeld ==
  ASSUME NEW r, Sorted(r), NEW token \in Nat
  PROVE  isAcquired(r, token) <=> Holds(r, token)
<1> DEFINE at == indexOrderOf(r, token)
<1>1. Found(r, token, at)
  BY ONLY Sorted(r), token \in Nat, SearchFinds
<1> HIDE DEF at
<1>2. isAcquired(r, token) <=> at.index # NAME_NOT_FOUND
  BY DEF isAcquired, at
<1>3. CASE at.index \in 1 .. Len(r) /\ Inside(r[at.index], token)
  <2>1. at.index # NAME_NOT_FOUND
    BY ONLY <1>3 DEF NAME_NOT_FOUND
  <2> QED BY ONLY <1>2, <1>3, <2>1 DEF Holds
<1>4. CASE at.index = NAME_NOT_FOUND /\ Place(r, token, at.order)
  BY ONLY <1>2, <1>4, Sorted(r), token \in Nat, PlaceFree
<1> QED BY ONLY <1>1, <1>3, <1>4 DEF Found

\* The vector a Tokenizer begins with.
LEMMA EmptySorted == Sorted(<<>>) /\ \A n : ~Holds(<<>>, n)
BY DEF Sorted, Holds

\* The constructor of the manager reserves 0 and nothing else.
LEMMA ReserveZero == Adds(reserve(<<>>, 0), <<>>, 0)
<1> DEFINE at == indexOrderOf(<<>>, 0)
<1>1. Found(<<>>, 0, at)
  BY ONLY EmptySorted, SearchFinds
<1> HIDE DEF at
<1>2. at.index = NAME_NOT_FOUND /\ Place(<<>>, 0, at.order)
  <2>1. Len(<<>>) = 0 /\ 1 .. 0 = {}
    OBVIOUS
  <2> QED BY ONLY <1>1, <2>1 DEF Found
<1>3. Between(<<>>, 0, at.order)
  BY ONLY <1>2, EmptySorted, LimitType DEF Between
<1>4. Adds(insertTokenAt(<<>>, 0, at.order), <<>>, 0)
  BY ONLY <1>3, InsertToken
<1>5. reserve(<<>>, 0) = insertTokenAt(<<>>, 0, at.order)
  BY ONLY <1>2 DEF reserve, at
<1> QED BY ONLY <1>4, <1>5

\* The vector stands for finitely many names, all below the limit.
LEMMA NamesFinite ==
  ASSUME NEW r, Sorted(r)
  PROVE  /\ IsFiniteSet(NamesOf(r)) /\ Cardinality(NamesOf(r)) \in Nat
         /\ NamesOf(r) \subseteq 0 .. NameLimit - 1
<1>1. r \in Seq(RunType)
  BY DEF Sorted
<1>2. NamesOf(r) \subseteq 0 .. NameLimit - 1
  <2> SUFFICES ASSUME NEW n \in NamesOf(r) PROVE n \in 0 .. NameLimit - 1
    OBVIOUS
  <2>1. n \in Nat /\ Holds(r, n)
    BY ONLY <1>1, NamesHeld, n \in NamesOf(r)
  <2>2. PICK i \in 1 .. Len(r) : Inside(r[i], n)
    BY ONLY <2>1 DEF Holds
  <2>3. r[i].first \in Nat /\ r[i].length \in Nat /\ r[i].first + r[i].length <= NameLimit
    BY ONLY Sorted(r), RunFacts
  <2> QED BY ONLY <2>1, <2>2, <2>3, LimitType DEF Inside
<1>3. IsFiniteSet(0 .. NameLimit - 1)
  <2>1. NameLimit - 1 \in Int
    BY ONLY LimitType
  <2> QED BY ONLY <2>1, FS_Interval
<1>4. IsFiniteSet(NamesOf(r))
  BY ONLY <1>2, <1>3, FS_Subset
<1> QED BY ONLY <1>2, <1>4, FS_CardinalityType

\* The names after a token was added.
LEMMA AddsNames ==
  ASSUME NEW r, Sorted(r), NEW q, NEW token \in Nat, Adds(q, r, token), ~Holds(r, token)
  PROVE  /\ NamesOf(q) = NamesOf(r) \union {token} /\ token \notin NamesOf(r)
         /\ Cardinality(NamesOf(q)) = Cardinality(NamesOf(r)) + 1
<1>1. r \in Seq(RunType) /\ q \in Seq(RunType)
  BY DEF Adds, Sorted
<1>2. /\ NamesOf(r) \subseteq Nat /\ \A n \in Nat : n \in NamesOf(r) <=> Holds(r, n)
      /\ NamesOf(q) \subseteq Nat /\ \A n \in Nat : n \in NamesOf(q) <=> Holds(q, n)
  BY ONLY <1>1, NamesHeld
<1>3. \A n \in Nat : Holds(q, n) <=> Holds(r, n) \/ n = token
  BY DEF Adds
<1>4. NamesOf(q) = NamesOf(r) \union {token} /\ token \notin NamesOf(r)
  BY <1>2, <1>3
<1>5. IsFiniteSet(NamesOf(r))
  BY ONLY Sorted(r), NamesFinite
<1> QED BY ONLY <1>4, <1>5, FS_AddElement

\* acquire() takes a free token: the run that starts at 0 ends at one.
LEMMA AcquireAdds ==
  ASSUME NEW r, Sorted(r), Holds(r, 0), Cardinality(NamesOf(r)) < NameLimit
  PROVE  /\ acquire(r).token \in Nat /\ acquire(r).token < NameLimit
         /\ ~Holds(r, acquire(r).token)
         /\ Adds(acquire(r).ranges, r, acquire(r).token)
<1>0. Len(r) \in Nat /\ r \in Seq(RunType)
  BY LenProperties DEF Sorted
<1>1. 1 \in 1 .. Len(r) /\ r[1].first = 0
  <2>1. PICK i \in 1 .. Len(r) : Inside(r[i], 0)
    BY DEF Holds
  <2>2. 1 \in 1 .. Len(r) /\ i \in Nat
    BY ONLY <1>0
  <2>3. r[i].first \in Nat /\ r[1].first \in Nat /\ r[1].length \in Nat
    BY ONLY <2>2, Sorted(r), i \in 1 .. Len(r), RunFacts
  <2>4. r[i].first = 0
    BY ONLY <2>1, <2>3 DEF Inside
  <2>5. CASE i = 1
    BY ONLY <2>2, <2>4, <2>5
  <2>6. CASE 1 < i
    <3>1. r[1].first + r[1].length < r[i].first
      BY ONLY <2>2, <2>6, Sorted(r), i \in 1 .. Len(r) DEF Sorted
    <3> QED BY ONLY <2>3, <2>4, <3>1
  <2> QED BY ONLY <1>0, <2>2, <2>5, <2>6, i \in 1 .. Len(r)
<1>2. /\ r[1].length \in Nat /\ r[1].length > 0 /\ r[1].first + r[1].length <= NameLimit
      /\ RunEnd(r[1]) = r[1].first + r[1].length
  BY ONLY <1>1, Sorted(r), RunFacts
<1> DEFINE token == RunEnd(r[1])
<1>3. token \in Nat /\ token = r[1].length /\ token > 0
  BY ONLY <1>1, <1>2
<1> HIDE DEF token
<1>4. Place(r, token, 2)
  <2>1. 2 \in 1 .. Len(r) + 1
    BY ONLY <1>0, <1>1
  <2>2. ASSUME NEW j \in 1 .. Len(r), j < 2 PROVE r[j].first + r[j].length <= token
    <3>1. j = 1
      BY ONLY <2>2
    <3> QED BY ONLY <1>1, <1>2, <1>3, <3>1
  <2>3. ASSUME NEW j \in 1 .. Len(r), j >= 2 PROVE token < r[j].first
    <3>1. r[1].first + r[1].length < r[j].first
      BY ONLY <1>1, <2>3, Sorted(r) DEF Sorted
    <3> QED BY ONLY <1>1, <1>2, <1>3, <3>1
  <2> QED BY ONLY <2>1, <2>2, <2>3 DEF Place
<1>5. token < NameLimit
  <2>1. 0 .. token - 1 \subseteq NamesOf(r)
    <3> SUFFICES ASSUME NEW n \in 0 .. token - 1 PROVE n \in NamesOf(r)
      OBVIOUS
    <3>1. n \in Nat /\ Inside(r[1], n)
      BY ONLY <1>1, <1>2, <1>3 DEF Inside
    <3> QED BY ONLY <1>0, <1>1, <3>1, NamesHeld DEF Holds
  <2>2. Cardinality(0 .. token - 1) = token
    <3>1. token - 1 \in Int /\ 0 <= token - 1 /\ token - 1 - 0 + 1 = token
      BY ONLY <1>3
    <3>2. Cardinality(0 .. token - 1) = IF 0 > token - 1 THEN 0 ELSE token - 1 - 0 + 1
      BY ONLY <3>1, FS_Interval
    <3> QED BY ONLY <1>3, <3>1, <3>2
  <2>3. IsFiniteSet(NamesOf(r)) /\ Cardinality(NamesOf(r)) \in Nat
    BY ONLY Sorted(r), NamesFinite
  <2>4. Cardinality(0 .. token - 1) <= Cardinality(NamesOf(r))
    BY ONLY <2>1, <2>3, FS_Subset
  <2> QED BY ONLY <1>3, <2>2, <2>3, <2>4, LimitType, Cardinality(NamesOf(r)) < NameLimit
<1>6. Between(r, token, 2)
  BY ONLY <1>3, <1>4, <1>5, Sorted(r) DEF Between
<1>7. Adds(insertTokenAt(r, token, 2), r, token) /\ ~Holds(r, token)
  BY ONLY <1>3, <1>4, <1>6, Sorted(r), InsertToken, PlaceFree
<1>8. acquire(r).ranges = insertTokenAt(r, token, 2) /\ acquire(r).token = token
  <2>1. r # <<>>
    BY ONLY <1>1
  <2>2. acquire(r) = [ranges |-> insertTokenAt(r, token, 2), token |-> token]
    BY ONLY <1>1, <2>1 DEF acquire, token
  <2> DEFINE q == insertTokenAt(r, token, 2)
  <2> HIDE DEF q
  <2>3. acquire(r) = [ranges |-> q, token |-> token]
    BY ONLY <2>2 DEF q
  <2>4. acquire(r).ranges = q /\ acquire(r).token = token
    BY ONLY <2>3
  <2> QED BY ONLY <2>4 DEF q
<1> QED BY ONLY <1>3, <1>5, <1>7, <1>8
-----------------------------------------------------------------------------
\* q holds what r holds, except the token.
Takes(q, r, token) == Sorted(q) /\ \A n \in Nat : Holds(q, n) <=> Holds(r, n) /\ n # token

\* Run i gives way to a run inside it.
LEMMA Shrink ==
  ASSUME NEW r, Sorted(r), NEW i \in 1 .. Len(r), NEW token \in Nat, Inside(r[i], token),
         NEW s \in RunType, s.length > 0, r[i].first <= s.first,
         s.first + s.length <= r[i].first + r[i].length,
         NEW q, Replaced(q, r, i, s)
  PROVE  /\ Sorted(q)
         /\ \A n \in Nat : n # token => (Holds(q, n) <=> \/ Inside(s, n)
                                                         \/ Holds(r, n) /\ ~Inside(r[i], n))
         /\ Holds(q, token) <=> Inside(s, token)
<1>0. s.first \in Nat /\ s.length \in Nat
  BY ONLY s \in RunType DEF RunType
<1>1. /\ r[i].first \in Nat /\ r[i].length \in Nat /\ r[i].length > 0
      /\ r[i].first + r[i].length <= NameLimit
  BY ONLY Sorted(r), i \in 1 .. Len(r), RunFacts
<1>2. ASSUME NEW j \in 1 .. Len(r), j < i PROVE r[j].first + r[j].length < s.first
  <2>1. r[j].first + r[j].length < r[i].first /\ r[j].first \in Nat /\ r[j].length \in Nat
    BY ONLY <1>2, Sorted(r), i \in 1 .. Len(r), RunFacts DEF Sorted
  <2> QED BY ONLY <1>0, <1>1, <2>1, r[i].first <= s.first
<1>3. ASSUME NEW j \in 1 .. Len(r), j > i PROVE s.first + s.length < r[j].first
  <2>1. r[i].first + r[i].length < r[j].first /\ r[j].first \in Nat /\ i < j
    <3>1. i < j
      BY ONLY <1>3, i \in 1 .. Len(r)
    <3> QED BY ONLY <1>3, <3>1, Sorted(r), i \in 1 .. Len(r), RunFacts DEF Sorted
  <2> QED BY ONLY <1>0, <1>1, <2>1, s.first + s.length <= r[i].first + r[i].length
<1>4. s.first + s.length <= NameLimit
  BY ONLY <1>0, <1>1, s.first + s.length <= r[i].first + r[i].length, LimitType
<1>5. Sorted(q)
  BY ONLY <1>2, <1>3, <1>4, Sorted(r), i \in 1 .. Len(r), s \in RunType, s.length > 0,
          Replaced(q, r, i, s), ReplaceSorted
<1>6. \A n : Holds(q, n) <=> Inside(s, n) \/ \E j \in 1 .. Len(r) : j # i /\ Inside(r[j], n)
  BY ONLY i \in 1 .. Len(r), Replaced(q, r, i, s), ReplaceHolds
<1>7. ASSUME NEW n \in Nat
      PROVE  (\E j \in 1 .. Len(r) : j # i /\ Inside(r[j], n)) <=> Holds(r, n) /\ ~Inside(r[i], n)
  <2>1. \A j \in 1 .. Len(r) : j # i /\ Inside(r[j], n) => ~Inside(r[i], n)
    BY ONLY Sorted(r), i \in 1 .. Len(r), n \in Nat, Apart
  <2> QED BY ONLY <2>1, i \in 1 .. Len(r) DEF Holds
<1> QED BY ONLY <1>5, <1>6, <1>7, token \in Nat, Inside(r[i], token)

\* The release of a token that has a run for itself.
LEMMA ReleaseOnly ==
  ASSUME NEW r, Sorted(r), NEW i \in 1 .. Len(r), NEW token \in Nat, Inside(r[i], token),
         r[i].length = 1
  PROVE  Takes(RemoveAt(r, i), r, token)
<1> DEFINE q == RemoveAt(r, i)
<1>1. Sorted(q) /\ \A n : Holds(q, n) <=> \E j \in 1 .. Len(r) : j # i /\ Inside(r[j], n)
  BY ONLY Sorted(r), i \in 1 .. Len(r), RemoveSorted
<1> HIDE DEF q
<1>2. r[i].first \in Nat
  BY ONLY Sorted(r), i \in 1 .. Len(r), RunFacts
<1>3. ASSUME NEW n \in Nat
      PROVE  (\E j \in 1 .. Len(r) : j # i /\ Inside(r[j], n)) <=> Holds(r, n) /\ n # token
  <2>1. Inside(r[i], n) <=> n = token
    BY ONLY <1>2, n \in Nat, token \in Nat, Inside(r[i], token), r[i].length = 1 DEF Inside
  <2>2. \A j \in 1 .. Len(r) : j # i /\ Inside(r[j], n) => ~Inside(r[i], n)
    BY ONLY Sorted(r), i \in 1 .. Len(r), n \in Nat, Apart
  <2> QED BY ONLY <2>1, <2>2, i \in 1 .. Len(r) DEF Holds
<1>4. Takes(q, r, token)
  BY ONLY <1>1, <1>3 DEF Takes
<1> QED BY ONLY <1>4 DEF q

\* The release of a token at an end of its run.
ShrinkAt(r, i, a) == [r EXCEPT ![i] = Run(a, r[i].length - 1)]

LEMMA ReleaseEnd ==
  ASSUME NEW r, Sorted(r), NEW i \in 1 .. Len(r), NEW token \in Nat, Inside(r[i], token),
         r[i].length # 1, NEW a \in Nat,
         \/ token = r[i].first /\ a = token + 1
         \/ token = r[i].first + r[i].length - 1 /\ a = r[i].first
  PROVE  Takes(ShrinkAt(r, i, a), r, token)
<1>1. r[i].first \in Nat /\ r[i].length \in Nat /\ r[i].length > 0 /\ r \in Seq(RunType)
  BY ONLY Sorted(r), i \in 1 .. Len(r), RunFacts DEF Sorted
<1>2. r[i].length - 1 \in Nat /\ r[i].length - 1 > 0
  BY ONLY <1>1, r[i].length # 1
<1> DEFINE s == Run(a, r[i].length - 1)
           q == [r EXCEPT ![i] = s]
<1>3. s \in RunType /\ s.first = a /\ s.length = r[i].length - 1
  BY ONLY <1>2, a \in Nat, RunIs
<1> HIDE DEF s
<1>4. Replaced(q, r, i, s)
  BY ONLY <1>1, <1>3, i \in 1 .. Len(r), ExceptReplaces
<1> HIDE DEF q
<1>5. /\ s.length > 0 /\ r[i].first <= s.first
      /\ s.first + s.length <= r[i].first + r[i].length
  <2>1. CASE token = r[i].first /\ a = token + 1
    BY ONLY <1>1, <1>2, <1>3, <2>1
  <2>2. CASE a = r[i].first
    BY ONLY <1>1, <1>2, <1>3, <2>2
  <2> QED BY <2>1, <2>2
<1>6. /\ Sorted(q)
      /\ \A n \in Nat : n # token => (Holds(q, n) <=> \/ Inside(s, n)
                                                      \/ Holds(r, n) /\ ~Inside(r[i], n))
      /\ Holds(q, token) <=> Inside(s, token)
  BY ONLY <1>3, <1>4, <1>5, Sorted(r), i \in 1 .. Len(r), token \in Nat, Inside(r[i], token), Shrink
<1>7. ASSUME NEW n \in Nat PROVE Inside(s, n) <=> Inside(r[i], n) /\ n # token
  <2>1. CASE token = r[i].first /\ a = token + 1
    BY ONLY <1>1, <1>3, <2>1, n \in Nat DEF Inside
  <2>2. CASE token = r[i].first + r[i].length - 1 /\ a = r[i].first
    BY ONLY <1>1, <1>3, <2>2, n \in Nat DEF Inside
  <2> QED BY <2>1, <2>2
<1>8. ASSUME NEW n \in Nat PROVE Holds(q, n) <=> Holds(r, n) /\ n # token
  <2>1. Inside(r[i], n) => Holds(r, n)
    BY ONLY i \in 1 .. Len(r) DEF Holds
  <2> QED BY ONLY <1>6, <1>7, <2>1, n \in Nat
<1>9. Takes(q, r, token)
  BY ONLY <1>6, <1>8 DEF Takes
<1> QED BY ONLY <1>9 DEF q, s, ShrinkAt

\* The release of a token strictly inside its run, which is split.
SplitAt(r, i, token) ==
  InsertAt([r EXCEPT ![i] = Run(r[i].first, token - r[i].first)], i + 1,
           Run(token + 1, Wrap(RunEnd(r[i]) - (token + 1))))

LEMMA ReleaseMiddle ==
  ASSUME NEW r, Sorted(r), NEW i \in 1 .. Len(r), NEW token \in Nat, Inside(r[i], token),
         token # r[i].first, token # r[i].first + r[i].length - 1
  PROVE  Takes(SplitAt(r, i, token), r, token)
<1>0. Len(r) \in Nat /\ r \in Seq(RunType)
  BY LenProperties DEF Sorted
<1>1. /\ r[i].first \in Nat /\ r[i].length \in Nat /\ r[i].length > 0
      /\ r[i].first + r[i].length <= NameLimit
      /\ RunEnd(r[i]) = r[i].first + r[i].length
  BY ONLY Sorted(r), i \in 1 .. Len(r), RunFacts
<1> DEFINE a == token - r[i].first
           b == RunEnd(r[i]) - (token + 1)
           s == Run(r[i].first, a)
           u == Run(token + 1, Wrap(b))
           v == [r EXCEPT ![i] = s]
           q == InsertAt(v, i + 1, u)
<1>2. /\ a \in Nat /\ a > 0 /\ r[i].first + a = token
      /\ b \in Nat /\ b > 0 /\ token + 1 + b = r[i].first + r[i].length /\ b < NameLimit
  <2> DEFINE x == r[i].first
             y == r[i].length
             z == RunEnd(r[i])
  <2>1. x \in Nat /\ y \in Nat /\ x + y <= NameLimit /\ z = x + y /\ x <= token /\ token < x + y
        /\ token # x /\ token # x + y - 1
    BY <1>1 DEF Inside
  <2> HIDE DEF x, y, z
  <2>2. /\ token - x \in Nat /\ token - x > 0 /\ x + (token - x) = token
        /\ z - (token + 1) \in Nat /\ z - (token + 1) > 0 /\ token + 1 + (z - (token + 1)) = x + y
        /\ z - (token + 1) < NameLimit
    BY ONLY <2>1, token \in Nat, LimitType
  <2> QED BY ONLY <2>2 DEF x, y, z
<1> HIDE DEF a, b
<1>3. s \in RunType /\ s.first = r[i].first /\ s.length = a
  BY ONLY <1>1, <1>2, RunIs
<1>4. u \in RunType /\ u.first = token + 1 /\ u.length = b
  <2>1. Wrap(b) = b
    <3>1. b < TokenCount
      BY ONLY <1>2, LimitType
    <3> QED BY ONLY <1>2, <3>1, NoWrap
  <2>2. token + 1 \in Nat
    BY ONLY token \in Nat
  <2> QED BY ONLY <1>2, <2>1, <2>2, RunIs
<1> HIDE DEF s, u
<1>5. Replaced(v, r, i, s)
  BY ONLY <1>0, <1>3, i \in 1 .. Len(r), ExceptReplaces
<1> HIDE DEF v
<1>6. /\ s.length > 0 /\ r[i].first <= s.first
      /\ s.first + s.length <= r[i].first + r[i].length
  BY ONLY <1>1, <1>2, <1>3, token \in Nat
<1>7. /\ Sorted(v)
      /\ \A n \in Nat : n # token => (Holds(v, n) <=> \/ Inside(s, n)
                                                      \/ Holds(r, n) /\ ~Inside(r[i], n))
      /\ Holds(v, token) <=> Inside(s, token)
  BY ONLY <1>3, <1>5, <1>6, Sorted(r), i \in 1 .. Len(r), token \in Nat, Inside(r[i], token), Shrink
<1>8. Len(v) = Len(r) /\ v[i] = s /\ \A j \in 1 .. Len(r) : j # i => v[j] = r[j]
  BY ONLY <1>5 DEF Replaced
<1>9. i + 1 \in 1 .. Len(v) + 1
  BY ONLY <1>0, <1>8, i \in 1 .. Len(r)
<1>10. ASSUME NEW j \in 1 .. Len(v), j < i + 1 PROVE v[j].first + v[j].length < u.first
  <2>1. j \in 1 .. Len(r) /\ (j = i \/ j < i)
    BY ONLY <1>8, <1>10, i \in 1 .. Len(r)
  <2>2. CASE j = i
    BY ONLY <1>2, <1>3, <1>4, <1>8, <2>2, token \in Nat
  <2>3. CASE j < i
    <3>1. r[j].first + r[j].length < r[i].first /\ r[j].first \in Nat /\ r[j].length \in Nat
      BY ONLY <2>1, <2>3, Sorted(r), i \in 1 .. Len(r), RunFacts DEF Sorted
    <3>2. v[j] = r[j]
      BY ONLY <1>8, <2>1, <2>3, i \in 1 .. Len(r)
    <3>3. r[i].first <= token
      BY ONLY <1>1, Inside(r[i], token) DEF Inside
    <3>4. r[j].first + r[j].length < token + 1
      <4> DEFINE e == r[j].first + r[j].length
      <4>1. e \in Nat /\ e < r[i].first
        BY ONLY <3>1
      <4> HIDE DEF e
      <4>2. e < token + 1
        BY ONLY <1>1, <3>3, <4>1, token \in Nat
      <4> QED BY ONLY <4>2 DEF e
    <3> QED BY ONLY <1>4, <3>2, <3>4
  <2> QED BY ONLY <2>1, <2>2, <2>3
<1>11. ASSUME NEW j \in 1 .. Len(v), j >= i + 1 PROVE u.first + u.length < v[j].first
  <2>1. j \in 1 .. Len(r) /\ i < j /\ j # i
    BY ONLY <1>8, <1>11, i \in 1 .. Len(r)
  <2>2. r[i].first + r[i].length < r[j].first /\ v[j] = r[j]
    BY ONLY <1>8, <2>1, Sorted(r), i \in 1 .. Len(r) DEF Sorted
  <2> QED BY ONLY <1>2, <1>4, <2>2
<1>12. u.length > 0 /\ u.first + u.length <= NameLimit
  BY ONLY <1>1, <1>2, <1>4
<1>13. Sorted(q) /\ \A n : Holds(q, n) <=> Holds(v, n) \/ Inside(u, n)
  <2> DEFINE p == i + 1
  <2> HIDE DEF p
  <2>1. /\ p \in 1 .. Len(v) + 1
        /\ \A j \in 1 .. Len(v) : j < p => v[j].first + v[j].length < u.first
        /\ \A j \in 1 .. Len(v) : j >= p => u.first + u.length < v[j].first
    BY ONLY <1>9, <1>10, <1>11 DEF p
  <2>2. Sorted(InsertAt(v, p, u)) /\ \A n : Holds(InsertAt(v, p, u), n) <=> Holds(v, n) \/ Inside(u, n)
    BY ONLY <1>4, <1>7, <1>12, <2>1, InsertSorted
  <2> QED BY ONLY <2>2 DEF p
<1> HIDE DEF q
<1>14. ASSUME NEW n \in Nat PROVE Inside(s, n) \/ Inside(u, n) <=> Inside(r[i], n) /\ n # token
  BY ONLY <1>1, <1>2, <1>3, <1>4, n \in Nat, token \in Nat DEF Inside
<1>15. ASSUME NEW n \in Nat PROVE Holds(q, n) <=> Holds(r, n) /\ n # token
  <2>1. Inside(r[i], n) => Holds(r, n)
    BY ONLY i \in 1 .. Len(r) DEF Holds
  <2> QED BY ONLY <1>7, <1>13, <1>14, <2>1, n \in Nat
<1>16. Takes(q, r, token)
  BY ONLY <1>13, <1>15 DEF Takes
<1> QED BY ONLY <1>16 DEF q, v, s, u, a, b, SplitAt

\* release() takes the token out of the runs and nothing else.
LEMMA ReleaseTakes ==
  ASSUME NEW r, Sorted(r), NEW token \in Nat
  PROVE  Takes(release(r, token), r, token)
<1> DEFINE at == indexOrderOf(r, token)
           i  == at.index
           last == Wrap(r[i].first + r[i].length - 1)
<1>1. Found(r, token, at)
  BY ONLY Sorted(r), token \in Nat, SearchFinds
<1>2. release(r, token)
        = CASE i = NAME_NOT_FOUND -> r
            [] i # NAME_NOT_FOUND /\ token \in {r[i].first, last} ->
                 IF r[i].length = 1 THEN RemoveAt(r, i)
                 ELSE ShrinkAt(r, i, IF token = r[i].first THEN Wrap(token + 1) ELSE r[i].first)
            [] OTHER -> SplitAt(r, i, token)
  BY DEF release, ShrinkAt, SplitAt
<1> HIDE DEF at
<1>3. CASE i = NAME_NOT_FOUND /\ Place(r, token, at.order)
  <2>1. release(r, token) = r
    BY ONLY <1>2, <1>3
  <2>2. ~Holds(r, token)
    BY ONLY <1>3, Sorted(r), token \in Nat, PlaceFree
  <2> QED BY ONLY <2>1, <2>2, Sorted(r) DEF Takes
<1>4. CASE i \in 1 .. Len(r) /\ Inside(r[i], token)
  <2>1. i # NAME_NOT_FOUND
    BY ONLY <1>4 DEF NAME_NOT_FOUND
  <2>2. /\ r[i].first \in Nat /\ r[i].length \in Nat /\ r[i].length > 0
        /\ r[i].first + r[i].length <= NameLimit
    BY ONLY <1>4, Sorted(r), RunFacts
  <2>3. last = r[i].first + r[i].length - 1
    <3> DEFINE x == r[i].first + r[i].length - 1
    <3>1. x \in Nat /\ x < TokenCount
      BY ONLY <2>2, LimitType
    <3> HIDE DEF x
    <3>2. Wrap(x) = x
      BY ONLY <3>1, NoWrap
    <3> QED BY ONLY <3>2 DEF x
  <2>4. Wrap(token + 1) = token + 1
    <3>1. token < NameLimit
      BY ONLY <1>4, <2>2, token \in Nat, LimitType DEF Inside
    <3> QED BY ONLY <3>1, token \in Nat, NextToken
  <2> HIDE DEF last, i
  <2>5. CASE token \in {r[i].first, last} /\ r[i].length = 1
    <3>1. release(r, token) = RemoveAt(r, i)
      BY ONLY <1>2, <2>1, <2>5
    <3>2. Takes(RemoveAt(r, i), r, token)
      BY ONLY <1>4, <2>5, Sorted(r), token \in Nat, ReleaseOnly
    <3> QED BY ONLY <3>1, <3>2
  <2>6. CASE token \in {r[i].first, last} /\ r[i].length # 1
    <3> DEFINE a == IF token = r[i].first THEN Wrap(token + 1) ELSE r[i].first
    <3>1. release(r, token) = ShrinkAt(r, i, a)
      BY ONLY <1>2, <2>1, <2>6
    <3>2. /\ a \in Nat
          /\ \/ token = r[i].first /\ a = token + 1
             \/ token = r[i].first + r[i].length - 1 /\ a = r[i].first
      BY ONLY <2>2, <2>3, <2>4, <2>6, token \in Nat
    <3> HIDE DEF a
    <3>3. Takes(ShrinkAt(r, i, a), r, token)
      BY ONLY <1>4, <2>6, <3>2, Sorted(r), token \in Nat, ReleaseEnd
    <3> QED BY ONLY <3>1, <3>3
  <2>7. CASE token \notin {r[i].first, last}
    <3>1. release(r, token) = SplitAt(r, i, token)
      BY ONLY <1>2, <2>1, <2>7
    <3>2. token # r[i].first /\ token # r[i].first + r[i].length - 1
      BY ONLY <2>3, <2>7
    <3>3. Takes(SplitAt(r, i, token), r, token)
      BY ONLY <1>4, <3>2, Sorted(r), token \in Nat, ReleaseMiddle
    <3> QED BY ONLY <3>1, <3>3
  <2> QED BY <2>5, <2>6, <2>7
<1> QED BY ONLY <1>1, <1>3, <1>4 DEF Found

\* The names stored in an array.
Listed(ts) == {ts[j] : j \in 1 .. Len(ts)}

\* One turn of the loop of getToken, and what the loop has after each turn.
AcquireOne(x) ==
  LET a == acquire(x.ranges)
  IN  [ranges |-> a.ranges, tokens |-> Append(x.tokens, a.token)]

NoneYet(r) == [ranges |-> r, tokens |-> <<>>]

Acquires(f, r, n) == [k \in 0 .. n |-> IF k = 0 THEN NoneYet(r) ELSE AcquireOne(f[k - 1])]

\* The recursion of acquireMany has a solution.
LEMMA AcquiresExist ==
  ASSUME NEW r, NEW n \in Nat
  PROVE  \E f : f = Acquires(f, r, n)
<1> DEFINE Off == {m \in Nat : ~\E f : f = Acquires(f, r, m)}
<1>1. ASSUME Off # {} PROVE FALSE
  <2>1. PICK m \in Off : \A j \in Off : m <= j
    <3>1. Off \subseteq Nat
      OBVIOUS
    <3> HIDE DEF Off
    <3> QED BY <1>1, <3>1, NatMin
  <2>2. m \in Nat /\ ~\E f : f = Acquires(f, r, m)
    BY <2>1
  <2>3. CASE m = 0
    <3> DEFINE g == [k \in 0 .. 0 |-> NoneYet(r)]
    <3>1. g = Acquires(g, r, 0)
      BY DEF Acquires
    <3> QED BY ONLY <2>2, <2>3, <3>1
  <2>4. CASE m # 0
    <3>1. m - 1 \in Nat /\ ~(m <= m - 1)
      BY ONLY <2>2, <2>4
    <3>2. PICK f : f = Acquires(f, r, m - 1)
      BY <2>1, <3>1
    <3> DEFINE g == [k \in 0 .. m |-> IF k = m THEN AcquireOne(f[m - 1]) ELSE f[k]]
    <3>3. ASSUME NEW k \in 0 .. m
          PROVE  g[k] = IF k = 0 THEN NoneYet(r) ELSE AcquireOne(g[k - 1])
      <4>1. CASE k = m
        <5>1. m - 1 \in 0 .. m /\ m - 1 # m
          BY ONLY <2>2, <3>1
        <5>2. g[m - 1] = f[m - 1]
          BY ONLY <5>1
        <5> QED BY ONLY <2>4, <3>3, <4>1, <5>2
      <4>2. CASE k # m
        <5>1. k \in 0 .. m - 1 /\ (k # 0 => k - 1 \in 0 .. m /\ k - 1 # m)
          BY ONLY <2>2, <3>3, <4>2
        <5>2. f[k] = IF k = 0 THEN NoneYet(r) ELSE AcquireOne(f[k - 1])
          BY ONLY <3>2, <5>1 DEF Acquires
        <5>3. g[k] = f[k] /\ (k # 0 => g[k - 1] = f[k - 1])
          BY ONLY <3>3, <4>2, <5>1
        <5> QED BY ONLY <5>2, <5>3
      <4> QED BY <4>1, <4>2
    <3>4. g = [k \in 0 .. m |-> g[k]]
      OBVIOUS
    <3> HIDE DEF g
    <3>5. g = Acquires(g, r, m)
      BY ONLY <3>3, <3>4 DEF Acquires
    <3> QED BY ONLY <2>2, <3>5
  <2> QED BY <2>3, <2>4
<1> QED BY <1>1

\* After k turns: k different names that were free, and they are in use now.
Handed(r, x, k) ==
  /\ Sorted(x.ranges) /\ Holds(x.ranges, 0)
  /\ x.tokens \in Seq(Tokens) /\ Len(x.tokens) = k
  /\ NamesOf(x.ranges) = NamesOf(r) \union Listed(x.tokens)
  /\ Cardinality(NamesOf(x.ranges)) = Cardinality(NamesOf(r)) + k
  /\ \A i, j \in 1 .. k : i # j => x.tokens[i] # x.tokens[j]
  /\ Listed(x.tokens) \intersect NamesOf(r) = {}

\* The names of an array to which one was stored.
LEMMA AppendListed ==
  ASSUME NEW S, NEW ts \in Seq(S), NEW t \in S
  PROVE  Listed(Append(ts, t)) = Listed(ts) \union {t}
<1>0. Len(ts) \in Nat
  BY LenProperties
<1> DEFINE us == Append(ts, t)
<1>1. /\ Len(us) = Len(ts) + 1 /\ \A i \in 1 .. Len(ts) : us[i] = ts[i]
      /\ us[Len(ts) + 1] = t
  BY AppendProperties
<1> HIDE DEF us
<1>2. 1 .. Len(us) = (1 .. Len(ts)) \union {Len(ts) + 1}
  BY ONLY <1>0, <1>1
<1>3. Listed(us) = Listed(ts) \union {t}
  BY ONLY <1>1, <1>2 DEF Listed
<1> QED BY ONLY <1>3 DEF us

\* A turn of the loop hands out one more.
LEMMA AcquireOneKeeps ==
  ASSUME NEW r, Sorted(r), NEW x, NEW k \in Nat, Handed(r, x, k),
         Cardinality(NamesOf(r)) + k < NameLimit
  PROVE  Handed(r, AcquireOne(x), k + 1)
<1> DEFINE a == acquire(x.ranges)
           y == AcquireOne(x)
           t == a.token
<1>1. /\ Sorted(x.ranges) /\ Holds(x.ranges, 0) /\ Cardinality(NamesOf(x.ranges)) < NameLimit
      /\ x.tokens \in Seq(Tokens) /\ Len(x.tokens) = k
  BY DEF Handed
<1>2. /\ t \in Nat /\ t < NameLimit /\ ~Holds(x.ranges, t) /\ Adds(a.ranges, x.ranges, t)
  BY ONLY <1>1, AcquireAdds
<1>3. y.ranges = a.ranges /\ y.tokens = Append(x.tokens, t)
  BY DEF AcquireOne
<1> HIDE DEF a, y, t
<1>4. t \in Tokens
  BY ONLY <1>2, LimitType DEF Tokens
<1>5. /\ NamesOf(y.ranges) = NamesOf(x.ranges) \union {t} /\ t \notin NamesOf(x.ranges)
      /\ Cardinality(NamesOf(y.ranges)) = Cardinality(NamesOf(x.ranges)) + 1
  BY ONLY <1>1, <1>2, <1>3, AddsNames
<1>6. Sorted(y.ranges) /\ Holds(y.ranges, 0)
  BY ONLY <1>1, <1>2, <1>3 DEF Adds
<1>7. Listed(y.tokens) = Listed(x.tokens) \union {t}
  BY ONLY <1>1, <1>3, <1>4, AppendListed
<1>8. /\ y.tokens \in Seq(Tokens) /\ Len(y.tokens) = k + 1
      /\ \A j \in 1 .. k : y.tokens[j] = x.tokens[j]
      /\ y.tokens[k + 1] = t
  BY ONLY <1>1, <1>3, <1>4, AppendProperties
<1>9. /\ NamesOf(x.ranges) = NamesOf(r) \union Listed(x.tokens)
      /\ Cardinality(NamesOf(x.ranges)) = Cardinality(NamesOf(r)) + k
      /\ \A i, j \in 1 .. k : i # j => x.tokens[i] # x.tokens[j]
      /\ Listed(x.tokens) \intersect NamesOf(r) = {}
  BY DEF Handed
<1>10. NamesOf(y.ranges) = NamesOf(r) \union Listed(y.tokens)
  BY ONLY <1>5, <1>7, <1>9
<1>11. Cardinality(NamesOf(y.ranges)) = Cardinality(NamesOf(r)) + (k + 1)
  <2>1. Cardinality(NamesOf(r)) \in Nat
    BY ONLY Sorted(r), NamesFinite
  <2> QED BY ONLY <1>5, <1>9, <2>1, k \in Nat
<1>12. \A j \in 1 .. k : x.tokens[j] # t
  BY ONLY <1>1, <1>5, <1>9 DEF Listed
<1>13. ASSUME NEW i \in 1 .. k + 1, NEW j \in 1 .. k + 1, i # j
       PROVE  y.tokens[i] # y.tokens[j]
  <2>1. (i \in 1 .. k \/ i = k + 1) /\ (j \in 1 .. k \/ j = k + 1)
    BY ONLY <1>13, k \in Nat
  <2> QED BY ONLY <1>8, <1>9, <1>12, <1>13, <2>1
<1>14. Listed(y.tokens) \intersect NamesOf(r) = {}
  BY ONLY <1>5, <1>7, <1>9
<1>15. Handed(r, y, k + 1)
  BY ONLY <1>6, <1>8, <1>10, <1>11, <1>13, <1>14 DEF Handed
<1> QED BY ONLY <1>15 DEF y

\* So the loop of getToken hands out n.
LEMMA AcquireManyHands ==
  ASSUME NEW r, Sorted(r), Holds(r, 0), NEW n \in Nat, Cardinality(NamesOf(r)) + n <= NameLimit
  PROVE  Handed(r, acquireMany(r, n), n)
<1> DEFINE f == CHOOSE g : g = Acquires(g, r, n)
<1>1. acquireMany(r, n) = f[n]
  BY DEF acquireMany, Acquires, NoneYet, AcquireOne
<1>2. f = Acquires(f, r, n)
  BY ONLY AcquiresExist, n \in Nat
<1> HIDE DEF f
<1>3. f[0] = NoneYet(r) /\ \A k \in 0 .. n : k # 0 => f[k] = AcquireOne(f[k - 1])
  BY ONLY <1>2, n \in Nat DEF Acquires
<1>c. Cardinality(NamesOf(r)) \in Nat
  BY ONLY Sorted(r), NamesFinite
<1> DEFINE Off == {k \in 0 .. n : ~Handed(r, f[k], k)}
<1>4. ASSUME Off # {} PROVE FALSE
  <2>1. PICK k \in Off : \A j \in Off : k <= j
    <3>1. Off \subseteq Nat
      BY ONLY n \in Nat
    <3> HIDE DEF Off
    <3> QED BY <1>4, <3>1, NatMin
  <2>2. k \in 0 .. n /\ ~Handed(r, f[k], k)
    BY <2>1
  <2>3. CASE k = 0
    <3> DEFINE x == f[0]
    <3>1. x.ranges = r /\ x.tokens = <<>>
      BY ONLY <1>3 DEF NoneYet
    <3> HIDE DEF x
    <3>2. x.tokens \in Seq(Tokens) /\ Len(x.tokens) = 0 /\ Listed(x.tokens) = {}
      BY ONLY <3>1 DEF Listed
    <3>3. Handed(r, x, 0)
      BY ONLY <1>c, <3>1, <3>2, Sorted(r), Holds(r, 0) DEF Handed
    <3> QED BY ONLY <2>2, <2>3, <3>3 DEF x
  <2>4. CASE k # 0
    <3> DEFINE i == k - 1
               x == f[i]
    <3>1. i \in 0 .. n /\ ~(k <= i) /\ i \in Nat /\ i < n /\ i + 1 = k
      BY ONLY <2>2, <2>4, n \in Nat
    <3>2. Handed(r, x, i)
      BY <2>1, <3>1
    <3>3. f[k] = AcquireOne(x)
      BY ONLY <1>3, <2>2, <2>4
    <3> HIDE DEF x, i
    <3>4. Cardinality(NamesOf(r)) + i < NameLimit
      BY ONLY <1>c, <3>1, n \in Nat, Cardinality(NamesOf(r)) + n <= NameLimit, LimitType
    <3>5. Handed(r, AcquireOne(x), i + 1)
      BY ONLY <3>1, <3>2, <3>4, Sorted(r), AcquireOneKeeps
    <3> QED BY ONLY <2>2, <3>1, <3>3, <3>5
  <2> QED BY <2>3, <2>4
<1>5. Handed(r, f[n], n)
  <2>1. n \in 0 .. n
    BY ONLY n \in Nat
  <2> QED BY <1>4, <2>1
<1> QED BY ONLY <1>1, <1>5
-----------------------------------------------------------------------------
\* One turn of the loop of recycleTokens, and what the loop has after each turn.
ReleaseOne(x, t) == IF t # 0 THEN release(x, t) ELSE x

Releases(f, r, ts, n) == [k \in 0 .. n |-> IF k = 0 THEN r ELSE ReleaseOne(f[k - 1], ts[k])]

\* The recursion of releaseMany has a solution.
LEMMA ReleasesExist ==
  ASSUME NEW r, NEW ts, NEW n \in Nat
  PROVE  \E f : f = Releases(f, r, ts, n)
<1> DEFINE Off == {m \in Nat : ~\E f : f = Releases(f, r, ts, m)}
<1>1. ASSUME Off # {} PROVE FALSE
  <2>1. PICK m \in Off : \A j \in Off : m <= j
    <3>1. Off \subseteq Nat
      OBVIOUS
    <3> HIDE DEF Off
    <3> QED BY <1>1, <3>1, NatMin
  <2>2. m \in Nat /\ ~\E f : f = Releases(f, r, ts, m)
    BY <2>1
  <2>3. CASE m = 0
    <3> DEFINE g == [k \in 0 .. 0 |-> r]
    <3>1. g = Releases(g, r, ts, 0)
      BY DEF Releases
    <3> QED BY ONLY <2>2, <2>3, <3>1
  <2>4. CASE m # 0
    <3>1. m - 1 \in Nat /\ ~(m <= m - 1)
      BY ONLY <2>2, <2>4
    <3>2. PICK f : f = Releases(f, r, ts, m - 1)
      BY <2>1, <3>1
    <3> DEFINE g == [k \in 0 .. m |-> IF k = m THEN ReleaseOne(f[m - 1], ts[m]) ELSE f[k]]
    <3>3. ASSUME NEW k \in 0 .. m
          PROVE  g[k] = IF k = 0 THEN r ELSE ReleaseOne(g[k - 1], ts[k])
      <4>1. CASE k = m
        <5>1. m - 1 \in 0 .. m /\ m - 1 # m
          BY ONLY <2>2, <3>1
        <5>2. g[m - 1] = f[m - 1]
          BY ONLY <5>1
        <5> QED BY ONLY <2>4, <3>3, <4>1, <5>2
      <4>2. CASE k # m
        <5>1. k \in 0 .. m - 1 /\ (k # 0 => k - 1 \in 0 .. m /\ k - 1 # m)
          BY ONLY <2>2, <3>3, <4>2
        <5>2. f[k] = IF k = 0 THEN r ELSE ReleaseOne(f[k - 1], ts[k])
          BY ONLY <3>2, <5>1 DEF Releases
        <5>3. g[k] = f[k] /\ (k # 0 => g[k - 1] = f[k - 1])
          BY ONLY <3>3, <4>2, <5>1
        <5> QED BY ONLY <5>2, <5>3
      <4> QED BY <4>1, <4>2
    <3>4. g = [k \in 0 .. m |-> g[k]]
      OBVIOUS
    <3> HIDE DEF g
    <3>5. g = Releases(g, r, ts, m)
      BY ONLY <3>3, <3>4 DEF Releases
    <3> QED BY ONLY <2>2, <3>5
  <2> QED BY <2>3, <2>4
<1> QED BY <1>1

\* After k turns the first k tokens are free, except 0.
Freed(r, ts, x, k) ==
  /\ Sorted(x) /\ Holds(x, 0)
  /\ \A n \in Nat : Holds(x, n) <=> Holds(r, n) /\ (n = 0 \/ \A j \in 1 .. k : ts[j] # n)

\* A turn of the loop frees one more.
LEMMA ReleaseOneKeeps ==
  ASSUME NEW r, NEW ts, NEW x, NEW k \in Nat, Freed(r, ts, x, k), ts[k + 1] \in Nat
  PROVE  Freed(r, ts, ReleaseOne(x, ts[k + 1]), k + 1)
<1> DEFINE t == ts[k + 1]
           y == ReleaseOne(x, t)
<1>0. t \in Nat /\ t = ts[k + 1]
  OBVIOUS
<1>1. /\ Sorted(x) /\ Holds(x, 0)
      /\ \A n \in Nat : Holds(x, n) <=> Holds(r, n) /\ (n = 0 \/ \A j \in 1 .. k : ts[j] # n)
  BY DEF Freed
<1> HIDE DEF t
<1>2. Sorted(y) /\ Holds(y, 0) /\ \A n \in Nat : Holds(y, n) <=> Holds(x, n) /\ (n = 0 \/ n # t)
  <2>1. CASE t = 0
    <3>1. y = x
      BY ONLY <2>1 DEF ReleaseOne
    <3> QED BY ONLY <1>1, <2>1, <3>1
  <2>2. CASE t # 0
    <3>1. y = release(x, t)
      BY ONLY <2>2 DEF ReleaseOne
    <3>2. Takes(release(x, t), x, t)
      BY ONLY <1>0, <1>1, ReleaseTakes
    <3> HIDE DEF y
    <3>3. Sorted(y) /\ \A n \in Nat : Holds(y, n) <=> Holds(x, n) /\ n # t
      BY ONLY <3>1, <3>2 DEF Takes
    <3> QED BY ONLY <1>1, <2>2, <3>3
  <2> QED BY <2>1, <2>2
<1> HIDE DEF y
<1>3. ASSUME NEW n PROVE (\A j \in 1 .. k + 1 : ts[j] # n) <=> (\A j \in 1 .. k : ts[j] # n) /\ n # t
  <2>1. 1 .. k + 1 = (1 .. k) \union {k + 1}
    BY ONLY k \in Nat
  <2> QED BY ONLY <1>0, <2>1
<1>4. Freed(r, ts, y, k + 1)
  BY ONLY <1>1, <1>2, <1>3 DEF Freed
<1> QED BY ONLY <1>4 DEF y, t

\* So the loop of recycleTokens frees them all.
LEMMA ReleaseManyFrees ==
  ASSUME NEW r, Sorted(r), Holds(r, 0), NEW ts \in Seq(Tokens)
  PROVE  Freed(r, ts, releaseMany(r, ts), Len(ts))
<1> DEFINE n == Len(ts)
           f == CHOOSE g : g = Releases(g, r, ts, n)
<1>0. n \in Nat /\ \A k \in 1 .. n : ts[k] \in Nat
  <2>1. Tokens \subseteq Nat
    BY TokenAssumption DEF Tokens
  <2> QED BY <2>1, LenProperties, ElementOfSeq
<1>1. releaseMany(r, ts) = f[n]
  BY DEF releaseMany, Releases, ReleaseOne
<1>2. f = Releases(f, r, ts, n)
  BY ONLY <1>0, ReleasesExist
<1> HIDE DEF f, n
<1>3. f[0] = r /\ \A k \in 0 .. n : k # 0 => f[k] = ReleaseOne(f[k - 1], ts[k])
  BY ONLY <1>0, <1>2 DEF Releases
<1> DEFINE Off == {k \in 0 .. n : ~Freed(r, ts, f[k], k)}
<1>4. ASSUME Off # {} PROVE FALSE
  <2>1. PICK k \in Off : \A j \in Off : k <= j
    <3>1. Off \subseteq Nat
      BY ONLY <1>0
    <3> HIDE DEF Off
    <3> QED BY <1>4, <3>1, NatMin
  <2>2. k \in 0 .. n /\ ~Freed(r, ts, f[k], k)
    BY <2>1
  <2>3. CASE k = 0
    <3>1. Freed(r, ts, r, 0)
      BY ONLY Sorted(r), Holds(r, 0) DEF Freed
    <3> QED BY ONLY <1>3, <2>2, <2>3, <3>1
  <2>4. CASE k # 0
    <3> DEFINE i == k - 1
               x == f[i]
    <3>1. i \in 0 .. n /\ ~(k <= i) /\ i \in Nat /\ i + 1 = k /\ k \in 1 .. n
      BY ONLY <1>0, <2>2, <2>4
    <3>2. Freed(r, ts, x, i)
      BY <2>1, <3>1
    <3>3. f[k] = ReleaseOne(x, ts[k])
      BY ONLY <1>3, <2>2, <2>4
    <3> HIDE DEF x, i
    <3>4. ts[i + 1] \in Nat
      BY ONLY <1>0, <3>1
    <3>5. Freed(r, ts, ReleaseOne(x, ts[i + 1]), i + 1)
      BY ONLY <3>1, <3>2, <3>4, ReleaseOneKeeps
    <3> QED BY ONLY <2>2, <3>1, <3>3, <3>5
  <2> QED BY <2>3, <2>4
<1>5. Freed(r, ts, f[n], n)
  <2>1. n \in 0 .. n
    BY ONLY <1>0
  <2> QED BY <1>4, <2>1
<1> QED BY ONLY <1>1, <1>5 DEF n
-----------------------------------------------------------------------------
\* The runs are in order, and 0 is in one of them.
TokenInv == Sorted(mRanges) /\ Holds(mRanges, 0)

\* A batch is a sequence of tokens.
LEMMA SeqOfSeq ==
  ASSUME NEW ts \in SeqOf(Tokens, MaxBatch)
  PROVE  ts \in Seq(Tokens)
<1>1. PICK m \in 0 .. MaxBatch : ts \in [1 .. m -> Tokens]
  BY DEF SeqOf
<1>2. m \in Nat
  BY ONLY BoundsAssumption, <1>1
<1> QED BY ONLY <1>1, <1>2

\* Every call of getToken takes the runs to ones that are still in order and
\* stores different names that were free.
LEMMA GetTokenStep ==
  ASSUME TokenInv, NEW n \in 0 .. MaxBatch, getToken(n)
  PROVE  TokenInv' /\ NameSpec!Generate
<1>0. n \in Nat
  BY BoundsAssumption
<1> DEFINE a == acquireMany(mRanges, n)
<1>1. /\ Cardinality(NamesOf(mRanges)) + n <= NameLimit
      /\ mRanges' = a.ranges /\ call' = [op |-> "getToken", tokens |-> a.tokens]
  BY DEF getToken
<1>2. Handed(mRanges, a, n)
  BY ONLY <1>0, <1>1, TokenInv, AcquireManyHands DEF TokenInv
<1> HIDE DEF a
<1>3. call'.op = "getToken" /\ call'.tokens = a.tokens
  BY ONLY <1>1
<1>4. /\ Sorted(a.ranges) /\ Holds(a.ranges, 0)
      /\ a.tokens \in Seq(Tokens) /\ Len(a.tokens) = n
      /\ NamesOf(a.ranges) = NamesOf(mRanges) \union Listed(a.tokens)
      /\ \A i, j \in 1 .. n : i # j => a.tokens[i] # a.tokens[j]
      /\ Listed(a.tokens) \intersect NamesOf(mRanges) = {}
  BY ONLY <1>2 DEF Handed
<1>5. TokenInv'
  BY ONLY <1>1, <1>4 DEF TokenInv
<1>6. Listed(a.tokens) \subseteq Tokens
  BY ONLY <1>4, ElementOfSeq DEF Listed
<1>7. NamesOf(mRanges)' = NamesOf(mRanges) \union Listed(a.tokens)
  <2>1. NamesOf(mRanges)' = NamesOf(a.ranges)
    BY ONLY <1>1 DEF NamesOf
  <2> QED BY ONLY <1>4, <2>1
<1>8. NameSpec!NamesIn(a.tokens) = Listed(a.tokens)
  BY DEF NameSpec!NamesIn, Listed
<1>9. NameSpec!Generate
  BY ONLY <1>3, <1>4, <1>6, <1>7, <1>8 DEF NameSpec!Generate
<1> QED BY ONLY <1>5, <1>9

\* Every call of recycleTokens keeps the runs in order and frees exactly what it
\* was given, except 0.
LEMMA RecycleStep ==
  ASSUME TokenInv, NEW ts \in SeqOf(Tokens, MaxBatch), recycleTokens(ts)
  PROVE  TokenInv' /\ NameSpec!Recycle
<1>0. ts \in Seq(Tokens)
  BY SeqOfSeq
<1> DEFINE q == releaseMany(mRanges, ts)
<1>1. mRanges' = q /\ call' = [op |-> "recycleTokens", tokens |-> ts]
  BY DEF recycleTokens
<1>2. Freed(mRanges, ts, q, Len(ts))
  BY ONLY <1>0, TokenInv, ReleaseManyFrees DEF TokenInv
<1> HIDE DEF q
<1>3. call'.op = "recycleTokens" /\ call'.tokens = ts
  BY ONLY <1>1
<1>4. /\ Sorted(q) /\ Holds(q, 0)
      /\ \A n \in Nat : Holds(q, n) <=> Holds(mRanges, n)
                                        /\ (n = 0 \/ \A j \in 1 .. Len(ts) : ts[j] # n)
  BY ONLY <1>2 DEF Freed
<1>5. TokenInv'
  BY ONLY <1>1, <1>4 DEF TokenInv
<1>6. /\ NamesOf(mRanges) \subseteq Nat /\ \A n \in Nat : n \in NamesOf(mRanges) <=> Holds(mRanges, n)
      /\ NamesOf(q) \subseteq Nat /\ \A n \in Nat : n \in NamesOf(q) <=> Holds(q, n)
  <2>1. mRanges \in Seq(RunType) /\ q \in Seq(RunType)
    BY ONLY TokenInv, <1>4 DEF TokenInv, Sorted
  <2> QED BY ONLY <2>1, NamesHeld
<1>7. \A n : n \in Listed(ts) <=> \E j \in 1 .. Len(ts) : ts[j] = n
  BY DEF Listed
<1>8. NamesOf(q) = NamesOf(mRanges) \ (Listed(ts) \ {0})
  BY ONLY <1>4, <1>6, <1>7
<1>9. NamesOf(mRanges)' = NamesOf(q)
  BY ONLY <1>1 DEF NamesOf
<1>10. NameSpec!NamesIn(ts) = Listed(ts)
  BY DEF NameSpec!NamesIn, Listed
<1>11. NameSpec!Recycle
  BY ONLY <1>3, <1>8, <1>9, <1>10 DEF NameSpec!Recycle
<1> QED BY ONLY <1>5, <1>11

\* The constructor establishes both.
LEMMA TokenInitInv == TokenInit => TokenInv /\ NameSpec!Init
<1> SUFFICES ASSUME TokenInit PROVE TokenInv /\ NameSpec!Init
  OBVIOUS
<1>1. Adds(mRanges, <<>>, 0)
  BY ReserveZero DEF TokenInit
<1>2. Sorted(mRanges) /\ \A n \in Nat : Holds(mRanges, n) <=> n = 0
  BY ONLY <1>1, EmptySorted DEF Adds
<1>3. TokenInv
  BY ONLY <1>2 DEF TokenInv
<1>4. NamesOf(mRanges) = {0}
  <2>1. mRanges \in Seq(RunType)
    BY ONLY <1>2 DEF Sorted
  <2>2. NamesOf(mRanges) \subseteq Nat /\ \A n \in Nat : n \in NamesOf(mRanges) <=> Holds(mRanges, n)
    BY ONLY <2>1, NamesHeld
  <2> QED BY ONLY <1>2, <2>2
<1>5. NameSpec!Init
  BY <1>4 DEF TokenInit, NameSpec!Init
<1> QED BY <1>3, <1>5

\* Every step keeps the invariant and is a step of the abstract set of names.
LEMMA TokenStep ==
  TokenInv /\ [TokenNext]_tokenVars
    => TokenInv' /\ [NameSpec!Next]_<<NamesOf(mRanges), call>>
<1> SUFFICES ASSUME TokenInv, [TokenNext]_tokenVars
             PROVE  TokenInv' /\ [NameSpec!Next]_<<NamesOf(mRanges), call>>
  OBVIOUS
<1>1. ASSUME NEW n \in 0 .. MaxBatch, getToken(n)
      PROVE  TokenInv' /\ [NameSpec!Next]_<<NamesOf(mRanges), call>>
  BY ONLY TokenInv, <1>1, GetTokenStep DEF NameSpec!Next
<1>2. ASSUME NEW ts \in SeqOf(Tokens, MaxBatch), recycleTokens(ts)
      PROVE  TokenInv' /\ [NameSpec!Next]_<<NamesOf(mRanges), call>>
  BY ONLY TokenInv, <1>2, RecycleStep DEF NameSpec!Next
<1>3. ASSUME UNCHANGED tokenVars
      PROVE  TokenInv' /\ [NameSpec!Next]_<<NamesOf(mRanges), call>>
  BY ONLY TokenInv, <1>3 DEF TokenInv, tokenVars, NamesOf
<1> QED BY ONLY <1>1, <1>2, <1>3, [TokenNext]_tokenVars DEF TokenNext

\* The property follows from the invariant.
LEMMA TokenInvRuns == TokenInv => RunsSortedAndMerged
<1> SUFFICES ASSUME TokenInv PROVE RunsSortedAndMerged
  OBVIOUS
<1>0. Sorted(mRanges) /\ mRanges \in Seq(RunType) /\ Len(mRanges) \in Nat
  BY LenProperties DEF TokenInv, Sorted
<1>1. \A i \in 1 .. Len(mRanges) : mRanges[i].length > 0
  BY ONLY <1>0 DEF Sorted
<1>2. ASSUME NEW i \in 1 .. Len(mRanges) - 1
      PROVE  mRanges[i].first + mRanges[i].length < mRanges[i + 1].first
  <2>1. i \in 1 .. Len(mRanges) /\ i + 1 \in 1 .. Len(mRanges) /\ i < i + 1
    BY ONLY <1>0, <1>2
  <2> QED BY ONLY <1>0, <2>1 DEF Sorted
<1>3. ASSUME NEW n \in Tokens PROVE isAcquired(mRanges, n) <=> n \in NamesOf(mRanges)
  <2>1. n \in Nat
    BY TokenAssumption DEF Tokens
  <2> QED BY ONLY <1>0, <2>1, NamesHeld, AcquiredIsHeld
<1> QED BY ONLY <1>1, <1>2, <1>3 DEF RunsSortedAndMerged

\* In every behaviour the run vector stays sorted, merged and free of empty
\* runs, and the binary search finds exactly the names in the runs, for every
\* number of tokens, batch size and limit.
THEOREM TokenRunsSorted == TokenSpec => []RunsSortedAndMerged
BY TokenInitInv, TokenStep, TokenInvRuns, PTL DEF TokenSpec

\* Every behaviour of the manager is one of the abstract set of names.
THEOREM TokenImplements == TokenSpec => ImplementsNameSpace
BY TokenInitInv, TokenStep, PTL DEF TokenSpec, ImplementsNameSpace, NameSpec!Spec
=============================================================================
