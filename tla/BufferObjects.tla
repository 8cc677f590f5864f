--------------------------- MODULE BufferObjects ---------------------------
(***************************************************************************)
(* swrender/BufferObjectManager.cpp and the buffer calls of array.cpp: the *)
(* vertex and index buffers of one context.  The manager owns the objects; *)
(* the context and its vertex arrays keep plain pointers to them.  A       *)
(* context is used by one thread at a time, so a call is one action.       *)
(* The names come from a TokenManager and are used here as NameSpace       *)
(* specifies them.                                                         *)
(***************************************************************************)
EXTENDS Integers

CONSTANTS Names,          \* GLuint, of which 0 is one
          Objects,        \* the addresses operator new can return
          Units,          \* the texture units
          Sizes,          \* the sizes and offsets clients use
          MaxLong,        \* LONG_MAX, the largest GLintptr and GLsizeiptr
          None            \* a null pointer

Targets == {"array", "element"}
Slots   == Targets \union {"vertex", "normal", "color"} \union Units

ASSUME BufferAssumption ==
  /\ Names \subseteq Nat /\ 0 \in Names
  /\ MaxLong \in Nat
  /\ Sizes \subseteq Nat /\ 0 \in Sizes /\ \A size \in Sizes : size <= MaxLong
  /\ None \notin Objects
  /\ Units # {} /\ Units \intersect {"array", "element", "vertex", "normal", "color"} = {}

VARIABLES used,           \* the names the TokenManager has given out, and 0
          mBuffers,       \* the object of each name, or None
          obj,            \* obj[o]: name, size and the room malloc gave for data
          bound,          \* the buffer_t pointer in each slot of the context
          activeTexture,
          outside         \* a copy into a buffer ended outside its room

vars == <<used, mBuffers, obj, bound, activeTexture, outside>>

Empty == [name |-> 0, size |-> 0, room |-> 0]   \* what memory nobody owns holds

Live(o) == \E n \in Names : mBuffers[n] = o

Init ==
  /\ used = {0}
  /\ mBuffers = [n \in Names |-> None]
  /\ obj = [o \in Objects |-> Empty]
  /\ bound = [s \in Slots |-> None]
  /\ activeTexture \in Units
  /\ outside = FALSE
-----------------------------------------------------------------------------
glGenBuffers(ns) ==
  /\ ns \intersect used = {}
  /\ used' = used \union ns
  /\ UNCHANGED <<mBuffers, obj, bound, activeTexture, outside>>

\* Name 0 unbinds the target.
UnbindBuffer(target) ==
  /\ bound' = [bound EXCEPT ![target] = None]
  /\ UNCHANGED <<used, mBuffers, obj, activeTexture, outside>>

\* bind() returns the object of the name.
BindExisting(target, n) ==
  /\ n # 0 /\ mBuffers[n] # None
  /\ bound' = [bound EXCEPT ![target] = mBuffers[n]]
  /\ UNCHANGED <<used, mBuffers, obj, activeTexture, outside>>

\* bind() makes an object for a name that has none.  The name need not have
\* been generated, and is not reserved.
BindNew(target, n, o) ==
  /\ n # 0 /\ mBuffers[n] = None /\ ~Live(o)
  /\ obj' = [obj EXCEPT ![o] = [name |-> n, size |-> 0, room |-> 0]]
  /\ mBuffers' = [mBuffers EXCEPT ![n] = o]
  /\ bound' = [bound EXCEPT ![target] = o]
  /\ UNCHANGED <<used, activeTexture, outside>>

\* Mutant: the size is stored although the allocation failed.
allocateStore_sizeFirst(b, size, ok) ==
  IF size = b.size THEN b ELSE [b EXCEPT !.size = size, !.room = IF ok THEN size ELSE @]

\* allocateStore: the same size reuses the memory, another size replaces it
\* unless malloc fails.
allocateStore(b, size, ok) ==
  IF size # b.size /\ ok THEN [name |-> b.name, size |-> size, room |-> size] ELSE b

\* The copy of the client's data, if there are any, follows a successful
\* allocation.
glBufferData(target, size, ok) ==
  LET o == bound[target]
      b == allocateStore(obj[o], size, ok)
  IN  /\ o # None
      /\ obj' = [obj EXCEPT ![o] = b]
      /\ outside' = (outside \/ ((ok \/ size = obj[o].size) /\ size > b.room))
      /\ UNCHANGED <<used, mBuffers, bound, activeTexture>>

\* offset + size in signed arithmetic, which wraps.
SignedSum(offset, size) ==
  IF offset + size <= MaxLong THEN offset + size ELSE offset + size - 2 * (MaxLong + 1)

\* What is tested is the signed sum; where the copy ends is the true one.
glBufferSubData(target, offset, size) ==
  LET o == bound[target]
  IN  /\ o # None /\ SignedSum(offset, size) <= obj[o].size
      /\ outside' = (outside \/ offset + size > obj[o].room)
      /\ UNCHANGED <<used, mBuffers, obj, bound, activeTexture>>

\* glVertexPointer, glNormalPointer, glColorPointer: the array remembers the
\* array buffer of the moment.
Pointer(array) ==
  /\ bound' = [bound EXCEPT ![array] = bound["array"]]
  /\ UNCHANGED <<used, mBuffers, obj, activeTexture, outside>>

\* The texture array is that of the active client unit.
glTexCoordPointer ==
  /\ bound' = [bound EXCEPT ![activeTexture] = bound["array"]]
  /\ UNCHANGED <<used, mBuffers, obj, activeTexture, outside>>

glClientActiveTexture(u) ==
  /\ activeTexture' = u
  /\ UNCHANGED <<used, mBuffers, obj, bound, outside>>

\* Mutant: only the active texture unit is unbound.
Unbound_activeUnit(ns) ==
  [s \in Slots |-> IF /\ bound[s] # None /\ obj[bound[s]].name \in ns \ {0}
                      /\ s \in Units => s = activeTexture
                   THEN None ELSE bound[s]]

\* Every slot that points to a buffer with one of the names is cleared.
Unbound(ns) ==
  [s \in Slots |-> IF bound[s] # None /\ obj[bound[s]].name \in ns \ {0}
                   THEN None ELSE bound[s]]

\* deleteBuffers frees the objects of the names, once the slots are cleared.
deleteBuffers(ns) ==
  /\ mBuffers' = [n \in Names |-> IF n \in ns \ {0} THEN None ELSE mBuffers[n]]
  /\ obj' = [o \in Objects |-> IF \E n \in ns \ {0} : mBuffers[n] = o
                               THEN Empty ELSE obj[o]]

\* The names are recycled whether they were generated or not.
glDeleteBuffers(ns) ==
  /\ bound' = Unbound(ns)
  /\ deleteBuffers(ns)
  /\ used' = used \ (ns \ {0})
  /\ UNCHANGED <<activeTexture, outside>>

Next ==
  \/ \E ns \in SUBSET Names : glGenBuffers(ns) \/ glDeleteBuffers(ns)
  \/ \E t \in Targets :
       \/ UnbindBuffer(t)
       \/ \E n \in Names : BindExisting(t, n) \/ \E o \in Objects : BindNew(t, n, o)
       \/ \E size \in Sizes : \/ \E ok \in BOOLEAN : glBufferData(t, size, ok)
                              \/ \E offset \in Sizes : glBufferSubData(t, offset, size)
  \/ \E a \in {"vertex", "normal", "color"} : Pointer(a)
  \/ glTexCoordPointer
  \/ \E u \in Units : glClientActiveTexture(u)

Spec == Init /\ [][Next]_vars
-----------------------------------------------------------------------------
TypeOK ==
  /\ used \in SUBSET Names
  /\ mBuffers \in [Names -> Objects \union {None}]
  /\ obj \in [Objects -> [name : Names, size : Sizes, room : Sizes]]
  /\ bound \in [Slots -> Objects \union {None}]
  /\ activeTexture \in Units
  /\ outside \in BOOLEAN

\* Every pointer the context and its vertex arrays keep leads to an object
\* the manager has under the object's own name, whatever was deleted, rebound
\* and created at the same address since: what array_t::resolve and
\* glDeleteBuffers dereference.
PointersLive ==
  \A s \in Slots : bound[s] # None => mBuffers[obj[bound[s]].name] = bound[s]

\* What the test of glBufferSubData relies on: no offset and size of a client
\* add up to more than a GLintptr holds.
SumsFit == \A offset, size \in Sizes : offset + size <= MaxLong

\* glBufferData and glBufferSubData never copy past the memory malloc gave,
\* whichever allocations failed before; of clients for whom SumsFit.
CopiesStayInside == ~outside
=============================================================================
