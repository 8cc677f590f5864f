--------------------------- MODULE TexturesProofs ---------------------------
(***************************************************************************)
(* The references to texture objects are counted exactly, and every unit's *)
(* name leads to an object, for any numbers of names, units, objects,      *)
(* images and failing allocations.  The two need each other: createTexture *)
(* and replaceTexture must not return the default texture, which is so     *)
(* because it is counted, and replaceTexture finds the object whose count  *)
(* it reads because the names of the units resolve.                        *)
(*                                                                         *)
(* On that rests what is said of memory: a block belongs to one object,    *)
(* which has room for what its size says, and the rasterizer's copies are  *)
(* those of objects that still have theirs.  An object that somebody else  *)
(* points to has a count of two or more, so what one unit uploads or drops *)
(* cannot take the memory of another.                                      *)
(***************************************************************************)
EXTENDS Textures, FiniteSetTheorems, WellFoundedInduction, TLAPS

Types ==
  /\ unit \in [Units -> [tex : Objects, name : Names \union {0}]]
  /\ mTextures \in [Names -> Objects \union {Null}]
  /\ active \in Units /\ open \in BOOLEAN
  /\ count \in [Objects -> Int]

\* Texture 0 has no name.
Nameless == \A n \in Names : mTextures[n] # defaultTexture

IInv == Types /\ ReferencesCounted /\ NamesResolve /\ Nameless

UnitCount(o) == Cardinality({u \in Units : unit[u].tex = o})
NameCount(o) == Cardinality({n \in Names : mTextures[n] = o})
If1(condition) == IF condition THEN 1 ELSE 0
-----------------------------------------------------------------------------
\* Two finite sets that differ in one element at most.
LEMMA CardinalityOfOneMore ==
  ASSUME NEW S, IsFiniteSet(S), NEW A \in SUBSET S, NEW B \in SUBSET S, NEW x \in S,
         \A s \in S \ {x} : s \in A <=> s \in B
  PROVE  /\ Cardinality(A) \in Nat /\ Cardinality(B) \in Nat
         /\ Cardinality(B) = Cardinality(A) - If1(x \in A) + If1(x \in B)
<1>1. IsFiniteSet(A) /\ IsFiniteSet(B)
  BY FS_Subset
<1>2. A \ {x} = B \ {x}
  OBVIOUS
<1>3. Cardinality(A) \in Nat /\ Cardinality(B) \in Nat
  BY <1>1, FS_CardinalityType
<1>4. /\ Cardinality(A \ {x}) = IF x \in A THEN Cardinality(A) - 1 ELSE Cardinality(A)
      /\ Cardinality(B \ {x}) = IF x \in B THEN Cardinality(B) - 1 ELSE Cardinality(B)
  BY <1>1, FS_RemoveElement
<1> QED BY <1>2, <1>3, <1>4 DEF If1

\* Elements that join a finite set, wherever they were before.
LEMMA CardinalityOfJoined ==
  ASSUME NEW S, IsFiniteSet(S), NEW T, IsFiniteSet(T)
  PROVE  Cardinality((S \ T) \union T) = Cardinality(S \ T) + Cardinality(T)
<1>1. IsFiniteSet(S \ T)
  BY FS_Difference
<1>2. Cardinality((S \ T) \union T)
        = Cardinality(S \ T) + Cardinality(T) - Cardinality((S \ T) \intersect T)
  BY <1>1, FS_Union
<1>3. (S \ T) \intersect T = {}
  OBVIOUS
<1>4. Cardinality((S \ T) \intersect T) = 0
  BY <1>3, FS_EmptySet
<1>5. Cardinality(S \ T) \in Nat /\ Cardinality(T) \in Nat
  BY <1>1, FS_CardinalityType
<1> QED BY <1>2, <1>4, <1>5

\* What one unit's texture does to the number of units that have it.
LEMMA UnitChanges ==
  ASSUME NEW x \in Units, \A u \in Units \ {x} : unit'[u].tex = unit[u].tex, NEW o
  PROVE  UnitCount(o)' = UnitCount(o) - If1(unit[x].tex = o) + If1(unit'[x].tex = o)
<1> DEFINE A == {u \in Units : unit[u].tex = o}
           B == {u \in Units : unit'[u].tex = o}
<1>1. Cardinality(B) = Cardinality(A) - If1(x \in A) + If1(x \in B)
  <2>1. A \in SUBSET Units /\ B \in SUBSET Units /\ \A s \in Units \ {x} : s \in A <=> s \in B
    OBVIOUS
  <2>2. IsFiniteSet(Units)
    BY TexturesAssumption
  <2> HIDE DEF A, B
  <2> QED BY <2>1, <2>2, CardinalityOfOneMore DEF If1
<1> QED BY <1>1 DEF UnitCount, If1

\* The same for the object of one name.
LEMMA NameChanges ==
  ASSUME NEW x \in Names, \A n \in Names \ {x} : mTextures'[n] = mTextures[n], NEW o
  PROVE  NameCount(o)' = NameCount(o) - If1(mTextures[x] = o) + If1(mTextures'[x] = o)
<1> DEFINE A == {n \in Names : mTextures[n] = o}
           B == {n \in Names : mTextures'[n] = o}
<1>1. Cardinality(B) = Cardinality(A) - If1(x \in A) + If1(x \in B)
  <2>1. A \in SUBSET Names /\ B \in SUBSET Names /\ \A s \in Names \ {x} : s \in A <=> s \in B
    OBVIOUS
  <2>2. IsFiniteSet(Names)
    BY TexturesAssumption
  <2> HIDE DEF A, B
  <2> QED BY <2>1, <2>2, CardinalityOfOneMore DEF If1
<1> QED BY <1>1 DEF NameCount, If1

\* The counts are numbers.
LEMMA CountsAreNat == \A o : UnitCount(o) \in Nat /\ NameCount(o) \in Nat
<1> TAKE o
<1>1. IsFiniteSet({u \in Units : unit[u].tex = o}) /\ IsFiniteSet({n \in Names : mTextures[n] = o})
  BY FS_Subset, TexturesAssumption
<1> QED BY <1>1, FS_CardinalityType DEF UnitCount, NameCount

\* They are numbers after a step, too.
LEMMA CountsAreNatNext == \A o : UnitCount(o)' \in Nat /\ NameCount(o)' \in Nat
<1> TAKE o
<1>1. IsFiniteSet({u \in Units : unit'[u].tex = o}) /\ IsFiniteSet({n \in Names : mTextures'[n] = o})
  BY FS_Subset, TexturesAssumption
<1> QED BY <1>1, FS_CardinalityType DEF UnitCount, NameCount

\* Splitting a finite set.
LEMMA CardinalityOfParts ==
  ASSUME NEW A, IsFiniteSet(A), NEW B
  PROVE  /\ Cardinality(A \ B) \in Nat /\ Cardinality(A \cap B) \in Nat
         /\ Cardinality(A) = Cardinality(A \ B) + Cardinality(A \cap B)
<1>1. IsFiniteSet(A \ B) /\ IsFiniteSet(A \cap B)
  BY FS_Difference, FS_Intersection
<1>2. Cardinality(A \ B) = Cardinality(A) - Cardinality(A \cap B)
  BY FS_Difference
<1>3. Cardinality(A) \in Nat /\ Cardinality(A \ B) \in Nat /\ Cardinality(A \cap B) \in Nat
  BY <1>1, FS_CardinalityType
<1> QED BY <1>2, <1>3
-----------------------------------------------------------------------------
\* The default texture is never free to be handed out again.
LEMMA NewObjectIsNew ==
  ASSUME IInv, open, \E p \in Objects : count[p] = 0
  PROVE  NewObject \in Objects /\ count[NewObject] = 0 /\ NewObject # defaultTexture
<1>1. NewObject \in Objects /\ count[NewObject] = 0
  BY DEF NewObject
<1>2. count[defaultTexture] = UnitCount(defaultTexture) + NameCount(defaultTexture) + 1
  BY TexturesAssumption DEF IInv, ReferencesCounted, Holders, UnitCount, NameCount
<1>3. count[defaultTexture] # 0
  BY <1>2, CountsAreNat
<1> QED BY <1>1, <1>3

\* A bind gives the unit an object that has the name, and moves the unit's
\* reference; with createTexture the manager holds one too.
LEMMA BindKeepsIInv ==
  ASSUME IInv, open, open', active' = active, NEW n \in Names \union {0}, NEW o \in Objects, NEW c,
         BindUnit(active, n, o, c), n = 0 <=> o = defaultTexture,
         \/ c = count /\ mTextures' = mTextures /\ (n # 0 => mTextures[n] = o)
         \/ /\ n # 0 /\ mTextures[n] = Null /\ c = Add(count, o)
            /\ mTextures' = [mTextures EXCEPT ![n] = o]
  PROVE  IInv'
<1> USE TexturesAssumption
<1>1. c \in [Objects -> Int] /\ \A p \in Objects : c[p] - count[p] = NameCount(p)' - NameCount(p)
  <2>1. CASE c = count /\ mTextures' = mTextures
    <3>1. \A p : NameCount(p)' = NameCount(p)
      BY <2>1 DEF NameCount
    <3> QED BY <2>1, <3>1, CountsAreNat DEF IInv, Types
  <2>2. CASE n # 0 /\ mTextures[n] = Null /\ c = Add(count, o) /\ mTextures' = [mTextures EXCEPT ![n] = o]
    <3>1. c \in [Objects -> Int] /\ \A p \in Objects : c[p] = count[p] + If1(o = p)
      BY <2>2 DEF Add, If1, IInv, Types
    <3>2. ASSUME NEW p \in Objects
          PROVE  NameCount(p)' = NameCount(p) - If1(mTextures[n] = p) + If1(mTextures'[n] = p)
      BY <2>2, NameChanges DEF IInv, Types
    <3>3. \A p \in Objects : NameCount(p)' = NameCount(p) + If1(o = p)
      BY <2>2, <3>2, CountsAreNat DEF If1, IInv, Types
    <3> QED BY <3>1, <3>3, CountsAreNat DEF If1, IInv, Types
  <2> QED BY <2>1, <2>2
<1>2. mTextures' \in [Names -> Objects \union {Null}] /\ Nameless'
  BY DEF IInv, Types, Nameless
<1>3. /\ unit' \in [Units -> [tex : Objects, name : Names \union {0}]]
      /\ count' \in [Objects -> Int]
      /\ \A p \in Objects : count'[p] - c[p] = UnitCount(p)' - UnitCount(p)
  <2>1. CASE unit[active].tex = o
    <3>1. unit' = unit /\ count' = c
      BY <2>1 DEF BindUnit
    <3>2. \A p : UnitCount(p)' = UnitCount(p)
      BY <3>1 DEF UnitCount
    <3> QED BY <1>1, <3>1, <3>2, CountsAreNat DEF IInv, Types
  <2>2. CASE unit[active].tex # o
    <3>1. unit' = [unit EXCEPT ![active] = [tex |-> o, name |-> n]]
      BY <2>2 DEF BindUnit
    <3>2. \A p \in Objects : UnitCount(p)' = UnitCount(p) - If1(unit[active].tex = p) + If1(o = p)
      BY <3>1, UnitChanges DEF IInv, Types, If1
    <3>3. /\ count' \in [Objects -> Int]
          /\ \A p \in Objects : count'[p] = c[p] - If1(unit[active].tex = p) + If1(o = p)
      BY <1>1, <2>2 DEF BindUnit, Add, If1, IInv, Types
    <3>4. unit' \in [Units -> [tex : Objects, name : Names \union {0}]]
      BY <3>1 DEF IInv, Types
    <3>5. \A p \in Objects : c[p] \in Int /\ UnitCount(p) \in Int
                            /\ If1(unit[active].tex = p) \in Int /\ If1(o = p) \in Int
      BY <1>1, CountsAreNat DEF If1
    <3> QED BY <3>2, <3>3, <3>4, <3>5
  <2> QED BY <2>1, <2>2
<1>4. Types'
  BY <1>2, <1>3 DEF IInv, Types
<1>5. ReferencesCounted'
  <2>1. \A p \in Objects : count[p] = UnitCount(p) + NameCount(p) + If1(p = defaultTexture)
    BY DEF IInv, ReferencesCounted, Holders, UnitCount, NameCount, If1
  <2>2. \A p \in Objects : count'[p] = UnitCount(p)' + NameCount(p)' + If1(p = defaultTexture)
    <3> TAKE p \in Objects
    <3>1. /\ UnitCount(p) \in Int /\ NameCount(p) \in Int /\ If1(p = defaultTexture) \in Int
          /\ UnitCount(p)' \in Int /\ NameCount(p)' \in Int
      BY CountsAreNat, CountsAreNatNext DEF If1
    <3>2. count[p] \in Int /\ c[p] \in Int /\ count'[p] \in Int
      BY <1>1, <1>3 DEF IInv, Types
    <3> QED BY <1>1, <1>3, <2>1, <3>1, <3>2
  <2> QED BY <2>2 DEF ReferencesCounted, Holders, UnitCount, NameCount, If1
<1>6. NamesResolve'
  <2>1. \A u \in Units : unit'[u] = unit[u] \/ unit'[u] = [tex |-> o, name |-> n]
    BY DEF BindUnit, IInv, Types
  <2>2. \A m \in Names : mTextures[m] # Null => mTextures'[m] # Null
    BY DEF IInv, Types
  <2>3. n # 0 => mTextures'[n] # Null
    BY DEF IInv, Types
  <2> SUFFICES ASSUME NEW u \in Units
               PROVE  /\ unit'[u].name # 0 => mTextures'[unit'[u].name] # Null
                      /\ unit'[u].name = 0 <=> unit'[u].tex = defaultTexture
    BY DEF NamesResolve
  <2>4. CASE unit'[u] = unit[u]
    BY <2>2, <2>4 DEF NamesResolve, IInv, Types
  <2>5. CASE unit'[u] = [tex |-> o, name |-> n]
    BY <2>3, <2>5
  <2> QED BY <2>1, <2>4, <2>5
<1> QED BY <1>2, <1>4, <1>5, <1>6 DEF IInv

\* An upload moves the unit's reference to the object of its name, or both its
\* own and the manager's to a new object when somebody else has the old one.
LEMMA UploadKeepsIInv ==
  ASSUME IInv, open, open', active' = active, getAndBind
  PROVE  IInv'
<1> USE TexturesAssumption
<1>1. /\ Old \in Objects /\ Name \in Names \union {0}
      /\ Name # 0 => mTextures[Name] \in Objects \ {defaultTexture}
      /\ Name = 0 <=> Old = defaultTexture
  BY DEF Old, Name, IInv, Types, NamesResolve, Nameless
<1>2. Target \in Objects /\ (Name = 0 <=> Target = defaultTexture)
  BY <1>1, NewObjectIsNew DEF getAndBind, Target, Shared
<1>3. Left \in [Objects -> Int] /\ \A p \in Objects : Left[p] = count[p] - If1(Old = p)
  BY <1>1 DEF Left, If1, IInv, Types
<1>4. unit' = [unit EXCEPT ![active].tex = Target]
  BY DEF getAndBind
<1>5. unit' \in [Units -> [tex : Objects, name : Names \union {0}]]
  BY <1>2, <1>4 DEF IInv, Types
<1>6. \A p \in Objects : UnitCount(p)' = UnitCount(p) - If1(Old = p) + If1(Target = p)
  BY <1>4, UnitChanges DEF IInv, Types, If1, Old
<1>7. /\ count' \in [Objects -> Int]
      /\ mTextures' \in [Names -> Objects \union {Null}]
      /\ Nameless' /\ \A n \in Names : mTextures[n] # Null => mTextures'[n] # Null
      /\ \A p \in Objects : count'[p] = count[p] - If1(Old = p) + If1(Target = p)
                                        + (NameCount(p)' - NameCount(p))
  <2>1. CASE ~Shared
    <3>1. mTextures' = mTextures /\ count' = Add(Left, Target)
      BY <2>1 DEF getAndBind
    <3>2. \A p : NameCount(p)' = NameCount(p)
      BY <3>1 DEF NameCount
    <3>3. count' \in [Objects -> Int] /\ \A p \in Objects : count'[p] = Left[p] + If1(Target = p)
      BY <1>2, <1>3, <3>1 DEF Add, If1
    <3>4. \A p \in Objects : count'[p] = count[p] - If1(Old = p) + If1(Target = p)
                                        + (NameCount(p)' - NameCount(p))
      BY <1>3, <3>2, <3>3, CountsAreNat DEF IInv, Types, If1
    <3> QED BY <3>1, <3>3, <3>4 DEF IInv, Types, Nameless
  <2>2. CASE Shared
    <3>1. /\ Name \in Names /\ mTextures' = [mTextures EXCEPT ![Name] = Target]
          /\ count' = Add(Add([Left EXCEPT ![mTextures[Name]] = @ - 1], Target), Target)
      BY <1>1, <2>2 DEF getAndBind, Shared
    <3>2. /\ count' \in [Objects -> Int]
          /\ \A p \in Objects : count'[p] = Left[p] - If1(mTextures[Name] = p) + If1(Target = p)
                                                    + If1(Target = p)
      BY <1>1, <1>2, <1>3, <3>1 DEF Add, If1
    <3>3. \A p \in Objects :
            NameCount(p)' = NameCount(p) - If1(mTextures[Name] = p) + If1(Target = p)
      BY <3>1, NameChanges DEF IInv, Types, If1
    <3>4. \A p \in Objects : count'[p] = count[p] - If1(Old = p) + If1(Target = p)
                                        + (NameCount(p)' - NameCount(p))
      BY <1>3, <3>2, <3>3, CountsAreNat DEF IInv, Types, If1
    <3>5. mTextures' \in [Names -> Objects \union {Null}] /\ Nameless'
      BY <1>1, <1>2, <3>1 DEF IInv, Types, Nameless
    <3>6. \A n \in Names : mTextures[n] # Null => mTextures'[n] # Null
      BY <1>2, <3>1 DEF IInv, Types
    <3> QED BY <3>2, <3>4, <3>5, <3>6
  <2> QED BY <2>1, <2>2
<1>8. Types'
  BY <1>5, <1>7 DEF IInv, Types
<1>9. ReferencesCounted'
  <2>1. \A p \in Objects : count[p] = UnitCount(p) + NameCount(p) + If1(p = defaultTexture)
    BY DEF IInv, ReferencesCounted, Holders, UnitCount, NameCount, If1
  <2>2. \A p \in Objects : count'[p] = UnitCount(p)' + NameCount(p)' + If1(p = defaultTexture)
    <3> TAKE p \in Objects
    <3>1. /\ UnitCount(p) \in Int /\ NameCount(p) \in Int /\ If1(p = defaultTexture) \in Int
          /\ UnitCount(p)' \in Int /\ NameCount(p)' \in Int
          /\ If1(Old = p) \in Int /\ If1(Target = p) \in Int
      BY CountsAreNat, CountsAreNatNext DEF If1
    <3> QED BY <1>6, <1>7, <2>1, <3>1
  <2> QED BY <2>2 DEF ReferencesCounted, Holders, UnitCount, NameCount, If1
<1>10. NamesResolve'
  <2> SUFFICES ASSUME NEW u \in Units
               PROVE  /\ unit'[u].name # 0 => mTextures'[unit'[u].name] # Null
                      /\ unit'[u].name = 0 <=> unit'[u].tex = defaultTexture
    BY DEF NamesResolve
  <2>1. unit'[u].name = unit[u].name /\ (u # active => unit'[u] = unit[u])
    BY <1>4 DEF IInv, Types
  <2>2. unit'[active].tex = Target /\ unit'[active].name = Name
    BY <1>4 DEF IInv, Types, Name
  <2>3. unit'[u].name = 0 <=> unit'[u].tex = defaultTexture
    BY <1>2, <2>1, <2>2 DEF IInv, NamesResolve
  <2>4. unit[u].name \in Names \union {0} /\ (unit[u].name # 0 => mTextures[unit[u].name] # Null)
    BY DEF IInv, Types, NamesResolve
  <2> QED BY <1>7, <2>1, <2>3, <2>4
<1> QED BY <1>7, <1>8, <1>9, <1>10 DEF IInv

\* glDeleteTextures gives back one reference for every unit it turns to
\* texture 0 and one for every name.
LEMMA DeleteKeepsIInv ==
  ASSUME IInv, open, open', active' = active, NEW ns \in SUBSET Names, 0 \notin ns,
         glDeleteTextures(ns)
  PROVE  IInv'
<1> USE TexturesAssumption
<1> DEFINE UnitDrop(o) == Cardinality({u \in Bound(ns) : unit[u].tex = o})
           NameDrop(o) == Cardinality({n \in ns : mTextures[n] = o})
           drop == [o \in Objects |-> UnitDrop(o) + NameDrop(o)]
<1>1. /\ unit' = [u \in Units |-> IF u \in Bound(ns)
                    THEN [tex |-> defaultTexture, name |-> 0] ELSE unit[u]]
      /\ mTextures' = [n \in Names |-> IF n \in ns THEN Null ELSE mTextures[n]]
      /\ count' = [Dropped(drop) EXCEPT ![defaultTexture] = @ + Cardinality(Bound(ns))]
  BY DEF glDeleteTextures
<1>2. IsFiniteSet(Bound(ns)) /\ Cardinality(Bound(ns)) \in Nat
  BY FS_Subset, FS_CardinalityType DEF Bound
<1>3. ASSUME NEW o \in Objects
      PROVE  /\ NameDrop(o) \in Nat /\ NameCount(o)' \in Nat
             /\ NameCount(o)' = NameCount(o) - NameDrop(o)
  <2> DEFINE A == {n \in Names : mTextures[n] = o}
  <2>1. IsFiniteSet(A)
    BY FS_Subset
  <2>2. A \cap ns = {n \in ns : mTextures[n] = o}
    OBVIOUS
  <2>3. A \ ns = {n \in Names : mTextures'[n] = o}
    BY <1>1
  <2>4. /\ Cardinality(A \ ns) \in Nat /\ Cardinality(A \cap ns) \in Nat
        /\ Cardinality(A) = Cardinality(A \ ns) + Cardinality(A \cap ns)
    <3> HIDE DEF A
    <3> QED BY <2>1, CardinalityOfParts
  <2>5. NameCount(o) = Cardinality(A) /\ NameCount(o)' = Cardinality(A \ ns)
    BY <2>3 DEF NameCount
  <2>6. NameDrop(o) = Cardinality(A \cap ns)
    BY <2>2
  <2> HIDE DEF A, NameDrop
  <2> QED BY <2>4, <2>5, <2>6
<1>4. ASSUME NEW o \in Objects
      PROVE  /\ UnitDrop(o) \in Nat /\ UnitCount(o)' \in Nat
             /\ UnitCount(o)' = UnitCount(o) - UnitDrop(o)
                   + (IF o = defaultTexture THEN Cardinality(Bound(ns)) ELSE 0)
  <2> DEFINE A == {u \in Units : unit[u].tex = o}
             B == Bound(ns)
             C == {u \in Units : unit'[u].tex = o}
  <2>1. IsFiniteSet(A)
    BY FS_Subset
  <2>2. A \cap B = {u \in B : unit[u].tex = o} /\ B \subseteq Units
    BY DEF Bound
  <2>3. C = IF o = defaultTexture THEN (A \ B) \union B ELSE A \ B
    BY <1>1, <2>2
  <2>4. /\ Cardinality(A \ B) \in Nat /\ Cardinality(A \cap B) \in Nat
        /\ Cardinality(A) = Cardinality(A \ B) + Cardinality(A \cap B)
    <3> HIDE DEF A, B
    <3> QED BY <2>1, CardinalityOfParts
  <2>5. Cardinality(C) = Cardinality(A \ B) + (IF o = defaultTexture THEN Cardinality(B) ELSE 0)
    <3> HIDE DEF A, B, C
    <3>1. Cardinality((A \ B) \union B) = Cardinality(A \ B) + Cardinality(B)
      BY <1>2, <2>1, CardinalityOfJoined DEF B
    <3> QED BY <2>3, <2>4, <3>1
  <2>6. UnitCount(o) = Cardinality(A) /\ UnitCount(o)' = Cardinality(C)
    BY DEF UnitCount
  <2>7. UnitDrop(o) = Cardinality(A \cap B)
    BY <2>2
  <2> HIDE DEF A, C, UnitDrop
  <2> QED BY <1>2, <2>4, <2>5, <2>6, <2>7
<1>5. /\ count' \in [Objects -> Int]
      /\ \A o \in Objects : count'[o] = count[o] - (UnitDrop(o) + NameDrop(o))
                   + (IF o = defaultTexture THEN Cardinality(Bound(ns)) ELSE 0)
  <2> HIDE DEF UnitDrop, NameDrop
  <2> QED BY <1>1, <1>2, <1>3, <1>4 DEF Dropped, IInv, Types
<1>6. ReferencesCounted'
  <2> HIDE DEF UnitDrop, NameDrop
  <2>1. \A p \in Objects : count[p] = UnitCount(p) + NameCount(p) + If1(p = defaultTexture)
    BY DEF IInv, ReferencesCounted, Holders, UnitCount, NameCount, If1
  <2>2. \A p \in Objects : count'[p] = UnitCount(p)' + NameCount(p)' + If1(p = defaultTexture)
    BY <1>2, <1>3, <1>4, <1>5, <2>1, CountsAreNat DEF If1
  <2> QED BY <2>2 DEF ReferencesCounted, Holders, UnitCount, NameCount, If1
<1>7. Types' /\ Nameless'
  BY <1>1, <1>5 DEF IInv, Types, Nameless
<1>8. NamesResolve'
  BY <1>1 DEF IInv, Types, NamesResolve, Bound
<1> QED BY <1>6, <1>7, <1>8 DEF IInv
-----------------------------------------------------------------------------
\* What the other calls do to the objects, the memory and the rasterizer does
\* not concern the references.
LEMMA OthersKeepIInv ==
  ASSUME IInv, active' \in Units, UNCHANGED <<count, mTextures, unit, open>>
  PROVE  IInv'
<1>1. Types' /\ NamesResolve' /\ Nameless'
  BY DEF IInv, Types, NamesResolve, Nameless
<1>2. \A o \in Objects : Holders(o)' = Holders(o)
  BY DEF Holders
<1>3. ReferencesCounted'
  BY <1>2 DEF IInv, ReferencesCounted
<1> QED BY <1>1, <1>3 DEF IInv

\* ogles_uninit drops all references there are.
LEMMA CloseKeepsIInv ==
  ASSUME IInv, open, Close
  PROVE  IInv'
<1> USE TexturesAssumption
<1>1. \A o \in Objects : count[o] = Holders(o)
  BY DEF IInv, ReferencesCounted
<1>2. count' = [o \in Objects |-> count[o] - Holders(o)]
  BY DEF Close, Dropped, Uninit
<1>3. count' \in [Objects -> Int] /\ \A o \in Objects : count'[o] = 0
  BY <1>1, <1>2 DEF IInv, Types
<1>4. Types' /\ NamesResolve' /\ Nameless'
  BY <1>3 DEF Close, NoBindings, IInv, Types, NamesResolve, Nameless
<1>5. ReferencesCounted'
  BY <1>3 DEF Close, ReferencesCounted
<1> QED BY <1>4, <1>5 DEF IInv

\* ogles_init_texture: the context and every unit have texture 0.
LEMMA InitIInv == Init => IInv
<1> SUFFICES ASSUME Init PROVE IInv
  OBVIOUS
<1> USE TexturesAssumption
<1>1. IsFiniteSet(Units) /\ Cardinality(Units) \in Nat
  BY FS_CardinalityType
<1>2. Types
  BY <1>1 DEF Init, NoBindings, Types
<1>3. NamesResolve /\ Nameless
  BY DEF Init, NoBindings, NamesResolve, Nameless
<1>4. ASSUME NEW o \in Objects PROVE count[o] = Holders(o)
  <2>1. {n \in Names : mTextures[n] = o} = {}
    BY DEF Init
  <2>2. {u \in Units : unit[u].tex = o} = IF o = defaultTexture THEN Units ELSE {}
    BY DEF Init, NoBindings
  <2>3. Holders(o) = Cardinality(IF o = defaultTexture THEN Units ELSE {}) + 0
                     + (IF o = defaultTexture THEN 1 ELSE 0)
    BY <2>1, <2>2, FS_EmptySet DEF Holders
  <2>4. Cardinality({}) = 0
    BY FS_EmptySet
  <2> QED BY <1>1, <2>3, <2>4 DEF Init
<1>5. ReferencesCounted
  BY <1>4 DEF Init, ReferencesCounted
<1> QED BY <1>2, <1>3, <1>5 DEF IInv

\* The invariant is kept by every call.
THEOREM Invariance == Spec => []IInv
<1>1. IInv /\ [Next]_vars => IInv'
  <2> SUFFICES ASSUME IInv, [Next]_vars PROVE IInv'
    OBVIOUS
  <2> USE TexturesAssumption
  <2>1. CASE UNCHANGED vars
    BY <2>1, OthersKeepIInv DEF vars, objVars, IInv, Types
  <2>2. CASE Next
    <3>1. open
      BY <2>2 DEF Next, Alive
    <3>2. ASSUME NEW u \in Units, glActiveTexture(u) PROVE IInv'
      BY <3>2, OthersKeepIInv DEF glActiveTexture, objVars
    <3>3. ASSUME NEW n \in Names \union {0}, BindExisting(n) PROVE IInv'
      <4>1. /\ ObjectOf(n) \in Objects /\ (n = 0 <=> ObjectOf(n) = defaultTexture)
            /\ n # 0 => mTextures[n] = ObjectOf(n)
        BY <3>3 DEF BindExisting, ObjectOf, IInv, Types, Nameless
      <4>2. BindUnit(active, n, ObjectOf(n), count) /\ UNCHANGED <<mTextures, active, open>>
        BY <3>3 DEF BindExisting
      <4> QED BY <3>1, <4>1, <4>2, BindKeepsIInv
    <3>4. ASSUME NEW n \in Names, BindNew(n) PROVE IInv'
      <4>1. NewObject \in Objects /\ NewObject # defaultTexture
        BY <3>1, <3>4, NewObjectIsNew DEF BindNew
      <4>2. /\ BindUnit(active, n, NewObject, Add(count, NewObject)) /\ UNCHANGED <<active, open>>
            /\ mTextures[n] = Null /\ mTextures' = [mTextures EXCEPT ![n] = NewObject]
        BY <3>4 DEF BindNew
      <4> QED BY <3>1, <4>1, <4>2, BindKeepsIInv
    <3>5. ASSUME NEW ns \in SUBSET Names, glDeleteTextures(ns) PROVE IInv'
      BY <3>1, <3>5, DeleteKeepsIInv DEF glDeleteTextures
    <3>6. ASSUME NEW i \in Images,
                 \/ glEGLImageTargetTexture2DOES(i.dim, i.fmt)
                 \/ \E level \in Lods \ {0} : \E fail \in Failures({level}) :
                      TexImageLevel(level, i.dim, i.fmt, fail)
                 \/ \E top \in Lods, fail \in Failures(Lods) :
                      TexImageBase(i.dim, i.fmt, TRUE, top, fail)
                 \/ \E fail \in Failures({0}) : TexImageBase(i.dim, i.fmt, FALSE, 0, fail)
          PROVE  IInv'
      <4>1. ASSUME NEW texels, NEW top, NEW fail, TexImageBase(i.dim, i.fmt, texels, top, fail)
            PROVE  IInv'
        BY <3>1, <4>1, UploadKeepsIInv DEF TexImageBase
      <4>2. ASSUME NEW level, NEW fail, TexImageLevel(level, i.dim, i.fmt, fail) PROVE IInv'
        BY <4>2, OthersKeepIInv DEF TexImageLevel, IInv, Types
      <4>3. CASE glEGLImageTargetTexture2DOES(i.dim, i.fmt)
        BY <3>1, <4>3, UploadKeepsIInv DEF glEGLImageTargetTexture2DOES
      <4> QED BY <3>6, <4>1, <4>2, <4>3
    <3>7. ASSUME NEW level, NEW copy, NEW fail, TexSubImage(level, copy, fail) PROVE IInv'
      BY <3>7, OthersKeepIInv DEF TexSubImage, IInv, Types
    <3>8. CASE glTexParameter
      BY <3>8, OthersKeepIInv DEF glTexParameter, texParameterx, IInv, Types
    <3>9. ASSUME NEW on, EnableTexture(on) PROVE IInv'
      BY <3>9, OthersKeepIInv DEF EnableTexture, objVars, IInv, Types
    <3>10. CASE Draw \/ DrawTex \/ DrawTexOneToOne
      BY <3>10, OthersKeepIInv DEF Draw, DrawTex, DrawTexOneToOne, AfterDrawTex, objVars, IInv, Types
    <3>11. CASE Close
      BY <3>1, <3>11, CloseKeepsIInv
    <3> QED BY <2>2, <3>2, <3>3, <3>4, <3>5, <3>6, <3>7, <3>8, <3>9, <3>10, <3>11 DEF Next
  <2> QED BY <2>1, <2>2
<1> QED BY <1>1, InitIInv, PTL DEF Spec

\* Every unit's name leads to an object, for any numbers of names and units.
THEOREM UnitNamesResolve == Spec => []NamesResolve
<1>1. IInv => NamesResolve
  BY DEF IInv
<1> QED BY <1>1, Invariance, PTL

\* Every texture object is counted as often as it is pointed to, so none is
\* deleted under a unit and none outlives its last user.
THEOREM TextureReferencesCounted == Spec => []ReferencesCounted
<1>1. IInv => ReferencesCounted
  BY DEF IInv
<1> QED BY <1>1, Invariance, PTL
-----------------------------------------------------------------------------
(* The levels of an image.                                                 *)

\* A nonempty set of naturals has a least element.
LEMMA NatMin ==
  ASSUME NEW S, S \subseteq Nat, S # {}
  PROVE  \E m \in S : \A n \in S : m <= n
<1> DEFINE R == OpToRel(<, Nat)
<1>1. IsWellFoundedOn(R, Nat)
  BY NatLessThanWellFounded
<1> HIDE DEF R
<1>2. PICK m \in S : \A n \in S : ~(<<n, m>> \in R)
  BY <1>1, WFMin
<1>3. \A n \in S : n < m => <<n, m>> \in R
  BY DEF R, OpToRel
<1>4. ASSUME NEW n \in S PROVE m <= n
  <2>1. ~(n < m)
    BY <1>2, <1>3
  <2> QED BY <2>1, S \subseteq Nat
<1> QED BY <1>4

\* The powers of two an int can hold.
LEMMA PowersOfTwo ==
  /\ Bit(0) = 1 /\ Bit(1) = 2 /\ Bit(2) = 4 /\ Bit(3) = 8 /\ Bit(4) = 16 /\ Bit(5) = 32
  /\ Bit(6) = 64 /\ Bit(7) = 128 /\ Bit(8) = 256 /\ Bit(9) = 512 /\ Bit(10) = 1024
  /\ Bit(11) = 2048 /\ Bit(12) = 4096 /\ Bit(13) = 8192 /\ Bit(14) = 16384
  /\ Bit(15) = 32768 /\ Bit(16) = 65536 /\ Bit(17) = 131072 /\ Bit(18) = 262144
  /\ Bit(19) = 524288 /\ Bit(20) = 1048576 /\ Bit(21) = 2097152 /\ Bit(22) = 4194304
  /\ Bit(23) = 8388608 /\ Bit(24) = 16777216 /\ Bit(25) = 33554432 /\ Bit(26) = 67108864
  /\ Bit(27) = 134217728 /\ Bit(28) = 268435456 /\ Bit(29) = 536870912
  /\ Bit(30) = 1073741824
BY DEF Bit

LEMMA BitIsNat ==
  ASSUME NEW k \in 0 .. 30
  PROVE  Bit(k) \in Nat /\ Bit(k) > 0 /\ (k > 0 => Bit(k) > 1)
<1>1. \/ k = 0 \/ k = 1 \/ k = 2 \/ k = 3 \/ k = 4 \/ k = 5 \/ k = 6 \/ k = 7 \/ k = 8
      \/ k = 9 \/ k = 10 \/ k = 11 \/ k = 12 \/ k = 13 \/ k = 14 \/ k = 15 \/ k = 16
      \/ k = 17 \/ k = 18 \/ k = 19 \/ k = 20 \/ k = 21 \/ k = 22 \/ k = 23 \/ k = 24
      \/ k = 25 \/ k = 26 \/ k = 27 \/ k = 28 \/ k = 29 \/ k = 30
  OBVIOUS
<1> QED BY <1>1, PowersOfTwo

\* A level of an image has dimensions; level 15 is 1x1, as are those of 1x1.
LEMMA LevelDims ==
  ASSUME NEW dim \in Dims, NEW k \in 0 .. 30
  PROVE  LevelDim(dim, k) \in Dims /\ (k = 15 \/ dim = <<1, 1>> => LevelDim(dim, k) = <<1, 1>>)
<1>1. Bit(k) \in Nat /\ Bit(k) > 0 /\ (k > 0 => Bit(k) > 1)
  BY BitIsNat
<1>2. ASSUME NEW n \in Sides
      PROVE  Shift(n, k) \in Sides /\ (k = 15 \/ n = 1 => Shift(n, k) = 1)
  <2>1. n \in Nat /\ 0 < n /\ n <= 4096
    BY PowersOfTwo DEF Sides
  <2>2. n \div Bit(k) \in Nat /\ n \div Bit(k) <= n
    BY <1>1, <2>1
  <2>3. k = 15 => n \div Bit(k) = 0 \/ n \div Bit(k) = 1
    BY <2>1, PowersOfTwo
  <2>4. /\ Shift(n, k) \in Nat /\ 0 < Shift(n, k) /\ Shift(n, k) <= 4096
        /\ k = 15 \/ n = 1 => Shift(n, k) = 1
    BY <2>1, <2>2, <2>3 DEF Shift
  <2> QED BY <2>4, PowersOfTwo DEF Sides
<1>3. dim[1] \in Sides /\ dim[2] \in Sides
  BY DEF Dims
<1>4. LevelDim(dim, k) = <<Shift(dim[1], k), Shift(dim[2], k)>>
  BY DEF LevelDim
<1> QED BY <1>2, <1>3, <1>4 DEF Dims

\* 31 - gglClz(max(w, h)) is a number of levels, and 0 only for 1x1.
LEMMA NumLodsOf ==
  ASSUME NEW dim \in Dims
  PROVE  NumLods(dim) \in 0 .. 30 /\ (NumLods(dim) = 0 <=> dim = <<1, 1>>)
<1> DEFINE L == Larger(dim)
           IsLods(n) == Bit(n) <= L /\ L < 2 * Bit(n)
<1>1. L \in Nat /\ 0 < L /\ L <= 4096 /\ (L = 1 => dim = <<1, 1>>)
  <2>1. dim[1] \in Sides /\ dim[2] \in Sides /\ dim = <<dim[1], dim[2]>>
    BY DEF Dims
  <2>2. \A n \in Sides : n \in Nat /\ 0 < n /\ n <= 4096
    BY PowersOfTwo DEF Sides
  <2>3. L \in Nat /\ 0 < L /\ L <= 4096 /\ (L = 1 => dim[1] = 1 /\ dim[2] = 1)
    BY <2>1, <2>2 DEF Larger
  <2> HIDE DEF L
  <2> QED BY <2>1, <2>3
<1>2. dim = <<1, 1>> => L = 1
  BY DEF Larger
<1> HIDE DEF L
<1>3. \E n \in 0 .. 30 : IsLods(n)
  <2>2. \/ IsLods(0) \/ IsLods(1) \/ IsLods(2) \/ IsLods(3) \/ IsLods(4) \/ IsLods(5)
        \/ IsLods(6) \/ IsLods(7) \/ IsLods(8) \/ IsLods(9) \/ IsLods(10) \/ IsLods(11)
        \/ IsLods(12)
    BY <1>1, PowersOfTwo
  <2> HIDE DEF IsLods
  <2> QED BY <2>2
<1>4. NumLods(dim) = CHOOSE n \in 0 .. 30 : IsLods(n)
  BY DEF NumLods, L
<1>5. NumLods(dim) \in 0 .. 30 /\ IsLods(NumLods(dim))
  <2> HIDE DEF IsLods
  <2> QED BY <1>3, <1>4
<1>6. NumLods(dim) = 0 => L = 1
  BY <1>1, <1>5, PowersOfTwo
<1>7. L = 1 => NumLods(dim) = 0
  BY <1>5, BitIsNat
<1> QED BY <1>1, <1>2, <1>5, <1>6, <1>7

\* buildAPyramid ends, and makes no level of a 1x1 image.
LEMMA PyramidTopOf ==
  ASSUME NEW dim \in Dims
  PROVE  PyramidTop(dim) \in 0 .. 30 /\ (dim = <<1, 1>> => PyramidTop(dim) = 0)
<1> DEFINE S == {i \in 0 .. 30 : AndIsOne(LevelDim(dim, i))}
           IsTop(i) == AndIsOne(LevelDim(dim, i)) /\ \A j \in 0 .. i - 1 : ~AndIsOne(LevelDim(dim, j))
<1>1. AndIsOne(<<1, 1>>)
  <2>1. \A k \in 1 .. 15 : 1 \div Bit(k) = 0
    <3> TAKE k \in 1 .. 15
    <3>1. Bit(k) \in Nat /\ Bit(k) > 1
      BY BitIsNat
    <3> QED BY <3>1
  <2>2. 1 % 2 = 1 /\ 0 % 2 = 0
    OBVIOUS
  <2> QED BY <2>1, <2>2 DEF AndIsOne
<1>2. 15 \in S
  BY <1>1, LevelDims
<1>3. PICK i \in S : \A j \in S : i <= j
  BY <1>2, NatMin
<1>4. i \in 0 .. 30 /\ IsTop(i)
  BY <1>3
<1>5. PyramidTop(dim) = CHOOSE n \in 0 .. 30 : IsTop(n)
  BY DEF PyramidTop
<1>6. PyramidTop(dim) \in 0 .. 30 /\ IsTop(PyramidTop(dim))
  <2> HIDE DEF IsTop
  <2> QED BY <1>4, <1>5
<1>7. dim = <<1, 1>> => AndIsOne(LevelDim(dim, 0))
  BY <1>1, LevelDims
<1> HIDE DEF S
<1> QED BY <1>6, <1>7
-----------------------------------------------------------------------------
(* The memory of one texture object.                                       *)

Sizes == Nat \union {Released}
Surf == [data : Blocks \union {Null}, dim : Dims \union {<<0, 0>>}, fmt : Nat]
Texture == [surface : Surf, size : Nat, mips : Seq(Surf), complete : BOOLEAN,
            internalformat : Nat, generate : BOOLEAN, direct : BOOLEAN, param : Params]

\* The blocks the object points to, its own or leaked.
Holds(t) == BaseBlocks(t) \union MipBlocks(t)

\* No two images of an object share a block, and mSize says whether the base
\* image has one.
Sound(t) ==
  /\ t \in Texture
  /\ t.surface.data # Null => t.size # 0 /\ t.surface.dim \in Dims
  /\ \A i \in 1 .. Len(t.mips) : t.mips[i].data # Null =>
       /\ t.mips[i].data # t.surface.data
       /\ \A j \in 1 .. Len(t.mips) : t.mips[j].data = t.mips[i].data => j = i

\* Every image has the memory its dimensions promise, or no dimensions.
Sized(h, t) ==
  /\ t.surface.data # Null => /\ t.size = Bytes(t.surface.dim, t.surface.fmt)
                              /\ h[t.surface.data] = t.size
  /\ t.surface.data = Null => t.mips = <<>> /\ (t.internalformat # 0 => t.surface.dim = <<0, 0>>)
  /\ \A i \in 1 .. Len(t.mips) :
       /\ t.mips[i].data = Null => t.mips[i].dim = <<0, 0>>
       /\ t.mips[i].data # Null => h[t.mips[i].data] = Bytes(t.mips[i].dim, t.mips[i].fmt)

\* A heap and one object, next to the blocks others that other objects hold.
Memory(m, others) ==
  /\ m \in [heap : [Blocks -> Sizes], tex : Texture, ok : BOOLEAN]
  /\ Sound(m.tex)
  /\ others \subseteq Blocks
  /\ \A b \in Holds(m.tex) \union others : m.heap[b] # Released
  /\ Holds(m.tex) \intersect others = {}

\* The blocks the object does not hold.
Loose(h, t) == {b \in Blocks : h[b] # Released} \ Holds(t)
Stray(m) == Loose(m.heap, m.tex)

\* What an allocation may do to them: nothing to the blocks of others, and none
\* is lost.
Reaches(m, n, others) ==
  /\ Memory(n, others)
  /\ \A b \in others : n.heap[b] = m.heap[b]
  /\ Stray(n) \subseteq Stray(m)
  /\ n.tex.direct = m.tex.direct /\ n.tex.param = m.tex.param

LEMMA ReachesTransitive ==
  ASSUME NEW m, NEW n, NEW k, NEW others, Reaches(m, n, others), Reaches(n, k, others)
  PROVE  Reaches(m, k, others)
BY DEF Reaches

LEMMA BytesPositive ==
  ASSUME NEW dim \in Dims, NEW fmt \in Nat \ {0}
  PROVE  Bytes(dim, fmt) \in Nat /\ Bytes(dim, fmt) > 0
<1>1. dim[1] \in Sides /\ dim[2] \in Sides
  BY DEF Dims
<1>2. dim[1] \in Nat /\ dim[1] > 0 /\ dim[2] \in Nat /\ dim[2] > 0
  BY <1>1 DEF Sides
<1>3. ASSUME NEW x \in Nat, x > 0, NEW y \in Nat, y > 0 PROVE x * y \in Nat /\ x * y > 0
  <2>1. x * y \in Nat
    OBVIOUS
  <2>2. x * y > 0
    BY ONLY <1>3, x \in Nat, y \in Nat
  <2> QED BY <2>1, <2>2
<1>4. dim[1] * dim[2] \in Nat /\ dim[1] * dim[2] > 0
  BY <1>2, <1>3
<1> QED BY <1>3, <1>4 DEF Bytes

\* The block of the base image, and those of the levels.
LEMMA HoldsBlocks ==
  ASSUME NEW t, Sound(t)
  PROVE  /\ Holds(t) \subseteq Blocks
         /\ \A b \in Blocks : b \in BaseBlocks(t) <=> t.surface.data = b
         /\ \A b \in Blocks : b \in MipBlocks(t) <=> \E i \in 1 .. Len(t.mips) : t.mips[i].data = b
         /\ BaseBlocks(t) \intersect MipBlocks(t) = {}
<1>1. t.surface \in Surf /\ t.mips \in Seq(Surf)
  BY DEF Sound, Texture
<1>2. \A i \in 1 .. Len(t.mips) : t.mips[i] \in Surf
  BY <1>1
<1>3. t.surface.data \in Blocks \union {Null} /\ \A i \in 1 .. Len(t.mips) : t.mips[i].data \in Blocks \union {Null}
  BY <1>1, <1>2 DEF Surf
<1>4. BaseBlocks(t) = IF t.surface.data # Null THEN {t.surface.data} ELSE {}
  BY DEF BaseBlocks, Sound
<1>5. MipBlocks(t) = {t.mips[i].data : i \in 1 .. Len(t.mips)} \ {Null}
  BY DEF MipBlocks
<1>6. BaseBlocks(t) \intersect MipBlocks(t) = {}
  BY <1>4, <1>5 DEF Sound
<1> QED BY <1>3, <1>4, <1>5, <1>6, NullAssumption DEF Holds

\* An object without levels.
LEMMA HoldsBase ==
  ASSUME NEW t \in Texture, t.mips = <<>>, t.surface.data # Null => t.size # 0 /\ t.surface.dim \in Dims
  PROVE  Sound(t) /\ Holds(t) = IF t.surface.data # Null THEN {t.surface.data} ELSE {}
<1>1. Sound(t)
  BY DEF Sound
<1>2. MipBlocks(t) = {}
  BY DEF MipBlocks
<1> QED BY <1>1, <1>2 DEF Holds, BaseBlocks

LEMMA NewIsSound == NewTexture \in Texture /\ Sound(NewTexture) /\ Holds(NewTexture) = {}
<1>1. NewTexture \in Texture
  <2>1. NoSurface \in Surf
    BY DEF NoSurface, Surf
  <2>2. <<>> \in Seq(Surf)
    OBVIOUS
  <2> QED BY <2>1, <2>2, TexturesAssumption DEF NewTexture, Texture
<1>2. NewTexture.mips = <<>> /\ NewTexture.surface.data = Null
  BY DEF NewTexture, NoSurface
<1> QED BY <1>1, <1>2, HoldsBase

\* reallocate of level 0.
LEMMA ReallocateBase ==
  ASSUME NEW m, NEW others, Memory(m, others), NEW dim \in Dims, NEW fmt \in Nat \ {0}, NEW fail,
         NEW n, n = reallocateBase(m, dim, fmt, fail)
  PROVE  /\ Reaches(m, n, others)
         /\ n.ok => /\ n.tex.mips = <<>> /\ n.tex.complete
                    /\ n.tex.surface.data # Null /\ n.tex.surface.dim = dim /\ n.tex.surface.fmt = fmt
         /\ n.ok /\ Sized(m.heap, m.tex) => Sized(n.heap, n.tex) /\ Fits(n.heap, n.tex.surface)
<1> DEFINE t == m.tex
           size == Bytes(dim, fmt)
           keep == Reuses(t, size)
           heap1 == IF keep THEN m.heap ELSE Free(m.heap, BaseBlocks(t))
           b == IF keep THEN t.surface.data ELSE Fresh(heap1)
<1>1. /\ t \in Texture /\ Sound(t) /\ m.heap \in [Blocks -> Sizes] /\ m.ok \in BOOLEAN
      /\ others \subseteq Blocks
      /\ \A x \in Holds(t) \union others : m.heap[x] # Released
      /\ Holds(t) \intersect others = {}
  BY DEF Memory
<1>2. size \in Nat /\ size > 0
  BY BytesPositive
<1>3. /\ Holds(t) \subseteq Blocks /\ Holds(t) = BaseBlocks(t) \union MipBlocks(t)
      /\ \A x \in Blocks : x \in BaseBlocks(t) <=> t.surface.data = x
      /\ BaseBlocks(t) \intersect MipBlocks(t) = {}
  BY <1>1, HoldsBlocks DEF Holds
<1> HIDE DEF t, size
<1>4. heap1 \in [Blocks -> Sizes]
  BY <1>1 DEF Free, Sizes
<1>5. CASE ~keep /\ (Fails(fail, 0, "data") \/ Full(heap1))
  <2>1. n = [heap |-> heap1, ok |-> FALSE,
             tex |-> [t EXCEPT !.surface.data = Null, !.size = 0, !.complete = FALSE]]
    BY <1>5 DEF reallocateBase, t, size
  <2> DEFINE u == n.tex
  <2>2. /\ u \in Texture /\ u.surface.data = Null /\ u.mips = t.mips /\ u.size = 0
        /\ u.direct = t.direct /\ u.param = t.param
    <3>1. t.surface \in Surf
      BY <1>1 DEF Texture
    <3> DEFINE f == [t.surface EXCEPT !.data = Null]
    <3>2. f \in Surf /\ f.data = Null
      BY <3>1 DEF Surf
    <3> HIDE DEF f
    <3>3. n.tex = [t EXCEPT !.surface = f, !.size = 0, !.complete = FALSE]
      BY <1>1, <2>1 DEF Texture, f
    <3>4. u \in Texture
      <4>1. t \in Texture /\ 0 \in Nat
        BY <1>1
      <4> QED BY ONLY <3>2, <3>3, <4>1 DEF Texture
    <3>5. /\ u.surface = f /\ u.mips = t.mips /\ u.size = 0
          /\ u.direct = t.direct /\ u.param = t.param
      BY ONLY <1>1, <3>3 DEF Texture
    <3> QED BY <3>2, <3>4, <3>5
  <2>3. Sound(u)
    BY <1>1, <2>2 DEF Sound
  <2>4. Holds(u) = MipBlocks(t)
    BY <2>2 DEF Holds, BaseBlocks, MipBlocks
  <2>5. n.heap = heap1 /\ n.ok = FALSE /\ n \in [heap : [Blocks -> Sizes], tex : Texture, ok : BOOLEAN]
    BY <1>4, <2>1, <2>2
  <2> HIDE DEF u
  <2>6. \A x \in Blocks : heap1[x] = IF x \in BaseBlocks(t) THEN Released ELSE m.heap[x]
    BY <1>5 DEF Free
  <2>7. Reaches(m, n, others)
    BY <1>1, <1>3, <2>2, <2>3, <2>4, <2>5, <2>6 DEF Reaches, Memory, Stray, Loose, u, t
  <2> QED BY <2>5, <2>7
<1>6. CASE ~(~keep /\ (Fails(fail, 0, "data") \/ Full(heap1)))
  <2> DEFINE heap2 == IF keep THEN heap1 ELSE Malloc(heap1, b, size)
  <2>1. n = [heap |-> Free(heap2, MipBlocks(t)), ok |-> TRUE,
             tex |-> [t EXCEPT !.surface = Surface(b, dim, fmt), !.size = size,
                               !.mips = <<>>, !.complete = TRUE]]
    BY <1>6 DEF reallocateBase, t, size
  <2>2. b \in Blocks /\ b \notin MipBlocks(t) /\ (keep => b \in BaseBlocks(t)) /\ (~keep => heap1[b] = Released)
    <3>1. CASE keep
      <4>1. t.surface.data \in Blocks
        BY <1>1, <3>1 DEF Reuses, Texture, Surf
      <4> QED BY <1>3, <3>1, <4>1
    <3>2. CASE ~keep
      <4>1. \E x \in Blocks : heap1[x] = Released
        BY <1>6, <3>2 DEF Full
      <4>2. Fresh(heap1) \in Blocks /\ heap1[Fresh(heap1)] = Released
        BY <4>1 DEF Fresh
      <4>3. ASSUME NEW x \in MipBlocks(t) PROVE heap1[x] # Released
        BY <1>1, <1>3, <3>2, <4>3 DEF Free
      <4> QED BY <3>2, <4>2, <4>3
    <3> QED BY <3>1, <3>2
  <2>3. \A x \in Blocks : heap1[x] = IF ~keep /\ x \in BaseBlocks(t) THEN Released ELSE m.heap[x]
    BY DEF Free
  <2>4. b # Null /\ (keep => b = t.surface.data /\ size = t.size)
    BY <2>2, NullAssumption DEF Reuses
  <2> HIDE DEF b, keep, heap1
  <2> DEFINE u == n.tex
  <2>5. Surface(b, dim, fmt) \in Surf
    BY <2>2 DEF Surface, Surf
  <2>6. <<>> \in Seq(Surf)
    OBVIOUS
  <2>7. /\ u \in Texture /\ u.surface = Surface(b, dim, fmt) /\ u.mips = <<>> /\ u.size = size
        /\ u.direct = t.direct /\ u.param = t.param /\ u.complete
    <3>1. n.tex = [t EXCEPT !.surface = Surface(b, dim, fmt), !.size = size, !.mips = <<>>,
                            !.complete = TRUE]
      BY <2>1
    <3>2. u \in Texture
      BY ONLY <1>1, <1>2, <2>5, <2>6, <3>1 DEF Texture
    <3>3. /\ u.surface = Surface(b, dim, fmt) /\ u.mips = <<>> /\ u.size = size
          /\ u.direct = t.direct /\ u.param = t.param /\ u.complete
      BY ONLY <1>1, <3>1 DEF Texture
    <3> QED BY <3>2, <3>3
  <2>8. u.surface.data = b /\ u.surface.dim = dim /\ u.surface.fmt = fmt
    BY <2>7 DEF Surface
  <2>9. Sound(u) /\ Holds(u) = {b}
    BY <1>2, <2>4, <2>7, <2>8, HoldsBase
  <2>10. /\ heap2 \in [Blocks -> Sizes]
         /\ \A x \in Blocks : heap2[x] = IF ~keep /\ x = b THEN size ELSE heap1[x]
    BY <1>2, <1>4, <2>2 DEF Malloc, Sizes
  <2> HIDE DEF heap2
  <2>11. /\ n.ok /\ n.heap \in [Blocks -> Sizes]
         /\ \A x \in Blocks : n.heap[x] = IF x \in MipBlocks(t) THEN Released ELSE heap2[x]
    BY <2>1, <2>10 DEF Free, Sizes
  <2>12. n \in [heap : [Blocks -> Sizes], tex : Texture, ok : BOOLEAN]
    BY <2>1, <2>7, <2>11
  <2>13. n.heap[b] # Released /\ (Sized(m.heap, t) => n.heap[b] = size)
    <3>1. n.heap[b] = IF keep THEN m.heap[b] ELSE size
      BY <2>2, <2>3, <2>10, <2>11
    <3>2. size # Released
      BY <1>2 DEF Released
    <3> QED BY <1>1, <1>3, <2>2, <2>4, <3>1, <3>2 DEF Sized
  <2>14. \A x \in others : x \in Blocks /\ x \notin BaseBlocks(t) /\ x \notin MipBlocks(t)
                           /\ m.heap[x] # Released
    BY <1>1, <1>3
  <2>15. b \notin others /\ \A x \in others : n.heap[x] = m.heap[x]
    <3>1. b \notin others
      BY <2>2, <2>3, <2>14
    <3> QED BY <2>3, <2>10, <2>11, <2>14, <3>1
  <2>16. Stray(n) \subseteq Stray(m)
    <3>1. \A x \in Blocks : x # b /\ n.heap[x] # Released =>
            x \notin MipBlocks(t) /\ m.heap[x] # Released /\ (~keep => x \notin BaseBlocks(t))
      BY <2>3, <2>10, <2>11
    <3>2. keep => \A x \in Blocks : x \in BaseBlocks(t) => x = b
      BY <1>3, <2>4
    <3> QED BY <1>3, <2>9, <3>1, <3>2 DEF Stray, Loose, u, t
  <2>17. Reaches(m, n, others)
    <3>1. Memory(n, others)
      BY <1>1, <2>9, <2>12, <2>13, <2>15 DEF Memory, u
    <3> QED BY <2>7, <2>15, <2>16, <3>1 DEF Reaches, u, t
  <2>18. Sized(m.heap, m.tex) => Sized(n.heap, n.tex) /\ Fits(n.heap, n.tex.surface)
    <3>1. Sized(m.heap, t) => n.heap[u.surface.data] = size /\ size = Bytes(u.surface.dim, u.surface.fmt)
      BY <2>8, <2>13 DEF size
    <3>2. u.surface.data # Null /\ u.mips = <<>> /\ u.size = size
      BY <2>4, <2>7, <2>8
    <3> QED BY <1>2, <3>1, <3>2 DEF Sized, Fits, u, t
  <2> QED BY <2>4, <2>7, <2>8, <2>17, <2>18 DEF u
<1> QED BY <1>5, <1>6

\* The level that holds level lod is one the object has, if it has any.
LEMMA LodIndexOf ==
  ASSUME NEW t \in Texture, NEW lod \in Nat \ {0}
  PROVE  /\ t.mips \in Seq(Surf) /\ Len(t.mips) \in Nat
         /\ t.mips = <<>> => LodIndex(t, lod) = 0
         /\ t.mips # <<>> => LodIndex(t, lod) \in 1 .. Len(t.mips)
<1>1. t.mips \in Seq(Surf) /\ Len(t.mips) \in Nat
  BY DEF Texture
<1>2. t.mips # <<>> => Len(t.mips) > 0
  BY <1>1
<1> QED BY <1>1, <1>2 DEF LodIndex

\* editMip changes the base image or one level.
LEMMA EditMip ==
  ASSUME NEW t \in Texture, NEW lod \in Nat \ {0}, NEW s \in Surf, NEW e, e = editMip(t, lod, s)
  PROVE  /\ e \in Texture /\ e.size = t.size /\ e.direct = t.direct /\ e.param = t.param
         /\ e.internalformat = t.internalformat /\ e.generate = t.generate
         /\ Len(e.mips) = Len(t.mips)
         /\ t.mips = <<>> => e.surface = s /\ e.mips = <<>>
         /\ t.mips # <<>> =>
              /\ e.surface = t.surface /\ e.mips # <<>>
              /\ \A i \in 1 .. Len(t.mips) : e.mips[i] = IF i = LodIndex(t, lod) THEN s ELSE t.mips[i]
<1>1. /\ t.mips \in Seq(Surf) /\ Len(t.mips) \in Nat
      /\ t.mips = <<>> => LodIndex(t, lod) = 0
      /\ t.mips # <<>> => LodIndex(t, lod) \in 1 .. Len(t.mips)
  BY LodIndexOf
<1>2. CASE t.mips = <<>>
  <2>1. e = [t EXCEPT !.surface = s]
    BY <1>1, <1>2 DEF editMip
  <2>2. e \in Texture
    BY ONLY <2>1, t \in Texture, s \in Surf DEF Texture
  <2>3. /\ e.size = t.size /\ e.direct = t.direct /\ e.param = t.param /\ e.mips = t.mips
        /\ e.internalformat = t.internalformat /\ e.generate = t.generate /\ e.surface = s
    BY ONLY <2>1, t \in Texture DEF Texture
  <2> QED BY <1>2, <2>2, <2>3
<1>3. CASE t.mips # <<>>
  <2> DEFINE k == LodIndex(t, lod)
             ms == [t.mips EXCEPT ![k] = s]
  <2>1. k \in 1 .. Len(t.mips) /\ k # 0
    BY <1>1, <1>3
  <2> HIDE DEF k
  <2>2. e = [t EXCEPT !.mips = ms]
    <3>1. e = [t EXCEPT !.mips[k] = s]
      BY <2>1 DEF editMip, k
    <3> QED BY ONLY <3>1, t \in Texture DEF Texture
  <2>3. /\ ms \in Seq(Surf) /\ Len(ms) = Len(t.mips)
        /\ \A i \in 1 .. Len(t.mips) : ms[i] = IF i = k THEN s ELSE t.mips[i]
    BY <1>1, <2>1
  <2>4. ms # <<>>
    BY <1>1, <1>3, <2>3
  <2> HIDE DEF ms
  <2>5. e \in Texture
    BY ONLY <2>2, <2>3, t \in Texture DEF Texture
  <2>6. /\ e.size = t.size /\ e.direct = t.direct /\ e.param = t.param /\ e.mips = ms
        /\ e.internalformat = t.internalformat /\ e.generate = t.generate /\ e.surface = t.surface
    BY ONLY <2>2, t \in Texture DEF Texture
  <2> QED BY <1>3, <2>3, <2>4, <2>5, <2>6 DEF k
<1> QED BY <1>2, <1>3

\* What makes the completeness flag up to date.
LEMMA SetComplete ==
  ASSUME NEW t \in Texture, NEW c \in BOOLEAN, NEW e, e = [t EXCEPT !.complete = c]
  PROVE  /\ e \in Texture /\ e.surface = t.surface /\ e.size = t.size /\ e.mips = t.mips
         /\ e.internalformat = t.internalformat /\ e.generate = t.generate
         /\ e.direct = t.direct /\ e.param = t.param
<1>1. e \in Texture
  BY ONLY e = [t EXCEPT !.complete = c], t \in Texture, c \in BOOLEAN DEF Texture
<1>2. /\ e.surface = t.surface /\ e.size = t.size /\ e.mips = t.mips
      /\ e.internalformat = t.internalformat /\ e.generate = t.generate
      /\ e.direct = t.direct /\ e.param = t.param
  BY ONLY e = [t EXCEPT !.complete = c], t \in Texture DEF Texture
<1> QED BY <1>1, <1>2

\* Room for levels changes nothing but their number.
LEMMA AllocateMipmaps ==
  ASSUME NEW m, NEW others, Memory(m, others), NEW noArray \in BOOLEAN,
         NEW n, n = allocateMipmaps(m, noArray)
  PROVE  /\ Memory(n, others) /\ n.heap = m.heap /\ Holds(n.tex) = Holds(m.tex)
         /\ n.tex.surface = m.tex.surface /\ n.tex.size = m.tex.size
         /\ n.tex.internalformat = m.tex.internalformat /\ n.tex.generate = m.tex.generate
         /\ n.tex.direct = m.tex.direct /\ n.tex.param = m.tex.param
         /\ n.ok /\ n.tex.mips = <<>> =>
              m.tex.mips = <<>> /\ m.tex.surface.data # Null /\ NumLods(m.tex.surface.dim) = 0
         /\ n.tex.mips # <<>> => m.tex.mips # <<>> \/ m.tex.surface.data # Null
         /\ Sized(m.heap, m.tex) => Sized(n.heap, n.tex)
<1> DEFINE t == m.tex
           k == NumLods(t.surface.dim)
<1>1. m \in [heap : [Blocks -> Sizes], tex : Texture, ok : BOOLEAN] /\ Sound(t) /\ t \in Texture
  BY DEF Memory, Sound
<1>2. CASE t.mips # <<>>
  BY <1>2 DEF allocateMipmaps
<1>3. CASE t.mips = <<>> /\ (t.surface.data = Null \/ (k > 0 /\ noArray))
  <2>1. n = [m EXCEPT !.ok = FALSE]
    BY <1>3 DEF allocateMipmaps
  <2>2. /\ n \in [heap : [Blocks -> Sizes], tex : Texture, ok : BOOLEAN]
        /\ n.heap = m.heap /\ n.tex = m.tex /\ n.ok = FALSE
    BY ONLY <1>1, <2>1
  <2> QED BY <1>3, <2>2 DEF Memory
<1>4. CASE t.mips = <<>> /\ ~(t.surface.data = Null \/ (k > 0 /\ noArray))
  <2> DEFINE ms == [i \in 1 .. k |-> NoSurface]
  <2>1. k \in 0 .. 30
    BY <1>1, <1>4, NumLodsOf DEF Sound
  <2>2. NoSurface \in Surf /\ NoSurface.data = Null /\ NoSurface.dim = <<0, 0>>
    BY DEF NoSurface, Surf
  <2> HIDE DEF k
  <2>3. /\ ms \in Seq(Surf) /\ Len(ms) = k /\ (ms = <<>> <=> k = 0)
        /\ \A i \in 1 .. Len(ms) : ms[i] = NoSurface
    BY <2>1, <2>2
  <2>4. n = [m EXCEPT !.tex.mips = ms]
    BY <1>4 DEF allocateMipmaps, k
  <2> HIDE DEF ms
  <2> DEFINE u == [t EXCEPT !.mips = ms]
  <2>5. /\ u.surface = t.surface /\ u.size = t.size /\ u.direct = t.direct /\ u.param = t.param
        /\ u.internalformat = t.internalformat /\ u.generate = t.generate /\ u.mips = ms
    BY ONLY <1>1 DEF Texture
  <2>6. u \in Texture
    BY ONLY <1>1, <2>3 DEF Texture
  <2>7. n = [m EXCEPT !.tex = u]
    BY ONLY <1>1, <2>4
  <2> HIDE DEF u
  <2>8. /\ n \in [heap : [Blocks -> Sizes], tex : Texture, ok : BOOLEAN]
        /\ n.heap = m.heap /\ n.tex = u /\ n.ok = m.ok
    BY ONLY <1>1, <2>6, <2>7
  <2>9. Sound(u)
    BY <1>1, <2>2, <2>3, <2>5, <2>6 DEF Sound
  <2>10. Holds(u) = Holds(t)
    <3>1. MipBlocks(u) = {} /\ MipBlocks(t) = {}
      BY <1>4, <2>2, <2>3, <2>5 DEF MipBlocks
    <3>2. BaseBlocks(u) = BaseBlocks(t)
      BY <2>5 DEF BaseBlocks
    <3> QED BY <3>1, <3>2 DEF Holds
  <2>11. Memory(n, others)
    BY <2>8, <2>9, <2>10 DEF Memory
  <2>12. Sized(m.heap, t) => Sized(m.heap, u)
    BY <1>4, <2>2, <2>3, <2>5 DEF Sized
  <2> QED BY <1>4, <2>3, <2>5, <2>8, <2>10, <2>11, <2>12 DEF k
<1> QED BY <1>2, <1>3, <1>4

\* reallocate of a level above 0: it replaces the image of one level, or the base
\* image where the object is 1x1.
LEMMA ReallocateMip ==
  ASSUME NEW m, NEW others, Memory(m, others), m.ok, NEW level \in Nat \ {0},
         NEW dim \in Dims, NEW fmt \in Nat, NEW fail,
         NEW n, n = reallocateMip(m, level, dim, fmt, fail)
  PROVE  /\ Reaches(m, n, others)
         /\ n.tex.internalformat = m.tex.internalformat /\ n.tex.generate = m.tex.generate
         /\ \/ n.tex.surface = m.tex.surface
            \/ /\ m.tex.surface.data # Null /\ NumLods(m.tex.surface.dim) = 0
               /\ n.tex.mips = <<>>
         /\ n.ok => \/ n.tex.mips # <<>> /\ (m.tex.mips # <<>> \/ m.tex.surface.data # Null)
                    \/ m.tex.surface.data # Null /\ NumLods(m.tex.surface.dim) = 0
         /\ n.ok /\ n.tex.mips # <<>> /\ Sized(m.heap, m.tex) => Sized(n.heap, n.tex)
<1> DEFINE m1 == allocateMipmaps(m, Fails(fail, level, "array"))
           heap1 == Free(m1.heap, {mip(m1.tex, level).data})
           b == Fresh(heap1)
           k == LodIndex(m1.tex, level)
<1>1. /\ Memory(m1, others) /\ m1.heap = m.heap /\ Holds(m1.tex) = Holds(m.tex)
      /\ m1.tex.surface = m.tex.surface /\ m1.tex.size = m.tex.size
      /\ m1.tex.internalformat = m.tex.internalformat /\ m1.tex.generate = m.tex.generate
      /\ m1.tex.direct = m.tex.direct /\ m1.tex.param = m.tex.param
      /\ m1.ok /\ m1.tex.mips = <<>> =>
           m.tex.mips = <<>> /\ m.tex.surface.data # Null /\ NumLods(m.tex.surface.dim) = 0
      /\ m1.tex.mips # <<>> => m.tex.mips # <<>> \/ m.tex.surface.data # Null
      /\ Sized(m.heap, m.tex) => Sized(m1.heap, m1.tex)
  <2>1. Fails(fail, level, "array") \in BOOLEAN
    BY DEF Fails
  <2> QED BY <2>1, AllocateMipmaps
<1>2. n = IF ~m1.ok THEN m1
          ELSE IF Fails(fail, level, "data") \/ Full(heap1)
          THEN [heap |-> heap1, ok |-> FALSE,
                tex |-> [editMip(m1.tex, level, NoSurface) EXCEPT !.complete = FALSE]]
          ELSE [heap |-> Malloc(heap1, b, Bytes(dim, fmt)), ok |-> TRUE,
                tex |-> Checked(editMip(m1.tex, level, Surface(b, dim, fmt)))]
  BY DEF reallocateMip
<1> HIDE DEF m1
<1>3. /\ m1.heap \in [Blocks -> Sizes] /\ m1.tex \in Texture /\ Sound(m1.tex)
      /\ others \subseteq Blocks /\ Holds(m1.tex) \intersect others = {}
      /\ \A x \in Holds(m1.tex) \union others : m1.heap[x] # Released
  BY <1>1 DEF Memory
<1>4. CASE ~m1.ok
  <2>1. n = m1
    BY <1>2, <1>4
  <2>2. Stray(n) = Stray(m)
    BY <1>1, <2>1 DEF Stray, Loose
  <2> QED BY <1>1, <1>4, <2>1, <2>2 DEF Reaches
<1>5. CASE m1.ok
  <2> DEFINE t == m1.tex
             old == mip(t, level).data
  <2>1. old \in Blocks \union {Null} /\ (old # Null => old \in Holds(t))
    <3>1. /\ t.mips \in Seq(Surf) /\ Len(t.mips) \in Nat
          /\ t.mips = <<>> => LodIndex(t, level) = 0
          /\ t.mips # <<>> => LodIndex(t, level) \in 1 .. Len(t.mips)
      BY <1>3, LodIndexOf
    <3>2. mip(t, level) = t.surface \/ \E i \in 1 .. Len(t.mips) : mip(t, level) = t.mips[i]
      BY <3>1 DEF mip
    <3>3. t.surface \in Surf /\ \A i \in 1 .. Len(t.mips) : t.mips[i] \in Surf
      BY <1>3, <3>1 DEF Texture
    <3>4. mip(t, level) \in Surf
      BY <3>2, <3>3
    <3>5. old \in Blocks \union {Null}
      BY <3>4 DEF Surf
    <3>6. old # Null => old \in Holds(t)
      BY <1>3, <3>2, <3>5, HoldsBlocks DEF Holds
    <3> QED BY <3>5, <3>6
  <2>2. heap1 \in [Blocks -> Sizes] /\ \A x \in Blocks : heap1[x] = IF x = old THEN Released ELSE m1.heap[x]
    BY <1>3 DEF Free, Sizes
  <2>3. /\ LodIndex(t, level) = k
        /\ t.mips # <<>> => k \in 1 .. Len(t.mips) /\ old = t.mips[k].data
        /\ t.mips = <<>> => k = 0 /\ old = t.surface.data
    BY <1>3, LodIndexOf DEF mip
  <2> HIDE DEF t, old, k, heap1
  <2>4. ASSUME NEW s \in Surf, NEW c \in BOOLEAN, NEW e, e = [editMip(t, level, s) EXCEPT !.complete = c],
               s.data # Null => /\ s.data \in Blocks /\ heap1[s.data] = Released
                                /\ s.dim \in Dims
        PROVE  /\ Sound(e) /\ e \in Texture /\ e.direct = t.direct /\ e.param = t.param
               /\ e.internalformat = t.internalformat /\ e.generate = t.generate
               /\ t.mips # <<>> => e.surface = t.surface /\ e.mips # <<>>
               /\ t.mips = <<>> => e.mips = <<>>
               /\ Holds(e) = (Holds(t) \ {old}) \union ({s.data} \ {Null})
               /\ \A h : /\ Sized(m1.heap, t) /\ t.mips # <<>> /\ s.data # Null
                         /\ h[s.data] = Bytes(s.dim, s.fmt)
                         /\ \A x \in Holds(t) \ {old} : h[x] = m1.heap[x]
                         => Sized(h, e)
    <3> DEFINE f == editMip(t, level, s)
    <3>1. /\ f \in Texture /\ f.size = t.size /\ f.direct = t.direct /\ f.param = t.param
          /\ f.internalformat = t.internalformat /\ f.generate = t.generate
          /\ Len(f.mips) = Len(t.mips)
          /\ t.mips = <<>> => f.surface = s /\ f.mips = <<>>
          /\ t.mips # <<>> =>
               /\ f.surface = t.surface /\ f.mips # <<>>
               /\ \A i \in 1 .. Len(t.mips) : f.mips[i] = IF i = k THEN s ELSE t.mips[i]
      <4>1. t \in Texture /\ f = editMip(t, level, s)
        BY <1>3 DEF t
      <4> HIDE DEF f
      <4>2. /\ f \in Texture /\ f.size = t.size /\ f.direct = t.direct /\ f.param = t.param
            /\ f.internalformat = t.internalformat /\ f.generate = t.generate
            /\ Len(f.mips) = Len(t.mips)
            /\ t.mips = <<>> => f.surface = s /\ f.mips = <<>>
            /\ t.mips # <<>> =>
                 /\ f.surface = t.surface /\ f.mips # <<>>
                 /\ \A i \in 1 .. Len(t.mips) : f.mips[i] = IF i = LodIndex(t, level) THEN s ELSE t.mips[i]
        BY <4>1, EditMip
      <4> QED BY <2>3, <4>2
    <3> HIDE DEF f
    <3>2. /\ e \in Texture /\ e.surface = f.surface /\ e.size = f.size /\ e.mips = f.mips
          /\ e.internalformat = f.internalformat /\ e.generate = f.generate
          /\ e.direct = f.direct /\ e.param = f.param
      BY <2>4, <3>1, SetComplete DEF f
    <3>3. /\ Sound(t) /\ Len(t.mips) \in Nat
          /\ t.surface.data # Null => t.size # 0 /\ t.surface.dim \in Dims
          /\ \A i \in 1 .. Len(t.mips) : t.mips[i].data # Null =>
               /\ t.mips[i].data # t.surface.data
               /\ \A j \in 1 .. Len(t.mips) : t.mips[j].data = t.mips[i].data => j = i
      <4>1. Sound(t) /\ t \in Texture
        BY <1>3 DEF t
      <4>2. Len(t.mips) \in Nat
        BY <4>1, LodIndexOf
      <4> QED BY <4>1, <4>2 DEF Sound
    <3>4. s.data # Null => s.data \notin Holds(t) \/ s.data = old
      BY <1>3, <2>2, <2>4 DEF t
    <3>5. /\ Holds(t) \subseteq Blocks
          /\ \A x \in Blocks : x \in BaseBlocks(t) <=> t.surface.data = x
          /\ \A x \in Blocks : x \in MipBlocks(t) <=> \E i \in 1 .. Len(t.mips) : t.mips[i].data = x
          /\ Holds(t) = BaseBlocks(t) \union MipBlocks(t)
      BY <3>3, HoldsBlocks DEF Holds
    <3>6. s.data \in Blocks \union {Null} /\ t.surface.data \in Blocks \union {Null}
          /\ \A i \in 1 .. Len(t.mips) : t.mips[i].data \in Blocks \union {Null}
      <4>1. t \in Texture /\ t.mips \in Seq(Surf)
        BY <1>3, LodIndexOf DEF t
      <4>2. t.surface \in Surf /\ \A i \in 1 .. Len(t.mips) : t.mips[i] \in Surf
        BY <4>1 DEF Texture
      <4> QED BY <4>2 DEF Surf
    <3>7. CASE t.mips = <<>>
      <4>1. t.surface.data # Null
        BY <1>1, <1>5, <3>7 DEF t
      <4>2. Sound(e) /\ Holds(e) = IF s.data # Null THEN {s.data} ELSE {}
        <5>1. e.mips = <<>> /\ e.surface = s /\ e.size # 0
          BY <3>1, <3>2, <3>3, <3>7, <4>1
        <5> QED BY <2>4, <3>2, <5>1, HoldsBase
      <4>3. Holds(t) = {t.surface.data} /\ old = t.surface.data
        <5>1. MipBlocks(t) = {}
          BY <3>7 DEF MipBlocks
        <5> QED BY <2>3, <3>3, <3>5, <3>6, <3>7, <4>1, <5>1
      <4> QED BY <3>1, <3>2, <3>7, <4>2, <4>3
    <3>8. CASE t.mips # <<>>
      <4>1. /\ e.surface = t.surface /\ e.size = t.size /\ Len(e.mips) = Len(t.mips) /\ e.mips # <<>>
            /\ \A i \in 1 .. Len(t.mips) : e.mips[i] = IF i = k THEN s ELSE t.mips[i]
            /\ k \in 1 .. Len(t.mips) /\ old = t.mips[k].data
        BY <2>3, <3>1, <3>2, <3>8
      <4>2. ASSUME NEW i \in 1 .. Len(t.mips), s.data # Null, i # k
            PROVE  t.mips[i].data # s.data
        BY <3>3, <3>4, <3>5, <3>6, <4>1, <4>2
      <4>3. s.data # Null => s.data # t.surface.data
        <5>1. t.surface.data # Null => t.surface.data \in Holds(t) /\ t.surface.data # old
          BY <3>3, <3>5, <3>6, <4>1
        <5> QED BY <3>4, <5>1
      <4>4. Sound(e)
        <5>1. ASSUME NEW i \in 1 .. Len(e.mips), e.mips[i].data # Null
              PROVE  e.mips[i].data # e.surface.data
          BY <3>3, <4>1, <4>3, <5>1
        <5>2. ASSUME NEW i \in 1 .. Len(e.mips), e.mips[i].data # Null,
                     NEW j \in 1 .. Len(e.mips), e.mips[j].data = e.mips[i].data
              PROVE  j = i
          <6>1. CASE i = k
            BY <4>1, <4>2, <5>2, <6>1
          <6>2. CASE j = k
            BY <4>1, <4>2, <5>2, <6>2
          <6>3. CASE i # k /\ j # k
            BY <3>3, <4>1, <5>2, <6>3
          <6> QED BY <6>1, <6>2, <6>3
        <5> QED BY <3>2, <3>3, <4>1, <5>1, <5>2 DEF Sound
      <4>5. Holds(e) = (Holds(t) \ {old}) \union ({s.data} \ {Null})
        <5>1. /\ Holds(e) \subseteq Blocks
              /\ \A x \in Blocks : x \in BaseBlocks(e) <=> t.surface.data = x
              /\ \A x \in Blocks : x \in MipBlocks(e) <=> \E i \in 1 .. Len(t.mips) : e.mips[i].data = x
              /\ Holds(e) = BaseBlocks(e) \union MipBlocks(e)
          BY <4>1, <4>4, HoldsBlocks DEF Holds
        <5>2. ASSUME NEW x \in Blocks
              PROVE  (\E i \in 1 .. Len(t.mips) : e.mips[i].data = x)
                     <=> x = s.data \/ (x # old /\ \E i \in 1 .. Len(t.mips) : t.mips[i].data = x)
          <6>1. ASSUME NEW i \in 1 .. Len(t.mips), e.mips[i].data = x, x # s.data
                PROVE  x # old /\ t.mips[i].data = x
            <7>1. i # k /\ t.mips[i].data = x
              BY <4>1, <6>1
            <7>2. x # Null
              BY NullAssumption
            <7> QED BY <3>3, <4>1, <7>1, <7>2
          <6>2. ASSUME NEW i \in 1 .. Len(t.mips), t.mips[i].data = x, x # old
                PROVE  e.mips[i].data = x
            BY <4>1, <6>2
          <6>3. x = s.data => e.mips[k].data = x
            BY <4>1
          <6> QED BY <4>1, <6>1, <6>2, <6>3
        <5>3. t.surface.data # Null => t.surface.data # old
          BY <3>3, <4>1
        <5>4. ASSUME NEW x \in Blocks
              PROVE  x \in Holds(e) <=> x = s.data \/ (x # old /\ x \in Holds(t))
          BY <3>5, <5>1, <5>2, <5>3, NullAssumption
        <5> QED BY <3>5, <3>6, <5>1, <5>4, NullAssumption
      <4>6. ASSUME NEW h, Sized(m1.heap, t), s.data # Null, h[s.data] = Bytes(s.dim, s.fmt),
                   \A x \in Holds(t) \ {old} : h[x] = m1.heap[x]
            PROVE  Sized(h, e)
        <5>1. /\ t.surface.data # Null
              /\ t.size = Bytes(t.surface.dim, t.surface.fmt)
              /\ m1.heap[t.surface.data] = t.size
              /\ \A i \in 1 .. Len(t.mips) :
                   /\ t.mips[i].data = Null => t.mips[i].dim = <<0, 0>>
                   /\ t.mips[i].data # Null => m1.heap[t.mips[i].data] = Bytes(t.mips[i].dim, t.mips[i].fmt)
          BY <3>8, <4>6 DEF Sized
        <5>2. h[t.surface.data] = t.size
          BY <3>3, <3>5, <3>6, <4>1, <4>6, <5>1
        <5>3. ASSUME NEW i \in 1 .. Len(t.mips), i # k, t.mips[i].data # Null
              PROVE  h[t.mips[i].data] = m1.heap[t.mips[i].data]
          BY <3>3, <3>5, <3>6, <4>1, <4>6, <5>3
        <5>4. ASSUME NEW i \in 1 .. Len(e.mips)
              PROVE  /\ e.mips[i].data = Null => e.mips[i].dim = <<0, 0>>
                     /\ e.mips[i].data # Null => h[e.mips[i].data] = Bytes(e.mips[i].dim, e.mips[i].fmt)
          BY <4>1, <4>6, <5>1, <5>3
        <5> QED BY <4>1, <5>1, <5>2, <5>4 DEF Sized
      <4> QED BY <3>1, <3>2, <3>8, <4>1, <4>4, <4>5, <4>6
    <3> QED BY <3>7, <3>8
  <2>5. CASE Fails(fail, level, "data") \/ Full(heap1)
    <3> DEFINE e == [editMip(t, level, NoSurface) EXCEPT !.complete = FALSE]
    <3>1. n = [heap |-> heap1, ok |-> FALSE, tex |-> e]
      BY <1>2, <1>5, <2>5 DEF t
    <3>2. NoSurface \in Surf /\ NoSurface.data = Null
      BY DEF NoSurface, Surf
    <3>3. /\ Sound(e) /\ e \in Texture /\ e.direct = t.direct /\ e.param = t.param
          /\ e.internalformat = t.internalformat /\ e.generate = t.generate
          /\ t.mips # <<>> => e.surface = t.surface /\ e.mips # <<>>
          /\ t.mips = <<>> => e.mips = <<>>
          /\ Holds(e) = Holds(t) \ {old}
      BY <2>4, <3>2, ZenonT(60)
    <3> HIDE DEF e
    <3>4. n.heap = heap1 /\ n.tex = e /\ ~n.ok /\ n \in [heap : [Blocks -> Sizes], tex : Texture, ok : BOOLEAN]
      BY <2>2, <3>1, <3>3
    <3>5. Memory(n, others) /\ \A x \in others : n.heap[x] = m.heap[x]
      <4>1. old \notin others
        BY <1>3, <2>1, NullAssumption DEF t
      <4>2. \A x \in Holds(e) : x \in Blocks /\ x # old /\ x \in Holds(t)
        BY <1>3, <3>3, HoldsBlocks DEF t
      <4> QED BY <1>1, <1>3, <2>2, <3>3, <3>4, <4>1, <4>2 DEF Memory, t
    <3>6. Stray(n) \subseteq Stray(m)
      BY <1>1, <2>2, <3>3, <3>4 DEF Stray, Loose, t
    <3>7. Reaches(m, n, others)
      BY <1>1, <3>3, <3>4, <3>5, <3>6 DEF Reaches, t
    <3> QED BY <1>1, <1>5, <3>3, <3>4, <3>7 DEF t
  <2>6. CASE ~(Fails(fail, level, "data") \/ Full(heap1))
    <3> DEFINE s == Surface(b, dim, fmt)
               c == IsPyramid(editMip(t, level, s))
               e == [editMip(t, level, s) EXCEPT !.complete = c]
               size == Bytes(dim, fmt)
    <3>1. n = [heap |-> Malloc(heap1, b, size), ok |-> TRUE, tex |-> e]
      BY <1>2, <1>5, <2>6 DEF t, Checked
    <3>2. b \in Blocks /\ heap1[b] = Released
      <4>1. \E x \in Blocks : heap1[x] = Released
        BY <2>6 DEF Full
      <4> QED BY <4>1 DEF Fresh
    <3>3. size \in Nat
      <4>1. dim[1] \in Nat /\ dim[2] \in Nat
        BY DEF Dims, Sides
      <4> QED BY <4>1 DEF Bytes
    <3> HIDE DEF b
    <3>4. s \in Surf /\ s.data = b /\ s.dim = dim /\ s.fmt = fmt /\ s.data # Null
      BY <3>2, NullAssumption DEF Surface, Surf
    <3>5. c \in BOOLEAN
      BY DEF IsPyramid
    <3> HIDE DEF s, c
    <3>6. /\ Sound(e) /\ e \in Texture /\ e.direct = t.direct /\ e.param = t.param
          /\ e.internalformat = t.internalformat /\ e.generate = t.generate
          /\ t.mips # <<>> => e.surface = t.surface /\ e.mips # <<>>
          /\ t.mips = <<>> => e.mips = <<>>
          /\ Holds(e) = (Holds(t) \ {old}) \union ({s.data} \ {Null})
          /\ \A h : /\ Sized(m1.heap, t) /\ t.mips # <<>> /\ s.data # Null
                    /\ h[s.data] = Bytes(s.dim, s.fmt)
                    /\ \A x \in Holds(t) \ {old} : h[x] = m1.heap[x]
                    => Sized(h, e)
      BY <2>4, <3>2, <3>4, <3>5
    <3>7. Holds(e) = (Holds(t) \ {old}) \union {b}
      BY <3>4, <3>6
    <3> HIDE DEF e
    <3>8. size \in Sizes /\ size # Released
      BY <3>3 DEF Sizes, Released
    <3>9. /\ Malloc(heap1, b, size) \in [Blocks -> Sizes]
          /\ \A x \in Blocks : Malloc(heap1, b, size)[x] = IF x = b THEN size ELSE heap1[x]
      <4> HIDE DEF size
      <4> QED BY <2>2, <3>2, <3>8 DEF Malloc
    <3>10. /\ n.heap = Malloc(heap1, b, size) /\ n.tex = e /\ n.ok
           /\ n \in [heap : [Blocks -> Sizes], tex : Texture, ok : BOOLEAN]
      BY <3>1, <3>6, <3>9
    <3> HIDE DEF size
    <3>11. old \notin others /\ b \notin others
      <4>1. old \notin others
        BY <1>3, <2>1, NullAssumption DEF t
      <4> QED BY <1>3, <2>2, <3>2, <4>1
    <3>12. \A x \in Holds(t) : x \in Blocks
      BY <1>3, HoldsBlocks DEF t
    <3>13. Memory(n, others) /\ \A x \in others : n.heap[x] = m.heap[x]
      <4>1. \A x \in others : n.heap[x] = m1.heap[x]
        BY <1>3, <2>2, <3>9, <3>10, <3>11
      <4>2. \A x \in Holds(e) : n.heap[x] # Released
        BY <1>3, <2>2, <3>2, <3>7, <3>8, <3>9, <3>10, <3>12, ZenonT(60) DEF t
      <4>3. Holds(e) \intersect others = {}
        BY <1>3, <3>7, <3>11 DEF t
      <4>4. \A x \in Holds(e) \union others : n.heap[x] # Released
        BY <1>3, <4>1, <4>2
      <4> QED BY <1>1, <1>3, <3>6, <3>10, <4>1, <4>3, <4>4 DEF Memory
    <3>14. Stray(n) \subseteq Stray(m)
      BY <1>1, <2>2, <3>7, <3>9, <3>10 DEF Stray, Loose, t
    <3>15. Reaches(m, n, others)
      BY <1>1, <3>6, <3>10, <3>13, <3>14 DEF Reaches, t
    <3>16. n.tex.mips # <<>> /\ Sized(m.heap, m.tex) => Sized(n.heap, n.tex)
      <4>1. Sized(m.heap, m.tex) => Sized(m1.heap, t)
        BY <1>1 DEF t
      <4>2. n.heap[s.data] = Bytes(s.dim, s.fmt)
        BY <3>2, <3>4, <3>9, <3>10 DEF size
      <4>3. \A x \in Holds(t) \ {old} : n.heap[x] = m1.heap[x]
        <5>1. b \notin Holds(t) \ {old}
          BY <1>3, <2>2, <3>2 DEF t
        <5> QED BY <2>2, <3>9, <3>10, <3>12, <5>1
      <4> QED BY <3>4, <3>6, <3>10, <4>1, <4>2, <4>3
    <3> QED BY <1>1, <1>5, <3>6, <3>10, <3>15, <3>16 DEF t
  <2> QED BY <2>5, <2>6
<1> QED BY <1>4, <1>5

\* One level after the other.
LEMMA LevelsOf ==
  ASSUME NEW m, NEW dim, NEW fmt, NEW top \in Nat, NEW fail
  PROVE  \E f : /\ Levels(m, dim, fmt, top, fail) = f[top] /\ f[0] = m
                /\ \A i \in 1 .. top :
                     f[i] = IF ~f[i - 1].ok THEN f[i - 1]
                            ELSE reallocateMip(f[i - 1], i, LevelDim(dim, i), fmt, fail)
<1> DEFINE Step(x, i) == IF ~x.ok THEN x ELSE reallocateMip(x, i, LevelDim(dim, i), fmt, fail)
           IsUp(g, k) == g = [i \in 0 .. k |-> IF i = 0 THEN m ELSE Step(g[i - 1], i)]
           Missing == {k \in Nat : ~\E g : IsUp(g, k)}
<1>1. Levels(m, dim, fmt, top, fail) = (CHOOSE g : IsUp(g, top))[top]
  BY DEF Levels
<1> HIDE DEF Step
<1>2. Missing = {}
  <2> SUFFICES ASSUME Missing # {} PROVE FALSE
    OBVIOUS
  <2>1. PICK k \in Missing : \A j \in Missing : k <= j
    <3>1. Missing \subseteq Nat
      OBVIOUS
    <3> HIDE DEF Missing
    <3> QED BY <3>1, NatMin
  <2>2. k \in Nat /\ ~\E g : IsUp(g, k)
    BY <2>1
  <2>3. k # 0
    <3> DEFINE g == [i \in 0 .. 0 |-> m]
    <3>1. IsUp(g, 0)
      OBVIOUS
    <3> HIDE DEF IsUp
    <3> QED BY <2>2, <3>1
  <2>4. PICK g : IsUp(g, k - 1)
    <3>1. k - 1 \in Nat /\ ~(k <= k - 1)
      BY <2>2, <2>3
    <3>2. k - 1 \notin Missing
      BY <2>1, <3>1
    <3> QED BY <3>1, <3>2
  <2> DEFINE h == [i \in 0 .. k |-> IF i = k THEN Step(g[k - 1], k) ELSE g[i]]
  <2>5. \A i \in 0 .. k : i # 0 => h[i - 1] = g[i - 1]
    BY <2>2
  <2>6. \A i \in 0 .. k - 1 : g[i] = IF i = 0 THEN m ELSE Step(g[i - 1], i)
    BY <2>4
  <2>7. \A i \in 0 .. k : h[i] = IF i = 0 THEN m ELSE Step(h[i - 1], i)
    <3> TAKE i \in 0 .. k
    <3>1. CASE i = k
      BY <2>2, <2>3, <2>5, <3>1
    <3>2. CASE i # k
      <4>1. i \in 0 .. k - 1 /\ h[i] = g[i]
        BY <2>2, <3>2
      <4> HIDE DEF h
      <4> QED BY <2>5, <2>6, <4>1
    <3> QED BY <3>1, <3>2
  <2>8. h = [i \in 0 .. k |-> h[i]]
    OBVIOUS
  <2> HIDE DEF h
  <2>9. IsUp(h, k)
    BY <2>7, <2>8
  <2> HIDE DEF IsUp
  <2> QED BY <2>2, <2>9
<1>3. \E g : IsUp(g, top)
  <2> HIDE DEF IsUp
  <2> QED BY <1>2
<1> DEFINE f == CHOOSE g : IsUp(g, top)
<1>4. IsUp(f, top)
  <2> HIDE DEF IsUp
  <2> QED BY <1>3
<1> HIDE DEF f
<1>5. \A i \in 0 .. top : f[i] = IF i = 0 THEN m ELSE Step(f[i - 1], i)
  BY <1>4
<1>6. f[0] = m /\ \A i \in 1 .. top : f[i] = Step(f[i - 1], i)
  BY <1>5
<1> QED BY <1>1, <1>6 DEF f, Step

\* The levels 1 .. top keep the base image, unless it is 1x1.
LEMMA LevelsKeep ==
  ASSUME NEW m, NEW others, Memory(m, others), NEW dim \in Dims, NEW fmt \in Nat,
         NEW top \in 0 .. 30, NEW fail, NEW n, n = Levels(m, dim, fmt, top, fail)
  PROVE  /\ Reaches(m, n, others)
         /\ n.tex.internalformat = m.tex.internalformat /\ n.tex.generate = m.tex.generate
         /\ top = 0 => n = m
         /\ NumLods(m.tex.surface.dim) # 0 =>
              /\ n.tex.surface = m.tex.surface
              /\ n.ok /\ Sized(m.heap, m.tex) => Sized(n.heap, n.tex)
<1>1. PICK f : /\ n = f[top] /\ f[0] = m
               /\ \A i \in 1 .. top :
                    f[i] = IF ~f[i - 1].ok THEN f[i - 1]
                           ELSE reallocateMip(f[i - 1], i, LevelDim(dim, i), fmt, fail)
  <2>1. top \in Nat
    OBVIOUS
  <2> QED BY ONLY <2>1, n = Levels(m, dim, fmt, top, fail), LevelsOf
<1> DEFINE Good(x) ==
      /\ Reaches(m, x, others)
      /\ x.tex.internalformat = m.tex.internalformat /\ x.tex.generate = m.tex.generate
      /\ NumLods(m.tex.surface.dim) # 0 =>
           /\ x.tex.surface = m.tex.surface
           /\ x.ok /\ Sized(m.heap, m.tex) => Sized(x.heap, x.tex)
<1>2. Good(m)
  BY DEF Reaches
<1>3. ASSUME NEW i \in 1 .. top, Good(f[i - 1]) PROVE Good(f[i])
  <2> DEFINE x == f[i - 1]
  <2>1. CASE ~x.ok
    BY <1>1, <1>3, <2>1
  <2>2. CASE x.ok
    <3> DEFINE y == f[i]
    <3>1. y = reallocateMip(x, i, LevelDim(dim, i), fmt, fail)
      BY <1>1, <2>2
    <3>2. LevelDim(dim, i) \in Dims /\ i \in Nat \ {0} /\ Memory(x, others)
      BY <1>3, LevelDims DEF Reaches
    <3> HIDE DEF x, y
    <3>3. /\ Reaches(x, y, others)
          /\ y.tex.internalformat = x.tex.internalformat /\ y.tex.generate = x.tex.generate
          /\ \/ y.tex.surface = x.tex.surface
             \/ x.tex.surface.data # Null /\ NumLods(x.tex.surface.dim) = 0 /\ y.tex.mips = <<>>
          /\ y.ok => y.tex.mips # <<>> \/ NumLods(x.tex.surface.dim) = 0
          /\ y.ok /\ y.tex.mips # <<>> /\ Sized(x.heap, x.tex) => Sized(y.heap, y.tex)
      BY <2>2, <3>1, <3>2, ReallocateMip
    <3>4. Good(x)
      BY <1>3 DEF x
    <3>5. Reaches(m, y, others)
      BY <3>3, <3>4, ReachesTransitive
    <3>6. Good(y)
      BY <2>2, <3>3, <3>4, <3>5
    <3> QED BY <3>6 DEF y
  <2> QED BY <2>1, <2>2
<1>4. \A i \in 0 .. top : Good(f[i])
  <2> DEFINE Bad == {i \in 0 .. top : ~Good(f[i])}
  <2> SUFFICES ASSUME Bad # {} PROVE FALSE
    OBVIOUS
  <2> HIDE DEF Good
  <2>1. PICK i \in Bad : \A j \in Bad : i <= j
    <3>1. Bad \subseteq Nat
      OBVIOUS
    <3> HIDE DEF Bad
    <3> QED BY <3>1, NatMin
  <2>2. i # 0
    BY <1>1, <1>2, <2>1
  <2>3. i \in 1 .. top /\ i - 1 \in 0 .. top /\ ~(i <= i - 1) /\ ~Good(f[i])
    BY <2>1, <2>2
  <2>4. Good(f[i - 1])
    BY <2>1, <2>3
  <2> QED BY <1>3, <2>3, <2>4
<1>5. Good(n)
  <2> HIDE DEF Good
  <2> QED BY <1>1, <1>4
<1> QED BY <1>1, <1>5

\* generateMipmap: nothing happens to a base image of 1x1, and no base image is
\* replaced.
LEMMA GenerateMipmap ==
  ASSUME NEW m, NEW others, Memory(m, others), m.tex.surface.dim \in Dims, NEW fail,
         NEW n, n = generateMipmap(m, fail)
  PROVE  /\ Reaches(m, n, others)
         /\ n.tex.internalformat = m.tex.internalformat /\ n.tex.generate = m.tex.generate
         /\ n.tex.surface = m.tex.surface
         /\ n.ok /\ Sized(m.heap, m.tex) => Sized(n.heap, n.tex)
<1> DEFINE dim == m.tex.surface.dim
           fmt == m.tex.surface.fmt
           top == PyramidTop(dim)
<1>1. fmt \in Nat /\ top \in 0 .. 30 /\ (NumLods(dim) = 0 => top = 0)
  <2>1. m.tex \in Texture
    BY DEF Memory
  <2>2. fmt \in Nat
    BY <2>1 DEF Texture, Surf
  <2> QED BY <2>2, NumLodsOf, PyramidTopOf
<1>2. n = m \/ n = Levels(m, dim, fmt, top, fail)
  BY DEF generateMipmap, buildAPyramid
<1>3. CASE n = m
  BY <1>3 DEF Reaches
<1>4. CASE n = Levels(m, dim, fmt, top, fail)
  <2> HIDE DEF fmt, top
  <2>1. /\ Reaches(m, n, others)
        /\ n.tex.internalformat = m.tex.internalformat /\ n.tex.generate = m.tex.generate
        /\ top = 0 => n = m
        /\ NumLods(m.tex.surface.dim) # 0 =>
             /\ n.tex.surface = m.tex.surface
             /\ n.ok /\ Sized(m.heap, m.tex) => Sized(n.heap, n.tex)
    BY <1>1, <1>4, LevelsKeep, SMTT(30)
  <2> QED BY <1>1, <1>3, <2>1
<1> QED BY <1>2, <1>3, <1>4

\* A native buffer's image takes the place of all images.
LEMMA SetSurface ==
  ASSUME NEW m, NEW others, Memory(m, others), NEW dim \in Dims, NEW fmt \in Nat,
         NEW n, n = setSurface(m, dim, fmt)
  PROVE  /\ Memory(n, others) /\ \A b \in others : n.heap[b] = m.heap[b]
         /\ n.tex.surface.data = Null /\ n.tex.surface.dim = dim /\ n.tex.param = m.tex.param
         /\ Sized(n.heap, n.tex)
<1> DEFINE t == m.tex
<1>1. /\ t \in Texture /\ Sound(t) /\ m.heap \in [Blocks -> Sizes]
      /\ m \in [heap : [Blocks -> Sizes], tex : Texture, ok : BOOLEAN]
      /\ others \subseteq Blocks /\ Holds(t) \intersect others = {}
      /\ \A b \in others : m.heap[b] # Released
  BY DEF Memory
<1> DEFINE s == Surface(Null, dim, fmt)
           u == [t EXCEPT !.surface = s, !.size = 0, !.internalformat = 0, !.generate = FALSE,
                          !.direct = TRUE, !.mips = <<>>, !.complete = TRUE]
           h == Free(m.heap, Holds(t))
<1>2. s \in Surf /\ s.data = Null /\ s.dim = dim
  BY DEF Surface, Surf
<1>3. n = [m EXCEPT !.heap = h, !.tex = u]
  BY DEF setSurface, Holds
<1>4. h \in [Blocks -> Sizes] /\ \A b \in others : h[b] = m.heap[b]
  BY <1>1 DEF Free, Sizes
<1> HIDE DEF s, h
<1>5. u \in Texture
  <2>1. <<>> \in Seq(Surf) /\ 0 \in Nat
    OBVIOUS
  <2> QED BY ONLY <1>1, <1>2, <2>1 DEF Texture
<1>6. /\ u.surface = s /\ u.mips = <<>> /\ u.internalformat = 0 /\ u.param = t.param
  BY ONLY <1>1 DEF Texture
<1> HIDE DEF u
<1>7. n.heap = h /\ n.tex = u /\ n \in [heap : [Blocks -> Sizes], tex : Texture, ok : BOOLEAN]
  BY ONLY <1>1, <1>3, <1>4, <1>5
<1>8. Sound(u) /\ Holds(u) = {}
  BY <1>2, <1>5, <1>6, HoldsBase
<1>9. Memory(n, others)
  BY <1>1, <1>4, <1>7, <1>8 DEF Memory
<1>10. Sized(h, u)
  BY <1>2, <1>6 DEF Sized
<1> QED BY <1>2, <1>4, <1>6, <1>7, <1>9, <1>10
-----------------------------------------------------------------------------
(* The memory of all texture objects.                                      *)

\* The blocks of the objects other than o.
Others(t, o) == UNION {Holds(t[p]) : p \in Objects \ {o}}

\* The images of the objects have allocated blocks, each one of its own.
Heaped(h, t) ==
  /\ h \in [Blocks -> Sizes] /\ t \in [Objects -> Texture]
  /\ \A o \in Objects : Sound(t[o]) /\ \A b \in Holds(t[o]) : h[b] # Released
  /\ \A o, p \in Objects : o # p => Holds(t[o]) \intersect Holds(t[p]) = {}

NoLeak(h, t) ==
  /\ \A o \in Objects : ~t[o].direct
  /\ \A b \in Blocks : h[b] # Released => \E o \in Objects : b \in Holds(t[o])

AllSized(h, t) == \A o \in Objects : Sized(h, t[o])

\* An object without memory is incomplete and has no dimensions.
HasData(t) ==
  \A o \in Objects : t[o].surface.data = Null => ~t[o].complete /\ t[o].surface.dim = <<0, 0>>

\* A block that keeps its size serves the same image.
LEMMA SizedElsewhere ==
  ASSUME NEW t, Sound(t), NEW h, NEW g, \A b \in Holds(t) : g[b] = h[b], Sized(h, t)
  PROVE  Sized(g, t)
<1>1. /\ \A b \in Blocks : b \in BaseBlocks(t) <=> t.surface.data = b
      /\ \A b \in Blocks : b \in MipBlocks(t) <=> \E i \in 1 .. Len(t.mips) : t.mips[i].data = b
      /\ Holds(t) = BaseBlocks(t) \union MipBlocks(t)
  BY HoldsBlocks DEF Holds
<1>2. t.surface \in Surf /\ \A i \in 1 .. Len(t.mips) : t.mips[i] \in Surf
  <2>1. t.surface \in Surf /\ t.mips \in Seq(Surf)
    BY DEF Sound, Texture
  <2> QED BY <2>1
<1>3. /\ t.surface.data \in Blocks \union {Null}
      /\ \A i \in 1 .. Len(t.mips) : t.mips[i].data \in Blocks \union {Null}
  BY <1>2 DEF Surf
<1>4. t.surface.data # Null => g[t.surface.data] = h[t.surface.data]
  BY <1>1, <1>3
<1>5. \A i \in 1 .. Len(t.mips) : t.mips[i].data # Null => g[t.mips[i].data] = h[t.mips[i].data]
  BY <1>1, <1>3
<1> QED BY <1>4, <1>5 DEF Sized

LEMMA NewIsSized == \A h : Sized(h, NewTexture)
BY DEF Sized, NewTexture, NoSurface

\* The destructors of some objects.
LEMMA Deletion ==
  ASSUME NEW h, NEW t, Heaped(h, t), NEW D \in SUBSET Objects, NEW h1, NEW t1,
         h1 = Free(h, UNION {Owned(t[o]) : o \in D}),
         t1 = [o \in Objects |-> IF o \in D THEN NewTexture ELSE t[o]]
  PROVE  /\ Heaped(h1, t1)
         /\ NoLeak(h, t) => NoLeak(h1, t1)
         /\ AllSized(h, t) => AllSized(h1, t1)
         /\ HasData(t) => HasData(t1)
<1>1. /\ h \in [Blocks -> Sizes] /\ t \in [Objects -> Texture]
      /\ \A o \in Objects : Sound(t[o]) /\ \A b \in Holds(t[o]) : h[b] # Released
      /\ \A o, p \in Objects : o # p => Holds(t[o]) \intersect Holds(t[p]) = {}
  BY DEF Heaped
<1>2. \A o \in Objects : /\ Owned(t[o]) \subseteq Holds(t[o]) /\ (~t[o].direct => Owned(t[o]) = Holds(t[o]))
                         /\ Holds(t[o]) \subseteq Blocks
  BY <1>1, HoldsBlocks DEF Owned, Holds
<1>3. /\ NewTexture \in Texture /\ Sound(NewTexture) /\ Holds(NewTexture) = {}
      /\ ~NewTexture.direct /\ ~NewTexture.complete /\ NewTexture.surface.dim = <<0, 0>>
  BY NewIsSound DEF NewTexture, NoSurface
<1>4. /\ t1 \in [Objects -> Texture]
      /\ \A o \in Objects : t1[o] = IF o \in D THEN NewTexture ELSE t[o]
  BY <1>1, <1>3
<1>5. /\ h1 \in [Blocks -> Sizes]
      /\ \A b \in Blocks : h1[b] = IF \E o \in D : b \in Owned(t[o]) THEN Released ELSE h[b]
  BY <1>1 DEF Free, Sizes
<1>6. \A o \in Objects : Sound(t1[o]) /\ (o \in D => Holds(t1[o]) = {}) /\ (o \notin D => t1[o] = t[o])
  BY <1>1, <1>3, <1>4
<1>7. ASSUME NEW o \in Objects, o \notin D, NEW b \in Holds(t[o]) PROVE b \in Blocks /\ h1[b] = h[b]
  BY <1>1, <1>2, <1>5, <1>7
<1>8. Heaped(h1, t1)
  <2>1. \A o \in Objects : \A b \in Holds(t1[o]) : h1[b] # Released
    BY <1>1, <1>6, <1>7
  <2>2. \A o, p \in Objects : o # p => Holds(t1[o]) \intersect Holds(t1[p]) = {}
    BY <1>1, <1>6
  <2> QED BY <1>4, <1>5, <1>6, <2>1, <2>2 DEF Heaped
<1>9. NoLeak(h, t) => NoLeak(h1, t1)
  <2> SUFFICES ASSUME NoLeak(h, t) PROVE NoLeak(h1, t1)
    OBVIOUS
  <2>1. \A o \in Objects : ~t1[o].direct
    BY <1>3, <1>4 DEF NoLeak
  <2>2. ASSUME NEW b \in Blocks, h1[b] # Released PROVE \E o \in Objects : b \in Holds(t1[o])
    <3>1. h[b] # Released /\ \A o \in D : b \notin Owned(t[o])
      BY <1>5, <2>2
    <3>2. PICK o \in Objects : b \in Holds(t[o])
      BY <3>1 DEF NoLeak
    <3>3. o \notin D
      BY <1>2, <3>1, <3>2 DEF NoLeak
    <3> QED BY <1>6, <3>2, <3>3
  <2> QED BY <2>1, <2>2 DEF NoLeak
<1>10. AllSized(h, t) => AllSized(h1, t1)
  <2> SUFFICES ASSUME AllSized(h, t), NEW o \in Objects PROVE Sized(h1, t1[o])
    BY DEF AllSized
  <2>1. CASE o \in D
    BY <1>4, <2>1, NewIsSized
  <2>2. CASE o \notin D
    <3>1. Sound(t[o]) /\ (\A b \in Holds(t[o]) : h1[b] = h[b]) /\ Sized(h, t[o])
      BY <1>1, <1>7, <2>2 DEF AllSized
    <3> QED BY <1>4, <2>2, <3>1, SizedElsewhere
  <2> QED BY <2>1, <2>2
<1>11. HasData(t) => HasData(t1)
  BY <1>3, <1>4 DEF HasData
<1> QED BY <1>8, <1>9, <1>10, <1>11

\* One object, or one without images in the place of one without, next to the
\* others.
LEMMA Singling ==
  ASSUME NEW h, NEW t, Heaped(h, t), NEW o \in Objects, NEW x, Sound(x), Holds(x) = Holds(t[o])
  PROVE  Memory([heap |-> h, tex |-> x, ok |-> TRUE], Others(t, o))
<1>1. /\ h \in [Blocks -> Sizes] /\ x \in Texture
      /\ \A p \in Objects : Holds(t[p]) \subseteq Blocks /\ \A b \in Holds(t[p]) : h[b] # Released
      /\ \A p, q \in Objects : p # q => Holds(t[p]) \intersect Holds(t[q]) = {}
  BY HoldsBlocks DEF Heaped, Sound
<1>2. /\ Others(t, o) \subseteq Blocks /\ \A b \in Others(t, o) : h[b] # Released
      /\ Holds(x) \intersect Others(t, o) = {}
  BY <1>1 DEF Others
<1> QED BY <1>1, <1>2 DEF Memory

\* And back.
LEMMA Storing ==
  ASSUME NEW h, NEW t, Heaped(h, t), NEW o \in Objects, NEW n, Memory(n, Others(t, o)),
         \A b \in Others(t, o) : n.heap[b] = h[b], NEW t1 \in [Objects -> Texture],
         t1[o] = n.tex, \A p \in Objects \ {o} : t1[p] = t[p]
  PROVE  /\ Heaped(n.heap, t1)
         /\ NoLeak(h, t) /\ ~n.tex.direct
              /\ Stray(n) \subseteq Loose(h, t[o])
            => NoLeak(n.heap, t1)
         /\ AllSized(h, t) /\ Sized(n.heap, n.tex) => AllSized(n.heap, t1)
<1>1. /\ t \in [Objects -> Texture]
      /\ \A p \in Objects : Sound(t[p]) /\ \A b \in Holds(t[p]) : h[b] # Released
      /\ \A p, q \in Objects : p # q => Holds(t[p]) \intersect Holds(t[q]) = {}
  BY DEF Heaped
<1>2. /\ n.heap \in [Blocks -> Sizes] /\ n.tex \in Texture /\ Sound(n.tex)
      /\ \A b \in Holds(n.tex) \union Others(t, o) : n.heap[b] # Released
      /\ Holds(n.tex) \intersect Others(t, o) = {}
  BY DEF Memory
<1>3. t1 \in [Objects -> Texture] /\ t1[o] = n.tex /\ \A p \in Objects \ {o} : t1[p] = t[p]
  BY <1>1, <1>2
<1>4. ASSUME NEW p \in Objects \ {o} PROVE Holds(t[p]) \subseteq Others(t, o)
  BY DEF Others
<1>5. Heaped(n.heap, t1)
  <2>1. ASSUME NEW p \in Objects PROVE Sound(t1[p]) /\ \A b \in Holds(t1[p]) : n.heap[b] # Released
    BY <1>1, <1>2, <1>3, <1>4
  <2>2. ASSUME NEW p \in Objects, NEW q \in Objects, p # q
        PROVE  Holds(t1[p]) \intersect Holds(t1[q]) = {}
    BY <1>1, <1>2, <1>3, <1>4, <2>2
  <2> QED BY <1>2, <1>3, <2>1, <2>2 DEF Heaped
<1>6. ASSUME NoLeak(h, t), ~n.tex.direct,
             Stray(n) \subseteq Loose(h, t[o])
      PROVE  NoLeak(n.heap, t1)
  <2>1. \A p \in Objects : ~t1[p].direct
    BY <1>3, <1>6 DEF NoLeak
  <2>2. ASSUME NEW b \in Blocks, n.heap[b] # Released PROVE \E p \in Objects : b \in Holds(t1[p])
    <3>1. CASE b \in Holds(n.tex)
      BY <1>3, <3>1
    <3>2. CASE b \notin Holds(n.tex)
      <4>1. h[b] # Released /\ b \notin Holds(t[o])
        BY <1>6, <2>2, <3>2 DEF Stray, Loose
      <4>2. PICK p \in Objects : b \in Holds(t[p])
        BY <1>6, <4>1 DEF NoLeak
      <4> QED BY <1>3, <4>1, <4>2
    <3> QED BY <3>1, <3>2
  <2> QED BY <2>1, <2>2 DEF NoLeak
<1>7. ASSUME AllSized(h, t), Sized(n.heap, n.tex), NEW p \in Objects PROVE Sized(n.heap, t1[p])
  <2>1. CASE p = o
    BY <1>3, <1>7, <2>1
  <2>2. CASE p # o
    <3>1. Sound(t[p]) /\ (\A b \in Holds(t[p]) : n.heap[b] = h[b]) /\ Sized(h, t[p])
      BY <1>1, <1>4, <1>7, <2>2 DEF AllSized
    <3> QED BY <1>3, <2>2, <3>1, SizedElsewhere
  <2> QED BY <2>1, <2>2
<1> QED BY <1>5, <1>6, <1>7 DEF AllSized
-----------------------------------------------------------------------------
(* Who is counted.                                                         *)

LEMMA AtLeast ==
  ASSUME NEW S, IsFiniteSet(S), NEW x \in S
  PROVE  /\ Cardinality(S) \in Nat /\ Cardinality(S) >= 1
         /\ \A y \in S : y # x => Cardinality(S) >= 2
<1>1. Cardinality(S) \in Nat /\ IsFiniteSet(S \ {x}) /\ Cardinality(S \ {x}) = Cardinality(S) - 1
  BY FS_RemoveElement, FS_CardinalityType
<1>2. Cardinality(S \ {x}) \in Nat
  BY <1>1, FS_CardinalityType
<1>3. ASSUME NEW y \in S, y # x PROVE Cardinality(S) >= 2
  <2>1. /\ IsFiniteSet((S \ {x}) \ {y})
        /\ Cardinality((S \ {x}) \ {y}) = Cardinality(S \ {x}) - 1
    BY <1>1, <1>3, FS_RemoveElement
  <2>2. Cardinality((S \ {x}) \ {y}) \in Nat
    BY <2>1, FS_CardinalityType
  <2> QED BY <1>1, <1>2, <2>1, <2>2
<1> QED BY <1>1, <1>2, <1>3

\* The count of an object is that of its holders; each holder contributes.
Accounting ==
  \A o \in Objects :
    /\ count[o] = UnitCount(o) + NameCount(o) + If1(o = defaultTexture)
    /\ UnitCount(o) \in Nat /\ NameCount(o) \in Nat
    /\ \A u \in Units : unit[u].tex = o =>
         UnitCount(o) >= 1 /\ \A v \in Units : unit[v].tex = o /\ v # u => UnitCount(o) >= 2
    /\ \A n \in Names : mTextures[n] = o => NameCount(o) >= 1

LEMMA Counted == IInv /\ open => Accounting
<1> SUFFICES ASSUME IInv, open, NEW o \in Objects
             PROVE  /\ count[o] = UnitCount(o) + NameCount(o) + If1(o = defaultTexture)
                    /\ UnitCount(o) \in Nat /\ NameCount(o) \in Nat
                    /\ \A u \in Units : unit[u].tex = o =>
                         UnitCount(o) >= 1 /\ \A v \in Units : unit[v].tex = o /\ v # u => UnitCount(o) >= 2
                    /\ \A n \in Names : mTextures[n] = o => NameCount(o) >= 1
  BY DEF Accounting
<1>1. count[o] = UnitCount(o) + NameCount(o) + If1(o = defaultTexture)
  BY DEF IInv, ReferencesCounted, Holders, UnitCount, NameCount, If1
<1> DEFINE S == {u \in Units : unit[u].tex = o}
           T == {n \in Names : mTextures[n] = o}
<1>2. IsFiniteSet(S) /\ IsFiniteSet(T)
  BY FS_Subset, TexturesAssumption
<1>3. ASSUME NEW u \in Units, unit[u].tex = o
      PROVE  UnitCount(o) >= 1 /\ \A v \in Units : unit[v].tex = o /\ v # u => UnitCount(o) >= 2
  <2>1. u \in S /\ \A v \in Units : unit[v].tex = o => v \in S
    BY <1>3
  <2>2. UnitCount(o) = Cardinality(S)
    BY DEF UnitCount
  <2> HIDE DEF S
  <2> QED BY <1>2, <2>1, <2>2, AtLeast
<1>4. ASSUME NEW n \in Names, mTextures[n] = o PROVE NameCount(o) >= 1
  <2>1. n \in T
    BY <1>4
  <2>2. NameCount(o) = Cardinality(T)
    BY DEF NameCount
  <2> HIDE DEF T
  <2> QED BY <1>2, <2>1, <2>2, AtLeast
<1> QED BY <1>1, <1>3, <1>4, CountsAreNat
-----------------------------------------------------------------------------
(* The memory, the rasterizer's copies and the calls.                      *)

MemInv == Heaped(heap, tex) /\ \A o \in Objects : count[o] = 0 => tex[o] = NewTexture
LeakInv == "image" \notin odd => NoLeak(heap, tex)
SizeInv == "oom" \notin odd /\ "tiny" \notin odd => AllSized(heap, tex)
DataInv == "image" \notin odd /\ "oom" \notin odd /\ "tiny" \notin odd => HasData(tex)
ObjInv == MemInv /\ LeakInv /\ SizeInv /\ DataInv

CopyTypes ==
  /\ enable \in [Units -> BOOLEAN]
  /\ \A u \in Units : ras[u] # Stale => ras[u] \in [surface : Surf, param : Int]

\* A unit that is not dirty has its texture's surface, though the parameters may
\* be lost.
SurfacesFollow ==
  "tiny" \notin odd => \A u \in Units : ras[u] # Stale => ras[u].surface = tex[unit[u].tex].surface
ParamsFollow ==
  "shared" \notin odd /\ "missed" \notin odd =>
    \A u \in Units : ras[u] # Stale => ras[u].param = tex[unit[u].tex].param

\* A unit that is on and will not be validated again has memory.
OnHasData ==
  "image" \notin odd /\ "oom" \notin odd /\ "tiny" \notin odd /\ "revived" \notin odd =>
    \A u \in Units : enable[u] /\ ras[u] # Stale => tex[unit[u].tex].surface.data # Null

RasInv == CopyTypes /\ SurfacesFollow /\ ParamsFollow /\ OnHasData

\* A unit that stays clean has the texture it had, with the same surface.
LEMMA RasKept ==
  ASSUME RasInv, odd \subseteq odd', enable' = enable,
         \A u \in Units : ras'[u] # Stale =>
           /\ ras'[u] = ras[u]
           /\ "tiny" \notin odd' => tex'[unit'[u].tex].surface = tex[unit[u].tex].surface
           /\ "shared" \notin odd' => tex'[unit'[u].tex].param = tex[unit[u].tex].param
  PROVE  RasInv'
<1>1. CopyTypes'
  BY DEF RasInv, CopyTypes
<1>2. SurfacesFollow'
  BY DEF RasInv, SurfacesFollow
<1>3. ParamsFollow'
  BY DEF RasInv, ParamsFollow
<1>4. OnHasData'
  BY DEF RasInv, OnHasData
<1> QED BY <1>1, <1>2, <1>3, <1>4 DEF RasInv

\* The objects that lose their last reference.
LEMMA Dropping ==
  ASSUME ObjInv, NEW drop
  PROVE  /\ Heaped(HeapAfter(drop), TexAfter(drop))
         /\ NoLeak(heap, tex) => NoLeak(HeapAfter(drop), TexAfter(drop))
         /\ AllSized(heap, tex) => AllSized(HeapAfter(drop), TexAfter(drop))
         /\ HasData(tex) => HasData(TexAfter(drop))
         /\ \A o \in Objects : TexAfter(drop)[o] = IF o \in Deleted(drop) THEN NewTexture ELSE tex[o]
<1>1. Heaped(heap, tex) /\ Deleted(drop) \in SUBSET Objects
  BY DEF ObjInv, MemInv, Deleted
<1>2. /\ HeapAfter(drop) = Free(heap, UNION {Owned(tex[o]) : o \in Deleted(drop)})
      /\ TexAfter(drop) = [o \in Objects |-> IF o \in Deleted(drop) THEN NewTexture ELSE tex[o]]
  BY DEF HeapAfter, TexAfter
<1>3. \A o \in Objects : TexAfter(drop)[o] = IF o \in Deleted(drop) THEN NewTexture ELSE tex[o]
  BY <1>2
<1>4. /\ Heaped(HeapAfter(drop), TexAfter(drop))
      /\ NoLeak(heap, tex) => NoLeak(HeapAfter(drop), TexAfter(drop))
      /\ AllSized(heap, tex) => AllSized(HeapAfter(drop), TexAfter(drop))
      /\ HasData(tex) => HasData(TexAfter(drop))
  BY ONLY <1>1, <1>2, Deletion
<1> QED BY <1>3, <1>4

\* One reference less deletes the object that has only that one.
LEMMA OneDeleted ==
  ASSUME NEW x \in Objects
  PROVE  \A o \in Objects : o \in Deleted(One(x)) <=> o = x /\ count[x] = 1
BY DEF Deleted, One

\* A call that leaves the objects alone.
LEMMA ObjectsSame ==
  ASSUME ObjInv, odd \subseteq odd', UNCHANGED <<tex, heap, count>>
  PROVE  ObjInv'
BY DEF ObjInv, MemInv, LeakInv, SizeInv, DataInv, Heaped, NoLeak, AllSized, HasData

\* What follows from invariants of the heap and the objects after a step.
LEMMA ObjectsAfter ==
  ASSUME Heaped(heap', tex'), \A o \in Objects : count'[o] = 0 => tex'[o] = NewTexture,
         "image" \notin odd' => NoLeak(heap', tex'),
         "oom" \notin odd' /\ "tiny" \notin odd' => AllSized(heap', tex'),
         "image" \notin odd' /\ "oom" \notin odd' /\ "tiny" \notin odd' => HasData(tex')
  PROVE  ObjInv'
BY DEF ObjInv, MemInv, LeakInv, SizeInv, DataInv, Heaped, NoLeak, AllSized, HasData

\* glBindTexture.
LEMMA BindKeeps ==
  ASSUME IInv, IInv', open, open', ObjInv, RasInv, NEW n, NEW o \in Objects, NEW c,
         c = count \/ c = Add(count, o), BindUnit(active, n, o, c), UNCHANGED <<enable, odd>>
  PROVE  ObjInv' /\ RasInv'
<1>1. \A p \in Objects :
        /\ count[p] \in Nat /\ count'[p] \in Nat
        /\ \A u \in Units : unit[u].tex = p /\ u # active /\ unit[active].tex = p => count[p] >= 2
        /\ \A u \in Units : unit'[u].tex = p => count'[p] >= 1
  <2>1. \A p \in Objects :
          /\ count'[p] = UnitCount(p)' + NameCount(p)' + If1(p = defaultTexture)
          /\ UnitCount(p)' \in Nat /\ NameCount(p)' \in Nat
          /\ \A u \in Units : unit'[u].tex = p => UnitCount(p)' >= 1
    <3>1. (IInv /\ open)' => Accounting'
      BY Counted, PTL
    <3> QED BY <3>1 DEF Accounting
  <2>2. active \in Units
    BY DEF IInv, Types
  <2> QED BY <2>1, <2>2, Counted DEF If1, Accounting
<1>2. unit \in [Units -> [tex : Objects, name : Names \union {0}]] /\ active \in Units /\ count \in [Objects -> Int]
  BY DEF IInv, Types
<1>3. c \in [Objects -> Int] /\ \A p \in Objects : c[p] = count[p] \/ (p = o /\ c[p] = count[p] + 1)
  BY <1>2 DEF Add
<1>4. CASE unit[active].tex = o
  <2>1. count' = c /\ UNCHANGED <<unit, ras, tex, heap>>
    BY <1>4 DEF BindUnit
  <2>2. \A p \in Objects : count'[p] = 0 => tex'[p] = NewTexture
    BY <1>1, <1>3, <2>1 DEF ObjInv, MemInv
  <2>3. ObjInv'
    BY <2>1, <2>2, ObjectsAfter DEF ObjInv, MemInv, LeakInv, SizeInv, DataInv
  <2>4. RasInv'
    BY <2>1, RasKept
  <2> QED BY <2>3, <2>4
<1>5. CASE unit[active].tex # o
  <2> DEFINE x == unit[active].tex
  <2>1. /\ unit' = [unit EXCEPT ![active] = [tex |-> o, name |-> n]]
        /\ ras' = Invalidate({active})
        /\ count' = Add([c EXCEPT ![x] = @ - 1], o)
        /\ heap' = HeapAfter(One(x)) /\ tex' = TexAfter(One(x))
    BY <1>5 DEF BindUnit
  <2>2. x \in Objects
    BY <1>2
  <2>3. \A p \in Objects \ {o} : count'[p] = count[p] - If1(p = x)
    BY <1>2, <1>3, <1>5, <2>1, <2>2 DEF Add, If1
  <2>4. unit'[active].tex = o /\ \A u \in Units \ {active} : unit'[u] = unit[u]
    BY <1>2, <2>1
  <2> HIDE DEF x
  <2>5. /\ Heaped(heap', tex')
        /\ NoLeak(heap, tex) => NoLeak(heap', tex')
        /\ AllSized(heap, tex) => AllSized(heap', tex')
        /\ HasData(tex) => HasData(tex')
        /\ \A p \in Objects : tex'[p] = IF p \in Deleted(One(x)) THEN NewTexture ELSE tex[p]
    BY <2>1, Dropping
  <2>6. \A p \in Objects : p \in Deleted(One(x)) <=> p = x /\ count[x] = 1
    BY <2>2, OneDeleted
  <2>7. ASSUME NEW p \in Objects, count'[p] = 0 PROVE tex'[p] = NewTexture
    <3>1. p # o
      BY <1>1, <1>2, <2>4, <2>7
    <3>2. count[p] = If1(p = x)
      BY <1>1, <2>3, <2>7, <3>1 DEF If1
    <3> QED BY <2>5, <2>6, <3>2 DEF If1, ObjInv, MemInv
  <2>8. ObjInv'
    BY <2>5, <2>7, ObjectsAfter DEF ObjInv, MemInv, LeakInv, SizeInv, DataInv
  <2>9. ASSUME NEW u \in Units, ras'[u] # Stale
        PROVE  ras'[u] = ras[u] /\ tex'[unit'[u].tex] = tex[unit[u].tex]
    <3>1. u # active /\ ras'[u] = ras[u]
      BY <2>1, <2>9 DEF Invalidate
    <3>2. unit'[u] = unit[u] /\ unit[u].tex \in Objects
      BY <1>2, <2>4, <3>1
    <3>3. unit[u].tex \notin Deleted(One(x))
      BY <1>1, <2>6, <3>1, <3>2 DEF x
    <3> QED BY <2>5, <3>1, <3>2, <3>3
  <2>10. RasInv'
    BY <2>9, RasKept
  <2> QED BY <2>8, <2>10
<1> QED BY <1>4, <1>5

\* The same after a step.
LEMMA CountedNext == (IInv /\ open)' => Accounting'
BY Counted, PTL

\* glDeleteTextures.
LEMMA DeleteKeeps ==
  ASSUME IInv, IInv', open, open', ObjInv, RasInv, NEW ns \in SUBSET Names, glDeleteTextures(ns)
  PROVE  ObjInv' /\ RasInv'
<1> USE TexturesAssumption
<1> DEFINE UnitDrop(o) == Cardinality({u \in Bound(ns) : unit[u].tex = o})
           NameDrop(o) == Cardinality({n \in ns : mTextures[n] = o})
           drop == [o \in Objects |-> UnitDrop(o) + NameDrop(o)]
<1>1. /\ unit' = [u \in Units |-> IF u \in Bound(ns)
                    THEN [tex |-> defaultTexture, name |-> 0] ELSE unit[u]]
      /\ ras' = Invalidate(Bound(ns))
      /\ count' = [Dropped(drop) EXCEPT ![defaultTexture] = @ + Cardinality(Bound(ns))]
      /\ heap' = HeapAfter(drop) /\ tex' = TexAfter(drop)
      /\ UNCHANGED <<enable, odd>>
  BY DEF glDeleteTextures, ghosts
<1>2. unit \in [Units -> [tex : Objects, name : Names \union {0}]] /\ count \in [Objects -> Int]
  BY DEF IInv, Types
<1>3. \A o \in Objects : UnitDrop(o) \in Nat /\ NameDrop(o) \in Nat
  <2> TAKE o \in Objects
  <2>1. /\ IsFiniteSet({u \in Bound(ns) : unit[u].tex = o})
        /\ IsFiniteSet({n \in ns : mTextures[n] = o})
    BY FS_Subset DEF Bound
  <2> QED BY <2>1, FS_CardinalityType
<1>4. ASSUME NEW o \in Objects
      PROVE  /\ o \in Deleted(drop) <=> drop[o] # 0 /\ count[o] = drop[o]
             /\ drop[o] \in Nat /\ count[o] \in Nat
             /\ o # defaultTexture => count'[o] = count[o] - drop[o]
             /\ o = defaultTexture => count'[o] >= 1 /\ o \notin Deleted(drop)
             /\ \A u \in Units : unit'[u].tex = o => count'[o] >= 1
  <2>1. drop[o] \in Nat /\ count[o] \in Nat /\ (o \in Deleted(drop) <=> drop[o] # 0 /\ count[o] = drop[o])
    <3> HIDE DEF UnitDrop, NameDrop
    <3> QED BY <1>3, Counted DEF Deleted, Accounting, If1
  <2>2. o # defaultTexture => count'[o] = count[o] - drop[o]
    <3> HIDE DEF drop
    <3> QED BY <1>1, <1>2 DEF Dropped
  <2>3. /\ \A u \in Units : unit'[u].tex = o => count'[o] >= 1
        /\ o = defaultTexture => count'[o] >= 1
    BY CountedNext DEF Accounting, If1
  <2>4. o = defaultTexture => drop[o] = 0
    <3> SUFFICES ASSUME o = defaultTexture PROVE drop[o] = 0
      OBVIOUS
    <3>1. {u \in Bound(ns) : unit[u].tex = o} = {} /\ {n \in ns : mTextures[n] = o} = {}
      BY DEF IInv, NamesResolve, Nameless, Bound
    <3>2. Cardinality({}) = 0
      BY FS_EmptySet
    <3>3. UnitDrop(o) = 0 /\ NameDrop(o) = 0
      BY ONLY <3>1, <3>2
    <3> HIDE DEF UnitDrop, NameDrop
    <3> QED BY <3>3
  <2> QED BY <2>1, <2>2, <2>3, <2>4
<1> HIDE DEF drop
<1>5. /\ Heaped(heap', tex')
      /\ NoLeak(heap, tex) => NoLeak(heap', tex')
      /\ AllSized(heap, tex) => AllSized(heap', tex')
      /\ HasData(tex) => HasData(tex')
      /\ \A o \in Objects : tex'[o] = IF o \in Deleted(drop) THEN NewTexture ELSE tex[o]
  BY <1>1, Dropping
<1>6. ASSUME NEW o \in Objects, count'[o] = 0 PROVE tex'[o] = NewTexture
  <2>1. count[o] = drop[o]
    BY <1>4, <1>6
  <2> QED BY <1>4, <1>5, <2>1 DEF ObjInv, MemInv
<1>7. ObjInv'
  BY <1>1, <1>5, <1>6, ObjectsAfter DEF ObjInv, MemInv, LeakInv, SizeInv, DataInv
<1>8. ASSUME NEW u \in Units, ras'[u] # Stale
      PROVE  ras'[u] = ras[u] /\ tex'[unit'[u].tex] = tex[unit[u].tex]
  <2>1. u \notin Bound(ns) /\ ras'[u] = ras[u]
    BY <1>1, <1>8 DEF Invalidate
  <2>2. unit'[u] = unit[u] /\ unit[u].tex \in Objects
    BY <1>1, <1>2, <2>1
  <2>3. unit[u].tex \notin Deleted(drop)
    BY <1>4, <2>2
  <2> QED BY <1>5, <2>1, <2>2, <2>3
<1>9. RasInv'
  BY <1>1, <1>8, RasKept
<1> QED BY <1>7, <1>9

\* ogles_uninit.
LEMMA CloseKeeps ==
  ASSUME IInv, open, ObjInv, RasInv, Close
  PROVE  ObjInv' /\ RasInv'
<1>1. /\ heap' = HeapAfter(Uninit) /\ tex' = TexAfter(Uninit) /\ odd' = odd
      /\ ras' = [u \in Units |-> Stale] /\ enable' = [u \in Units |-> FALSE]
  BY DEF Close, ghosts
<1>2. /\ Heaped(heap', tex')
      /\ NoLeak(heap, tex) => NoLeak(heap', tex')
      /\ AllSized(heap, tex) => AllSized(heap', tex')
      /\ HasData(tex) => HasData(tex')
      /\ \A o \in Objects : tex'[o] = IF o \in Deleted(Uninit) THEN NewTexture ELSE tex[o]
  BY <1>1, Dropping
<1>3. ASSUME NEW o \in Objects PROVE tex'[o] = NewTexture
  <2>1. Uninit[o] = count[o]
    BY DEF Uninit, IInv, ReferencesCounted
  <2>2. count[o] # 0 => o \in Deleted(Uninit)
    BY <2>1 DEF Deleted
  <2> QED BY <1>2, <2>2 DEF ObjInv, MemInv
<1>4. ObjInv'
  BY <1>1, <1>2, <1>3, ObjectsAfter DEF ObjInv, MemInv, LeakInv, SizeInv, DataInv
<1>5. RasInv'
  BY <1>1 DEF RasInv, CopyTypes, SurfacesFollow, ParamsFollow, OnHasData
<1> QED BY <1>4, <1>5

\* getAndBindActiveTextureObject: what the upload finds has its blocks to
\* itself, and no clean unit has it.
LEMMA FoundOf ==
  ASSUME IInv, IInv', open, open', ObjInv, getAndBind, NEW t, t = TexAfter(One(Old))
  PROVE  /\ Target \in Objects /\ Old \in Objects /\ Heaped(Found.heap, t)
         /\ Memory(Found, Others(t, Target)) /\ Holds(Found.tex) = Holds(t[Target])
         /\ NoLeak(heap, tex) => NoLeak(Found.heap, t) /\ ~Found.tex.direct
         /\ AllSized(heap, tex) => AllSized(Found.heap, t) /\ Sized(Found.heap, Found.tex)
         /\ HasData(tex) => HasData(t)
         /\ \A u \in Units \ Affected : /\ unit'[u] = unit[u] /\ unit[u].tex \in Objects \ {Target}
                                        /\ t[unit[u].tex] = tex[unit[u].tex]
         /\ \A o \in Objects \ {Target} : count'[o] = 0 => t[o] = NewTexture
         /\ count'[Target] # 0
<1> USE TexturesAssumption
<1> DEFINE q == mTextures[Name]
<1>1. /\ unit \in [Units -> [tex : Objects, name : Names \union {0}]] /\ active \in Units
      /\ count \in [Objects -> Int] /\ mTextures \in [Names -> Objects \union {Null}]
  BY DEF IInv, Types
<1>2. /\ Old \in Objects /\ Name \in Names \union {0}
      /\ Name # 0 => q \in Objects \ {defaultTexture}
      /\ Name = 0 <=> Old = defaultTexture
  BY DEF Old, Name, IInv, Types, NamesResolve, Nameless
<1>3. Shared => NewObject \in Objects /\ count[NewObject] = 0 /\ NewObject # defaultTexture
  BY NewObjectIsNew DEF getAndBind
<1>4. Target \in Objects /\ (Shared => Target = NewObject /\ Name # 0)
      /\ (~Shared => IF Name = 0 THEN Target = defaultTexture ELSE Target = q)
  BY <1>2, <1>3 DEF Target, Shared
<1>5. \A o \in Objects :
        /\ count[o] \in Nat
        /\ \A u \in Units : unit[u].tex = o =>
             /\ count[o] >= 1 /\ (u # active /\ o = Old => count[o] >= 2)
             /\ o = defaultTexture => count[o] >= 2
        /\ Name # 0 /\ o = q => count[o] >= 1 + If1(o = Old)
        /\ Name # 0 /\ o = q => \A u \in Units \ {active} : unit[u].tex = o => count[o] >= 2 + If1(o = Old)
  BY <1>1, <1>2, Counted DEF Accounting, If1, Old
<1>6. Left \in [Objects -> Int] /\ \A o \in Objects : Left[o] = count[o] - If1(Old = o)
  BY <1>1, <1>2 DEF Left, If1
<1>7. Shared <=> Name # 0 /\ Left[q] # 1
  BY DEF Shared
<1>8. /\ Found.heap = HeapAfter(One(Old)) /\ Found = [heap |-> Found.heap, tex |-> Found.tex, ok |-> TRUE]
      /\ Found.tex = IF Shared THEN copyParameters(tex[q]) ELSE tex[Target]
  BY DEF Found
<1>9. /\ Heaped(Found.heap, t)
      /\ NoLeak(heap, tex) => NoLeak(Found.heap, t)
      /\ AllSized(heap, tex) => AllSized(Found.heap, t)
      /\ HasData(tex) => HasData(t)
      /\ \A o \in Objects : t[o] = IF o \in Deleted(One(Old)) THEN NewTexture ELSE tex[o]
  BY <1>8, Dropping
<1>10. \A o \in Objects : o \in Deleted(One(Old)) <=> o = Old /\ count[Old] = 1
  BY <1>2, OneDeleted
<1>11. active \in Units /\ unit[active].tex = Old
  BY <1>1 DEF Old
<1>12. CASE Shared
  <2>1. Target \notin Deleted(One(Old)) /\ count[Target] = 0
    BY <1>3, <1>4, <1>5, <1>10, <1>11, <1>12
  <2>2. t[Target] = NewTexture
    BY <1>4, <1>9, <2>1 DEF ObjInv, MemInv
  <2> DEFINE x == copyParameters(tex[q])
  <2>3. tex[q] \in Texture /\ (NoLeak(heap, tex) => ~tex[q].direct)
    BY <1>2, <1>4, <1>12 DEF ObjInv, MemInv, Heaped, NoLeak
  <2>4. x = [NewTexture EXCEPT !.param = tex[q].param, !.generate = tex[q].generate, !.direct = tex[q].direct]
    BY DEF copyParameters
  <2>5. tex[q].param \in Params /\ tex[q].generate \in BOOLEAN /\ tex[q].direct \in BOOLEAN
    BY <2>3 DEF Texture
  <2>6. x \in Texture
    BY ONLY <2>4, <2>5, NewIsSound DEF Texture
  <2>7. /\ x.direct = tex[q].direct /\ x.surface = NewTexture.surface /\ x.mips = NewTexture.mips
        /\ x.internalformat = NewTexture.internalformat
    BY ONLY <2>4, NewIsSound DEF Texture
  <2>8. NewTexture.surface.data = Null /\ NewTexture.mips = <<>> /\ NewTexture.internalformat = 0
    BY DEF NewTexture, NoSurface
  <2> HIDE DEF x
  <2>9. Sound(x) /\ Holds(x) = {}
    BY <2>6, <2>7, <2>8, HoldsBase
  <2>10. \A h : Sized(h, x)
    BY <2>7, <2>8 DEF Sized
  <2>11. Found.tex = x /\ Holds(x) = Holds(t[Target])
    BY <1>8, <1>12, <2>2, <2>9, NewIsSound DEF x
  <2>12. Memory([heap |-> Found.heap, tex |-> x, ok |-> TRUE], Others(t, Target))
    BY <1>4, <1>9, <2>9, <2>11, Singling
  <2>13. ASSUME NEW o \in Objects \ {Target}, count'[o] = 0 PROVE t[o] = NewTexture
    <3>1. count' = Add(Add([Left EXCEPT ![q] = @ - 1], Target), Target)
      BY <1>12 DEF getAndBind
    <3>2. count'[o] = count[o] - If1(Old = o) - If1(q = o)
      BY <1>2, <1>4, <1>6, <1>12, <3>1 DEF Add, If1
    <3>3. q # o
      BY <1>2, <1>4, <1>5, <1>6, <1>7, <1>12, <2>13, <3>2 DEF If1
    <3>4. count[o] = If1(Old = o)
      BY <1>5, <2>13, <3>2, <3>3 DEF If1
    <3> QED BY <1>9, <1>10, <3>4 DEF If1, ObjInv, MemInv
  <2>14. ASSUME NEW u \in Units \ Affected
         PROVE  unit[u].tex \in Objects \ {Target} /\ t[unit[u].tex] = tex[unit[u].tex]
    <3>1. u # active
      BY <2>14 DEF Affected
    <3> QED BY <1>1, <1>5, <1>9, <1>10, <2>1, <3>1
  <2>15. \A u \in Units \ Affected : unit'[u] = unit[u]
    BY <1>1 DEF getAndBind, Affected
  <2>16. count'[Target] # 0
    <3>1. unit'[active].tex = Target
      BY <1>1 DEF getAndBind
    <3> QED BY <1>4, <1>11, <3>1, CountedNext DEF Accounting, If1
  <2>17. Memory(Found, Others(t, Target))
    BY <1>8, <2>11, <2>12
  <2> QED BY <1>2, <1>4, <1>9, <2>3, <2>7, <2>10, <2>11, <2>13, <2>14, <2>15, <2>16, <2>17
<1>13. CASE ~Shared
  <2>1. Target \notin Deleted(One(Old))
    <3>1. CASE Name = 0
      BY <1>2, <1>4, <1>5, <1>10, <1>11, <1>13, <3>1
    <3>2. CASE Name # 0
      BY <1>2, <1>4, <1>5, <1>10, <1>13, <3>2 DEF If1
    <3> QED BY <3>1, <3>2
  <2>2. Found.tex = t[Target] /\ t[Target] = tex[Target]
    BY <1>4, <1>8, <1>9, <1>13, <2>1
  <2>3. Memory([heap |-> Found.heap, tex |-> Found.tex, ok |-> TRUE], Others(t, Target))
    <3>1. Sound(Found.tex)
      BY <1>4, <1>9, <2>2 DEF Heaped
    <3> QED BY <1>4, <1>9, <2>2, <3>1, Singling
  <2>4. Memory(Found, Others(t, Target))
    BY <1>8, <2>3
  <2>5. ASSUME NEW o \in Objects \ {Target}, count'[o] = 0 PROVE t[o] = NewTexture
    <3>1. count' = Add(Left, Target)
      BY <1>13 DEF getAndBind
    <3>2. count'[o] = count[o] - If1(Old = o)
      BY <1>4, <1>6, <3>1 DEF Add
    <3>3. count[o] = If1(Old = o)
      BY <1>5, <2>5, <3>2 DEF If1
    <3> QED BY <1>9, <1>10, <3>3 DEF If1, ObjInv, MemInv
  <2>6. ASSUME NEW u \in Units \ Affected
        PROVE  unit[u].tex \in Objects \ {Target} /\ t[unit[u].tex] = tex[unit[u].tex]
    <3>1. u # active /\ (Name = 0 => unit[u].tex # defaultTexture) /\ unit[u].tex \in Objects
      BY <1>1, <2>6 DEF Affected
    <3>2. unit[u].tex # Target
      <4>1. CASE Name = 0
        BY <1>4, <1>13, <3>1, <4>1
      <4>2. CASE Name # 0
        <5>1. Target = q /\ Left[q] = 1 /\ q \in Objects
          BY <1>2, <1>4, <1>7, <1>13, <4>2
        <5>2. count[q] = 1 + If1(Old = q)
          BY <1>5, <1>6, <5>1 DEF If1
        <5>3. u \in Units \ {active}
          BY <3>1
        <5>4. unit[u].tex = q => count[q] >= 2 + If1(q = Old)
          BY <1>5, <4>2, <5>1, <5>3
        <5> QED BY <5>1, <5>2, <5>4 DEF If1
      <4> QED BY <4>1, <4>2
    <3>3. unit[u].tex \notin Deleted(One(Old))
      BY <1>5, <1>10, <3>1
    <3> QED BY <1>9, <3>1, <3>2, <3>3
  <2>7. \A u \in Units \ Affected : unit'[u] = unit[u]
    BY <1>1 DEF getAndBind, Affected
  <2>8. count'[Target] # 0
    <3>1. unit'[active].tex = Target
      BY <1>1 DEF getAndBind
    <3> QED BY <1>4, <1>11, <3>1, CountedNext DEF Accounting, If1
  <2>9. NoLeak(Found.heap, t) => ~Found.tex.direct
    BY <1>4, <2>2 DEF NoLeak
  <2>10. AllSized(Found.heap, t) => Sized(Found.heap, Found.tex)
    BY <1>4, <2>2 DEF AllSized
  <2> QED BY <1>2, <1>4, <1>9, <2>2, <2>4, <2>5, <2>6, <2>7, <2>8, <2>9, <2>10
<1> QED BY <1>12, <1>13

\* What an upload leaves in the object it found.
LEMMA UploadKeeps ==
  ASSUME IInv, IInv', open, open', ObjInv, RasInv, getAndBind, enable' = enable, odd \subseteq odd',
         NEW t, t = TexAfter(One(Old)), NEW n, Memory(n, Others(t, Target)),
         \A b \in Others(t, Target) : n.heap[b] = Found.heap[b],
         tex' = [t EXCEPT ![Target] = n.tex], heap' = n.heap,
         "image" \notin odd' => n.tex.direct = Found.tex.direct /\ Stray(n) \subseteq Stray(Found),
         "oom" \notin odd' /\ "tiny" \notin odd' /\ Sized(Found.heap, Found.tex) => Sized(n.heap, n.tex),
         "image" \notin odd' /\ "oom" \notin odd' /\ "tiny" \notin odd' => n.tex.surface.data # Null
  PROVE  ObjInv' /\ RasInv'
<1>1. /\ Target \in Objects /\ Heaped(Found.heap, t) /\ Holds(Found.tex) = Holds(t[Target])
      /\ NoLeak(heap, tex) => NoLeak(Found.heap, t) /\ ~Found.tex.direct
      /\ AllSized(heap, tex) => AllSized(Found.heap, t) /\ Sized(Found.heap, Found.tex)
      /\ HasData(tex) => HasData(t)
      /\ \A u \in Units \ Affected : /\ unit'[u] = unit[u] /\ unit[u].tex \in Objects \ {Target}
                                     /\ t[unit[u].tex] = tex[unit[u].tex]
      /\ \A o \in Objects \ {Target} : count'[o] = 0 => t[o] = NewTexture
      /\ count'[Target] # 0
  BY FoundOf
<1>2. t \in [Objects -> Texture]
  BY <1>1 DEF Heaped
<1>3. tex'[Target] = n.tex /\ \A o \in Objects \ {Target} : tex'[o] = t[o]
  BY <1>1, <1>2
<1>4. /\ Heaped(heap', tex')
      /\ NoLeak(Found.heap, t) /\ ~n.tex.direct
           /\ Stray(n) \subseteq Loose(Found.heap, t[Target])
         => NoLeak(heap', tex')
      /\ AllSized(Found.heap, t) /\ Sized(n.heap, n.tex) => AllSized(heap', tex')
  <2>1. /\ Memory(n, Others(t, Target)) /\ \A b \in Others(t, Target) : n.heap[b] = Found.heap[b]
        /\ tex' \in [Objects -> Texture]
    BY <1>1, <1>2 DEF Memory
  <2>2. /\ Heaped(n.heap, tex')
        /\ NoLeak(Found.heap, t) /\ ~n.tex.direct
             /\ Stray(n) \subseteq Loose(Found.heap, t[Target])
           => NoLeak(n.heap, tex')
        /\ AllSized(Found.heap, t) /\ Sized(n.heap, n.tex) => AllSized(n.heap, tex')
    <3>1. Target \in Objects /\ Heaped(Found.heap, t)
      BY <1>1
    <3> QED BY ONLY <1>3, <2>1, <3>1, Storing
  <2> QED BY <2>2
<1>5. ASSUME NEW o \in Objects, count'[o] = 0 PROVE tex'[o] = NewTexture
  BY <1>1, <1>3, <1>5
<1>6. "image" \notin odd' => NoLeak(heap', tex')
  BY <1>1, <1>4 DEF Stray, Loose, ObjInv, LeakInv
<1>7. "oom" \notin odd' /\ "tiny" \notin odd' => AllSized(heap', tex')
  BY <1>1, <1>4 DEF ObjInv, SizeInv
<1>8. "image" \notin odd' /\ "oom" \notin odd' /\ "tiny" \notin odd' => HasData(tex')
  BY <1>1, <1>3 DEF HasData, ObjInv, DataInv
<1>9. ObjInv'
  BY <1>4, <1>5, <1>6, <1>7, <1>8, ObjectsAfter
<1>10. ASSUME NEW u \in Units, ras'[u] # Stale
       PROVE  ras'[u] = ras[u] /\ tex'[unit'[u].tex] = tex[unit[u].tex]
  <2>1. u \notin Affected /\ ras'[u] = ras[u]
    BY <1>10 DEF getAndBind, Invalidate
  <2> QED BY <1>1, <1>3, <2>1
<1>11. RasInv'
  BY <1>10, RasKept
<1> QED BY <1>9, <1>11

\* A call that changes the object of the active unit in its place.
LEMMA EditKeeps ==
  ASSUME IInv, open, ObjInv, RasInv, UNCHANGED <<count, unit, enable>>, odd \subseteq odd',
         NEW n, Memory(n, Others(tex, Old)), \A b \in Others(tex, Old) : n.heap[b] = heap[b],
         tex' = [tex EXCEPT ![Old] = n.tex], heap' = n.heap,
         n.tex.direct = tex[Old].direct,
         Stray(n) \subseteq Loose(heap, tex[Old]),
         "oom" \notin odd' /\ "tiny" \notin odd' /\ Sized(heap, tex[Old]) => Sized(n.heap, n.tex),
         "tiny" \notin odd' => n.tex.surface = tex[Old].surface,
         "oom" \notin odd' /\ "tiny" \notin odd' /\ tex[Old].surface.data = Null =>
            n.tex.complete = tex[Old].complete,
         \A u \in Units : ras'[u] # Stale =>
            ras'[u] = ras[u] /\ ("shared" \notin odd' /\ unit[u].tex = Old => n.tex.param = tex[Old].param)
  PROVE  ObjInv' /\ RasInv'
<1>1. /\ Heaped(heap, tex) /\ Old \in Objects /\ tex \in [Objects -> Texture] /\ active \in Units
      /\ \A u \in Units : unit[u].tex \in Objects
  BY DEF ObjInv, MemInv, Heaped, IInv, Types, Old
<1>2. tex'[Old] = n.tex /\ \A o \in Objects \ {Old} : tex'[o] = tex[o]
  BY <1>1
<1>3. /\ Heaped(heap', tex')
      /\ NoLeak(heap, tex) /\ ~n.tex.direct
           /\ Stray(n) \subseteq Loose(heap, tex[Old])
         => NoLeak(heap', tex')
      /\ AllSized(heap, tex) /\ Sized(n.heap, n.tex) => AllSized(heap', tex')
  <2>1. /\ Memory(n, Others(tex, Old)) /\ \A b \in Others(tex, Old) : n.heap[b] = heap[b]
        /\ tex' \in [Objects -> Texture]
    BY <1>1 DEF Memory
  <2>2. /\ Heaped(n.heap, tex')
        /\ NoLeak(heap, tex) /\ ~n.tex.direct
             /\ Stray(n) \subseteq Loose(heap, tex[Old])
           => NoLeak(n.heap, tex')
        /\ AllSized(heap, tex) /\ Sized(n.heap, n.tex) => AllSized(n.heap, tex')
    <3>1. Old \in Objects /\ Heaped(heap, tex)
      BY <1>1
    <3> QED BY ONLY <1>2, <2>1, <3>1, Storing
  <2> QED BY <2>2
<1>4. ASSUME NEW o \in Objects, count'[o] = 0 PROVE tex'[o] = NewTexture
  <2>1. count[Old] # 0
    BY <1>1, Counted DEF Accounting, If1, Old
  <2> QED BY <1>2, <1>4, <2>1 DEF ObjInv, MemInv
<1>5. "image" \notin odd' => NoLeak(heap', tex')
  BY <1>1, <1>3 DEF NoLeak, ObjInv, LeakInv
<1>6. "oom" \notin odd' /\ "tiny" \notin odd' => AllSized(heap', tex')
  BY <1>1, <1>3 DEF AllSized, ObjInv, SizeInv
<1>7. "image" \notin odd' /\ "oom" \notin odd' /\ "tiny" \notin odd' => HasData(tex')
  BY <1>1, <1>2 DEF HasData, ObjInv, DataInv
<1>8. ObjInv'
  BY <1>3, <1>4, <1>5, <1>6, <1>7, ObjectsAfter
<1>9. RasInv'
  BY <1>1, <1>2, RasKept
<1> QED BY <1>8, <1>9

\* The object of the active unit, seen alone.
LEMMA OldOf ==
  ASSUME IInv, ObjInv, NEW m, m = [heap |-> heap, tex |-> tex[Old], ok |-> TRUE]
  PROVE  /\ Old \in Objects /\ Memory(m, Others(tex, Old)) /\ tex[Old] \in Texture /\ Sound(tex[Old])
         /\ Stray(m) = Loose(heap, tex[Old])
<1>1. Heaped(heap, tex) /\ Old \in Objects
  BY DEF ObjInv, MemInv, IInv, Types, Old
<1>2. Sound(tex[Old]) /\ tex[Old] \in Texture
  BY <1>1 DEF Heaped
<1>3. Memory(m, Others(tex, Old))
  BY <1>1, <1>2, Singling
<1> QED BY <1>1, <1>2, <1>3 DEF Stray, Loose

\* A level above 0.
LEMMA TexImageLevelKeeps ==
  ASSUME IInv, open, ObjInv, RasInv, NEW level \in Lods \ {0}, NEW dim \in Dims, NEW fmt \in Nat,
         NEW fail, TexImageLevel(level, dim, fmt, fail)
  PROVE  ObjInv' /\ RasInv'
<1> DEFINE t == tex[Old]
           m == [heap |-> heap, tex |-> t, ok |-> TRUE]
           n == reallocateMip(m, level, dim, fmt, fail)
<1>1. /\ tex' = [tex EXCEPT ![Old] = n.tex] /\ heap' = n.heap
      /\ odd' = odd \union (When(~n.ok /\ ~NoImage(t), "oom")
                  \union When(t.surface.data # Null /\ LodIndex(n.tex, level) = 0, "tiny"))
      /\ UNCHANGED <<count, unit, enable, ras>>
  BY DEF TexImageLevel, Store, Note, rasVars
<1>2. /\ odd \subseteq odd' /\ ("oom" \notin odd' => n.ok \/ NoImage(t))
      /\ "tiny" \notin odd' => ~(t.surface.data # Null /\ LodIndex(n.tex, level) = 0)
  BY <1>1 DEF When
<1>3. /\ Memory(m, Others(tex, Old)) /\ t \in Texture
      /\ Stray(m) = Loose(heap, t)
  BY OldOf
<1>4. level \in Nat \ {0} /\ m.ok /\ m.tex = t /\ m.heap = heap
  BY TexturesAssumption
<1> HIDE DEF m
<1>5. /\ Reaches(m, n, Others(tex, Old))
      /\ \/ n.tex.surface = t.surface
         \/ t.surface.data # Null /\ NumLods(t.surface.dim) = 0 /\ n.tex.mips = <<>>
      /\ n.ok => \/ n.tex.mips # <<>> /\ (t.mips # <<>> \/ t.surface.data # Null)
                 \/ t.surface.data # Null /\ NumLods(t.surface.dim) = 0
      /\ n.ok /\ n.tex.mips # <<>> /\ Sized(heap, t) => Sized(n.heap, n.tex)
  BY <1>3, <1>4, ReallocateMip
<1>n. NoImage(t) => n.tex = t /\ n.heap = heap
  <2>1. NoImage(t) => allocateMipmaps(m, Fails(fail, level, "array")) = [m EXCEPT !.ok = FALSE]
    BY <1>4 DEF NoImage, allocateMipmaps
  <2>2. [m EXCEPT !.ok = FALSE].tex = t /\ [m EXCEPT !.ok = FALSE].heap = heap /\ ~[m EXCEPT !.ok = FALSE].ok
    BY DEF m
  <2> QED BY <2>1, <2>2 DEF reallocateMip
<1> HIDE DEF n, t
<1>6. /\ Memory(n, Others(tex, Old)) /\ \A b \in Others(tex, Old) : n.heap[b] = heap[b]
      /\ n.tex.direct = t.direct /\ n.tex.param = t.param /\ Stray(n) \subseteq Stray(m)
      /\ n.tex \in Texture
  BY <1>4, <1>5 DEF Reaches, Memory
<1>7. n.tex.mips = <<>> => LodIndex(n.tex, level) = 0
  BY DEF LodIndex
<1>8. "tiny" \notin odd' => n.tex.surface = t.surface
  BY <1>2, <1>5, <1>7
<1>9. "oom" \notin odd' /\ "tiny" \notin odd' /\ Sized(heap, t) => Sized(n.heap, n.tex)
  BY <1>2, <1>5, <1>7, <1>n
<1>10. "oom" \notin odd' /\ "tiny" \notin odd' /\ t.surface.data = Null => n.tex = t
  <2> SUFFICES ASSUME "oom" \notin odd', "tiny" \notin odd', t.surface.data = Null PROVE n.tex = t
    OBVIOUS
  <2>1. AllSized(heap, tex) /\ Old \in Objects
    BY <1>2 DEF ObjInv, SizeInv, IInv, Types, Old
  <2>2. Sized(heap, t)
    BY <2>1 DEF AllSized, t
  <2> QED BY <1>2, <1>5, <1>n, <2>2 DEF Sized
<1>11. /\ Memory(n, Others(tex, Old)) /\ \A b \in Others(tex, Old) : n.heap[b] = heap[b]
       /\ tex' = [tex EXCEPT ![Old] = n.tex] /\ heap' = n.heap
       /\ n.tex.direct = tex[Old].direct /\ Stray(n) \subseteq Loose(heap, tex[Old])
       /\ "oom" \notin odd' /\ "tiny" \notin odd' /\ Sized(heap, tex[Old]) => Sized(n.heap, n.tex)
       /\ "tiny" \notin odd' => n.tex.surface = tex[Old].surface
       /\ "oom" \notin odd' /\ "tiny" \notin odd' /\ tex[Old].surface.data = Null =>
            n.tex.complete = tex[Old].complete
       /\ \A u \in Units : ras'[u] # Stale =>
            ras'[u] = ras[u] /\ ("shared" \notin odd' /\ unit[u].tex = Old => n.tex.param = tex[Old].param)
  BY <1>1, <1>3, <1>6, <1>8, <1>9, <1>10 DEF t
<1> QED BY <1>1, <1>2, <1>11, EditKeeps

\* glTexSubImage2D and glCopyTexSubImage2D: the texels have their memory, and
\* the pyramid is built anew.
LEMMA TexSubImageKeeps ==
  ASSUME IInv, open, ObjInv, RasInv, NEW level \in Lods, NEW copy, NEW fail,
         TexSubImage(level, copy, fail)
  PROVE  ObjInv' /\ RasInv' /\ UploadsFit'
<1> DEFINE t == tex[Old]
           m == [heap |-> heap, tex |-> t, ok |-> TRUE]
           n == IF level = 0 THEN generateMipmap(m, fail) ELSE m
<1>1. /\ tex' = [tex EXCEPT ![Old] = n.tex] /\ heap' = n.heap
      /\ odd' = odd \union When(~n.ok, "oom")
      /\ UNCHANGED <<count, unit, enable, ras>>
      /\ t.internalformat # 0 /\ mip(t, level).dim # <<0, 0>>
      /\ badUpload' = ~Fits(heap, mip(t, level))
  BY DEF TexSubImage, Store, Note, rasVars
<1>2. odd \subseteq odd' /\ ("oom" \notin odd' => n.ok)
  BY <1>1 DEF When
<1>3. /\ Old \in Objects /\ Memory(m, Others(tex, Old)) /\ t \in Texture /\ Sound(t)
      /\ Stray(m) = Loose(heap, t)
  BY OldOf
<1>4. m.ok /\ m.tex = t /\ m.heap = heap
  OBVIOUS
<1> HIDE DEF m
<1>5. /\ Reaches(m, n, Others(tex, Old)) /\ n.tex.surface = t.surface
      /\ n.ok /\ Sized(heap, t) => Sized(n.heap, n.tex)
  <2>1. CASE level = 0
    <3>1. mip(t, level) = t.surface
      BY <2>1 DEF mip, LodIndex
    <3>2. t.surface.dim \in Dims
      BY <1>1, <1>3, <3>1 DEF Texture, Surf
    <3>3. n = generateMipmap(m, fail)
      BY <2>1
    <3> HIDE DEF n
    <3> QED BY <1>3, <1>4, <3>2, <3>3, GenerateMipmap
  <2>2. CASE level # 0
    <3>1. n = m
      BY <2>2
    <3> QED BY <1>3, <1>4, <3>1 DEF Reaches
  <2> QED BY <2>1, <2>2
<1> HIDE DEF n
<1>6. /\ Memory(n, Others(tex, Old)) /\ \A b \in Others(tex, Old) : n.heap[b] = heap[b]
      /\ n.tex.direct = t.direct /\ n.tex.param = t.param /\ Stray(n) \subseteq Stray(m)
  BY <1>4, <1>5 DEF Reaches
<1>7. "oom" \notin odd' /\ "tiny" \notin odd' => t.surface.data # Null /\ Fits(heap, mip(t, level))
  <2> SUFFICES ASSUME "oom" \notin odd', "tiny" \notin odd'
               PROVE  t.surface.data # Null /\ Fits(heap, mip(t, level))
    OBVIOUS
  <2>1. AllSized(heap, tex) /\ heap \in [Blocks -> Sizes]
    BY <1>2 DEF ObjInv, SizeInv, MemInv, Heaped
  <2>2. Sized(heap, t)
    BY <1>3, <2>1 DEF AllSized, t
  <2> HIDE DEF t
  <2>3. t.mips = <<>> => mip(t, level) = t.surface
    BY DEF mip, LodIndex
  <2>4. t.surface.data # Null
    BY <1>1, <2>2, <2>3 DEF Sized
  <2>5. mip(t, level) = t.surface \/ \E i \in 1 .. Len(t.mips) : mip(t, level) = t.mips[i]
    <3>1. level \in Nat
      BY TexturesAssumption
    <3>2. level = 0 => mip(t, level) = t.surface
      BY DEF mip, LodIndex
    <3>3. level # 0 /\ t.mips # <<>> => LodIndex(t, level) \in 1 .. Len(t.mips)
      BY <1>3, <3>1, LodIndexOf
    <3>4. level # 0 /\ t.mips # <<>> => mip(t, level) = t.mips[LodIndex(t, level)]
      BY <3>3 DEF mip
    <3> QED BY <2>3, <3>2, <3>3, <3>4
  <2>6. mip(t, level).data # Null /\ heap[mip(t, level).data] = Bytes(mip(t, level).dim, mip(t, level).fmt)
    BY <1>1, <2>2, <2>4, <2>5 DEF Sized
  <2>7. mip(t, level) \in Surf
    <3>1. t.surface \in Surf /\ t.mips \in Seq(Surf)
      BY <1>3 DEF Texture
    <3> QED BY <2>5, <3>1
  <2>8. heap[mip(t, level).data] \in Int
    BY <2>1, <2>6, <2>7 DEF Surf, Sizes, Released
  <2>9. Fits(heap, mip(t, level))
    BY <2>6, <2>8 DEF Fits
  <2> QED BY <2>4, <2>9
<1>8. UploadsFit'
  BY <1>1, <1>7 DEF UploadsFit
<1>9. "oom" \notin odd' /\ "tiny" \notin odd' /\ Sized(heap, t) => Sized(n.heap, n.tex)
  BY <1>2, <1>5
<1>10. /\ Memory(n, Others(tex, Old)) /\ \A b \in Others(tex, Old) : n.heap[b] = heap[b]
       /\ tex' = [tex EXCEPT ![Old] = n.tex] /\ heap' = n.heap
       /\ n.tex.direct = tex[Old].direct /\ Stray(n) \subseteq Loose(heap, tex[Old])
       /\ "oom" \notin odd' /\ "tiny" \notin odd' /\ Sized(heap, tex[Old]) => Sized(n.heap, n.tex)
       /\ "tiny" \notin odd' => n.tex.surface = tex[Old].surface
       /\ "oom" \notin odd' /\ "tiny" \notin odd' /\ tex[Old].surface.data = Null =>
            n.tex.complete = tex[Old].complete
       /\ \A u \in Units : ras'[u] # Stale =>
            ras'[u] = ras[u] /\ ("shared" \notin odd' /\ unit[u].tex = Old => n.tex.param = tex[Old].param)
  BY <1>1, <1>3, <1>5, <1>6, <1>7, <1>9 DEF t
<1> QED BY <1>1, <1>2, <1>8, <1>10, EditKeeps

\* The internal format is set once the image has its memory.
WithFormat(m, fmt) == [m EXCEPT !.tex.internalformat = fmt]

LEMMA SetFormat ==
  ASSUME NEW m, NEW others, Memory(m, others), m.tex.surface.data # Null, NEW fmt \in Nat,
         NEW n, n = WithFormat(m, fmt)
  PROVE  /\ Reaches(m, n, others) /\ n.ok = m.ok /\ n.tex.surface = m.tex.surface
         /\ Sized(m.heap, m.tex) => Sized(n.heap, n.tex)
<1> DEFINE t == m.tex
           u == [t EXCEPT !.internalformat = fmt]
<1>1. m \in [heap : [Blocks -> Sizes], tex : Texture, ok : BOOLEAN] /\ t \in Texture /\ Sound(t)
  BY DEF Memory
<1>2. u \in Texture
  BY ONLY <1>1, fmt \in Nat DEF Texture
<1>3. /\ u.surface = t.surface /\ u.size = t.size /\ u.mips = t.mips
      /\ u.direct = t.direct /\ u.param = t.param
  BY ONLY <1>1 DEF Texture
<1>4. n = [m EXCEPT !.tex = u]
  BY ONLY <1>1, n = WithFormat(m, fmt) DEF WithFormat
<1> HIDE DEF u
<1>5. /\ n \in [heap : [Blocks -> Sizes], tex : Texture, ok : BOOLEAN]
      /\ n.heap = m.heap /\ n.tex = u /\ n.ok = m.ok
  BY ONLY <1>1, <1>2, <1>4
<1>6. Sound(u)
  BY <1>1, <1>2, <1>3 DEF Sound
<1>7. Holds(u) = Holds(t)
  BY <1>3 DEF Holds, BaseBlocks, MipBlocks
<1>8. Memory(n, others)
  BY <1>5, <1>6, <1>7 DEF Memory
<1>9. Stray(n) = Stray(m)
  BY <1>5, <1>7 DEF Stray, Loose
<1>10. Sized(m.heap, t) => Sized(m.heap, u)
  BY <1>3 DEF Sized
<1> QED BY <1>3, <1>5, <1>8, <1>9, <1>10 DEF Reaches

\* An image for level 0, with the levels that come with it or are built from it.
LEMMA TexImageBaseKeeps ==
  ASSUME IInv, IInv', open, open', ObjInv, RasInv, NEW dim \in Dims, NEW fmt \in Nat \ {0},
         NEW texels \in BOOLEAN, NEW top \in Lods, NEW fail, TexImageBase(dim, fmt, texels, top, fail)
  PROVE  ObjInv' /\ RasInv' /\ UploadsFit'
<1> DEFINE m0 == reallocateBase(Found, dim, fmt, fail)
           m1 == [m0 EXCEPT !.tex.internalformat = fmt]
           m2 == IF top > 0 THEN Levels(m1, dim, fmt, top, fail)
                 ELSE IF texels THEN generateMipmap(m1, fail) ELSE m1
           n  == IF m0.ok THEN m2 ELSE m0
           t == TexAfter(One(Old))
           others == Others(t, Target)
<1>1. /\ getAndBind /\ enable' = enable
      /\ tex' = [t EXCEPT ![Target] = n.tex] /\ heap' = n.heap
      /\ badUpload' = (m0.ok /\ texels /\ ~Fits(m0.heap, m0.tex.surface))
      /\ odd' = odd \union (When(~n.ok, "oom")
                  \union When(m0.ok /\ top > 0 /\ NumLods(dim) = 0, "tiny"))
  BY DEF TexImageBase, Store, Note
<1>2. /\ odd \subseteq odd' /\ ("oom" \notin odd' => n.ok)
      /\ "tiny" \notin odd' => ~(m0.ok /\ top > 0 /\ NumLods(dim) = 0)
  <2> HIDE DEF n, m0
  <2> QED BY <1>1 DEF When
<1>3. top \in Nat /\ top \in 0 .. 30
  BY TexturesAssumption
<1>4. Memory(Found, others) /\ (AllSized(heap, tex) => Sized(Found.heap, Found.tex))
  BY <1>1, FoundOf
<1> HIDE DEF others
<1>5. /\ Reaches(Found, m0, others)
      /\ m0.ok => /\ m0.tex.surface.data # Null /\ m0.tex.surface.dim = dim
      /\ m0.ok /\ Sized(Found.heap, Found.tex) => Sized(m0.heap, m0.tex) /\ Fits(m0.heap, m0.tex.surface)
  BY <1>4, ReallocateBase
<1> HIDE DEF m0
<1>6. m0.ok => /\ Reaches(m0, m1, others) /\ m1.ok = m0.ok /\ m1.tex.surface = m0.tex.surface
               /\ Sized(m0.heap, m0.tex) => Sized(m1.heap, m1.tex)
  <2>1. fmt \in Nat /\ (m0.ok => Memory(m0, others) /\ m0.tex.surface.data # Null)
    BY <1>5 DEF Reaches
  <2>2. m1 = WithFormat(m0, fmt)
    BY DEF WithFormat
  <2> HIDE DEF m1
  <2> QED BY ONLY <2>1, <2>2, SetFormat
<1> HIDE DEF m1
<1>7. m0.ok => /\ Reaches(m1, m2, others)
               /\ top = 0 \/ NumLods(dim) # 0 =>
                    /\ m2.tex.surface = m1.tex.surface
                    /\ m2.ok /\ Sized(m1.heap, m1.tex) => Sized(m2.heap, m2.tex)
  <2> SUFFICES ASSUME m0.ok
               PROVE  /\ Reaches(m1, m2, others)
                      /\ top = 0 \/ NumLods(dim) # 0 =>
                           /\ m2.tex.surface = m1.tex.surface
                           /\ m2.ok /\ Sized(m1.heap, m1.tex) => Sized(m2.heap, m2.tex)
    OBVIOUS
  <2>1. Memory(m1, others) /\ m1.tex.surface.dim = dim
    BY <1>5, <1>6 DEF Reaches
  <2>2. CASE top > 0
    <3>1. m2 = Levels(m1, dim, fmt, top, fail)
      BY <2>2
    <3> HIDE DEF m2
    <3> QED BY <1>3, <2>1, <2>2, <3>1, LevelsKeep
  <2>3. CASE ~(top > 0) /\ texels
    <3>1. m2 = generateMipmap(m1, fail)
      BY <2>3
    <3> HIDE DEF m2
    <3> QED BY <2>1, <3>1, GenerateMipmap
  <2>4. CASE ~(top > 0) /\ ~texels
    <3>1. m2 = m1
      BY <2>4
    <3> HIDE DEF m2
    <3> QED BY <2>1, <3>1 DEF Reaches
  <2> QED BY <2>2, <2>3, <2>4
<1> HIDE DEF m2
<1>8. Reaches(Found, n, others)
  BY <1>5, <1>6, <1>7, ReachesTransitive
<1>9. ~m0.ok => ~n.ok
  OBVIOUS
<1>10. m0.ok => n = m2
  OBVIOUS
<1> HIDE DEF n
<1>11. "oom" \notin odd' /\ "tiny" \notin odd' =>
         m0.ok /\ n.ok /\ n = m2 /\ (top = 0 \/ NumLods(dim) # 0)
  BY <1>2, <1>3, <1>9, <1>10
<1>12. "oom" \notin odd' /\ "tiny" \notin odd' /\ Sized(Found.heap, Found.tex) => Sized(n.heap, n.tex)
  BY <1>5, <1>6, <1>7, <1>11
<1>13. "oom" \notin odd' /\ "tiny" \notin odd' => n.tex.surface.data # Null
  BY <1>5, <1>6, <1>7, <1>11
<1>14. UploadsFit'
  <2> SUFFICES ASSUME "oom" \notin odd', "tiny" \notin odd' PROVE ~badUpload'
    BY DEF UploadsFit
  <2>1. AllSized(heap, tex)
    BY <1>2 DEF ObjInv, SizeInv
  <2> QED BY <1>1, <1>4, <1>5, <2>1
<1>15. ObjInv' /\ RasInv'
  <2>1. /\ Memory(n, Others(t, Target)) /\ \A b \in Others(t, Target) : n.heap[b] = Found.heap[b]
        /\ n.tex.direct = Found.tex.direct /\ Stray(n) \subseteq Stray(Found)
    BY <1>8 DEF Reaches, others
  <2> HIDE DEF t
  <2>2. t = TexAfter(One(Old))
    BY DEF t
  <2> QED BY <1>1, <1>2, <1>12, <1>13, <2>1, <2>2, UploadKeeps
<1> QED BY <1>14, <1>15

\* glEGLImageTargetTexture2DOES.
LEMMA EGLImageKeeps ==
  ASSUME IInv, IInv', open, open', ObjInv, RasInv, NEW dim \in Dims, NEW fmt \in Nat,
         glEGLImageTargetTexture2DOES(dim, fmt)
  PROVE  ObjInv' /\ RasInv'
<1> DEFINE n == setSurface(Found, dim, fmt)
           t == TexAfter(One(Old))
<1>1. /\ getAndBind /\ enable' = enable /\ tex' = [t EXCEPT ![Target] = n.tex] /\ heap' = n.heap
      /\ odd \subseteq odd' /\ "image" \in odd'
  BY DEF glEGLImageTargetTexture2DOES, Store, Note
<1>2. t = TexAfter(One(Old))
  OBVIOUS
<1> HIDE DEF t
<1>3. Memory(Found, Others(t, Target))
  BY <1>1, <1>2, FoundOf
<1>4. /\ Memory(n, Others(t, Target)) /\ \A b \in Others(t, Target) : n.heap[b] = Found.heap[b]
      /\ Sized(n.heap, n.tex)
  BY <1>3, SetSurface
<1> HIDE DEF n
<1> QED BY <1>1, <1>2, <1>4, UploadKeeps

\* glTexParameter.
LEMMA TexParameterKeeps ==
  ASSUME IInv, open, ObjInv, RasInv, glTexParameter
  PROVE  ObjInv' /\ RasInv'
<1> DEFINE m == [heap |-> heap, tex |-> tex[Old], ok |-> TRUE]
<1>1. PICK x : /\ texParameterx(x)
               /\ \/ \E p \in Params : x = [tex[Old] EXCEPT !.param = p]
                  \/ \E g \in BOOLEAN : x = [tex[Old] EXCEPT !.generate = g]
  BY DEF glTexParameter
<1>2. /\ Old \in Objects /\ Memory(m, Others(tex, Old)) /\ tex[Old] \in Texture /\ Sound(tex[Old])
      /\ Stray(m) = Loose(heap, tex[Old])
  BY OldOf
<1>3. /\ x \in Texture /\ x.surface = tex[Old].surface /\ x.mips = tex[Old].mips
      /\ x.size = tex[Old].size /\ x.direct = tex[Old].direct /\ x.complete = tex[Old].complete
      /\ x.internalformat = tex[Old].internalformat
  <2> DEFINE o == tex[Old]
  <2>1. o \in Texture
    BY <1>2
  <2> HIDE DEF o
  <2>2. ASSUME NEW p \in Params, x = [o EXCEPT !.param = p]
        PROVE  x \in Texture /\ x.surface = o.surface /\ x.mips = o.mips /\ x.size = o.size
               /\ x.direct = o.direct /\ x.complete = o.complete /\ x.internalformat = o.internalformat
    BY ONLY <2>1, <2>2, p \in Params DEF Texture
  <2>3. ASSUME NEW g \in BOOLEAN, x = [o EXCEPT !.generate = g]
        PROVE  x \in Texture /\ x.surface = o.surface /\ x.mips = o.mips /\ x.size = o.size
               /\ x.direct = o.direct /\ x.complete = o.complete /\ x.internalformat = o.internalformat
    <3>1. x \in Texture
      BY ONLY <2>1, <2>3, g \in BOOLEAN DEF Texture
    <3>2. x.surface = o.surface /\ x.mips = o.mips /\ x.size = o.size
          /\ x.direct = o.direct /\ x.complete = o.complete /\ x.internalformat = o.internalformat
      BY ONLY <2>1, <2>3 DEF Texture
    <3> QED BY <3>1, <3>2
  <2> QED BY <1>1, <2>2, <2>3 DEF o
<1>4. /\ tex' = [tex EXCEPT ![Old] = x] /\ ras' = Invalidate({active})
      /\ odd' = odd \union When(x.param # tex[Old].param /\ \E u \in Units \ {active} : unit[u].tex = Old,
                                "shared")
      /\ UNCHANGED <<count, heap, unit, enable>>
  BY <1>1 DEF texParameterx, Note
<1>5. /\ odd \subseteq odd'
      /\ "shared" \notin odd' => x.param = tex[Old].param \/ \A u \in Units \ {active} : unit[u].tex # Old
  BY <1>4 DEF When
<1>6. \A u \in Units : ras'[u] # Stale => ras'[u] = ras[u] /\ u # active
  BY <1>4 DEF Invalidate
<1>7. Sound(x) /\ Holds(x) = Holds(tex[Old])
  BY <1>2, <1>3 DEF Sound, Holds, BaseBlocks, MipBlocks
<1>8. Sized(heap, tex[Old]) => Sized(heap, x)
  BY <1>3 DEF Sized
<1> DEFINE n == [heap |-> heap, tex |-> x, ok |-> TRUE]
<1>9. n.tex = x /\ n.heap = heap
  OBVIOUS
<1>10. Memory(n, Others(tex, Old))
  <2>1. Heaped(heap, tex)
    BY DEF ObjInv, MemInv
  <2> QED BY <1>2, <1>7, <2>1, Singling
<1> HIDE DEF n
<1>11. Stray(n) \subseteq Loose(heap, tex[Old])
  BY <1>7, <1>9 DEF Stray, Loose
<1>12. /\ \A b \in Others(tex, Old) : n.heap[b] = heap[b]
       /\ tex' = [tex EXCEPT ![Old] = n.tex] /\ heap' = n.heap
       /\ n.tex.direct = tex[Old].direct
       /\ "oom" \notin odd' /\ "tiny" \notin odd' /\ Sized(heap, tex[Old]) => Sized(n.heap, n.tex)
       /\ "tiny" \notin odd' => n.tex.surface = tex[Old].surface
       /\ "oom" \notin odd' /\ "tiny" \notin odd' /\ tex[Old].surface.data = Null =>
            n.tex.complete = tex[Old].complete
       /\ \A u \in Units : ras'[u] # Stale =>
            ras'[u] = ras[u] /\ ("shared" \notin odd' /\ unit[u].tex = Old => n.tex.param = tex[Old].param)
  BY <1>3, <1>4, <1>5, <1>6, <1>8, <1>9
<1> QED BY <1>4, <1>5, <1>10, <1>11, <1>12, EditKeeps

\* glEnable: a unit that is on again without being dirty has a complete texture,
\* or it is revived.
LEMMA EnableKeeps ==
  ASSUME IInv, ObjInv, RasInv, NEW on \in BOOLEAN, EnableTexture(on)
  PROVE  ObjInv' /\ RasInv'
<1>1. /\ enable' = [enable EXCEPT ![active] = on] /\ UNCHANGED <<tex, heap, count, unit, ras>>
      /\ odd' = odd \union When(on /\ ras[active] # Stale /\ ~tex[Old].complete, "revived")
  BY DEF EnableTexture, Note, objVars
<1>2. /\ odd \subseteq odd'
      /\ "revived" \notin odd' => ~(on /\ ras[active] # Stale /\ ~tex[Old].complete)
  BY <1>1 DEF When
<1>3. active \in Units /\ enable \in [Units -> BOOLEAN] /\ Old \in Objects /\ unit[active].tex = Old
  BY DEF RasInv, CopyTypes, IInv, Types, Old
<1>4. ObjInv'
  BY <1>1, <1>2, ObjectsSame
<1>5. CopyTypes' /\ SurfacesFollow' /\ ParamsFollow'
  BY <1>1, <1>2, <1>3 DEF RasInv, CopyTypes, SurfacesFollow, ParamsFollow
<1>6. OnHasData'
  <2> SUFFICES ASSUME "image" \notin odd', "oom" \notin odd', "tiny" \notin odd', "revived" \notin odd',
                      NEW u \in Units, enable'[u], ras[u] # Stale
               PROVE  tex[unit[u].tex].surface.data # Null
    BY <1>1 DEF OnHasData
  <2>1. CASE u # active
    <3>1. enable[u]
      BY <1>1, <1>3, <2>1
    <3> QED BY <1>2, <3>1 DEF RasInv, OnHasData
  <2>2. CASE u = active
    <3>1. on
      BY <1>1, <1>3, <2>2
    <3>2. tex[Old].complete
      BY <1>2, <2>2, <3>1
    <3>3. HasData(tex)
      BY <1>2 DEF ObjInv, DataInv
    <3> QED BY <1>3, <2>2, <3>2, <3>3 DEF HasData
  <2> QED BY <2>1, <2>2
<1> QED BY <1>4, <1>5, <1>6 DEF RasInv

\* What a validated unit shows the rasterizer.
LEMMA ValidatedOf ==
  ASSUME IInv, ObjInv, RasInv, NEW u \in Units, Validated[u] # Stale \/ Dirty(u)
  PROVE  /\ Validated[u] \in [surface : Surf, param : Int] /\ unit[u].tex \in Objects
         /\ Validated[u].surface = tex[unit[u].tex].surface \/ "tiny" \in odd
         /\ Validated[u].param = tex[unit[u].tex].param \/ "shared" \in odd \/ "missed" \in odd
<1>1. unit[u].tex \in Objects /\ tex[unit[u].tex] \in Texture
  BY DEF IInv, Types, ObjInv, MemInv, Heaped
<1>2. Validated[u] = IF Dirty(u) THEN CopyOf(unit[u].tex) ELSE ras[u]
  BY DEF Validated
<1>3. /\ CopyOf(unit[u].tex) \in [surface : Surf, param : Int]
      /\ CopyOf(unit[u].tex).surface = tex[unit[u].tex].surface
      /\ CopyOf(unit[u].tex).param = tex[unit[u].tex].param
  <2>1. tex[unit[u].tex].surface \in Surf /\ tex[unit[u].tex].param \in Int
    <3>1. \A p \in Params : p \in Int
      BY TexturesAssumption
    <3>2. tex[unit[u].tex].surface \in Surf /\ tex[unit[u].tex].param \in Params
      BY <1>1 DEF Texture
    <3> QED BY <3>1, <3>2
  <2> QED BY <2>1 DEF CopyOf
<1>4. CASE Dirty(u)
  BY <1>1, <1>2, <1>3, <1>4
<1>5. CASE ~Dirty(u)
  BY <1>1, <1>2, <1>5 DEF RasInv, CopyTypes, SurfacesFollow, ParamsFollow
<1> QED BY <1>4, <1>5

\* A unit that is sampled has memory for its texels.
LEMMA SampleFits ==
  ASSUME IInv, ObjInv, RasInv, NEW u \in Units, enable[u],
         "image" \notin odd, "oom" \notin odd, "tiny" \notin odd, "revived" \notin odd,
         Dirty(u) => tex[unit[u].tex].surface.data # Null
  PROVE  Fits(heap, Validated[u].surface)
<1>1. Validated[u] # Stale \/ Dirty(u)
  BY DEF Validated, Dirty
<1>2. unit[u].tex \in Objects /\ Validated[u].surface = tex[unit[u].tex].surface
  BY <1>1, ValidatedOf
<1> DEFINE t == tex[unit[u].tex]
<1>3. t.surface.data # Null
  BY DEF Dirty, RasInv, OnHasData
<1>4. Sized(heap, t) /\ t \in Texture /\ heap \in [Blocks -> Sizes]
  BY <1>2 DEF ObjInv, SizeInv, AllSized, MemInv, Heaped
<1> HIDE DEF t
<1>5. t.surface.data \in Blocks /\ heap[t.surface.data] = Bytes(t.surface.dim, t.surface.fmt)
  BY <1>3, <1>4 DEF Sized, Texture, Surf
<1>6. heap[t.surface.data] \in Int
  BY <1>4, <1>5 DEF Sizes, Released
<1>7. Fits(heap, t.surface)
  BY <1>3, <1>5, <1>6 DEF Fits
<1> QED BY <1>2, <1>7 DEF t

\* A unit that stays on has a complete texture, hence memory, if it was dirty.
LEMMA StillOnHasData ==
  ASSUME IInv, ObjInv, NEW u \in StillOn, "image" \notin odd, "oom" \notin odd, "tiny" \notin odd
  PROVE  u \in Units /\ enable[u] /\ (Dirty(u) => tex[unit[u].tex].surface.data # Null)
<1>1. u \in Units /\ enable[u] /\ (Dirty(u) => tex[unit[u].tex].complete)
  BY DEF StillOn
<1>2. unit[u].tex \in Objects
  BY <1>1 DEF IInv, Types
<1> QED BY <1>1, <1>2 DEF ObjInv, DataInv, HasData

\* Draw calls.
LEMMA DrawKeeps ==
  ASSUME IInv, ObjInv, RasInv, Draw
  PROVE  ObjInv' /\ RasInv' /\ DrawsSampleTexels'
<1>1. /\ ras' = Validated /\ enable' = [u \in Units |-> u \in StillOn]
      /\ badDraw' = \E u \in StillOn : ~Fits(heap, Validated[u].surface)
      /\ UNCHANGED <<tex, heap, count, unit, odd>>
  BY DEF Draw, Samples, objVars
<1>2. ObjInv'
  BY <1>1, ObjectsSame
<1>3. CopyTypes' /\ SurfacesFollow' /\ ParamsFollow'
  <2>1. \A u \in Units : ras'[u] # Stale =>
          /\ ras'[u] \in [surface : Surf, param : Int]
          /\ ras'[u].surface = tex[unit[u].tex].surface \/ "tiny" \in odd
          /\ ras'[u].param = tex[unit[u].tex].param \/ "shared" \in odd \/ "missed" \in odd
    BY <1>1, ValidatedOf
  <2>2. enable' \in [Units -> BOOLEAN]
    BY <1>1
  <2> QED BY <1>1, <2>1, <2>2 DEF CopyTypes, SurfacesFollow, ParamsFollow
<1>4. OnHasData'
  <2> SUFFICES ASSUME "image" \notin odd, "oom" \notin odd, "tiny" \notin odd, "revived" \notin odd,
                      NEW u \in Units, enable'[u], ras'[u] # Stale
               PROVE  tex[unit[u].tex].surface.data # Null
    BY <1>1 DEF OnHasData
  <2>1. u \in StillOn
    BY <1>1
  <2>2. enable[u] /\ (Dirty(u) => tex[unit[u].tex].surface.data # Null)
    BY <2>1, StillOnHasData
  <2> QED BY <2>2 DEF Dirty, RasInv, OnHasData
<1>5. DrawsSampleTexels'
  <2> SUFFICES ASSUME "image" \notin odd, "oom" \notin odd, "tiny" \notin odd, "revived" \notin odd
               PROVE  ~badDraw'
    BY <1>1 DEF DrawsSampleTexels
  <2> QED BY <1>1, SampleFits, StillOnHasData
<1> QED BY <1>2, <1>3, <1>4, <1>5 DEF RasInv

\* glDrawTex*OES leaves the units that are on dirty.
LEMMA DrawTexKeeps ==
  ASSUME IInv, ObjInv, RasInv, DrawTex \/ DrawTexOneToOne
  PROVE  ObjInv' /\ RasInv' /\ DrawsSampleTexels'
<1>1. /\ ras' = [u \in Units |-> IF enable[u] THEN Stale
                            ELSE IF u = active /\ Misses THEN [ras[u] EXCEPT !.param = Altered]
                            ELSE ras[u]]
      /\ odd' = odd \union When(Misses, "missed")
      /\ UNCHANGED <<tex, heap, count, unit>>
  BY DEF DrawTex, DrawTexOneToOne, AfterDrawTex, Note, objVars
<1>2. odd \subseteq odd' /\ ("missed" \notin odd' => ~Misses)
  BY <1>1 DEF When
<1>3. enable' \in [Units -> BOOLEAN] /\ \A u \in Units : enable'[u] => enable[u]
  <2>1. CASE DrawTex
    <3>1. enable' = [u \in Units |-> u \in StillOn]
      BY <2>1 DEF DrawTex
    <3>2. \A u \in Units : enable'[u] <=> u \in StillOn
      BY <3>1
    <3>3. \A u \in StillOn : enable[u]
      BY DEF StillOn
    <3>4. enable' \in [Units -> BOOLEAN]
      BY ONLY <3>1
    <3> QED BY <3>2, <3>3, <3>4
  <2>2. CASE DrawTexOneToOne
    BY <2>2 DEF DrawTexOneToOne, RasInv, CopyTypes
  <2> QED BY <2>1, <2>2
<1>4. ObjInv'
  BY <1>1, <1>2, ObjectsSame
<1>5. ASSUME NEW u \in Units, ras'[u] # Stale
      PROVE  /\ ~enable[u] /\ ras'[u] \in [surface : Surf, param : Int]
             /\ "tiny" \notin odd' => ras'[u].surface = tex[unit[u].tex].surface
             /\ "shared" \notin odd' /\ "missed" \notin odd' => ras'[u].param = tex[unit[u].tex].param
  <2>1. ~enable[u] /\ (ras'[u] = ras[u] \/ (u = active /\ Misses /\ ras'[u] = [ras[u] EXCEPT !.param = Altered]))
    BY <1>1, <1>5
  <2>2. u = active /\ Misses => ras[u] # Stale
    BY DEF Misses
  <2>3. ras[u] # Stale /\ ras[u] \in [surface : Surf, param : Int]
    BY <1>5, <2>1, <2>2 DEF RasInv, CopyTypes
  <2>4. CASE ras'[u] = ras[u]
    BY <1>2, <2>1, <2>3, <2>4 DEF RasInv, SurfacesFollow, ParamsFollow
  <2>5. CASE Misses /\ ras'[u] = [ras[u] EXCEPT !.param = Altered]
    <3>1. Altered \in Int
      BY DEF Altered
    <3>2. ras'[u] \in [surface : Surf, param : Int] /\ ras'[u].surface = ras[u].surface
      BY <2>3, <2>5, <3>1
    <3> QED BY <1>2, <2>1, <2>3, <2>5, <3>2 DEF RasInv, SurfacesFollow
  <2> QED BY <2>1, <2>4, <2>5
<1>6. RasInv'
  BY <1>1, <1>3, <1>5 DEF RasInv, CopyTypes, SurfacesFollow, ParamsFollow, OnHasData
<1>7. DrawsSampleTexels'
  <2> SUFFICES ASSUME "image" \notin odd', "oom" \notin odd', "tiny" \notin odd', "revived" \notin odd'
               PROVE  ~badDraw'
    BY DEF DrawsSampleTexels
  <2>1. "image" \notin odd /\ "oom" \notin odd /\ "tiny" \notin odd /\ "revived" \notin odd
    BY <1>2
  <2>2. CASE DrawTex
    <3>1. badDraw' = \E u \in StillOn : ~Fits(heap, Validated[u].surface)
      BY <2>2 DEF DrawTex, Samples
    <3> QED BY <2>1, <3>1, SampleFits, StillOnHasData
  <2>3. CASE DrawTexOneToOne
    <3>1. badDraw' = \E u \in {0} : ~Fits(heap, Validated[u].surface)
      BY <2>3 DEF DrawTexOneToOne, Samples
    <3>2. 0 \in Units /\ enable[0] /\ tex[unit[0].tex].surface.dim # <<0, 0>>
      BY <2>3, TexturesAssumption DEF DrawTexOneToOne
    <3>3. HasData(tex) /\ unit[0].tex \in Objects
      BY <2>1, <3>2 DEF ObjInv, DataInv, IInv, Types
    <3>4. tex[unit[0].tex].surface.data # Null
      BY <3>2, <3>3 DEF HasData
    <3>5. Fits(heap, Validated[0].surface)
      BY <2>1, <3>2, <3>4, SampleFits
    <3> QED BY <3>1, <3>5
  <2> QED BY <2>2, <2>3
<1> QED BY <1>4, <1>6, <1>7
-----------------------------------------------------------------------------
ImageInv == ObjInv /\ RasInv /\ UploadsFit /\ DrawsSampleTexels

LEMMA InitImageInv == Init => ImageInv
<1> SUFFICES ASSUME Init PROVE ImageInv
  OBVIOUS
<1>1. \A o \in Objects : tex[o] = NewTexture
  BY DEF Init
<1>2. NewTexture \in Texture /\ Sound(NewTexture) /\ Holds(NewTexture) = {}
      /\ ~NewTexture.direct /\ ~NewTexture.complete /\ NewTexture.surface.dim = <<0, 0>>
  BY NewIsSound DEF NewTexture, NoSurface
<1>3. Heaped(heap, tex)
  BY <1>1, <1>2 DEF Init, Heaped, Sizes
<1>4. NoLeak(heap, tex) /\ HasData(tex)
  BY <1>1, <1>2 DEF Init, NoLeak, HasData
<1>5. AllSized(heap, tex)
  BY <1>1, NewIsSized DEF AllSized
<1>6. ObjInv
  BY <1>1, <1>3, <1>4, <1>5 DEF ObjInv, MemInv, LeakInv, SizeInv, DataInv
<1>7. RasInv
  BY DEF Init, RasInv, CopyTypes, SurfacesFollow, ParamsFollow, OnHasData
<1> QED BY <1>6, <1>7 DEF Init, ImageInv, UploadsFit, DrawsSampleTexels

\* Every call keeps the memory of the textures and the rasterizer's copies right,
\* because it counts the references right.
LEMMA NextImageInv == IInv /\ IInv' /\ ImageInv /\ [Next]_vars => ImageInv'
<1> SUFFICES ASSUME IInv, IInv', ImageInv, [Next]_vars PROVE ImageInv'
  OBVIOUS
<1> USE TexturesAssumption
<1>1. ObjInv /\ RasInv
  BY DEF ImageInv
<1>2. CASE UNCHANGED vars
  <2>1. ObjInv' /\ RasInv'
    BY <1>1, <1>2, ObjectsSame, RasKept DEF vars, objVars, rasVars, ghosts
  <2> QED BY <1>2, <2>1 DEF vars, ghosts, ImageInv, UploadsFit, DrawsSampleTexels
<1>3. CASE Next
  <2>1. open /\ ~badUpload /\ ~badDraw
    BY <1>3 DEF Next, Alive
  <2>2. UNCHANGED badUpload => UploadsFit'
    BY <2>1 DEF UploadsFit
  <2>3. UNCHANGED badDraw => DrawsSampleTexels'
    BY <2>1 DEF DrawsSampleTexels
  <2>4. ASSUME NEW u \in Units, glActiveTexture(u) PROVE ImageInv'
    BY <1>1, <2>2, <2>3, <2>4, ObjectsSame, RasKept
    DEF glActiveTexture, objVars, rasVars, ghosts, ImageInv
  <2>5. ASSUME NEW n \in Names \union {0}, BindExisting(n) PROVE ImageInv'
    <3>1. /\ ObjectOf(n) \in Objects /\ BindUnit(active, n, ObjectOf(n), count)
          /\ UNCHANGED <<enable, open, badUpload, badDraw, odd>>
      BY <2>5 DEF BindExisting, ObjectOf, IInv, Types, ghosts
    <3> QED BY <1>1, <2>1, <2>2, <2>3, <3>1, BindKeeps DEF ImageInv
  <2>6. ASSUME NEW n \in Names, BindNew(n) PROVE ImageInv'
    <3>1. /\ NewObject \in Objects /\ BindUnit(active, n, NewObject, Add(count, NewObject))
          /\ UNCHANGED <<enable, open, badUpload, badDraw, odd>>
      BY <2>1, <2>6, NewObjectIsNew DEF BindNew, ghosts
    <3> QED BY <1>1, <2>1, <2>2, <2>3, <3>1, BindKeeps DEF ImageInv
  <2>7. ASSUME NEW ns \in SUBSET Names, glDeleteTextures(ns) PROVE ImageInv'
    <3>1. UNCHANGED <<open, badUpload, badDraw>>
      BY <2>7 DEF glDeleteTextures, ghosts
    <3> QED BY <1>1, <2>1, <2>2, <2>3, <2>7, <3>1, DeleteKeeps DEF ImageInv
  <2>8. ASSUME NEW i \in Images,
               \/ glEGLImageTargetTexture2DOES(i.dim, i.fmt)
               \/ \E level \in Lods \ {0} : \E fail \in Failures({level}) :
                    TexImageLevel(level, i.dim, i.fmt, fail)
               \/ \E top \in Lods, fail \in Failures(Lods) :
                    TexImageBase(i.dim, i.fmt, TRUE, top, fail)
               \/ \E fail \in Failures({0}) : TexImageBase(i.dim, i.fmt, FALSE, 0, fail)
        PROVE  ImageInv'
    <3>1. i.dim \in Dims /\ i.fmt \in Nat \ {0} /\ i.fmt \in Nat
      OBVIOUS
    <3>2. CASE glEGLImageTargetTexture2DOES(i.dim, i.fmt)
      <4>1. UNCHANGED <<open, badUpload, badDraw>>
        BY <3>2 DEF glEGLImageTargetTexture2DOES
      <4> QED BY <1>1, <2>1, <2>2, <2>3, <3>1, <3>2, <4>1, EGLImageKeeps DEF ImageInv
    <3>3. ASSUME NEW level \in Lods \ {0}, NEW fail, TexImageLevel(level, i.dim, i.fmt, fail)
          PROVE  ImageInv'
      <4>1. UNCHANGED <<badUpload, badDraw>>
        BY <3>3 DEF TexImageLevel
      <4> QED BY <1>1, <2>1, <2>2, <2>3, <3>1, <3>3, <4>1, TexImageLevelKeeps DEF ImageInv
    <3>4. ASSUME NEW texels \in BOOLEAN, NEW top \in Lods, NEW fail,
                 TexImageBase(i.dim, i.fmt, texels, top, fail)
          PROVE  ImageInv'
      <4>1. UNCHANGED <<open, badDraw>>
        BY <3>4 DEF TexImageBase
      <4> QED BY <1>1, <2>1, <2>3, <3>1, <3>4, <4>1, TexImageBaseKeeps DEF ImageInv
    <3> QED BY <2>8, <3>2, <3>3, <3>4
  <2>9. ASSUME NEW level \in Lods, NEW copy, NEW fail, TexSubImage(level, copy, fail) PROVE ImageInv'
    <3>1. UNCHANGED badDraw
      BY <2>9 DEF TexSubImage
    <3> QED BY <1>1, <2>1, <2>3, <2>9, <3>1, TexSubImageKeeps DEF ImageInv
  <2>10. CASE glTexParameter
    <3>1. UNCHANGED <<badUpload, badDraw>>
      BY <2>10 DEF glTexParameter, texParameterx
    <3> QED BY <1>1, <2>1, <2>2, <2>3, <2>10, <3>1, TexParameterKeeps DEF ImageInv
  <2>11. ASSUME NEW on \in BOOLEAN, EnableTexture(on) PROVE ImageInv'
    <3>1. UNCHANGED <<badUpload, badDraw>>
      BY <2>11 DEF EnableTexture
    <3> QED BY <1>1, <2>2, <2>3, <2>11, <3>1, EnableKeeps DEF ImageInv
  <2>12. CASE Draw
    <3>1. UNCHANGED badUpload
      BY <2>12 DEF Draw
    <3> QED BY <1>1, <2>2, <2>12, <3>1, DrawKeeps DEF ImageInv
  <2>13. CASE DrawTex \/ DrawTexOneToOne
    <3>1. UNCHANGED badUpload
      BY <2>13 DEF DrawTex, DrawTexOneToOne, AfterDrawTex
    <3> QED BY <1>1, <2>2, <2>13, <3>1, DrawTexKeeps DEF ImageInv
  <2>14. CASE Close
    <3>1. UNCHANGED <<badUpload, badDraw>>
      BY <2>14 DEF Close, ghosts
    <3> QED BY <1>1, <2>1, <2>2, <2>3, <2>14, <3>1, CloseKeeps DEF ImageInv
  <2> QED BY <1>3, <2>4, <2>5, <2>6, <2>7, <2>8, <2>9, <2>10, <2>11, <2>12, <2>13, <2>14 DEF Next
<1> QED BY <1>2, <1>3

\* The memory and the copies stay right.
THEOREM ImagesInvariance == Spec => []ImageInv
BY Invariance, InitImageInv, NextImageInv, PTL DEF Spec

\* No memory is lost and none belongs to two objects: a block is allocated
\* exactly when one object owns it, through every upload, replacement and
\* failed allocation, for any images.
THEOREM TextureBlocksOwned == Spec => []BlocksOwned
<1>1. IInv /\ ImageInv => BlocksOwned
  <2> SUFFICES ASSUME IInv, ImageInv, "image" \notin odd, NEW b \in Blocks
               PROVE  LET owners == {o \in Objects : count[o] > 0 /\ b \in Owned(tex[o])}
                      IN  IF heap[b] = Released THEN owners = {} ELSE Cardinality(owners) = 1
    BY DEF BlocksOwned
  <2> DEFINE owners == {o \in Objects : count[o] > 0 /\ b \in Owned(tex[o])}
  <2>1. Heaped(heap, tex) /\ NoLeak(heap, tex) /\ \A o \in Objects : count[o] = 0 => tex[o] = NewTexture
    BY DEF ImageInv, ObjInv, MemInv, LeakInv
  <2>2. \A o \in Objects : Owned(tex[o]) = Holds(tex[o])
    BY <2>1 DEF NoLeak, Owned, Holds
  <2>3. \A o \in Objects : count[o] \in Nat
    BY Counted DEF IInv, ReferencesCounted, Accounting, If1
  <2>4. ASSUME NEW o \in Objects, b \in Holds(tex[o]) PROVE count[o] > 0
    BY <2>1, <2>3, <2>4, NewIsSound
  <2>5. CASE heap[b] = Released
    BY <2>1, <2>2, <2>5 DEF Heaped
  <2>6. CASE heap[b] # Released
    <3>1. PICK o \in Objects : b \in Holds(tex[o])
      BY <2>1, <2>6 DEF NoLeak
    <3>2. \A p \in Objects : b \in Holds(tex[p]) => p = o
      BY <2>1, <3>1 DEF Heaped
    <3>3. owners = {o}
      BY <2>2, <2>4, <3>1, <3>2
    <3>4. Cardinality({o}) = 1
      BY FS_Singleton
    <3> QED BY <2>6, <3>3, <3>4
  <2> QED BY <2>5, <2>6
<1> QED BY <1>1, Invariance, ImagesInvariance, PTL

\* A unit that is not dirty has the surface and the parameters of its texture in
\* the rasterizer.
THEOREM CopiesFollow == Spec => []RasterizerFollows
<1>1. ImageInv => RasterizerFollows
  <2> SUFFICES ASSUME ImageInv, odd \intersect {"tiny", "shared", "missed"} = {}, NEW u \in Units,
                      ras[u] # Stale
               PROVE  ras[u] = CopyOf(unit[u].tex)
    BY DEF RasterizerFollows
  <2>1. ras[u] \in [surface : Surf, param : Int]
    BY DEF ImageInv, RasInv, CopyTypes
  <2>2. ras[u].surface = tex[unit[u].tex].surface /\ ras[u].param = tex[unit[u].tex].param
    BY DEF ImageInv, RasInv, SurfacesFollow, ParamsFollow
  <2> QED BY <2>1, <2>2 DEF CopyOf
<1> QED BY <1>1, ImagesInvariance, PTL

\* Texels are written to memory that has room for them.
THEOREM TexelsFit == Spec => []UploadsFit
<1>1. ImageInv => UploadsFit
  BY DEF ImageInv
<1> QED BY <1>1, ImagesInvariance, PTL

\* A draw samples only units that have memory for their texels.
THEOREM SamplesHaveTexels == Spec => []DrawsSampleTexels
<1>1. ImageInv => DrawsSampleTexels
  BY DEF ImageInv
<1> QED BY <1>1, ImagesInvariance, PTL
=============================================================================
