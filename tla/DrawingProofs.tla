--------------------------- MODULE DrawingProofs ---------------------------
(***************************************************************************)
(* The two ways to draw.  For every number of entries, clip planes and     *)
(* vertices: no batch of glDrawArrays is compiled past the end of the      *)
(* entries; every batch takes at least one vertex, so a call of count      *)
(* vertices ends after at most count batches; and every batch renders the  *)
(* primitives that GL defines for its vertices.  The second needs an       *)
(* invariant: while the batch loop runs there are vertices left to take.   *)
(* The third needs what the entries carry from batch to batch, and that    *)
(* the pointers into them, a recursion over the triangles of a batch, have *)
(* a closed form.  For every buffer of at least five entries, every cache, *)
(* set of vertices and limit of the sequence numbers: glDrawElements       *)
(* renders the primitives that GL defines for its indices, and locks the   *)
(* entries its striper points to and no others.  That needs what a tag     *)
(* says of its entry, and what the pointers hold.                          *)
(***************************************************************************)
EXTENDS DrawArrays, VertexCache, WellFoundedInduction, TLAPS
-----------------------------------------------------------------------------
(* glDrawArrays                                                            *)

\* Where a call stands: what the batch sizes depend on.
Progress ==
  /\ mode \in Modes \union {"none"}
  /\ total \in Nat /\ first \in Nat /\ first <= total
  /\ stage = "loop" => mode \in Modes /\ first < total

IInv == Progress /\ high \in Nat /\ BatchesFit

\* A batch with the vertices carried over fits, and is not empty.
LEMMA BatchSize ==
  ASSUME NEW m \in Modes
  PROVE  /\ vcs(m) \in Nat /\ vcs(m) >= 1
         /\ Carried(m) \in Nat /\ Carried(m) + vcs(m) <= VERTICES
<1> USE ArraysAssumption
<1>1. CASE m = "points"
  BY <1>1 DEF vcs, Carried, Per, Lists
<1>2. CASE m = "lines"
  <2>1. m \in Lists /\ Per(m) = 2
    BY <1>2 DEF Lists, Per
  <2>2. vcs(m) = (VERTICES \div Per(m)) * Per(m) /\ Carried(m) = 0
    BY <2>1 DEF vcs, Carried, Lists, LineStrips, TriangleStrips
  <2> QED
    BY <2>1, <2>2
<1>3. CASE m = "triangles"
  <2>1. m \in Lists /\ Per(m) = 3
    BY <1>3 DEF Lists, Per
  <2>2. vcs(m) = (VERTICES \div Per(m)) * Per(m) /\ Carried(m) = 0
    BY <2>1 DEF vcs, Carried, Lists, LineStrips, TriangleStrips
  <2> QED
    BY <2>1, <2>2
<1>4. CASE m \in LineStrips
  BY <1>4 DEF vcs, Carried, Lists, LineStrips
<1>5. CASE m \in TriangleStrips
  <2>1. vcs(m) = ((VERTICES - 2) \div 2) * 2 /\ Carried(m) = 2
    BY <1>5 DEF vcs, Carried, Lists, LineStrips, TriangleStrips
  <2> QED
    BY <2>1
<1> QED
  BY <1>1, <1>2, <1>3, <1>4, <1>5 DEF Modes, Lists

\* What a call needs to begin is more than what it carries over.
LEMMA LeastSize ==
  ASSUME NEW m \in Modes
  PROVE  Least(m) \in Nat /\ Carried(m) \in Nat /\ Carried(m) < Least(m)
BY DEF Modes, Lists, LineStrips, TriangleStrips, Least, Carried, Per

\* A batch advances by num vertices, which is between 1 and what fits.
LEMMA AdvanceKeeps ==
  ASSUME IInv, stage = "loop", Advance
  PROVE  /\ first' \in Nat /\ first' > first /\ first' <= total'
         /\ mode' \in Modes /\ total' \in Nat
         /\ high' \in Nat /\ high' <= VERTICES
<1> USE ArraysAssumption
<1>1. mode \in Modes /\ first \in Nat /\ total \in Nat /\ first < total
  BY DEF IInv, Progress
<1>2. /\ vcs(mode) \in Nat /\ vcs(mode) >= 1
      /\ Carried(mode) \in Nat /\ Carried(mode) + vcs(mode) <= VERTICES
  BY <1>1, BatchSize
<1>3. num \in Nat /\ num >= 1 /\ num <= vcs(mode) /\ first + num <= total
  BY <1>1, <1>2 DEF num
<1> QED
  BY <1>1, <1>2, <1>3 DEF Advance

LEMMA InitIInv == Init => IInv
BY ArraysAssumption DEF Init, IInv, Progress, BatchesFit

LEMMA NextIInv == IInv /\ [Next]_vars => IInv'
<1> SUFFICES ASSUME IInv, [Next]_vars PROVE IInv'
  OBVIOUS
<1> USE ArraysAssumption
<1>1. CASE UNCHANGED vars
  BY <1>1 DEF IInv, Progress, BatchesFit, vars
<1>2. CASE \E m \in Modes, count \in 1 .. MaxCount : glDrawArrays(m, count)
  <2> PICK m \in Modes, count \in 1 .. MaxCount : glDrawArrays(m, count)
    BY <1>2
  <2>1. Least(m) \in Nat /\ Carried(m) \in Nat /\ Carried(m) < Least(m)
    BY LeastSize
  <2>2. /\ vcs(m) \in Nat /\ Carried(m) + vcs(m) <= VERTICES
    BY BatchSize
  <2>3. /\ mode' = m /\ total' = count /\ first' = Carried(m) /\ high' = Carried(m)
        /\ count >= Least(m)
    BY DEF glDrawArrays
  <2> QED
    BY <2>1, <2>2, <2>3 DEF IInv, Progress, BatchesFit
<1>3. CASE ListBatch
  <2>1. stage = "loop" /\ Advance /\ mode \in Lists
        /\ stage' = IF total - first' >= Per(mode) THEN "loop" ELSE "end"
    BY <1>3 DEF ListBatch
  <2>2. Per(mode) \in Nat /\ Per(mode) >= 1
    BY <2>1 DEF Lists, Per
  <2>3. total' = total
    BY <2>1 DEF Advance
  <2> QED
    BY <2>1, <2>2, <2>3, AdvanceKeeps DEF IInv, Progress, BatchesFit
<1>4. CASE LineBatch
  <2>1. stage = "loop" /\ Advance
        /\ (stage' = "loop" => first' < total)
    BY <1>4 DEF LineBatch
  <2>2. total' = total
    BY <2>1 DEF Advance
  <2> QED
    BY <2>1, <2>2, AdvanceKeeps DEF IInv, Progress, BatchesFit
<1>5. CASE TriangleBatch
  <2>1. stage = "loop" /\ Advance
        /\ stage' = IF first + num < total THEN "loop" ELSE "end"
    BY <1>5 DEF TriangleBatch
  <2>2. total' = total /\ first' = first + num
    BY <2>1 DEF Advance
  <2> QED
    BY <2>1, <2>2, AdvanceKeeps DEF IInv, Progress, BatchesFit
<1>6. CASE LoopClose
  BY <1>6 DEF LoopClose, IInv, Progress, BatchesFit
<1>7. CASE Return
  BY <1>7 DEF Return, IInv, Progress, BatchesFit
<1> QED
  BY <1>1, <1>2, <1>3, <1>4, <1>5, <1>6, <1>7 DEF Next

\* No batch of glDrawArrays is compiled past the end of the vertex entries,
\* for any size of buffer and cache, any primitive and any count.
THEOREM BatchesStayInside == Spec => []BatchesFit
<1>1. IInv => BatchesFit
  BY DEF IInv
<1> QED
  BY InitIInv, NextIInv, <1>1, PTL DEF Spec

\* Every iteration of a batch loop consumes at least one vertex of the call,
\* so that no count makes glDrawArrays loop for ever.
THEOREM EveryBatchAdvances ==
  Spec => [][ListBatch \/ LineBatch \/ TriangleBatch => first' > first]_vars
<1>1. IInv /\ [Next]_vars => [ListBatch \/ LineBatch \/ TriangleBatch => first' > first]_vars
  BY AdvanceKeeps DEF ListBatch, LineBatch, TriangleBatch
<1> QED
  BY InitIInv, NextIInv, <1>1, PTL DEF Spec
-----------------------------------------------------------------------------
\* What a batch renders.  Between two batches the entries hold the vertices
\* that the next one needs, as long as nothing was rejected; a strip keeps
\* them in any case.
Entered ==
  /\ entry \in [Slots -> Int]
  /\ mode # "none" => flags \in [0 .. total - 1 -> SUBSET Planes]
  /\ rejected \in BOOLEAN

\* A list goes on at the first vertex of a primitive.
ListsEven == stage = "loop" /\ mode \in Lists => first % Per(mode) = 0

\* A line strip keeps its last vertex at the front, and closes a loop with it.
LinesHeld ==
  /\ stage = "loop" /\ mode \in LineStrips => first >= 1 /\ (~rejected => entry[0] = first - 1)
  /\ stage = "close" => /\ mode = "line_loop" /\ first = total /\ total >= 3
                        /\ ~rejected => entry[0] = total - 1

\* A strip keeps its last two vertices and the winding it began with, and
\* begins a batch with what is outside of both.
StripHeld ==
  stage = "loop" /\ mode = "strip" =>
    /\ first >= 2 /\ first % 2 = 0 /\ winding = 1
    /\ entry[0] = first - 2 /\ entry[1] = first - 1
    /\ cull \subseteq flags[first - 2] \intersect flags[first - 1]

\* A fan keeps its centre and its last vertex.
FanHeld ==
  stage = "loop" /\ mode = "fan" =>
    /\ first >= 2 /\ winding \in {2, 3}
    /\ ~rejected => entry[0] = 0 /\ entry[1] = first - 1

Held == Entered /\ ListsEven /\ LinesHeld /\ StripHeld /\ FanHeld

ExactInv == IInv /\ Held /\ BatchesExact

\* A nonempty set of naturals has a least element.
LEMMA NatMin ==
  ASSUME NEW S, S \subseteq Nat, S # {}
  PROVE  \E m \in S : \A n \in S : m <= n
<1> DEFINE R == OpToRel(<, Nat)
<1>1. IsWellFoundedOn(R, Nat)
  BY NatLessThanWellFounded
<1> HIDE DEF R
<1>2. PICK m \in S : \A n \in S : ~(<<n, m>> \in R)
  BY <1>1, WFMin
<1>3. \A n \in S : n < m => <<n, m>> \in R
  BY DEF R, OpToRel
<1>4. ASSUME NEW n \in S PROVE m <= n
  <2>1. ~(n < m)
    BY <1>2, <1>3
  <2> QED
    BY <2>1, S \subseteq Nat
<1> QED
  BY <1>4

\* One round of the recursion that defines the pointers.
Unrolled(f, count, w0) ==
  [j \in 0 .. count |-> IF j = 0 THEN [v0 |-> 0, v1 |-> 1, winding |-> w0]
                        ELSE Swapped(f[j - 1], j)]

\* What satisfies the recursion is what it defines.
LEMMA PointersUnique ==
  ASSUME NEW count \in Nat, NEW w0, NEW q, q = Unrolled(q, count, w0)
  PROVE  Pointers(count, w0) = q
<1> DEFINE st == Pointers(count, w0)
<1>1. st = CHOOSE f : f = Unrolled(f, count, w0)
  BY DEF Pointers, Unrolled
<1> HIDE DEF st
<1>2. st = Unrolled(st, count, w0)
  BY <1>1
<1> DEFINE Off == {j \in 0 .. count : st[j] # q[j]}
<1>3. ASSUME Off # {} PROVE FALSE
  <2>1. PICK k \in Off : \A j \in Off : k <= j
    <3>1. Off \subseteq Nat
      OBVIOUS
    <3> HIDE DEF Off
    <3> QED BY <1>3, <3>1, NatMin
  <2>2. k \in 0 .. count /\ st[k] # q[k]
    BY <2>1
  <2>3. CASE k = 0
    <3>1. st[0] = [v0 |-> 0, v1 |-> 1, winding |-> w0]
      BY <1>2, <2>2, <2>3 DEF Unrolled
    <3>2. q[0] = [v0 |-> 0, v1 |-> 1, winding |-> w0]
      BY <2>2, <2>3 DEF Unrolled
    <3> QED BY ONLY <2>2, <2>3, <3>1, <3>2
  <2>4. CASE k # 0
    <3>1. k - 1 \in 0 .. count /\ ~(k <= k - 1)
      BY <2>2, <2>4
    <3>2. st[k - 1] = q[k - 1]
      BY <2>1, <3>1
    <3>3. st[k] = Swapped(st[k - 1], k)
      BY <1>2, <2>2, <2>4 DEF Unrolled
    <3>4. q[k] = Swapped(q[k - 1], k)
      BY <2>2, <2>4 DEF Unrolled
    <3> QED BY <2>2, <3>2, <3>3, <3>4
  <2> QED BY <2>3, <2>4
<1>4. \A j \in 0 .. count : st[j] = q[j]
  BY <1>3
<1>5. st = [j \in 0 .. count |-> st[j]] /\ q = [j \in 0 .. count |-> q[j]]
  BY <1>2 DEF Unrolled
<1>6. st = q
  BY <1>4, <1>5
<1> QED BY <1>6 DEF st

\* The triangles of a strip alternate, from the two carried vertices on.
LEMMA StripPointers ==
  ASSUME NEW count \in Nat, NEW j \in 0 .. count
  PROVE  Pointers(count, 1)[j] = [v0 |-> IF j % 2 = 0 THEN j ELSE j + 1,
                                  v1 |-> IF j % 2 = 0 THEN j + 1 ELSE j,
                                  winding |-> IF j % 2 = 0 THEN 1 ELSE 0]
<1> DEFINE q == [i \in 0 .. count |-> [v0 |-> IF i % 2 = 0 THEN i ELSE i + 1,
                                       v1 |-> IF i % 2 = 0 THEN i + 1 ELSE i,
                                       winding |-> IF i % 2 = 0 THEN 1 ELSE 0]]
<1>1. ASSUME NEW i \in 0 .. count, i # 0
      PROVE  q[i] = Swapped(q[i - 1], i)
  <2>1. i - 1 \in 0 .. count /\ i \in Nat
    BY <1>1
  <2>2. CASE i % 2 = 0
    <3>1. (i - 1) % 2 = 1
      BY <2>1, <2>2
    <3>2. q[i - 1] = [v0 |-> i, v1 |-> i - 1, winding |-> 0]
      BY <2>1, <3>1
    <3>3. q[i] = [v0 |-> i, v1 |-> i + 1, winding |-> 1]
      BY <2>2
    <3> HIDE DEF q
    <3> QED BY <3>2, <3>3 DEF Swapped, Flip
  <2>3. CASE i % 2 # 0
    <3>1. (i - 1) % 2 = 0
      BY <2>1, <2>3
    <3>2. q[i - 1] = [v0 |-> i - 1, v1 |-> i, winding |-> 1]
      BY <2>1, <3>1
    <3>3. q[i] = [v0 |-> i + 1, v1 |-> i, winding |-> 0]
      BY <2>3
    <3> HIDE DEF q
    <3> QED BY <3>2, <3>3 DEF Swapped, Flip
  <2> QED BY <2>2, <2>3
<1>2. q[0] = [v0 |-> 0, v1 |-> 1, winding |-> 1]
  OBVIOUS
<1>3. q = [i \in 0 .. count |-> q[i]]
  OBVIOUS
<1> HIDE DEF q
<1>4. q = Unrolled(q, count, 1)
  BY <1>1, <1>2, <1>3 DEF Unrolled
<1>5. Pointers(count, 1) = q
  BY <1>4, PointersUnique
<1> QED BY <1>5 DEF q

\* The triangles of a fan keep the centre.
LEMMA FanPointers ==
  ASSUME NEW count \in Nat, NEW w0 \in {2, 3}, NEW j \in 0 .. count
  PROVE  /\ Pointers(count, w0)[j].v0 = 0 /\ Pointers(count, w0)[j].v1 = j + 1
         /\ Pointers(count, w0)[j].winding \in {2, 3}
<1> DEFINE q == [i \in 0 .. count |-> [v0 |-> 0, v1 |-> i + 1,
                                       winding |-> IF i % 2 = 0 THEN w0 ELSE Flip(w0)]]
<1>0. /\ Flip(w0) \in {2, 3} /\ Flip(Flip(w0)) = w0
  BY DEF Flip
<1>1. ASSUME NEW i \in 0 .. count, i # 0
      PROVE  q[i] = Swapped(q[i - 1], i)
  <2>1. i - 1 \in 0 .. count /\ i \in Nat /\ (i - 1) + 1 = i
    BY <1>1
  <2>2. CASE i % 2 = 0
    <3>1. (i - 1) % 2 = 1
      BY <2>1, <2>2
    <3>2. q[i - 1] = [v0 |-> 0, v1 |-> i, winding |-> Flip(w0)]
      BY <2>1, <3>1
    <3>3. q[i] = [v0 |-> 0, v1 |-> i + 1, winding |-> w0]
      BY <2>2
    <3> HIDE DEF q
    <3> QED BY <1>0, <3>2, <3>3 DEF Swapped
  <2>3. CASE i % 2 # 0
    <3>1. (i - 1) % 2 = 0
      BY <2>1, <2>3
    <3>2. q[i - 1] = [v0 |-> 0, v1 |-> i, winding |-> w0]
      BY <2>1, <3>1
    <3>3. q[i] = [v0 |-> 0, v1 |-> i + 1, winding |-> Flip(w0)]
      BY <2>3
    <3> HIDE DEF q
    <3> QED BY <1>0, <3>2, <3>3 DEF Swapped
  <2> QED BY <2>2, <2>3
<1>2. q[0] = [v0 |-> 0, v1 |-> 1, winding |-> w0]
  OBVIOUS
<1>3. q = [i \in 0 .. count |-> q[i]]
  OBVIOUS
<1>4. q[j].v0 = 0 /\ q[j].v1 = j + 1 /\ q[j].winding \in {2, 3}
  BY <1>0
<1> HIDE DEF q
<1>5. q = Unrolled(q, count, w0)
  BY <1>1, <1>2, <1>3 DEF Unrolled
<1>6. Pointers(count, w0) = q
  BY <1>5, PointersUnique
<1> QED BY <1>4, <1>6

\* Nothing is rendered of primitives that lie outside one plane as a whole.
LEMMA ShownNone ==
  ASSUME NEW c \in Planes, NEW ps,
         \A x \in DOMAIN ps : \A i \in DOMAIN ps[x] : ps[x][i] \in Nat /\ c \in flags[ps[x][i]]
  PROVE  Shown(ps) = <<>>
<1>1. ASSUME NEW x \in DOMAIN ps PROVE ~Visible(ps[x])
  <2>1. ASSUME NEW i \in DOMAIN ps[x] PROVE c \in Flags(ps[x][i])
    <3>1. ps[x][i] \in Nat /\ c \in flags[ps[x][i]]
      OBVIOUS
    <3> HIDE DEF Flags
    <3>2. ps[x][i] # Stale
      BY ONLY <3>1 DEF Stale
    <3> QED BY ONLY <3>1, <3>2 DEF Flags
  <2> QED BY <2>1 DEF Visible
<1>2. {x \in DOMAIN ps : Visible(ps[x])} = {}
  BY <1>1
<1>3. Shown(ps) = [j \in {} |-> ps[j]]
  BY ONLY <1>2 DEF Shown
<1> QED BY <1>3

\* The flags of a call do not change, so neither does what is visible.
LEMMA ShownSame ==
  ASSUME NEW ps, flags' = flags
  PROVE  Shown(ps)' = Shown(ps)
BY DEF Shown, Visible, Flags

\* What GL draws with a batch of num vertices.
LEMMA DueOfBatch ==
  ASSUME IInv, stage = "loop", Advance
  PROVE  Due' = Shown(Primitives(mode, first, first + num))
<1>1. /\ mode' = mode /\ mode \in Modes /\ total' = total /\ flags' = flags
      /\ from' = first /\ first' = first + num /\ first < total /\ first \in Nat /\ total \in Nat
  BY DEF IInv, Progress, Advance
<1>2. mode' # "none" /\ from' # total'
  BY <1>1 DEF Modes, Lists, LineStrips, TriangleStrips
<1>3. Due' = Shown(Primitives(mode, from, first))'
  BY <1>2 DEF Due
<1>4. Primitives(mode, from, first)' = Primitives(mode, first, first + num)
  BY <1>1 DEF Primitives
<1> DEFINE ps == Primitives(mode, first, first + num)
<1>5. Shown(Primitives(mode, from, first))' = Shown(ps)
  BY <1>1, <1>4 DEF Shown, Visible, Flags
<1> QED BY <1>3, <1>5

\* A batch takes at most what fits, and at least one vertex.
LEMMA BatchTakes ==
  ASSUME IInv, stage = "loop"
  PROVE  /\ mode \in Modes /\ first \in Nat /\ total \in Nat /\ first < total
         /\ num \in Nat /\ num >= 1 /\ num <= vcs(mode) /\ first + num <= total
         /\ first + num < total => num = vcs(mode)
         /\ Carried(mode) \in Nat /\ Carried(mode) + num <= VERTICES
<1> USE ArraysAssumption
<1>1. mode \in Modes /\ first \in Nat /\ total \in Nat /\ first < total
  BY DEF IInv, Progress
<1>2. /\ vcs(mode) \in Nat /\ vcs(mode) >= 1
      /\ Carried(mode) \in Nat /\ Carried(mode) + vcs(mode) <= VERTICES
  BY <1>1, BatchSize
<1> QED BY <1>1, <1>2 DEF num

\* c is e with the n vertices from k on compiled to the entries from s on.
Compiles(c, e, s, k, n) ==
  /\ c \in [Slots -> Int]
  /\ \A x \in s .. s + n - 1 : At(c, x) = k + (x - s)
  /\ \A x \in Slots : x < s => At(c, x) = e[x]
  /\ \A x \in Slots : At(c, x) = c[x]

\* That is what compileElements does, where the entries reach.
LEMMA Compiled ==
  ASSUME NEW e, e \in [Slots -> Int], NEW s \in Nat, NEW k \in Nat, NEW n \in Nat,
         s + n <= VERTICES,
         NEW c, c = compileElements(e, s, k, n)
  PROVE  Compiles(c, e, s, k, n)
<1> USE ArraysAssumption
<1>1. c = [x \in Slots |-> IF x \in s .. s + n - 1 THEN k + (x - s) ELSE e[x]]
  BY DEF compileElements
<1>2. \A x \in Slots : x \in Nat
  BY DEF Slots
<1>3. \A x \in Slots : c[x] = IF x \in s .. s + n - 1 THEN k + (x - s) ELSE e[x]
  BY ONLY <1>1
<1>4. \A x \in Slots : c[x] \in Int
  <2> TAKE x \in Slots
  <2>1. x \in Nat /\ e[x] \in Int
    BY <1>2
  <2> QED BY ONLY <1>3, <2>1, s \in Nat, k \in Nat
<1>5. c \in [Slots -> Int]
  BY ONLY <1>1, <1>3, <1>4
<1>6. \A x \in s .. s + n - 1 : x \in Slots
  BY DEF Slots
<1>7. \A x \in s .. s + n - 1 : At(c, x) = k + (x - s)
  BY ONLY <1>3, <1>6 DEF At
<1>8. \A x \in Slots : x < s => x \notin s .. s + n - 1
  BY <1>2
<1>9. \A x \in Slots : x < s => At(c, x) = e[x]
  BY ONLY <1>3, <1>8 DEF At
<1>10. \A x \in Slots : At(c, x) = c[x]
  BY ONLY <1>3 DEF At
<1> QED BY ONLY <1>5, <1>7, <1>9, <1>10 DEF Compiles

\* The arithmetic of lists: the batch begins with a primitive.
LEMMA ListArithmetic ==
  ASSUME NEW p \in {1, 2, 3}, NEW f \in Nat, NEW n \in Nat, f % p = 0
  PROVE  /\ (f + n) \div p - f \div p = n \div p
         /\ \A j \in 1 .. n \div p, i \in 1 .. p :
              /\ (j - 1) * p + i - 1 \in 0 .. n - 1
              /\ (f \div p + j - 1) * p + i - 1 = f + ((j - 1) * p + i - 1)
<1>1. CASE p = 1
  BY <1>1
<1>2. CASE p = 2
  BY <1>2
<1>3. CASE p = 3
  BY <1>3
<1> QED BY <1>1, <1>2, <1>3

\* The primitives of a batch of n vertices, from the entries e.
ListOf(p, n, e) == [j \in 1 .. n \div p |-> [i \in 1 .. p |-> At(e, (j - 1) * p + i - 1)]]
LinesOf(n, e) == [j \in 1 .. n |-> <<At(e, j - 1), At(e, j)>>]
TrianglesOf(n, w, e) ==
  [j \in 1 .. n |-> <<At(e, Pointers(n, w)[j - 1].v0), At(e, Pointers(n, w)[j - 1].v1),
                      At(e, j + 1)>>]

\* They are those GL defines: lists.
LEMMA ListPrimitives ==
  ASSUME NEW m \in Lists, NEW f \in Nat, NEW n \in Nat, f % Per(m) = 0,
         NEW e, \A x \in 0 .. n - 1 : At(e, x) = f + x
  PROVE  ListOf(Per(m), n, e) = Primitives(m, f, f + n)
<1> DEFINE p == Per(m)
<1>1. p \in {1, 2, 3}
  BY DEF Per, Lists
<1>2. /\ Complete(m, f) = f \div p /\ Complete(m, f + n) = (f + n) \div p
      /\ \A k : Primitive(m, k) = [i \in 1 .. p |-> k * p + i - 1]
  BY DEF Complete, Primitive, Lists, LineStrips
<1>3. f % p = 0
  OBVIOUS
<1> HIDE DEF p
<1>4. /\ (f + n) \div p - f \div p = n \div p
      /\ \A j \in 1 .. n \div p, i \in 1 .. p :
           /\ (j - 1) * p + i - 1 \in 0 .. n - 1
           /\ (f \div p + j - 1) * p + i - 1 = f + ((j - 1) * p + i - 1)
  BY ONLY <1>1, <1>3, ListArithmetic, f \in Nat, n \in Nat
<1>5. ASSUME NEW j \in 1 .. n \div p
      PROVE  [i \in 1 .. p |-> At(e, (j - 1) * p + i - 1)] = Primitive(m, f \div p + j - 1)
  <2>1. ASSUME NEW i \in 1 .. p
        PROVE  At(e, (j - 1) * p + i - 1) = (f \div p + j - 1) * p + i - 1
    BY ONLY <1>4, <1>5, <2>1, \A x \in 0 .. n - 1 : At(e, x) = f + x
  <2> QED BY ONLY <1>2, <2>1
<1>6. Primitives(m, f, f + n) = [j \in 1 .. n \div p |-> Primitive(m, f \div p + j - 1)]
  BY ONLY <1>2, <1>4 DEF Primitives
<1>7. ListOf(p, n, e) = Primitives(m, f, f + n)
  BY ONLY <1>5, <1>6 DEF ListOf
<1> QED BY <1>7 DEF p

\* Line strips.
LEMMA LinePrimitives ==
  ASSUME NEW m \in LineStrips, NEW f \in Nat, f >= 1, NEW n \in Nat,
         NEW e, \A x \in 0 .. n : At(e, x) = f - 1 + x
  PROVE  LinesOf(n, e) = Primitives(m, f, f + n)
<1>1. /\ Complete(m, f) = f - 1 /\ Complete(m, f + n) = f + n - 1
      /\ \A k : Primitive(m, k) = <<k, k + 1>>
  <2>1. m \notin Lists /\ m \in LineStrips /\ m \notin TriangleStrips /\ m # "strip" /\ m # "fan"
    BY DEF Lists, LineStrips, TriangleStrips
  <2>2. Carried(m) = 1
    BY ONLY <2>1 DEF Carried
  <2>3. \A k : Primitive(m, k) = <<k, k + 1>>
    BY ONLY <2>1 DEF Primitive
  <2> QED BY <2>1, <2>2, <2>3 DEF Complete
<1>2. Complete(m, f + n) - Complete(m, f) = n
  BY <1>1
<1>3. Primitives(m, f, f + n) = [j \in 1 .. n |-> Primitive(m, f - 1 + j - 1)]
  BY ONLY <1>1, <1>2 DEF Primitives
<1>4. ASSUME NEW j \in 1 .. n PROVE <<At(e, j - 1), At(e, j)>> = Primitive(m, f - 1 + j - 1)
  <2>1. j - 1 \in 0 .. n /\ j \in 0 .. n /\ f - 1 + (j - 1) = f - 1 + j - 1 /\ f - 1 + j = (f - 1 + j - 1) + 1
    OBVIOUS
  <2>2. At(e, j - 1) = f - 1 + (j - 1) /\ At(e, j) = f - 1 + j
    BY <2>1
  <2> QED BY <1>1, <2>1, <2>2
<1> QED BY ONLY <1>3, <1>4 DEF LinesOf

\* Strips: the batch begins with an even triangle.
LEMMA StripPrimitives ==
  ASSUME NEW f \in Nat, f >= 2, f % 2 = 0, NEW n \in Nat,
         NEW e, \A x \in 0 .. n + 1 : At(e, x) = f - 2 + x
  PROVE  TrianglesOf(n, 1, e) = Primitives("strip", f, f + n)
<1>1. /\ Complete("strip", f) = f - 2 /\ Complete("strip", f + n) = f + n - 2
      /\ \A k : Primitive("strip", k) = IF k % 2 = 0 THEN <<k, k + 1, k + 2>>
                                        ELSE <<k + 1, k, k + 2>>
  BY DEF Complete, Carried, Primitive, Lists, LineStrips, TriangleStrips
<1>2. Complete("strip", f + n) - Complete("strip", f) = n
  BY <1>1
<1>3. Primitives("strip", f, f + n) = [j \in 1 .. n |-> Primitive("strip", f - 2 + j - 1)]
  BY ONLY <1>1, <1>2 DEF Primitives
<1>4. ASSUME NEW j \in 1 .. n
      PROVE  <<At(e, Pointers(n, 1)[j - 1].v0), At(e, Pointers(n, 1)[j - 1].v1), At(e, j + 1)>>
               = Primitive("strip", f - 2 + j - 1)
  <2> DEFINE i == j - 1
             t == Pointers(n, 1)[i]
             k == f - 2 + j - 1
  <2>1. i \in 0 .. n /\ i \in Nat /\ i + 1 \in 0 .. n + 1 /\ i \in 0 .. n + 1 /\ i + 2 \in 0 .. n + 1
        /\ i + 2 = j + 1 /\ k = f - 2 + i
    OBVIOUS
  <2>2. t = [v0 |-> IF i % 2 = 0 THEN i ELSE i + 1, v1 |-> IF i % 2 = 0 THEN i + 1 ELSE i,
             winding |-> IF i % 2 = 0 THEN 1 ELSE 0]
    BY <2>1, StripPointers
  <2> HIDE DEF i, t, k
  <2>3. k % 2 = i % 2 /\ k \in Int
    BY <2>1
  <2>4. At(e, i) = k /\ At(e, i + 1) = k + 1 /\ At(e, i + 2) = k + 2
    BY <2>1
  <2>5. CASE i % 2 = 0
    <3>1. t.v0 = i /\ t.v1 = i + 1
      BY ONLY <2>2, <2>5
    <3>2. <<At(e, t.v0), At(e, t.v1), At(e, j + 1)>> = <<k, k + 1, k + 2>>
      BY ONLY <2>1, <2>4, <3>1
    <3>3. Primitive("strip", k) = <<k, k + 1, k + 2>>
      BY ONLY <1>1, <2>3, <2>5
    <3> QED BY ONLY <3>2, <3>3 DEF i, t, k
  <2>6. CASE i % 2 # 0
    <3>1. t.v0 = i + 1 /\ t.v1 = i
      BY ONLY <2>2, <2>6
    <3>2. <<At(e, t.v0), At(e, t.v1), At(e, j + 1)>> = <<k + 1, k, k + 2>>
      BY ONLY <2>1, <2>4, <3>1
    <3>3. Primitive("strip", k) = <<k + 1, k, k + 2>>
      BY ONLY <1>1, <2>3, <2>6
    <3> QED BY ONLY <3>2, <3>3 DEF i, t, k
  <2> QED BY <2>5, <2>6
<1> QED BY ONLY <1>3, <1>4 DEF TrianglesOf

\* Fans.
LEMMA FanPrimitives ==
  ASSUME NEW f \in Nat, f >= 2, NEW n \in Nat, NEW w \in {2, 3},
         NEW e, At(e, 0) = 0, \A x \in 1 .. n + 1 : At(e, x) = f - 2 + x
  PROVE  TrianglesOf(n, w, e) = Primitives("fan", f, f + n)
<1>1. /\ Complete("fan", f) = f - 2 /\ Complete("fan", f + n) = f + n - 2
      /\ \A k : Primitive("fan", k) = <<0, k + 1, k + 2>>
  BY DEF Complete, Carried, Primitive, Lists, LineStrips, TriangleStrips
<1>2. Complete("fan", f + n) - Complete("fan", f) = n
  BY <1>1
<1>3. Primitives("fan", f, f + n) = [j \in 1 .. n |-> Primitive("fan", f - 2 + j - 1)]
  BY ONLY <1>1, <1>2 DEF Primitives
<1>4. ASSUME NEW j \in 1 .. n
      PROVE  <<At(e, Pointers(n, w)[j - 1].v0), At(e, Pointers(n, w)[j - 1].v1), At(e, j + 1)>>
               = Primitive("fan", f - 2 + j - 1)
  <2> DEFINE i == j - 1
             t == Pointers(n, w)[i]
             k == f - 2 + j - 1
  <2>1. i \in 0 .. n /\ i + 1 \in 1 .. n + 1 /\ i + 2 \in 1 .. n + 1
        /\ i + 2 = j + 1 /\ k = f - 2 + i /\ k + 1 = f - 2 + (i + 1) /\ k + 2 = f - 2 + (i + 2)
    OBVIOUS
  <2>2. t.v0 = 0 /\ t.v1 = i + 1
    BY <2>1, FanPointers
  <2> HIDE DEF i, t, k
  <2>3. At(e, i + 1) = k + 1 /\ At(e, i + 2) = k + 2
    BY <2>1
  <2>4. <<At(e, t.v0), At(e, t.v1), At(e, j + 1)>> = <<0, k + 1, k + 2>>
    BY ONLY <2>1, <2>2, <2>3, At(e, 0) = 0
  <2>5. Primitive("fan", k) = <<0, k + 1, k + 2>>
    BY ONLY <1>1
  <2> QED BY ONLY <2>4, <2>5 DEF i, t, k
<1> QED BY ONLY <1>3, <1>4 DEF TrianglesOf

\* The vertices of the primitives of a batch are in the batch.
LEMMA ListVertices ==
  ASSUME NEW m \in Lists, NEW f \in Nat, NEW n \in Nat, f % Per(m) = 0,
         NEW x \in DOMAIN Primitives(m, f, f + n),
         NEW i \in DOMAIN Primitives(m, f, f + n)[x]
  PROVE  Primitives(m, f, f + n)[x][i] \in f .. f + n - 1
<1> DEFINE p == Per(m)
<1>1. p \in {1, 2, 3}
  BY DEF Per, Lists
<1>2. /\ Complete(m, f) = f \div p /\ Complete(m, f + n) = (f + n) \div p
      /\ \A k : Primitive(m, k) = [h \in 1 .. p |-> k * p + h - 1]
  BY DEF Complete, Primitive, Lists, LineStrips
<1>3. f % p = 0
  OBVIOUS
<1> HIDE DEF p
<1>4. /\ (f + n) \div p - f \div p = n \div p
      /\ \A j \in 1 .. n \div p, h \in 1 .. p :
           /\ (j - 1) * p + h - 1 \in 0 .. n - 1
           /\ (f \div p + j - 1) * p + h - 1 = f + ((j - 1) * p + h - 1)
  BY ONLY <1>1, <1>3, ListArithmetic, f \in Nat, n \in Nat
<1>5. Primitives(m, f, f + n) = [j \in 1 .. n \div p |-> Primitive(m, f \div p + j - 1)]
  BY ONLY <1>2, <1>4 DEF Primitives
<1>6. /\ x \in 1 .. n \div p
      /\ Primitives(m, f, f + n)[x] = [h \in 1 .. p |-> (f \div p + x - 1) * p + h - 1]
  BY <1>2, <1>5
<1>7. /\ i \in 1 .. p
      /\ Primitives(m, f, f + n)[x][i] = (f \div p + x - 1) * p + i - 1
  BY <1>6
<1>8. /\ Primitives(m, f, f + n)[x][i] = f + ((x - 1) * p + i - 1)
      /\ (x - 1) * p + i - 1 \in 0 .. n - 1
  BY ONLY <1>4, <1>6, <1>7
<1> QED BY <1>8

\* Those of a strip are in the batch or carried over.
LEMMA StripVertices ==
  ASSUME NEW f \in Nat, f >= 2, NEW n \in Nat,
         NEW x \in DOMAIN Primitives("strip", f, f + n),
         NEW i \in DOMAIN Primitives("strip", f, f + n)[x]
  PROVE  Primitives("strip", f, f + n)[x][i] \in f - 2 .. f + n - 1
<1>1. /\ Complete("strip", f) = f - 2 /\ Complete("strip", f + n) = f + n - 2
      /\ \A k : Primitive("strip", k) = IF k % 2 = 0 THEN <<k, k + 1, k + 2>>
                                        ELSE <<k + 1, k, k + 2>>
  BY DEF Complete, Carried, Primitive, Lists, LineStrips, TriangleStrips
<1>2. Complete("strip", f + n) - Complete("strip", f) = n
  BY <1>1
<1>3. Primitives("strip", f, f + n) = [j \in 1 .. n |-> Primitive("strip", f - 2 + j - 1)]
  BY ONLY <1>1, <1>2 DEF Primitives
<1> DEFINE k == f - 2 + x - 1
<1>4. x \in 1 .. n /\ Primitives("strip", f, f + n)[x] = Primitive("strip", k)
  BY <1>3
<1>5. k \in f - 2 .. f + n - 3
  BY <1>4
<1> HIDE DEF k
<1>6. Primitive("strip", k) \in {<<k, k + 1, k + 2>>, <<k + 1, k, k + 2>>}
  BY ONLY <1>1
<1>7. Primitives("strip", f, f + n)[x][i] \in {k, k + 1, k + 2}
  <2>1. CASE Primitive("strip", k) = <<k, k + 1, k + 2>>
    BY <1>4, <2>1
  <2>2. CASE Primitive("strip", k) = <<k + 1, k, k + 2>>
    BY <1>4, <2>2
  <2> QED BY <1>6, <2>1, <2>2
<1> QED BY <1>5, <1>7

\* A rejected batch has a plane that all its vertices are outside of.
LEMMA CulledPlane ==
  ASSUME NEW c, NEW k, NEW n, NEW p \in Culled(c, k, n)
  PROVE  p \in c /\ \A x \in k .. k + n - 1 : p \in flags[x]
BY DEF Culled

\* A list: whole primitives are rendered or rejected.
LEMMA ListExact ==
  ASSUME ExactInv, ListBatch
  PROVE  Held' /\ BatchesExact'
<1> USE ArraysAssumption
<1> DEFINE per == Per(mode)
           e   == compileElements(entry, 0, first, num)
           c   == Culled(Planes, first, num)
           ps  == ListOf(per, num, e)
           gl  == Primitives(mode, first, first + num)
<1>1. /\ stage = "loop" /\ mode \in Lists /\ Advance /\ entry' = e
      /\ drawn' = IF c # {} THEN <<>> ELSE Shown(ps)
      /\ rejected' = (rejected \/ c # {})
      /\ stage' = IF total - first' >= per THEN "loop" ELSE "end"
  BY DEF ListBatch, ListOf
<1>2. IInv /\ Entered /\ first % per = 0
  BY <1>1 DEF ExactInv, Held, ListsEven
<1>3. /\ mode \in Modes /\ first \in Nat /\ total \in Nat /\ first < total
      /\ num \in Nat /\ num >= 1 /\ num <= vcs(mode) /\ first + num <= total
      /\ first + num < total => num = vcs(mode)
      /\ Carried(mode) \in Nat /\ Carried(mode) + num <= VERTICES
  BY ONLY <1>1, <1>2, BatchTakes
<1>4. /\ mode' = mode /\ total' = total /\ flags' = flags /\ first' = first + num
  BY <1>1 DEF Advance
<1>5. /\ mode \notin LineStrips /\ mode # "strip" /\ mode # "fan" /\ mode # "none" /\ mode # "line_loop"
      /\ per \in {1, 2, 3} /\ Carried(mode) = 0 /\ vcs(mode) = (VERTICES \div per) * per
  <2>1. mode \in {"points", "lines", "triangles"}
    BY <1>1 DEF Lists
  <2>2. mode \notin LineStrips /\ mode # "strip" /\ mode # "fan" /\ mode # "none" /\ mode # "line_loop"
    BY <2>1 DEF LineStrips
  <2>3. per \in {1, 2, 3}
    BY <2>1 DEF Per
  <2>4. mode \in Lists /\ mode \notin LineStrips /\ mode \notin TriangleStrips
    BY <2>1 DEF Lists, LineStrips, TriangleStrips
  <2>5. Carried(mode) = 0
    BY ONLY <2>4 DEF Carried
  <2>6. vcs(mode) = (VERTICES \div per) * per
    BY ONLY <2>4 DEF vcs
  <2> QED BY <2>2, <2>3, <2>5, <2>6
<1>6. num <= VERTICES
  BY <1>3, <1>5
<1>7. e \in [Slots -> Int] /\ \A x \in 0 .. num - 1 : At(e, x) = first + x
  <2>1. entry \in [Slots -> Int]
    BY <1>2 DEF Entered
  <2> HIDE DEF e
  <2>2. e = compileElements(entry, 0, first, num)
    BY DEF e
  <2>3. Compiles(e, entry, 0, first, num)
    <3>1. 0 \in Nat /\ 0 + num <= VERTICES
      BY <1>3, <1>6
    <3> QED BY ONLY <1>3, <2>1, <2>2, <3>1, Compiled
  <2>4. e \in [Slots -> Int] /\ \A x \in 0 .. 0 + num - 1 : At(e, x) = first + (x - 0)
    BY ONLY <2>3 DEF Compiles
  <2> QED BY <1>3, <2>4
<1>8. Due' = Shown(gl)
  BY <1>1, <1>2, DueOfBatch
<1>9. ps = gl
  <2> HIDE DEF e
  <2> QED BY ONLY <1>1, <1>2, <1>3, <1>7, ListPrimitives
<1>10. c # {} => Shown(gl) = <<>>
  <2> SUFFICES ASSUME c # {} PROVE Shown(gl) = <<>>
    OBVIOUS
  <2>1. PICK p \in c : TRUE
    OBVIOUS
  <2>2. p \in Planes /\ \A x \in first .. first + num - 1 : p \in flags[x]
    BY <2>1, CulledPlane
  <2>3. \A x \in DOMAIN gl : \A i \in DOMAIN gl[x] : gl[x][i] \in first .. first + num - 1
    BY ONLY <1>1, <1>2, <1>3, ListVertices
  <2> HIDE DEF gl
  <2>4. \A x \in DOMAIN gl : \A i \in DOMAIN gl[x] : gl[x][i] \in Nat /\ p \in flags[gl[x][i]]
    BY ONLY <1>3, <2>2, <2>3
  <2> QED BY ONLY <2>2, <2>4, ShownNone
<1>11. drawn' = Due'
  <2> HIDE DEF c, ps, gl
  <2> QED BY ONLY <1>1, <1>8, <1>9, <1>10
<1>12. stage' = "loop" => first' % per = 0
  <2> SUFFICES ASSUME stage' = "loop" PROVE (first + num) % per = 0
    BY <1>4
  <2>1. first + num < total
    BY <1>1, <1>3, <1>4, <1>5
  <2>2. num = (VERTICES \div per) * per
    BY <1>3, <1>5, <2>1
  <2> HIDE DEF per
  <2>3. CASE per = 1
    BY <1>3, <2>3
  <2>4. CASE per = 2
    BY <1>2, <1>3, <2>2, <2>4
  <2>5. CASE per = 3
    BY <1>2, <1>3, <2>2, <2>5
  <2> QED BY <1>5, <2>3, <2>4, <2>5
<1>13. Held'
  <2>1. Entered'
    BY <1>1, <1>2, <1>4, <1>7 DEF Entered
  <2>2. ListsEven'
    BY <1>4, <1>12 DEF ListsEven
  <2>3. LinesHeld' /\ StripHeld' /\ FanHeld'
    BY <1>1, <1>4, <1>5 DEF LinesHeld, StripHeld, FanHeld
  <2> QED BY <2>1, <2>2, <2>3 DEF Held
<1> QED BY <1>11, <1>13 DEF BatchesExact

\* A line strip: as long as nothing was rejected, the last vertex is at the
\* front again after every batch.
LEMMA LineExact ==
  ASSUME ExactInv, LineBatch
  PROVE  Held' /\ BatchesExact'
<1> USE ArraysAssumption
<1> DEFINE e    == compileElements(entry, 1, first, num)
           c    == Culled(cull, first, num)
           last == At(e, IF c # {} THEN 0 ELSE num)
           ps   == LinesOf(num, e)
           gl   == Primitives(mode, first, first + num)
<1>1. /\ stage = "loop" /\ mode \in LineStrips /\ Advance
      /\ entry' = [e EXCEPT ![0] = last]
      /\ drawn' = IF c # {} THEN <<>> ELSE Shown(ps)
      /\ rejected' = (rejected \/ c # {})
  BY DEF LineBatch, LinesOf
<1>2. stage' = CASE first' < total                          -> "loop"
                 [] first' = total /\ mode = "line_loop" /\ total >= 3 -> "close"
                 [] OTHER                                   -> "end"
  BY DEF LineBatch
<1>3. IInv /\ Entered /\ first >= 1 /\ (~rejected => entry[0] = first - 1)
  BY <1>1 DEF ExactInv, Held, LinesHeld
<1>4. /\ mode \in Modes /\ first \in Nat /\ total \in Nat /\ first < total
      /\ num \in Nat /\ num >= 1 /\ num <= vcs(mode) /\ first + num <= total
      /\ first + num < total => num = vcs(mode)
      /\ Carried(mode) \in Nat /\ Carried(mode) + num <= VERTICES
  BY ONLY <1>1, <1>3, BatchTakes
<1>5. /\ mode' = mode /\ total' = total /\ flags' = flags /\ first' = first + num
  BY <1>1 DEF Advance
<1>6. /\ mode \notin Lists /\ mode # "strip" /\ mode # "fan" /\ mode # "none"
      /\ Carried(mode) = 1
  <2>1. /\ mode \notin Lists /\ mode # "strip" /\ mode # "fan" /\ mode # "none"
        /\ mode \notin TriangleStrips /\ mode \in LineStrips
    BY <1>1 DEF Lists, LineStrips, TriangleStrips
  <2>2. Carried(mode) = 1
    BY ONLY <2>1 DEF Carried
  <2> QED BY <2>1, <2>2
<1>7. 0 \in Slots /\ num \in Slots
  BY <1>4, <1>6 DEF Slots
<1>8. /\ e \in [Slots -> Int] /\ At(e, 0) = entry[0] /\ entry[0] \in Int
      /\ \A x \in 1 .. num : At(e, x) = first - 1 + x
      /\ \A x \in Slots : At(e, x) = e[x]
  <2>1. entry \in [Slots -> Int]
    BY <1>3 DEF Entered
  <2> HIDE DEF e
  <2>2. e = compileElements(entry, 1, first, num)
    BY DEF e
  <2>3. 1 + num <= VERTICES
    BY <1>4, <1>6
  <2>4. /\ e \in [Slots -> Int] /\ \A x \in 1 .. 1 + num - 1 : At(e, x) = first + (x - 1)
        /\ \A x \in Slots : x < 1 => At(e, x) = entry[x]
        /\ \A x \in Slots : At(e, x) = e[x]
    <3>1. 1 \in Nat
      OBVIOUS
    <3>2. Compiles(e, entry, 1, first, num)
      BY ONLY <1>4, <2>1, <2>2, <2>3, <3>1, Compiled
    <3> QED BY ONLY <3>2 DEF Compiles
  <2> QED BY <1>4, <1>7, <2>1, <2>4
<1> HIDE DEF e
<1>9. last \in Int
  BY <1>7, <1>8
<1>10. /\ entry' \in [Slots -> Int] /\ entry'[0] = last
  BY <1>1, <1>7, <1>8, <1>9
<1>11. Due' = Shown(gl)
  BY <1>1, <1>3, DueOfBatch
<1>12. ASSUME ~rejected'
       PROVE  /\ c = {} /\ ~rejected /\ last = first' - 1 /\ drawn' = Due'
  <2>1. c = {} /\ ~rejected
    BY <1>1, <1>12
  <2>2. \A x \in 0 .. num : At(e, x) = first - 1 + x
    BY <1>3, <1>4, <1>8, <2>1
  <2>3. last = first' - 1
    BY <1>4, <1>5, <2>1, <2>2
  <2>4. ps = gl
    BY ONLY <1>1, <1>3, <1>4, <2>2, LinePrimitives
  <2>5. drawn' = Shown(ps)
    BY <1>1, <2>1
  <2> QED BY <1>11, <2>1, <2>3, <2>4, <2>5
<1>13. BatchesExact'
  BY <1>1, <1>5, <1>12 DEF BatchesExact
<1>14. Held'
  <2>1. Entered'
    BY <1>1, <1>3, <1>5, <1>10 DEF Entered
  <2>2. /\ first' >= 1 /\ (~rejected' => entry'[0] = first' - 1)
    BY <1>3, <1>4, <1>5, <1>10, <1>12
  <2>3. stage' = "close" => mode = "line_loop" /\ first' = total /\ total >= 3
    BY <1>2
  <2>4. LinesHeld'
    BY <1>5, <2>2, <2>3 DEF LinesHeld
  <2>5. ListsEven' /\ StripHeld' /\ FanHeld'
    BY <1>5, <1>6 DEF ListsEven, StripHeld, FanHeld
  <2> QED BY <2>1, <2>4, <2>5 DEF Held
<1> QED BY <1>13, <1>14

\* The last line of a loop.
LEMMA CloseExact ==
  ASSUME ExactInv, LoopClose
  PROVE  Held' /\ BatchesExact'
<1> USE ArraysAssumption
<1> DEFINE e == [entry EXCEPT ![1] = 0]
<1>1. /\ stage = "close" /\ stage' = "end" /\ entry' = e /\ drawn' = Shown(<< <<e[0], e[1]>> >>)
      /\ from' = total /\ mode' = mode /\ total' = total /\ flags' = flags /\ rejected' = rejected
  BY DEF LoopClose
<1>2. /\ Entered /\ mode = "line_loop" /\ (~rejected => entry[0] = total - 1)
  BY <1>1 DEF ExactInv, Held, LinesHeld
<1>3. 0 \in Slots /\ 1 \in Slots
  BY DEF Slots
<1>4. e \in [Slots -> Int] /\ e[0] = entry[0] /\ e[1] = 0
  BY <1>2, <1>3 DEF Entered
<1> HIDE DEF e
<1>5. Held'
  <2>1. Entered'
    BY <1>1, <1>2, <1>4 DEF Entered
  <2> QED BY <1>1, <2>1 DEF Held, ListsEven, LinesHeld, StripHeld, FanHeld
<1>6. ASSUME ~rejected PROVE drawn' = Due'
  <2>1. drawn' = Shown(<< <<total - 1, 0>> >>)
    BY <1>1, <1>2, <1>4, <1>6
  <2>2. Due' = Shown(<< <<total - 1, 0>> >>)'
    BY <1>1, <1>2 DEF Due
  <2>3. Shown(<< <<total - 1, 0>> >>)' = Shown(<< <<total - 1, 0>> >>)
    BY <1>1 DEF Shown, Visible, Flags
  <2> QED BY <2>1, <2>2, <2>3
<1>7. BatchesExact'
  BY <1>1, <1>2, <1>6 DEF BatchesExact, LineStrips
<1> QED BY <1>5, <1>7

\* A call begins with an empty batch.
LEMMA DrawExact ==
  ASSUME ExactInv, NEW m \in Modes, NEW count \in 1 .. MaxCount, glDrawArrays(m, count)
  PROVE  Held' /\ BatchesExact'
<1> USE ArraysAssumption
<1>1. /\ mode = "none" /\ count >= Least(m) /\ flags' \in [0 .. count - 1 -> SUBSET Planes]
      /\ mode' = m /\ total' = count
      /\ entry' = compileElements(entry, 0, 0, Carried(m))
      /\ first' = Carried(m) /\ from' = Carried(m)
      /\ cull' = {p \in Planes : \A x \in 0 .. Carried(m) - 1 : p \in flags'[x]}
      /\ winding' = (IF m = "fan" THEN 2 ELSE 1)
      /\ stage' = "loop" /\ drawn' = <<>> /\ rejected' = FALSE
  BY DEF glDrawArrays
<1>2. /\ m # "none" /\ Carried(m) \in Nat /\ Carried(m) < count /\ Carried(m) <= VERTICES
  <2>1. Least(m) \in Nat /\ Carried(m) \in Nat /\ Carried(m) < Least(m)
    BY LeastSize
  <2>2. vcs(m) \in Nat /\ Carried(m) + vcs(m) <= VERTICES
    BY BatchSize
  <2>3. m # "none"
    BY DEF Modes, Lists, LineStrips, TriangleStrips
  <2> QED BY <1>1, <2>1, <2>2, <2>3
<1>3. entry' \in [Slots -> Int] /\ \A x \in 0 .. Carried(m) - 1 : entry'[x] = x
  <2>1. entry \in [Slots -> Int]
    BY DEF ExactInv, Held, Entered
  <2>2. /\ entry' \in [Slots -> Int] /\ \A x \in 0 .. 0 + Carried(m) - 1 : At(entry', x) = 0 + (x - 0)
        /\ \A x \in Slots : At(entry', x) = entry'[x]
    <3>1. 0 \in Nat /\ 0 + Carried(m) <= VERTICES
      BY <1>2
    <3>2. Compiles(entry', entry, 0, 0, Carried(m))
      BY ONLY <1>1, <1>2, <2>1, <3>1, Compiled
    <3> QED BY ONLY <3>2 DEF Compiles
  <2>3. \A x \in 0 .. Carried(m) - 1 : x \in Slots
    BY <1>2 DEF Slots
  <2> QED BY <1>2, <2>2, <2>3
<1>4. Entered'
  BY <1>1, <1>3 DEF Entered
<1>5. Held'
  <2>1. CASE m \in Lists
    <3>1. m # "strip" /\ m # "fan" /\ m \notin LineStrips /\ m \notin TriangleStrips /\ Per(m) \in {1, 2, 3}
      BY <2>1 DEF Lists, LineStrips, TriangleStrips, Per
    <3>2. Carried(m) = 0
      BY ONLY <2>1, <3>1 DEF Carried
    <3>3. 0 % Per(m) = 0
      BY ONLY <3>1
    <3> QED BY <1>1, <1>4, <3>1, <3>2, <3>3 DEF Held, ListsEven, LinesHeld, StripHeld, FanHeld
  <2>2. CASE m \in LineStrips
    <3>1. m # "strip" /\ m # "fan" /\ m \notin Lists /\ m \notin TriangleStrips
      BY <2>2 DEF Lists, LineStrips, TriangleStrips
    <3>2. Carried(m) = 1
      BY ONLY <2>2, <3>1 DEF Carried
    <3>3. entry'[0] = 0
      BY <1>3, <3>2
    <3> QED BY <1>1, <1>4, <3>1, <3>2, <3>3 DEF Held, ListsEven, LinesHeld, StripHeld, FanHeld
  <2>3. CASE m \in TriangleStrips
    <3>1. m \notin Lists /\ m \notin LineStrips /\ m \in {"strip", "fan"}
      BY <2>3 DEF Lists, LineStrips, TriangleStrips
    <3>2. Carried(m) = 2
      BY ONLY <2>3, <3>1 DEF Carried
    <3>3. entry'[0] = 0 /\ entry'[1] = 1
      BY <1>3, <3>2
    <3>4. cull' \subseteq flags'[0] \intersect flags'[1]
      BY <1>1, <3>2
    <3>5. ListsEven' /\ LinesHeld'
      BY <1>1, <3>1 DEF ListsEven, LinesHeld
    <3>6. StripHeld'
      BY <1>1, <3>2, <3>3, <3>4 DEF StripHeld
    <3>7. FanHeld'
      BY <1>1, <3>2, <3>3 DEF FanHeld
    <3> QED BY <1>4, <3>5, <3>6, <3>7 DEF Held
  <2> QED BY <2>1, <2>2, <2>3 DEF Modes
<1>6. BatchesExact'
  <2>1. Due' = Shown(Primitives(mode, from, first))'
    BY <1>1, <1>2 DEF Due
  <2>2. Complete(m, Carried(m)) \in Int
    BY <1>2 DEF Complete, Lists, Per
  <2>3. DOMAIN Primitives(mode, from, first)' = {}
    BY <1>1, <2>2 DEF Primitives
  <2>4. Shown(Primitives(mode, from, first))' = <<>>
    BY <2>3 DEF Shown
  <2> QED BY <1>1, <2>1, <2>4 DEF BatchesExact
<1> QED BY <1>5, <1>6

\* What a batch of a strip or a fan begins with, and what every one takes.
LEMMA TriangleTakes ==
  ASSUME ExactInv, TriangleBatch,
         NEW e, e = compileElements(entry, 2, first, num)
  PROVE  /\ IInv /\ Entered /\ stage = "loop" /\ Advance /\ mode \in {"strip", "fan"}
         /\ first \in Nat /\ total \in Nat /\ num \in Nat /\ num >= 1 /\ first + num <= total
         /\ first < total
         /\ first + num < total => num = vcs(mode)
         /\ vcs(mode) \in Nat /\ vcs(mode) >= 2 /\ vcs(mode) % 2 = 0
         /\ mode' = mode /\ total' = total /\ flags' = flags /\ first' = first + num
         /\ 0 \in Slots /\ 1 \in Slots
         /\ e \in [Slots -> Int] /\ At(e, 0) = entry[0] /\ At(e, 1) = entry[1] /\ e[0] = entry[0]
         /\ \A x \in 2 .. num + 1 : At(e, x) = first - 2 + x
         /\ \A x \in Slots : At(e, x) = e[x]
<1> USE ArraysAssumption
<1>1. stage = "loop" /\ mode \in TriangleStrips /\ Advance
  BY DEF TriangleBatch
<1>2. IInv /\ Entered
  BY DEF ExactInv, Held
<1>3. /\ mode \in Modes /\ first \in Nat /\ total \in Nat /\ first < total
      /\ num \in Nat /\ num >= 1 /\ num <= vcs(mode) /\ first + num <= total
      /\ first + num < total => num = vcs(mode)
      /\ Carried(mode) \in Nat /\ Carried(mode) + num <= VERTICES
  BY ONLY <1>1, <1>2, BatchTakes
<1>4. /\ mode' = mode /\ total' = total /\ flags' = flags /\ first' = first + num
  BY <1>1 DEF Advance
<1>5. mode \in {"strip", "fan"} /\ Carried(mode) = 2 /\ vcs(mode) = ((VERTICES - 2) \div 2) * 2
  <2>1. mode \in {"strip", "fan"} /\ mode \notin Lists /\ mode \notin LineStrips
    BY <1>1 DEF Lists, LineStrips, TriangleStrips
  <2>2. Carried(mode) = 2
    BY ONLY <1>1, <2>1 DEF Carried
  <2>3. vcs(mode) = ((VERTICES - 2) \div 2) * 2
    BY ONLY <1>1, <2>1 DEF vcs
  <2> QED BY <2>1, <2>2, <2>3
<1>6. vcs(mode) \in Nat /\ vcs(mode) >= 2 /\ vcs(mode) % 2 = 0
  BY <1>5
<1>7. 0 \in Slots /\ 1 \in Slots
  BY DEF Slots
<1>8. /\ e \in [Slots -> Int] /\ \A x \in 2 .. 2 + num - 1 : At(e, x) = first + (x - 2)
      /\ \A x \in Slots : x < 2 => At(e, x) = entry[x]
      /\ \A x \in Slots : At(e, x) = e[x]
  <2>1. entry \in [Slots -> Int] /\ 2 \in Nat /\ 2 + num <= VERTICES
    BY <1>2, <1>3, <1>5 DEF Entered
  <2>2. Compiles(e, entry, 2, first, num)
    BY ONLY <1>3, <2>1, Compiled, e = compileElements(entry, 2, first, num)
  <2> QED BY ONLY <2>2 DEF Compiles
<1>9. At(e, 0) = entry[0] /\ At(e, 1) = entry[1] /\ e[0] = entry[0]
  BY <1>7, <1>8
<1>10. \A x \in 2 .. num + 1 : At(e, x) = first - 2 + x
  BY <1>3, <1>8
<1> QED BY ONLY <1>1, <1>2, <1>3, <1>4, <1>5, <1>6, <1>7, <1>8, <1>9, <1>10

\* The entries after a batch that another one follows.
LEMMA Carry ==
  ASSUME NEW e, e \in [Slots -> Int], NEW w, 0 \in Slots, 1 \in Slots,
         At(e, vcs(mode)) \in Int, At(e, vcs(mode) + 1) \in Int
  PROVE  /\ CarryOver(e, w) \in [Slots -> Int]
         /\ CarryOver(e, w)[0] = IF w < 2 THEN At(e, vcs(mode)) ELSE e[0]
         /\ CarryOver(e, w)[1] = At(e, vcs(mode) + 1)
<1> DEFINE a == IF w < 2 THEN At(e, vcs(mode)) ELSE e[0]
           b == At(e, vcs(mode) + 1)
<1>1. CarryOver(e, w) = [e EXCEPT ![0] = a, ![1] = b]
  BY DEF CarryOver
<1>2. a \in Int /\ b \in Int
  OBVIOUS
<1> HIDE DEF a, b
<1>3. /\ CarryOver(e, w) \in [Slots -> Int]
      /\ CarryOver(e, w)[0] = a /\ CarryOver(e, w)[1] = b
  BY <1>1, <1>2
<1> QED BY <1>3 DEF a, b

\* A triangle strip: rejected or not, every batch leaves the last two vertices
\* at the front, and the winding as it was.
LEMMA StripExact ==
  ASSUME ExactInv, TriangleBatch, mode = "strip"
  PROVE  Held' /\ BatchesExact'
<1> USE ArraysAssumption
<1> DEFINE e  == compileElements(entry, 2, first, num)
           c  == Culled(cull, first, num)
           st == Pointers(num, winding)
           w  == IF c # {} THEN winding ELSE st[num].winding
           more == first + num < total
           ps == TrianglesOf(num, winding, e)
           gl == Primitives("strip", first, first + num)
           v  == vcs(mode)
<1>1. /\ drawn' = IF c # {} THEN <<>> ELSE Shown(ps)
      /\ winding' = w
      /\ entry' = IF more THEN CarryOver(e, w) ELSE e
      /\ cull' = IF ~more THEN c ELSE Flags(At(e, v)) \intersect Flags(At(e, v + 1))
      /\ rejected' = (rejected \/ c # {})
      /\ stage' = IF more THEN "loop" ELSE "end"
  BY DEF TriangleBatch, TrianglesOf
<1>2. /\ IInv /\ Entered /\ stage = "loop" /\ Advance
      /\ first \in Nat /\ total \in Nat /\ num \in Nat /\ num >= 1 /\ first + num <= total
      /\ first < total
      /\ more => num = v
      /\ v \in Nat /\ v >= 2 /\ v % 2 = 0
      /\ mode' = mode /\ total' = total /\ flags' = flags /\ first' = first + num
      /\ 0 \in Slots /\ 1 \in Slots
      /\ e \in [Slots -> Int] /\ At(e, 0) = entry[0] /\ At(e, 1) = entry[1] /\ e[0] = entry[0]
      /\ \A x \in 2 .. num + 1 : At(e, x) = first - 2 + x
      /\ \A x \in Slots : At(e, x) = e[x]
  <2> HIDE DEF e
  <2>1. e = compileElements(entry, 2, first, num)
    BY DEF e
  <2> QED BY ONLY <2>1, ExactInv, TriangleBatch, TriangleTakes
<1> HIDE DEF e, v
<1>3. /\ first >= 2 /\ first % 2 = 0 /\ winding = 1
      /\ entry[0] = first - 2 /\ entry[1] = first - 1
      /\ cull \subseteq flags[first - 2] \intersect flags[first - 1]
  BY <1>2 DEF ExactInv, Held, StripHeld
<1>4. \A x \in 0 .. num + 1 : At(e, x) = first - 2 + x
  <2> TAKE x \in 0 .. num + 1
  <2>1. x = 0 \/ x = 1 \/ x \in 2 .. num + 1
    BY <1>2
  <2> QED BY <1>2, <1>3, <2>1
<1>5. Due' = Shown(gl)
  BY <1>2, DueOfBatch
<1>6. ps = gl
  BY ONLY <1>2, <1>3, <1>4, StripPrimitives
<1>7. c # {} => Shown(gl) = <<>>
  <2> SUFFICES ASSUME c # {} PROVE Shown(gl) = <<>>
    OBVIOUS
  <2>1. PICK p \in c : TRUE
    OBVIOUS
  <2>2. p \in cull /\ \A x \in first .. first + num - 1 : p \in flags[x]
    BY <2>1, CulledPlane
  <2>3. p \in flags[first - 2] /\ p \in flags[first - 1]
    BY <1>3, <2>2
  <2>4. p \in Planes
    <3>1. flags \in [0 .. total - 1 -> SUBSET Planes] /\ first - 1 \in 0 .. total - 1
      BY <1>2, <1>3 DEF Entered
    <3> QED BY <2>3, <3>1
  <2>5. \A x \in first - 2 .. first + num - 1 : x \in Nat /\ p \in flags[x]
    <3> TAKE x \in first - 2 .. first + num - 1
    <3>1. x = first - 2 \/ x = first - 1 \/ x \in first .. first + num - 1
      BY <1>2, <1>3
    <3> QED BY <1>2, <1>3, <2>2, <2>3, <3>1
  <2>6. \A x \in DOMAIN gl : \A i \in DOMAIN gl[x] : gl[x][i] \in first - 2 .. first + num - 1
    BY ONLY <1>2, <1>3, StripVertices
  <2> HIDE DEF gl
  <2>7. \A x \in DOMAIN gl : \A i \in DOMAIN gl[x] : gl[x][i] \in Nat /\ p \in flags[gl[x][i]]
    BY ONLY <2>5, <2>6
  <2> QED BY ONLY <2>4, <2>7, ShownNone
<1>8. drawn' = Due'
  <2> HIDE DEF c, ps, gl
  <2> QED BY ONLY <1>1, <1>5, <1>6, <1>7
<1>9. ASSUME more
      PROVE  /\ entry' \in [Slots -> Int] /\ winding' = 1
             /\ entry'[0] = first' - 2 /\ entry'[1] = first' - 1
             /\ cull' \subseteq flags'[first' - 2] \intersect flags'[first' - 1]
             /\ first' >= 2 /\ first' % 2 = 0
  <2>1. num = v /\ num % 2 = 0
    BY <1>2, <1>9
  <2>2. At(e, v) = first' - 2 /\ At(e, v + 1) = first' - 1
    BY <1>2, <1>4, <2>1
  <2>3. w = 1
    <3>1. num \in 0 .. num
      BY <1>2
    <3>2. Pointers(num, 1)[num] = [v0 |-> num, v1 |-> num + 1, winding |-> 1]
      BY ONLY <1>2, <2>1, <3>1, StripPointers
    <3>3. Pointers(num, 1)[num].winding = 1
      BY ONLY <3>2
    <3> QED BY <1>3, <3>3
  <2> HIDE DEF w
  <2>4. /\ CarryOver(e, w) \in [Slots -> Int]
        /\ CarryOver(e, w)[0] = IF w < 2 THEN At(e, v) ELSE e[0]
        /\ CarryOver(e, w)[1] = At(e, v + 1)
    <3>1. At(e, v) \in Int /\ At(e, v + 1) \in Int
      BY <1>2, <2>2
    <3> QED BY <1>2, <3>1, Carry DEF v
  <2>5. Flags(At(e, v)) = flags[first' - 2] /\ Flags(At(e, v + 1)) = flags[first' - 1]
    BY <1>2, <1>3, <2>2 DEF Flags, Stale
  <2>6. cull' = flags[first' - 2] \intersect flags[first' - 1]
    BY <1>1, <1>9, <2>5
  <2>7. entry' = CarryOver(e, w) /\ winding' = w
    BY <1>1, <1>9
  <2>8. first' >= 2 /\ first' % 2 = 0
    BY <1>2, <1>3, <2>1
  <2> QED BY <1>2, <2>2, <2>3, <2>4, <2>6, <2>7, <2>8
<1>10. entry' \in [Slots -> Int]
  <2>1. CASE more
    BY <1>9, <2>1
  <2>2. CASE ~more
    BY <1>1, <1>2, <2>2
  <2> QED BY <2>1, <2>2
<1>11. Held'
  <2>1. Entered'
    BY <1>1, <1>2, <1>10 DEF Entered
  <2>2. StripHeld'
    BY <1>1, <1>9 DEF StripHeld
  <2>3. ListsEven' /\ LinesHeld' /\ FanHeld'
    BY <1>1, <1>2 DEF ListsEven, LinesHeld, FanHeld, Lists, LineStrips
  <2> QED BY <2>1, <2>2, <2>3 DEF Held
<1> QED BY <1>8, <1>11 DEF BatchesExact

\* A triangle fan: as long as nothing was rejected, every batch leaves the
\* centre and the last vertex at the front.
LEMMA FanExact ==
  ASSUME ExactInv, TriangleBatch, mode = "fan"
  PROVE  Held' /\ BatchesExact'
<1> USE ArraysAssumption
<1> DEFINE e  == compileElements(entry, 2, first, num)
           c  == Culled(cull, first, num)
           st == Pointers(num, winding)
           w  == IF c # {} THEN winding ELSE st[num].winding
           more == first + num < total
           ps == TrianglesOf(num, winding, e)
           gl == Primitives("fan", first, first + num)
           v  == vcs(mode)
<1>1. /\ drawn' = IF c # {} THEN <<>> ELSE Shown(ps)
      /\ winding' = w
      /\ entry' = IF more THEN CarryOver(e, w) ELSE e
      /\ rejected' = (rejected \/ c # {})
      /\ stage' = IF more THEN "loop" ELSE "end"
  BY DEF TriangleBatch, TrianglesOf
<1>2. /\ IInv /\ Entered /\ stage = "loop" /\ Advance
      /\ first \in Nat /\ total \in Nat /\ num \in Nat /\ num >= 1 /\ first + num <= total
      /\ more => num = v
      /\ v \in Nat /\ v >= 2
      /\ mode' = mode /\ total' = total /\ flags' = flags /\ first' = first + num
      /\ 0 \in Slots /\ 1 \in Slots
      /\ e \in [Slots -> Int] /\ At(e, 0) = entry[0] /\ At(e, 1) = entry[1] /\ e[0] = entry[0]
      /\ \A x \in 2 .. num + 1 : At(e, x) = first - 2 + x
  <2> HIDE DEF e
  <2>1. e = compileElements(entry, 2, first, num)
    BY DEF e
  <2> QED BY ONLY <2>1, ExactInv, TriangleBatch, TriangleTakes
<1> HIDE DEF e, v
<1>3. /\ first >= 2 /\ winding \in {2, 3}
      /\ ~rejected => entry[0] = 0 /\ entry[1] = first - 1
  BY <1>2 DEF ExactInv, Held, FanHeld
<1>4. w \in {2, 3}
  <2>1. num \in 0 .. num
    BY <1>2
  <2>2. Pointers(num, winding)[num].winding \in {2, 3}
    BY ONLY <1>2, <1>3, <2>1, FanPointers
  <2> QED BY <1>3, <2>2
<1> HIDE DEF w
<1>5. ASSUME more
      PROVE  /\ entry' \in [Slots -> Int] /\ entry'[0] = entry[0] /\ entry'[1] = first' - 1
             /\ first' >= 2
  <2>1. v + 1 \in 2 .. num + 1 /\ v \in 2 .. num + 1
    BY <1>2, <1>5
  <2>2. At(e, v) = first - 2 + v /\ At(e, v + 1) = first - 2 + (v + 1)
    BY ONLY <1>2, <2>1
  <2>3. At(e, v) \in Int /\ At(e, v + 1) \in Int /\ At(e, v + 1) = first' - 1
    BY <1>2, <1>5, <2>2
  <2>4. /\ CarryOver(e, w) \in [Slots -> Int]
        /\ CarryOver(e, w)[0] = IF w < 2 THEN At(e, v) ELSE e[0]
        /\ CarryOver(e, w)[1] = At(e, v + 1)
    BY <1>2, <2>3, Carry DEF v
  <2>5. ~(w < 2)
    BY <1>4
  <2>6. entry' = CarryOver(e, w)
    BY <1>1, <1>5
  <2> QED BY <1>2, <1>3, <2>3, <2>4, <2>5, <2>6
<1>6. entry' \in [Slots -> Int]
  <2>1. CASE more
    BY <1>5, <2>1
  <2>2. CASE ~more
    BY <1>1, <1>2, <2>2
  <2> QED BY <2>1, <2>2
<1>7. Due' = Shown(gl)
  BY <1>2, DueOfBatch
<1>8. ASSUME ~rejected' PROVE ~rejected /\ drawn' = Due'
  <2>1. c = {} /\ ~rejected
    BY <1>1, <1>8
  <2>2. At(e, 0) = 0 /\ \A x \in 1 .. num + 1 : At(e, x) = first - 2 + x
    <3>1. At(e, 0) = 0 /\ At(e, 1) = first - 2 + 1
      BY <1>2, <1>3, <2>1
    <3>2. \A x \in 1 .. num + 1 : x = 1 \/ x \in 2 .. num + 1
      BY <1>2
    <3> QED BY ONLY <1>2, <3>1, <3>2
  <2>3. ps = gl
    BY ONLY <1>2, <1>3, <2>2, FanPrimitives
  <2>4. drawn' = Shown(ps)
    BY <1>1, <2>1
  <2> QED BY <1>7, <2>1, <2>3, <2>4
<1>9. BatchesExact'
  BY <1>1, <1>2, <1>8 DEF BatchesExact
<1>10. Held'
  <2>1. Entered'
    BY <1>1, <1>2, <1>6 DEF Entered
  <2>2. FanHeld'
    BY <1>1, <1>3, <1>4, <1>5, <1>8 DEF FanHeld
  <2>3. ListsEven' /\ LinesHeld' /\ StripHeld'
    BY <1>1, <1>2 DEF ListsEven, LinesHeld, StripHeld, Lists, LineStrips
  <2> QED BY <2>1, <2>2, <2>3 DEF Held
<1> QED BY <1>9, <1>10

\* Between two calls.
LEMMA RestExact ==
  ASSUME ExactInv, Return \/ UNCHANGED vars
  PROVE  Held' /\ BatchesExact'
<1>1. CASE Return
  <2>1. /\ mode' = "none" /\ entry' = [s \in Slots |-> Stale] /\ drawn' = <<>> /\ rejected' = FALSE
        /\ stage' = "end"
    BY <1>1 DEF Return
  <2>2. Entered'
    <3>1. Stale \in Int
      BY DEF Stale
    <3>2. entry' \in [Slots -> Int]
      BY <2>1, <3>1
    <3> QED BY <2>1, <3>2 DEF Entered
  <2>3. Held'
    BY <2>1, <2>2 DEF Held, ListsEven, LinesHeld, StripHeld, FanHeld
  <2>4. BatchesExact'
    BY <2>1 DEF BatchesExact, Due
  <2> QED BY <2>3, <2>4
<1>2. CASE UNCHANGED vars
  <2>1. Held /\ BatchesExact
    BY DEF ExactInv
  <2>2. Held'
    BY <1>2, <2>1 DEF vars, Held, Entered, ListsEven, LinesHeld, StripHeld, FanHeld
  <2>3. Due' = Due
    BY <1>2 DEF vars, Due, Shown, Visible, Flags, Primitives
  <2>4. BatchesExact'
    BY <1>2, <2>1, <2>3 DEF vars, BatchesExact
  <2> QED BY <2>2, <2>4
<1> QED BY <1>1, <1>2

\* The invariant holds before the first call, and every step keeps it.
LEMMA InitExact == Init => ExactInv
<1> SUFFICES ASSUME Init PROVE ExactInv
  OBVIOUS
<1>1. /\ mode = "none" /\ entry = [s \in Slots |-> Stale] /\ drawn = <<>> /\ rejected = FALSE
      /\ stage = "end"
  BY DEF Init
<1>2. Stale \in Int
  BY DEF Stale
<1>3. Entered
  BY <1>1, <1>2 DEF Entered
<1>4. Held
  BY <1>1, <1>3 DEF Held, ListsEven, LinesHeld, StripHeld, FanHeld
<1>5. BatchesExact
  BY <1>1 DEF BatchesExact, Due
<1> QED BY <1>4, <1>5, InitIInv DEF ExactInv

LEMMA NextExact == ExactInv /\ [Next]_vars => ExactInv'
<1> SUFFICES ASSUME ExactInv, [Next]_vars PROVE ExactInv'
  OBVIOUS
<1>1. IInv'
  BY NextIInv DEF ExactInv
<1>2. Held' /\ BatchesExact'
  <2>1. CASE UNCHANGED vars
    BY <2>1, RestExact
  <2>2. CASE \E m \in Modes, count \in 1 .. MaxCount : glDrawArrays(m, count)
    BY <2>2, DrawExact
  <2>3. CASE ListBatch
    BY <2>3, ListExact
  <2>4. CASE LineBatch
    BY <2>4, LineExact
  <2>5. CASE LoopClose
    BY <2>5, CloseExact
  <2>6. CASE TriangleBatch
    <3>1. mode \in {"strip", "fan"}
      BY <2>6 DEF TriangleBatch, TriangleStrips
    <3>2. CASE mode = "strip"
      BY <2>6, <3>2, StripExact
    <3>3. CASE mode = "fan"
      BY <2>6, <3>3, FanExact
    <3> QED BY <3>1, <3>2, <3>3
  <2>7. CASE Return
    BY <2>7, RestExact
  <2> QED BY <2>1, <2>2, <2>3, <2>4, <2>5, <2>6, <2>7 DEF Next
<1> QED BY <1>1, <1>2 DEF ExactInv

\* For every number of entries, vertices and clip planes and for every flags
\* the vertices may have, each batch of glDrawArrays renders exactly the
\* visible ones of the primitives GL defines for its vertices, each with its
\* winding; line strips and fans after a rejected batch excepted.
THEOREM BatchesRenderExactly == Spec => []BatchesExact
<1>1. ExactInv => BatchesExact
  BY DEF ExactInv
<1> QED
  BY InitExact, NextExact, <1>1, PTL DEF Spec
-----------------------------------------------------------------------------
(* glDrawElements                                                          *)

Entry == [tag : Nat \X Nat, data : Int, locked : BOOLEAN]

Cells ==
  /\ cache \in [Entries -> Entry] /\ sequence \in Nat
  /\ held \in Entries \X Entries /\ tail \in Int \X Int /\ head \in Int
  /\ read \in 0 .. 3 /\ odd \in BOOLEAN /\ repeated \in BOOLEAN
  /\ mode \in Lists \union Strips \union {"none", "closed"}

\* No tag is of a later call,
Numbered(e) == \A s \in Entries : e[s].tag[1] <= sequence

\* and one of this call names what the entry holds.
Hits(e) == \A s \in Entries, i \in Indices :
             s >= VERTEX_BUFFER_SIZE /\ e[s].tag = <<sequence, i>> => e[s].data = i

Tags == Numbered(cache) /\ (mode # "none" => sequence >= 1 /\ Hits(cache))

\* Nothing is locked but what the pointers a and b hold.
InUse(e, a, b) == \A s \in Entries : e[s].locked => s >= 2 /\ s \in {a, b}

Locks == InUse(cache, held[1], held[2]) /\ LocksMatchUse

\* Where the pointers are at the start and at the end of a call.
Loops ==
  /\ mode \in Lists \union {"none"} => read = 0
  /\ read = 0 => held = <<0, 1>>
  /\ mode = "closed" => held = <<0, 1>>
  /\ mode \in {"line_strip", "line_loop"} => held[2] = 1
  /\ mode \in {"strip", "fan"} /\ read < 2 => held = <<0, 1>>
  /\ ~repeated => held[1] # held[2]
  /\ mode = "none" => drawn = due

\* What the striper points to is what GL draws from.
LinePoints ==
  mode \in {"line_strip", "line_loop"} /\ read >= 1 /\ ~repeated =>
    /\ cache[held[1]].data = tail[2]
    /\ mode = "line_loop" => cache[0].data = head

StripPoints ==
  mode = "strip" =>
    /\ winding = IF odd THEN 0 ELSE 1
    /\ read < 2 => ~odd
    /\ read = 1 => cache[0].data = tail[2]
    /\ read >= 2 /\ ~repeated =>
         /\ cache[held[1]].data = IF odd THEN tail[2] ELSE tail[1]
         /\ cache[held[2]].data = IF odd THEN tail[1] ELSE tail[2]

FanPoints ==
  mode = "fan" =>
    /\ winding \in {2, 3}
    /\ held[1] = 0
    /\ read >= 1 => cache[0].data = head
    /\ read >= 2 /\ ~repeated => cache[held[2]].data = tail[2]

CacheInv == Cells /\ Tags /\ Locks /\ Loops /\ LinePoints /\ StripPoints /\ FanPoints
            /\ PrimitivesExact

\* What one call of fetch_vertex does: only the entry it returns changes, and
\* that entry was free or held the vertex already.
Fetched(f, e, i) ==
  /\ f.at \in Entries /\ f.at >= 2 /\ f.entry \in [Entries -> Entry]
  /\ Hits(f.entry) /\ Numbered(f.entry)
  /\ f.entry[f.at].data = i /\ f.entry[f.at].locked
  /\ \A s \in Entries : s # f.at => f.entry[s] = e[s]
  /\ e[f.at].locked => e[f.at].data = i

\* f is e with the record q at a free entry.
Takes(f, e, at, q) ==
  /\ f.at = at /\ f.entry \in [Entries -> Entry] /\ f.entry[at] = q
  /\ \A s \in Entries : s # at => f.entry[s] = e[s]

\* A fetch that compiles: into a free entry of the cache, or a spare one, whose
\* tag is never read.
LEMMA FetchTakes ==
  ASSUME sequence \in Nat, sequence >= 1, NEW e, e \in [Entries -> Entry], Hits(e), Numbered(e),
         NEW i \in Indices, NEW at \in Entries, at >= 2,
         ~e[at].locked,
         NEW t \in {NoTag, <<sequence, i>>},
         NEW q, q.tag = t, q.data = i, q.locked,
         NEW f, Takes(f, e, at, q)
  PROVE  Fetched(f, e, i)
<1> USE CacheAssumption
<1>1. f.at = at
  BY DEF Takes
<1>2. q.tag = t /\ q.data = i /\ q.locked
  OBVIOUS
<1>3. t[1] <= sequence
  BY DEF NoTag
<1>5. f.entry \in [Entries -> Entry] /\ f.entry[at] = q /\ \A s \in Entries : s # at => f.entry[s] = e[s]
  BY DEF Takes
<1>6. Numbered(f.entry)
  BY ONLY <1>2, <1>3, <1>5, Numbered(e) DEF Numbered
<1>7. ASSUME NEW k \in Indices, t = <<sequence, k>> PROVE i = k
  <2>1. t = <<sequence, i>> \/ t = <<0, 0>>
    BY DEF NoTag
  <2>2. t # <<0, 0>>
    BY <1>7
  <2> QED BY <1>7, <2>1, <2>2
<1>8. Hits(f.entry)
  <2> SUFFICES ASSUME NEW s \in Entries, NEW k \in Indices, s >= VERTEX_BUFFER_SIZE,
                      f.entry[s].tag = <<sequence, k>>
               PROVE  f.entry[s].data = k
    BY DEF Hits
  <2>1. CASE s = at
    BY ONLY <1>2, <1>5, <1>7, <2>1, f.entry[s].tag = <<sequence, k>>, k \in Indices
  <2>2. CASE s # at
    <3>1. f.entry[s] = e[s]
      BY ONLY <1>5, <2>2, s \in Entries
    <3>2. e[s].tag = <<sequence, k>>
      BY ONLY <3>1, f.entry[s].tag = <<sequence, k>>
    <3>3. e[s].data = k
      BY ONLY <3>2, Hits(e), s \in Entries, k \in Indices, s >= VERTEX_BUFFER_SIZE DEF Hits
    <3> QED BY ONLY <3>1, <3>3
  <2> QED BY <2>1, <2>2
<1>9. f.entry[f.at].data = i /\ f.entry[f.at].locked /\ ~e[f.at].locked
  BY ONLY <1>1, <1>2, <1>5, ~e[at].locked
<1> QED BY ONLY <1>1, <1>5, <1>6, <1>8, <1>9, at \in Entries, at >= 2 DEF Fetched

\* A fetch in the middle of a call, when at most two entries are in use: the
\* spare entry is free, and is none of the cache.
LEMMA FetchVertex ==
  ASSUME sequence \in Nat, sequence >= 1, NEW e, e \in [Entries -> Entry], Hits(e), Numbered(e),
         NEW a, NEW b, InUse(e, a, b), NEW i \in Indices,
         NEW f, f = fetch_vertex(e, i)
  PROVE  Fetched(f, e, i)
<1> USE CacheAssumption
<1> DEFINE c == VERTEX_BUFFER_SIZE + (i % VERTEX_CACHE_SIZE)
           t == <<sequence, i>>
<1>1. f = IF e[c].tag = t THEN Locking(e, c) ELSE cache_vertex(e, c, t)
  BY ONLY f = fetch_vertex(e, i) DEF fetch_vertex
<1>2. c \in Entries /\ c \in Nat /\ c >= VERTEX_BUFFER_SIZE /\ c >= 5
  <2>1. i \in Nat /\ i % VERTEX_CACHE_SIZE \in 0 .. VERTEX_CACHE_SIZE - 1
    OBVIOUS
  <2> QED BY <2>1 DEF Entries
<1>3. t[1] = sequence /\ t[2] = i /\ t \in {NoTag, <<sequence, i>>} /\ i \in Int
  OBVIOUS
<1> HIDE DEF c, t
<1>4. CASE e[c].tag = t
  <2> DEFINE r == [e[c] EXCEPT !.locked = TRUE]
  <2>1. f = Locking(e, c)
    BY ONLY <1>1, <1>4
  <2>2. e[c] \in Entry
    BY ONLY <1>2, e \in [Entries -> Entry]
  <2>3. r \in Entry /\ r.tag = e[c].tag /\ r.data = e[c].data /\ r.locked
    BY ONLY <2>2 DEF Entry
  <2>4. e[c].data = i
    BY ONLY <1>2, <1>4, Hits(e), i \in Indices DEF Hits, t
  <2>5. f.at = c /\ f.entry = [e EXCEPT ![c] = r]
    BY ONLY <2>1 DEF Locking
  <2> HIDE DEF r
  <2>6. f.entry \in [Entries -> Entry] /\ f.entry[c] = r /\ \A s \in Entries : s # c => f.entry[s] = e[s]
    BY ONLY <1>2, <2>3, <2>5, e \in [Entries -> Entry]
  <2>7. \A s \in Entries : f.entry[s].tag = e[s].tag /\ f.entry[s].data = e[s].data
    BY ONLY <2>3, <2>6
  <2>8. Hits(f.entry) /\ Numbered(f.entry)
    BY ONLY <2>7, Hits(e), Numbered(e) DEF Hits, Numbered
  <2>9. f.entry[f.at].data = i /\ f.entry[f.at].locked
    BY ONLY <2>3, <2>4, <2>5, <2>6
  <2>10. c >= 2
    BY ONLY <1>2
  <2> QED BY ONLY <1>2, <2>4, <2>5, <2>6, <2>8, <2>9, <2>10 DEF Fetched
<1>5. CASE e[c].tag # t
  <2> DEFINE at == IF e[c].locked THEN Spare(e) ELSE c
             g  == IF at < VERTEX_BUFFER_SIZE THEN NoTag ELSE t
             d  == compileElement(e, at, t)
             r  == [tag |-> g, data |-> i, locked |-> e[at].locked]
             q  == [r EXCEPT !.locked = TRUE]
  <2>1. at \in Entries /\ at >= 2 /\ ~e[at].locked
    <3>1. CASE ~e[c].locked
      <4>1. at = c
        BY <3>1
      <4> QED BY ONLY <1>2, <3>1, <4>1
    <3>2. CASE e[c].locked
      <4>1. at = Spare(e)
        BY <3>2
      <4>2. 2 \in Entries /\ 3 \in Entries /\ 4 \in Entries
        BY DEF Entries
      <4>3. \A s \in Entries : e[s].locked => s \in {a, b}
        BY DEF InUse
      <4>4. ~(e[2].locked /\ e[3].locked)
        BY ONLY <1>2, <3>2, <4>2, <4>3
      <4>5. ~(e[3].locked /\ e[4].locked)
        BY ONLY <1>2, <3>2, <4>2, <4>3
      <4>6. Spare(e) \in {2, 3, 4} /\ ~e[Spare(e)].locked
        <5>1. CASE e[2].locked
          BY ONLY <4>4, <5>1 DEF Spare
        <5>2. CASE ~e[2].locked /\ ~e[3].locked
          BY ONLY <5>2 DEF Spare
        <5>3. CASE ~e[2].locked /\ e[3].locked
          BY ONLY <4>5, <5>3 DEF Spare
        <5> QED BY <5>1, <5>2, <5>3
      <4> QED BY ONLY <4>1, <4>2, <4>6
    <3> QED BY <3>1, <3>2
  <2>2. f = Locking(d, at)
    BY ONLY <1>1, <1>5 DEF cache_vertex
  <2> HIDE DEF at
  <2>3. d = [e EXCEPT ![at] = r]
    BY <1>3 DEF compileElement
  <2>4. g \in {NoTag, <<sequence, i>>}
    BY <1>3 DEF t
  <2> HIDE DEF g, d
  <2>5. r \in Entry /\ r.tag = g /\ r.data = i
    <3>1. e[at].locked \in BOOLEAN
      BY ONLY <2>1, e \in [Entries -> Entry] DEF Entry
    <3>2. g \in Nat \X Nat
      BY <2>4 DEF NoTag
    <3> QED BY ONLY <1>3, <3>1, <3>2 DEF Entry
  <2> HIDE DEF r
  <2>6. d \in [Entries -> Entry] /\ d[at] = r /\ \A s \in Entries : s # at => d[s] = e[s]
    BY ONLY <2>1, <2>3, <2>5, e \in [Entries -> Entry]
  <2>7. q \in Entry /\ q.tag = g /\ q.data = i /\ q.locked
    BY ONLY <2>5 DEF Entry
  <2>8. f.at = at /\ f.entry = [d EXCEPT ![at] = q]
    <3>1. f.at = at /\ f.entry = [d EXCEPT ![at] = [d[at] EXCEPT !.locked = TRUE]]
      BY ONLY <2>2 DEF Locking
    <3> QED BY ONLY <2>6, <3>1
  <2> HIDE DEF q
  <2>9. Takes(f, e, at, q)
    BY ONLY <2>1, <2>6, <2>7, <2>8 DEF Takes
  <2> QED BY ONLY <2>1, <2>4, <2>7, <2>9, FetchTakes, sequence \in Nat, sequence >= 1,
                  e \in [Entries -> Entry], Hits(e), Numbered(e), i \in Indices
<1> QED BY <1>4, <1>5

\* An entry in use keeps what it holds.
LEMMA FetchKeeps ==
  ASSUME NEW f, NEW e, NEW i, Fetched(f, e, i), NEW s \in Entries, e[s].locked
  PROVE  f.entry[s].locked /\ f.entry[s].data = e[s].data
<1>1. CASE s = f.at
  BY <1>1 DEF Fetched
<1>2. CASE s # f.at
  BY <1>2 DEF Fetched
<1> QED BY <1>1, <1>2

\* n is e with entry s unlocked.
Unlocked(n, e, s) ==
  /\ n \in [Entries -> Entry]
  /\ \A x \in Entries : /\ n[x].tag = e[x].tag /\ n[x].data = e[x].data
                        /\ n[x].locked <=> x # s /\ e[x].locked

LEMMA Unlocks ==
  ASSUME NEW e, e \in [Entries -> Entry], NEW s \in Entries
  PROVE  Unlocked(Unlock(e, s), e, s)
<1> DEFINE r == [e[s] EXCEPT !.locked = FALSE]
<1>1. Unlock(e, s) = [e EXCEPT ![s] = r]
  BY DEF Unlock
<1>2. e[s] \in Entry
  OBVIOUS
<1>3. r \in Entry /\ r.tag = e[s].tag /\ r.data = e[s].data /\ ~r.locked
  BY ONLY <1>2 DEF Entry
<1> HIDE DEF r
<1>4. /\ Unlock(e, s) \in [Entries -> Entry] /\ Unlock(e, s)[s] = r
      /\ \A x \in Entries : x # s => Unlock(e, s)[x] = e[x]
  BY ONLY <1>1, <1>3, e \in [Entries -> Entry], s \in Entries
<1>5. ASSUME NEW x \in Entries
      PROVE  /\ Unlock(e, s)[x].tag = e[x].tag /\ Unlock(e, s)[x].data = e[x].data
             /\ Unlock(e, s)[x].locked <=> x # s /\ e[x].locked
  <2>1. CASE x = s
    BY ONLY <1>3, <1>4, <2>1
  <2>2. CASE x # s
    BY ONLY <1>4, <1>5, <2>2
  <2> QED BY <2>1, <2>2
<1> QED BY ONLY <1>4, <1>5 DEF Unlocked

LEMMA UnlockTags ==
  ASSUME NEW n, NEW e, NEW s, Unlocked(n, e, s), Hits(e), Numbered(e)
  PROVE  Hits(n) /\ Numbered(n)
BY DEF Unlocked, Hits, Numbered

\* What the steps of a call begin with.
LEMMA InCall ==
  ASSUME CacheInv, mode # "none"
  PROVE  /\ sequence \in Nat /\ sequence >= 1 /\ cache \in [Entries -> Entry]
         /\ Hits(cache) /\ Numbered(cache) /\ InUse(cache, held[1], held[2])
         /\ held[1] \in Entries /\ held[2] \in Entries
         /\ 0 \in Entries /\ 1 \in Entries
BY CacheAssumption DEF CacheInv, Cells, Tags, Locks, Entries

\* An iteration of a list: no entry is in use before it or after it.
LEMMA ListKeeps ==
  ASSUME CacheInv, mode \in Lists, drawn' = due',
         cache' \in [Entries -> Entry], Hits(cache'), Numbered(cache'),
         \A s \in Entries : ~cache'[s].locked,
         UNCHANGED <<sequence, mode, outside, read, held, winding, tail, head, odd, repeated>>
  PROVE  CacheInv'
<1>1. /\ mode # "none" /\ mode \notin {"line_strip", "line_loop", "strip", "fan", "closed"}
      /\ mode' = mode /\ read' = read /\ held' = held /\ sequence' = sequence /\ repeated' = repeated
      /\ tail' = tail /\ head' = head /\ odd' = odd
  BY DEF Lists
<1>2. Cells'
  BY <1>1 DEF CacheInv, Cells
<1>3. Tags'
  <2>1. Hits(cache)' /\ Numbered(cache)'
    BY <1>1 DEF Hits, Numbered
  <2>2. sequence >= 1
    BY <1>1, InCall
  <2> QED BY <1>1, <2>1, <2>2 DEF Tags
<1>4. Loops'
  BY <1>1 DEF CacheInv, Loops
<1>5. held' = <<0, 1>>
  BY <1>1 DEF CacheInv, Loops
<1>6. Locks'
  <2>1. InUse(cache, held[1], held[2])'
    BY DEF InUse
  <2>2. \A s \in Entries : ~(s >= 2 /\ s \in {0, 1})
    BY CacheAssumption DEF Entries
  <2>3. LocksMatchUse'
    BY <1>5, <2>2 DEF LocksMatchUse
  <2> QED BY <2>1, <2>3 DEF Locks
<1>7. LinePoints' /\ StripPoints' /\ FanPoints'
  BY <1>1 DEF LinePoints, StripPoints, FanPoints
<1>8. PrimitivesExact'
  BY DEF PrimitivesExact
<1> QED BY <1>2, <1>3, <1>4, <1>6, <1>7, <1>8 DEF CacheInv

\* Nothing is locked when an iteration of a list begins.
LEMMA ListStart ==
  ASSUME CacheInv, mode \in Lists
  PROVE  mode # "none" /\ \A s \in Entries : ~cache[s].locked
<1>1. mode # "none" /\ held = <<0, 1>>
  BY DEF Lists, CacheInv, Loops
<1>2. InUse(cache, held[1], held[2])
  BY DEF CacheInv, Locks
<1>3. \A s \in Entries : ~(s >= 2 /\ s \in {0, 1})
  BY CacheAssumption DEF Entries
<1> QED BY <1>1, <1>2, <1>3 DEF InUse

LEMMA PointsKeep ==
  ASSUME CacheInv, NEW i \in Indices, Points(i)
  PROVE  CacheInv'
<1> DEFINE f == fetch_vertex(cache, i)
<1>1. /\ mode = "points" /\ drawn' = Show(<<f.entry[f.at].data>>) /\ due' = Show(<<i>>)
      /\ cache' = Unlock(f.entry, f.at)
      /\ UNCHANGED <<sequence, mode, outside, read, held, winding, tail, head, odd, repeated>>
  BY DEF Points
<1>2. mode \in Lists
  BY <1>1 DEF Lists
<1>3. mode # "none" /\ \A s \in Entries : ~cache[s].locked
  BY <1>2, ListStart
<1>4. /\ sequence \in Nat /\ sequence >= 1 /\ cache \in [Entries -> Entry]
      /\ Hits(cache) /\ Numbered(cache) /\ InUse(cache, held[1], held[2])
  BY ONLY <1>3, CacheInv, InCall
<1> HIDE DEF f
<1>5. Fetched(f, cache, i)
  <2>1. f = fetch_vertex(cache, i)
    BY DEF f
  <2> QED BY ONLY <1>4, <2>1, i \in Indices, FetchVertex
<1>6. f.at \in Entries /\ f.entry \in [Entries -> Entry] /\ Hits(f.entry) /\ Numbered(f.entry)
      /\ f.entry[f.at].data = i /\ \A s \in Entries : s # f.at => f.entry[s] = cache[s]
  BY ONLY <1>5 DEF Fetched
<1>7. Unlocked(cache', f.entry, f.at)
  BY ONLY <1>1, <1>6, Unlocks
<1>8. Hits(cache') /\ Numbered(cache')
  BY ONLY <1>6, <1>7, UnlockTags
<1>9. cache' \in [Entries -> Entry] /\ \A s \in Entries : ~cache'[s].locked
  BY ONLY <1>3, <1>6, <1>7 DEF Unlocked
<1>10. drawn' = due'
  BY ONLY <1>1, <1>6
<1> QED BY ONLY <1>1, <1>2, <1>8, <1>9, <1>10, ListKeeps, CacheInv

LEMMA LinesKeep ==
  ASSUME CacheInv, NEW i \in Indices, NEW j \in Indices, Lines(i, j)
  PROVE  CacheInv'
<1> DEFINE f == fetch_vertex(cache, i)
           g == fetch_vertex(f.entry, j)
<1>1. /\ mode = "lines"
      /\ drawn' = Show(<<g.entry[f.at].data, g.entry[g.at].data>>) /\ due' = Show(<<i, j>>)
      /\ cache' = Unlock(Unlock(g.entry, f.at), g.at)
      /\ UNCHANGED <<sequence, mode, outside, read, held, winding, tail, head, odd, repeated>>
  BY DEF Lines
<1>2. mode \in Lists
  BY <1>1 DEF Lists
<1>3. mode # "none" /\ \A s \in Entries : ~cache[s].locked
  BY <1>2, ListStart
<1>4. /\ sequence \in Nat /\ sequence >= 1 /\ cache \in [Entries -> Entry]
      /\ Hits(cache) /\ Numbered(cache) /\ InUse(cache, held[1], held[2])
  BY ONLY <1>3, CacheInv, InCall
<1>a. g = fetch_vertex(f.entry, j)
  OBVIOUS
<1> HIDE DEF g
<1>b. f = fetch_vertex(cache, i)
  OBVIOUS
<1> HIDE DEF f
<1>5. Fetched(f, cache, i)
  BY ONLY <1>4, <1>b, i \in Indices, FetchVertex
<1>6. f.at \in Entries /\ f.at >= 2 /\ f.entry \in [Entries -> Entry] /\ Hits(f.entry) /\ Numbered(f.entry)
      /\ f.entry[f.at].data = i /\ f.entry[f.at].locked
      /\ \A s \in Entries : s # f.at => f.entry[s] = cache[s]
  BY ONLY <1>5 DEF Fetched
<1>7. InUse(f.entry, f.at, f.at)
  BY ONLY <1>3, <1>6 DEF InUse
<1>8. Fetched(g, f.entry, j)
  BY ONLY <1>4, <1>6, <1>7, <1>a, j \in Indices, FetchVertex
<1>9. g.at \in Entries /\ g.entry \in [Entries -> Entry] /\ Hits(g.entry) /\ Numbered(g.entry)
      /\ g.entry[g.at].data = j /\ \A s \in Entries : s # g.at => g.entry[s] = f.entry[s]
  BY ONLY <1>8 DEF Fetched
<1>10. g.entry[f.at].data = i
  BY ONLY <1>6, <1>8, FetchKeeps
<1> DEFINE x == Unlock(g.entry, f.at)
<1>11. Unlocked(x, g.entry, f.at)
  BY ONLY <1>6, <1>9, Unlocks
<1>12. cache' = Unlock(x, g.at)
  BY <1>1
<1> HIDE DEF x
<1>13. x \in [Entries -> Entry]
  BY ONLY <1>11 DEF Unlocked
<1>14. Unlocked(cache', x, g.at)
  BY ONLY <1>9, <1>12, <1>13, Unlocks
<1>15. Hits(x) /\ Numbered(x)
  BY ONLY <1>9, <1>11, UnlockTags
<1>16. Hits(cache') /\ Numbered(cache')
  BY ONLY <1>14, <1>15, UnlockTags
<1>17. cache' \in [Entries -> Entry] /\ \A s \in Entries : ~cache'[s].locked
  BY ONLY <1>3, <1>6, <1>9, <1>11, <1>14 DEF Unlocked
<1>18. drawn' = due'
  BY ONLY <1>1, <1>9, <1>10
<1> QED BY ONLY <1>1, <1>2, <1>16, <1>17, <1>18, ListKeeps, CacheInv

LEMMA TrianglesKeep ==
  ASSUME CacheInv, NEW i \in Indices, NEW j \in Indices, NEW k \in Indices, Triangles(i, j, k)
  PROVE  CacheInv'
<1> DEFINE f == fetch_vertex(cache, i)
           g == fetch_vertex(f.entry, j)
           h == fetch_vertex(g.entry, k)
<1>1. /\ mode = "triangles"
      /\ drawn' = Show(<<h.entry[f.at].data, h.entry[g.at].data, h.entry[h.at].data>>)
      /\ due' = Show(<<i, j, k>>)
      /\ cache' = Unlock(Unlock(Unlock(h.entry, f.at), g.at), h.at)
      /\ UNCHANGED <<sequence, mode, outside, read, held, winding, tail, head, odd, repeated>>
  BY DEF Triangles
<1>2. mode \in Lists
  BY <1>1 DEF Lists
<1>3. mode # "none" /\ \A s \in Entries : ~cache[s].locked
  BY <1>2, ListStart
<1>4. /\ sequence \in Nat /\ sequence >= 1 /\ cache \in [Entries -> Entry]
      /\ Hits(cache) /\ Numbered(cache) /\ InUse(cache, held[1], held[2])
  BY ONLY <1>3, CacheInv, InCall
<1>a. h = fetch_vertex(g.entry, k)
  OBVIOUS
<1> HIDE DEF h
<1>b. g = fetch_vertex(f.entry, j)
  OBVIOUS
<1> HIDE DEF g
<1>c. f = fetch_vertex(cache, i)
  OBVIOUS
<1> HIDE DEF f
<1>5. Fetched(f, cache, i)
  BY ONLY <1>4, <1>c, i \in Indices, FetchVertex
<1>6. f.at \in Entries /\ f.at >= 2 /\ f.entry \in [Entries -> Entry] /\ Hits(f.entry) /\ Numbered(f.entry)
      /\ f.entry[f.at].data = i /\ f.entry[f.at].locked
      /\ \A s \in Entries : s # f.at => f.entry[s] = cache[s]
  BY ONLY <1>5 DEF Fetched
<1>7. InUse(f.entry, f.at, f.at)
  BY ONLY <1>3, <1>6 DEF InUse
<1>8. Fetched(g, f.entry, j)
  BY ONLY <1>4, <1>6, <1>7, <1>b, j \in Indices, FetchVertex
<1>9. g.at \in Entries /\ g.at >= 2 /\ g.entry \in [Entries -> Entry] /\ Hits(g.entry) /\ Numbered(g.entry)
      /\ g.entry[g.at].data = j /\ g.entry[g.at].locked
      /\ \A s \in Entries : s # g.at => g.entry[s] = f.entry[s]
  BY ONLY <1>8 DEF Fetched
<1>10. g.entry[f.at].data = i /\ g.entry[f.at].locked
  BY ONLY <1>6, <1>8, FetchKeeps
<1>11. InUse(g.entry, f.at, g.at)
  BY ONLY <1>6, <1>7, <1>9 DEF InUse
<1>12. Fetched(h, g.entry, k)
  BY ONLY <1>4, <1>9, <1>11, <1>a, k \in Indices, FetchVertex
<1>13. h.at \in Entries /\ h.entry \in [Entries -> Entry] /\ Hits(h.entry) /\ Numbered(h.entry)
      /\ h.entry[h.at].data = k /\ \A s \in Entries : s # h.at => h.entry[s] = g.entry[s]
  BY ONLY <1>12 DEF Fetched
<1>14. h.entry[f.at].data = i
  BY ONLY <1>6, <1>10, <1>12, FetchKeeps
<1>15. h.entry[g.at].data = j
  BY ONLY <1>9, <1>12, FetchKeeps
<1> DEFINE x == Unlock(h.entry, f.at)
           y == Unlock(x, g.at)
<1>16. cache' = Unlock(y, h.at)
  BY <1>1
<1>17. y = Unlock(x, g.at)
  OBVIOUS
<1> HIDE DEF y
<1>18. Unlocked(x, h.entry, f.at)
  BY ONLY <1>6, <1>13, Unlocks
<1> HIDE DEF x
<1>19. x \in [Entries -> Entry]
  BY ONLY <1>18 DEF Unlocked
<1>20. Unlocked(y, x, g.at)
  BY ONLY <1>9, <1>17, <1>19, Unlocks
<1>21. y \in [Entries -> Entry]
  BY ONLY <1>20 DEF Unlocked
<1>22. Unlocked(cache', y, h.at)
  BY ONLY <1>13, <1>16, <1>21, Unlocks
<1>23. Hits(x) /\ Numbered(x)
  BY ONLY <1>13, <1>18, UnlockTags
<1>24. Hits(y) /\ Numbered(y)
  BY ONLY <1>20, <1>23, UnlockTags
<1>25. Hits(cache') /\ Numbered(cache')
  BY ONLY <1>22, <1>24, UnlockTags
<1>26. \A s \in Entries : h.entry[s].locked => s \in {f.at, g.at, h.at}
  BY ONLY <1>11, <1>13 DEF InUse
<1>27. cache' \in [Entries -> Entry] /\ \A s \in Entries : ~cache'[s].locked
  BY ONLY <1>18, <1>20, <1>22, <1>26 DEF Unlocked
<1>28. drawn' = due'
  BY ONLY <1>1, <1>13, <1>14, <1>15
<1> QED BY ONLY <1>1, <1>2, <1>25, <1>27, <1>28, ListKeeps, CacheInv

\* A fetch returns an entry the striper points to only if that entry holds the
\* vertex fetched already.
LEMMA FetchElsewhere ==
  ASSUME CacheInv, ~repeated, NEW f, NEW i, Fetched(f, cache, i),
         NEW s, s \in {held[1], held[2]}, cache[s].data # i
  PROVE  f.at # s
<1> SUFFICES ASSUME f.at = s PROVE FALSE
  OBVIOUS
<1>1. s \in Entries /\ s >= 2 /\ (cache[s].locked => cache[s].data = i)
  BY DEF Fetched
<1>2. cache[s].locked
  BY <1>1 DEF CacheInv, Locks, LocksMatchUse
<1> QED BY <1>1, <1>2

\* One vertex more: the pointer to u moves to the entry fetched, the one to b
\* stays.
LEMMA StriperLocks ==
  ASSUME CacheInv, mode # "none", mode' = mode, sequence' = sequence,
         NEW f, NEW i, Fetched(f, cache, i), NEW u, NEW b,
         {u, b} = {held[1], held[2]}, {f.at, b} = {held'[1], held'[2]},
         Unlocked(cache', f.entry, u), repeated => repeated',
         ~repeated' => f.at # u /\ f.at # b
  PROVE  Tags' /\ Locks'
<1>1. /\ sequence >= 1 /\ InUse(cache, held[1], held[2])
  BY InCall
<1>2. /\ f.at \in Entries /\ f.at >= 2 /\ Hits(f.entry) /\ Numbered(f.entry)
      /\ f.entry[f.at].locked /\ \A s \in Entries : s # f.at => f.entry[s] = cache[s]
  BY DEF Fetched
<1>3. Hits(cache') /\ Numbered(cache')
  BY ONLY <1>2, Unlocked(cache', f.entry, u), UnlockTags
<1>4. Tags'
  <2>1. Hits(cache)' /\ Numbered(cache)'
    BY <1>3 DEF Hits, Numbered
  <2> QED BY <1>1, <2>1 DEF Tags
<1>5. InUse(cache, held[1], held[2])'
  <2> SUFFICES ASSUME NEW s \in Entries, cache'[s].locked
               PROVE  s >= 2 /\ s \in {f.at, b}
    BY DEF InUse
  <2>1. s # u /\ f.entry[s].locked
    BY DEF Unlocked
  <2>2. CASE s = f.at
    BY ONLY <1>2, <2>2
  <2>3. CASE s # f.at
    <3>1. cache[s].locked
      BY ONLY <1>2, <2>1, <2>3, s \in Entries
    <3>2. s >= 2 /\ s \in {u, b}
      BY ONLY <1>1, <3>1, s \in Entries, {u, b} = {held[1], held[2]} DEF InUse
    <3> QED BY ONLY <2>1, <3>2
  <2> QED BY <2>2, <2>3
<1>6. LocksMatchUse'
  <2> SUFFICES ASSUME ~repeated', NEW s \in Entries, s >= 2, s \in {f.at, b}
               PROVE  cache'[s].locked
    BY <1>5 DEF LocksMatchUse, InUse
  <2>1. ~repeated /\ f.at # u /\ f.at # b
    OBVIOUS
  <2>2. u # b
    BY <2>1 DEF CacheInv, Loops
  <2>3. f.entry[s].locked
    <3>1. CASE s = f.at
      BY ONLY <1>2, <3>1
    <3>2. CASE s # f.at
      <4>1. s \in {held[1], held[2]}
        BY <3>2
      <4>2. cache[s].locked
        BY <2>1, <4>1 DEF CacheInv, Locks, LocksMatchUse
      <4> QED BY ONLY <1>2, <3>2, <4>2, s \in Entries
    <3> QED BY <3>1, <3>2
  <2>4. s # u
    BY ONLY <2>1, <2>2, s \in {f.at, b}
  <2> QED BY <2>3, <2>4 DEF Unlocked
<1> QED BY <1>4, <1>5, <1>6 DEF Locks

LEMMA ShortLoopKeeps ==
  ASSUME CacheInv, ShortLoop
  PROVE  CacheInv'
<1>1. /\ mode = "line_loop" /\ read = 0 /\ mode' = "lines"
      /\ UNCHANGED <<cache, sequence, read, held, winding, tail, head, odd, repeated, drawn, due>>
  BY DEF ShortLoop
<1>2. Cells'
  BY <1>1 DEF CacheInv, Cells, Lists
<1>3. Tags'
  BY <1>1 DEF CacheInv, Tags, Numbered, Hits
<1>4. Locks'
  BY <1>1 DEF CacheInv, Locks, InUse, LocksMatchUse
<1>5. Loops'
  BY <1>1 DEF CacheInv, Loops
<1>6. LinePoints' /\ StripPoints' /\ FanPoints'
  BY <1>1 DEF LinePoints, StripPoints, FanPoints
<1>7. PrimitivesExact'
  BY <1>1 DEF CacheInv, PrimitivesExact
<1> QED BY <1>2, <1>3, <1>4, <1>5, <1>6, <1>7 DEF CacheInv

\* The buffer's first entries are filled in turn; nothing is locked or hit.
LEMMA StartKeeps ==
  ASSUME CacheInv, NEW i \in Indices, Start(i)
  PROVE  CacheInv'
<1> USE CacheAssumption
<1>1. /\ mode \in Strips /\ read < (IF mode \in {"strip", "fan"} THEN 2 ELSE 1)
      /\ cache' = compileElement(cache, read, <<0, i>>)
      /\ UNCHANGED <<sequence, mode, outside, held, winding, odd, repeated, drawn, due>>
  BY DEF Start
<1>2. /\ tail' = <<IF mode = "strip" THEN tail[2] ELSE Stale, i>>
      /\ head' = IF read = 0 /\ mode \in {"fan", "line_loop"} THEN i ELSE head
      /\ read' = IF read < 3 THEN read + 1 ELSE read
  BY DEF Start, Read
<1>3. mode # "none" /\ mode # "closed" /\ mode \notin Lists
  BY <1>1 DEF Strips, Lists
<1>4. /\ sequence \in Nat /\ sequence >= 1 /\ cache \in [Entries -> Entry]
      /\ Hits(cache) /\ Numbered(cache) /\ InUse(cache, held[1], held[2])
      /\ 0 \in Entries /\ 1 \in Entries
  BY ONLY <1>3, CacheInv, InCall
<1>5. read \in {0, 1} /\ (read = 1 => mode \in {"strip", "fan"}) /\ i \in Int
  BY <1>1 DEF CacheInv, Cells
<1>6. held = <<0, 1>>
  BY <1>1, <1>5 DEF CacheInv, Loops
<1> DEFINE r == [tag |-> NoTag, data |-> i, locked |-> cache[read].locked]
<1> DEFINE g == IF read < VERTEX_BUFFER_SIZE THEN NoTag ELSE <<0, i>>
<1>7. cache' = [cache EXCEPT ![read] = r]
  <2>1. g = NoTag
    BY <1>5
  <2>2. cache' = [cache EXCEPT ![read] = [tag |-> g, data |-> i, locked |-> cache[read].locked]]
    BY <1>1 DEF compileElement
  <2> HIDE DEF g
  <2> QED BY ONLY <2>1, <2>2
<1>8. r \in Entry /\ r.tag = NoTag /\ r.data = i /\ r.locked = cache[read].locked
  <2>1. cache[read].locked \in BOOLEAN
    BY ONLY <1>4, <1>5 DEF Entry
  <2>2. NoTag \in Nat \X Nat
    BY DEF NoTag
  <2> QED BY ONLY <1>5, <2>1, <2>2 DEF Entry
<1> HIDE DEF r
<1>9. /\ cache' \in [Entries -> Entry] /\ cache'[read] = r
      /\ \A s \in Entries : s # read => cache'[s] = cache[s]
  BY ONLY <1>4, <1>5, <1>7, <1>8
<1>10. \A s \in Entries : cache'[s].locked = cache[s].locked
  BY ONLY <1>8, <1>9
<1>11. /\ read' = read + 1 /\ tail'[2] = i
       /\ (read = 0 /\ mode \in {"fan", "line_loop"} => head' = i)
       /\ (read = 1 => head' = head) /\ (mode = "strip" => tail'[1] = tail[2])
  BY <1>2, <1>5
<1>12. Cells'
  BY <1>1, <1>2, <1>5, <1>9 DEF CacheInv, Cells, Stale
<1>13. Tags'
  <2>1. Numbered(cache)'
    <3>1. NoTag[1] <= sequence
      BY ONLY <1>4 DEF NoTag
    <3>2. ASSUME NEW s \in Entries PROVE cache'[s].tag[1] <= sequence
      <4>1. CASE s = read
        BY ONLY <1>8, <1>9, <3>1, <4>1
      <4>2. CASE s # read
        BY ONLY <1>4, <1>9, <3>2, <4>2 DEF Numbered
      <4> QED BY <4>1, <4>2
    <3> QED BY <1>1, <3>2 DEF Numbered
  <2>2. ASSUME NEW s \in Entries, NEW k \in Indices, s >= VERTEX_BUFFER_SIZE,
               cache'[s].tag = <<sequence, k>>
        PROVE  cache'[s].data = k
    <3>1. s # read
      BY ONLY <1>5, <2>2, CacheAssumption DEF Entries
    <3>2. cache'[s] = cache[s]
      BY ONLY <1>9, <2>2, <3>1
    <3>3. cache[s].tag = <<sequence, k>>
      BY ONLY <2>2, <3>2
    <3> QED BY ONLY <1>4, <2>2, <3>2, <3>3 DEF Hits
  <2>3. Hits(cache)'
    BY <1>1, <2>2 DEF Hits
  <2> QED BY <1>1, <1>4, <2>1, <2>3 DEF Tags
<1>14. Locks'
  <2>1. InUse(cache, held[1], held[2])'
    BY <1>1, <1>4, <1>10 DEF InUse
  <2>2. LocksMatchUse'
    BY <1>1, <1>10 DEF CacheInv, Locks, LocksMatchUse
  <2> QED BY <2>1, <2>2 DEF Locks
<1>15. Loops'
  BY <1>1, <1>3, <1>5, <1>6, <1>11 DEF CacheInv, Loops
<1>16. cache'[read].data = i /\ (read = 1 => cache'[0].data = cache[0].data)
  BY ONLY <1>4, <1>8, <1>9
<1>17. LinePoints'
  BY <1>1, <1>5, <1>6, <1>11, <1>16 DEF LinePoints
<1>18. StripPoints'
  <2>1. CASE read = 0
    BY <1>1, <1>6, <1>11, <1>16, <2>1 DEF CacheInv, StripPoints
  <2>2. CASE read = 1
    BY <1>1, <1>6, <1>11, <1>16, <2>2 DEF CacheInv, StripPoints
  <2> QED BY <1>5, <2>1, <2>2
<1>19. FanPoints'
  <2>1. CASE read = 0
    BY <1>1, <1>6, <1>11, <1>16, <2>1 DEF CacheInv, FanPoints
  <2>2. CASE read = 1
    BY <1>1, <1>6, <1>11, <1>16, <2>2 DEF CacheInv, FanPoints
  <2> QED BY <1>5, <2>1, <2>2
<1>20. PrimitivesExact'
  BY <1>1 DEF CacheInv, PrimitivesExact
<1> QED BY <1>12, <1>13, <1>14, <1>15, <1>17, <1>18, <1>19, <1>20 DEF CacheInv

LEMMA LineNextKeeps ==
  ASSUME CacheInv, NEW i \in Indices, LineNext(i)
  PROVE  CacheInv'
<1> USE CacheAssumption
<1> DEFINE f == fetch_vertex(cache, i)
<1>1. /\ mode \in {"line_strip", "line_loop"} /\ read >= 1
      /\ drawn' = Show(<<f.entry[held[1]].data, f.entry[f.at].data>>)
      /\ due' = Show(<<tail[2], i>>)
      /\ cache' = Unlock(f.entry, held[1])
      /\ held' = <<f.at, held[2]>>
      /\ repeated' = (repeated \/ i = tail[2])
      /\ UNCHANGED <<sequence, mode, outside, winding, odd>>
  BY DEF LineNext
<1>2. /\ tail' = <<IF mode = "strip" THEN tail[2] ELSE Stale, i>>
      /\ head' = IF read = 0 /\ mode \in {"fan", "line_loop"} THEN i ELSE head
      /\ read' = IF read < 3 THEN read + 1 ELSE read
  BY DEF LineNext, Read
<1>3. mode # "none" /\ mode \notin {"strip", "fan", "closed"} /\ mode \notin Lists
  BY <1>1 DEF Lists
<1>4. /\ sequence \in Nat /\ sequence >= 1 /\ cache \in [Entries -> Entry]
      /\ Hits(cache) /\ Numbered(cache) /\ InUse(cache, held[1], held[2])
      /\ held[1] \in Entries /\ held[2] \in Entries /\ 0 \in Entries
  BY ONLY <1>3, CacheInv, InCall
<1>5. read \in 1 .. 3 /\ i \in Int /\ held[2] = 1
  BY <1>1 DEF CacheInv, Cells, Loops
<1>6. read' \in 2 .. 3 /\ tail'[2] = i /\ head' = head
  BY <1>2, <1>5
<1>c. f = fetch_vertex(cache, i)
  OBVIOUS
<1> HIDE DEF f
<1>7. Fetched(f, cache, i)
  BY ONLY <1>4, <1>c, i \in Indices, FetchVertex
<1>8. /\ f.at \in Entries /\ f.at >= 2 /\ f.entry \in [Entries -> Entry]
      /\ f.entry[f.at].data = i
      /\ \A s \in Entries : s # f.at => f.entry[s] = cache[s]
  BY ONLY <1>7 DEF Fetched
<1>9. Unlocked(cache', f.entry, held[1])
  BY ONLY <1>1, <1>4, <1>8, Unlocks
<1>10. held'[1] = f.at /\ held'[2] = 1 /\ f.at # 1 /\ f.at # 0
  BY ONLY <1>1, <1>5, <1>8, CacheAssumption DEF Entries
<1>11. ASSUME ~repeated'
       PROVE  ~repeated /\ f.at # held[1] /\ f.entry[held[1]].data = tail[2]
  <2>1. ~repeated /\ i # tail[2] /\ cache[held[1]].data = tail[2]
    BY <1>1, <1>11 DEF CacheInv, LinePoints
  <2>2. f.at # held[1]
    BY <1>7, <2>1, FetchElsewhere
  <2> QED BY <1>4, <1>8, <2>1, <2>2
<1>12. Tags' /\ Locks'
  <2>1. {held[1], held[2]} = {held[1], held[2]} /\ {f.at, held[2]} = {held'[1], held'[2]}
    BY ONLY <1>5, <1>10
  <2>2. /\ ~repeated' => f.at # held[1] /\ f.at # held[2]
        /\ repeated => repeated'
    BY <1>1, <1>5, <1>10, <1>11
  <2>3. mode' = mode /\ sequence' = sequence
    BY <1>1
  <2> QED BY ONLY <1>3, <1>7, <1>9, <2>1, <2>2, <2>3, CacheInv, StriperLocks
<1>13. \A s \in Entries : cache'[s].data = f.entry[s].data
  BY ONLY <1>9 DEF Unlocked
<1>14. cache' \in [Entries -> Entry]
  BY ONLY <1>9 DEF Unlocked
<1>15. Cells'
  <2>1. held' \in Entries \X Entries
    BY ONLY <1>1, <1>4, <1>8
  <2>2. tail' \in Int \X Int /\ repeated' \in BOOLEAN
    BY <1>1, <1>2, <1>5 DEF CacheInv, Cells, Stale
  <2> QED BY <1>1, <1>6, <1>14, <2>1, <2>2 DEF CacheInv, Cells
<1>16. Loops'
  BY <1>1, <1>3, <1>6, <1>10 DEF Loops
<1>17. LinePoints'
  <2>1. cache'[held'[1]].data = i
    BY ONLY <1>8, <1>10, <1>13
  <2>2. cache'[0].data = cache[0].data
    BY ONLY <1>4, <1>8, <1>10, <1>13
  <2>3. mode = "line_loop" /\ ~repeated => cache[0].data = head
    BY <1>1 DEF CacheInv, LinePoints
  <2> QED BY <1>1, <1>6, <1>11, <2>1, <2>2, <2>3 DEF LinePoints
<1>18. StripPoints' /\ FanPoints'
  BY <1>1, <1>3 DEF StripPoints, FanPoints
<1>19. PrimitivesExact'
  BY <1>1, <1>8, <1>11 DEF PrimitivesExact
<1> QED BY <1>12, <1>15, <1>16, <1>17, <1>18, <1>19 DEF CacheInv

LEMMA TriangleNextKeeps ==
  ASSUME CacheInv, NEW i \in Indices, TriangleNext(i)
  PROVE  CacheInv'
<1> USE CacheAssumption
<1> DEFINE f == fetch_vertex(cache, i)
           w == Flip(winding)
           u == IF w # 0 THEN held[2] ELSE held[1]
           b == IF w # 0 THEN held[1] ELSE held[2]
<1>1. /\ mode \in {"strip", "fan"} /\ read >= 2
      /\ drawn' = Show(<<f.entry[held[1]].data, f.entry[held[2]].data, f.entry[f.at].data>>)
      /\ winding' = w /\ odd' = (mode = "strip" /\ ~odd)
      /\ cache' = Unlock(f.entry, u)
      /\ held' = IF w # 0 THEN <<held[1], f.at>> ELSE <<f.at, held[2]>>
      /\ repeated' = (repeated \/ i = tail[2] \/ (mode = "strip" /\ i = tail[1]))
      /\ UNCHANGED <<sequence, mode, outside>>
  BY DEF TriangleNext
<1>2. /\ tail' = <<IF mode = "strip" THEN tail[2] ELSE Stale, i>>
      /\ head' = IF read = 0 /\ mode \in {"fan", "line_loop"} THEN i ELSE head
      /\ read' = IF read < 3 THEN read + 1 ELSE read
  BY DEF TriangleNext, Read
<1>d. /\ mode = "fan" => due' = Show(<<head, tail[2], i>>)
      /\ mode = "strip" /\ odd => due' = Show(<<tail[2], tail[1], i>>)
      /\ mode = "strip" /\ ~odd => due' = Show(<<tail[1], tail[2], i>>)
  BY DEF TriangleNext
<1>3. mode # "none" /\ mode \notin {"line_strip", "line_loop", "closed"} /\ mode \notin Lists
  BY <1>1 DEF Lists
<1>4. /\ sequence \in Nat /\ sequence >= 1 /\ cache \in [Entries -> Entry]
      /\ Hits(cache) /\ Numbered(cache) /\ InUse(cache, held[1], held[2])
      /\ held[1] \in Entries /\ held[2] \in Entries /\ 0 \in Entries
  BY ONLY <1>3, CacheInv, InCall
<1>5. read \in 2 .. 3 /\ i \in Int
  BY <1>1 DEF CacheInv, Cells
<1>6. read' = 3 /\ tail'[2] = i /\ head' = head /\ (mode = "strip" => tail'[1] = tail[2])
  BY <1>2, <1>5
<1>a. /\ mode = "fan" => winding \in {2, 3} /\ w \in {2, 3}
      /\ mode = "strip" => winding = (IF odd THEN 0 ELSE 1) /\ w = (IF odd THEN 1 ELSE 0)
  <2>1. Flip(2) = 3 /\ Flip(3) = 2 /\ Flip(0) = 1 /\ Flip(1) = 0
    BY DEF Flip
  <2>2. mode = "fan" => winding \in {2, 3}
    BY DEF CacheInv, FanPoints
  <2>3. mode = "strip" => winding = (IF odd THEN 0 ELSE 1)
    BY DEF CacheInv, StripPoints
  <2> QED BY <2>1, <2>2, <2>3
<1>c. f = fetch_vertex(cache, i)
  OBVIOUS
<1> HIDE DEF f
<1>7. Fetched(f, cache, i)
  BY ONLY <1>4, <1>c, i \in Indices, FetchVertex
<1>8. /\ f.at \in Entries /\ f.at >= 2 /\ f.entry \in [Entries -> Entry]
      /\ f.entry[f.at].data = i
      /\ \A s \in Entries : s # f.at => f.entry[s] = cache[s]
  BY ONLY <1>7 DEF Fetched
<1> HIDE DEF w
<1>9. u \in Entries /\ {u, b} = {held[1], held[2]} /\ {f.at, b} = {held'[1], held'[2]}
  <2>1. CASE w # 0
    BY ONLY <1>1, <1>4, <2>1
  <2>2. CASE w = 0
    BY ONLY <1>1, <1>4, <2>2
  <2> QED BY <2>1, <2>2
<1>10. Unlocked(cache', f.entry, u)
  <2> HIDE DEF u
  <2> QED BY ONLY <1>1, <1>8, <1>9, Unlocks
<1>11. ASSUME ~repeated'
       PROVE  /\ ~repeated /\ f.at # held[1] /\ f.at # held[2] /\ i # tail[2]
              /\ f.entry[held[1]].data = cache[held[1]].data
              /\ f.entry[held[2]].data = cache[held[2]].data
  <2>1. ~repeated /\ i # tail[2] /\ (mode = "strip" => i # tail[1])
    BY <1>1, <1>11
  <2>2. CASE mode = "strip"
    <3>1. cache[held[1]].data # i /\ cache[held[2]].data # i
      BY <1>1, <2>1, <2>2 DEF CacheInv, StripPoints
    <3>2. f.at # held[1] /\ f.at # held[2]
      BY <1>7, <2>1, <3>1, FetchElsewhere
    <3> QED BY ONLY <1>4, <1>8, <2>1, <3>2
  <2>3. CASE mode = "fan"
    <3>1. held[1] = 0 /\ cache[held[2]].data # i
      BY <1>1, <2>1, <2>3 DEF CacheInv, FanPoints
    <3>2. f.at # held[1] /\ f.at # held[2]
      BY <1>7, <1>8, <2>1, <3>1, FetchElsewhere DEF Entries
    <3> QED BY ONLY <1>4, <1>8, <2>1, <3>2
  <2> QED BY <1>1, <2>2, <2>3
<1>12. Tags' /\ Locks'
  <2>1. ~repeated' => f.at # u /\ f.at # b
    BY <1>11
  <2>2. mode' = mode /\ sequence' = sequence /\ (repeated => repeated')
    BY <1>1
  <2> HIDE DEF u, b
  <2> QED BY ONLY <1>3, <1>7, <1>9, <1>10, <2>1, <2>2, CacheInv, StriperLocks
<1>13. cache' \in [Entries -> Entry] /\ \A s \in Entries : cache'[s].data = f.entry[s].data
  BY ONLY <1>10 DEF Unlocked
<1>14. Cells'
  <2>1. held' \in Entries \X Entries
    BY ONLY <1>1, <1>4, <1>8
  <2>2. tail \in Int \X Int /\ head \in Int /\ mode \in Lists \union Strips \union {"none", "closed"}
    BY DEF CacheInv, Cells
  <2>3. tail' \in Int \X Int /\ head' \in Int /\ repeated' \in BOOLEAN /\ odd' \in BOOLEAN
    <3>1. repeated \in BOOLEAN /\ odd \in BOOLEAN
      BY DEF CacheInv, Cells
    <3>2. repeated' \in BOOLEAN /\ odd' \in BOOLEAN
      BY ONLY <1>1, <3>1
    <3> QED BY ONLY <1>2, <1>5, <1>6, <2>2, <3>2 DEF Stale
  <2>4. mode' = mode /\ sequence' = sequence /\ read' \in 0 .. 3
    BY <1>1, <1>6
  <2> QED BY ONLY <1>4, <1>13, <2>1, <2>2, <2>3, <2>4 DEF Cells
<1>15. Loops'
  <2>1. ~repeated' => held'[1] # held'[2]
    BY <1>1, <1>11
  <2> QED BY <1>1, <1>3, <1>6, <2>1 DEF Loops
<1>16. LinePoints'
  BY <1>1, <1>3 DEF LinePoints
<1>17. CASE mode = "fan"
  <2>1. held' = <<0, f.at>> /\ held[1] = 0 /\ cache[0].data = head
        /\ (~repeated => cache[held[2]].data = tail[2])
    <3>1. held[1] = 0 /\ cache[0].data = head /\ (~repeated => cache[held[2]].data = tail[2])
      BY <1>1, <1>5, <1>17 DEF CacheInv, FanPoints
    <3>2. w # 0
      BY <1>a, <1>17
    <3>3. held' = <<held[1], f.at>>
      BY ONLY <1>1, <3>2
    <3> QED BY ONLY <3>1, <3>3
  <2>2. cache'[0].data = head /\ cache'[f.at].data = i
    <3>1. f.at # 0
      BY ONLY <1>8 DEF Entries
    <3> QED BY ONLY <1>4, <1>8, <1>13, <2>1, <3>1
  <2>3. FanPoints'
    BY <1>1, <1>6, <1>a, <1>17, <2>1, <2>2 DEF FanPoints
  <2>4. StripPoints'
    BY <1>1, <1>17 DEF StripPoints
  <2>5. PrimitivesExact'
    BY <1>1, <1>8, <1>11, <1>17, <1>d, <2>1 DEF PrimitivesExact
  <2> QED BY <1>12, <1>14, <1>15, <1>16, <2>3, <2>4, <2>5 DEF CacheInv
<1>18. CASE mode = "strip"
  <2>1. /\ held' = IF odd THEN <<held[1], f.at>> ELSE <<f.at, held[2]>>
        /\ winding' = (IF odd THEN 1 ELSE 0) /\ odd' = ~odd
    BY <1>1, <1>a, <1>18
  <2>2. ~repeated =>
          /\ cache[held[1]].data = IF odd THEN tail[2] ELSE tail[1]
          /\ cache[held[2]].data = IF odd THEN tail[1] ELSE tail[2]
    BY <1>1, <1>18 DEF CacheInv, StripPoints
  <2>3. ASSUME ~repeated'
        PROVE  /\ cache'[held[1]].data = cache[held[1]].data
               /\ cache'[held[2]].data = cache[held[2]].data
               /\ cache'[f.at].data = i
    BY ONLY <1>4, <1>8, <1>11, <1>13, <2>3
  <2>4. StripPoints'
    <3>1. CASE odd
      <4>1. held'[1] = held[1] /\ held'[2] = f.at /\ winding' = 1 /\ ~odd'
        BY ONLY <2>1, <3>1
      <4> QED BY <1>1, <1>6, <1>11, <1>18, <2>2, <2>3, <3>1, <4>1 DEF StripPoints
    <3>2. CASE ~odd
      <4>1. held'[1] = f.at /\ held'[2] = held[2] /\ winding' = 0 /\ odd'
        BY ONLY <2>1, <3>2
      <4> QED BY <1>1, <1>6, <1>11, <1>18, <2>2, <2>3, <3>2, <4>1 DEF StripPoints
    <3> QED BY <3>1, <3>2
  <2>5. FanPoints'
    BY <1>1, <1>18 DEF FanPoints
  <2>6. PrimitivesExact'
    BY <1>1, <1>8, <1>11, <1>18, <1>d, <2>2 DEF PrimitivesExact
  <2> QED BY <1>12, <1>14, <1>15, <1>16, <2>4, <2>5, <2>6 DEF CacheInv
<1> QED BY <1>1, <1>17, <1>18

\* The closing line joins the last entry held to the first one compiled.
LEMMA LoopCloseKeeps ==
  ASSUME CacheInv, IndexedLoopClose
  PROVE  CacheInv'
<1> USE CacheAssumption
<1>1. /\ mode = "line_loop" /\ read = 3
      /\ drawn' = Show(<<cache[held[1]].data, cache[0].data>>)
      /\ due' = Show(<<tail[2], head>>)
      /\ cache' = Unlock(cache, held[1])
      /\ mode' = "closed" /\ held' = <<0, 1>>
      /\ UNCHANGED <<sequence, outside, read, winding, tail, head, odd, repeated>>
  BY DEF IndexedLoopClose
<1>2. mode # "none" /\ held[2] = 1
  BY <1>1 DEF CacheInv, Loops
<1>3. /\ sequence \in Nat /\ sequence >= 1 /\ cache \in [Entries -> Entry]
      /\ Hits(cache) /\ Numbered(cache) /\ InUse(cache, held[1], held[2])
      /\ held[1] \in Entries /\ 0 \in Entries /\ 1 \in Entries
  BY ONLY <1>2, CacheInv, InCall
<1>4. Unlocked(cache', cache, held[1])
  BY ONLY <1>1, <1>3, Unlocks
<1>5. Hits(cache') /\ Numbered(cache')
  BY ONLY <1>3, <1>4, UnlockTags
<1>6. Tags'
  BY <1>1, <1>3, <1>5 DEF Tags, Hits, Numbered
<1>7. \A s \in Entries : ~cache'[s].locked
  <2>1. ~(1 >= 2)
    OBVIOUS
  <2> QED BY ONLY <1>2, <1>3, <1>4, <2>1 DEF Unlocked, InUse
<1>8. Locks'
  <2>1. \A s \in Entries : ~(s >= 2 /\ s \in {0, 1})
    BY DEF Entries
  <2> QED BY <1>1, <1>7, <2>1 DEF Locks, InUse, LocksMatchUse
<1>9. Cells'
  <2>1. cache' \in [Entries -> Entry]
    BY ONLY <1>4 DEF Unlocked
  <2> QED BY <1>1, <1>3, <2>1 DEF CacheInv, Cells
<1>10. Loops'
  BY <1>1 DEF Loops, Lists
<1>11. LinePoints' /\ StripPoints' /\ FanPoints'
  BY <1>1 DEF LinePoints, StripPoints, FanPoints
<1>12. PrimitivesExact'
  BY <1>1 DEF CacheInv, LinePoints, PrimitivesExact
<1> QED BY <1>6, <1>8, <1>9, <1>10, <1>11, <1>12 DEF CacheInv

\* Between calls no entry is in use, and only the numbers of the tags matter.
LEMMA IdleKeeps ==
  ASSUME CacheInv, mode' = "none", read' = 0, held' = <<0, 1>>, drawn' = due',
         sequence' \in Nat, cache' \in [Entries -> Entry], Numbered(cache)',
         \A s \in Entries : ~cache'[s].locked,
         tail' \in Int \X Int, head' \in Int, odd' \in BOOLEAN, repeated' \in BOOLEAN
  PROVE  CacheInv'
<1> USE CacheAssumption
<1>1. 0 \in Entries /\ 1 \in Entries /\ \A s \in Entries : ~(s >= 2 /\ s \in {0, 1})
  BY DEF Entries
<1>2. Cells'
  BY <1>1 DEF Cells
<1>3. Tags'
  BY DEF Tags
<1>4. Locks'
  BY <1>1 DEF Locks, InUse, LocksMatchUse
<1>5. Loops'
  BY DEF Loops, Lists
<1>6. LinePoints' /\ StripPoints' /\ FanPoints' /\ PrimitivesExact'
  BY DEF LinePoints, StripPoints, FanPoints, PrimitivesExact
<1> QED BY <1>2, <1>3, <1>4, <1>5, <1>6 DEF CacheInv

LEMMA ReturnKeeps ==
  ASSUME CacheInv, IndexedReturn
  PROVE  CacheInv'
<1> DEFINE x == Unlock(cache, held[1])
           e == Unlock(x, held[2])
<1>1. /\ cache' = [s \in Entries |-> [e[s] EXCEPT !.data = Stale]]
      /\ mode' = "none" /\ read' = 0 /\ held' = <<0, 1>>
      /\ tail' = <<Stale, Stale>> /\ head' = Stale /\ odd' = FALSE /\ repeated' = FALSE
      /\ drawn' = <<>> /\ due' = <<>> /\ sequence' = sequence
  BY DEF IndexedReturn, Finished
<1>2. mode # "none"
  BY DEF IndexedReturn, Lists, Strips
<1>3. /\ sequence \in Nat /\ cache \in [Entries -> Entry]
      /\ Numbered(cache) /\ InUse(cache, held[1], held[2])
      /\ held[1] \in Entries /\ held[2] \in Entries
  BY ONLY <1>2, CacheInv, InCall
<1>4. e = Unlock(x, held[2])
  OBVIOUS
<1> HIDE DEF e
<1>5. Unlocked(x, cache, held[1])
  BY ONLY <1>3, Unlocks
<1> HIDE DEF x
<1>6. x \in [Entries -> Entry]
  BY ONLY <1>5 DEF Unlocked
<1>7. Unlocked(e, x, held[2])
  BY ONLY <1>3, <1>4, <1>6, Unlocks
<1>8. /\ e \in [Entries -> Entry]
      /\ \A s \in Entries : e[s].tag = cache[s].tag /\ ~e[s].locked
  BY ONLY <1>3, <1>5, <1>7 DEF Unlocked, InUse
<1>9. ASSUME NEW s \in Entries
      PROVE  cache'[s] \in Entry /\ cache'[s].tag = cache[s].tag /\ ~cache'[s].locked
  <2>1. cache'[s] = [e[s] EXCEPT !.data = Stale]
    BY ONLY <1>1, <1>9
  <2>2. e[s] \in Entry /\ e[s].tag = cache[s].tag /\ ~e[s].locked
    BY ONLY <1>8, <1>9
  <2>3. Stale \in Int
    BY DEF Stale
  <2> QED BY ONLY <2>1, <2>2, <2>3 DEF Entry
<1>10. cache' \in [Entries -> Entry] /\ \A s \in Entries : ~cache'[s].locked
  BY ONLY <1>1, <1>9
<1>11. Numbered(cache)'
  BY <1>1, <1>3, <1>9 DEF Numbered
<1>12. /\ tail' \in Int \X Int /\ head' \in Int /\ odd' \in BOOLEAN /\ repeated' \in BOOLEAN
       /\ drawn' = due' /\ sequence' \in Nat
  <2>1. Stale \in Int
    BY DEF Stale
  <2>2. odd' \in BOOLEAN /\ repeated' \in BOOLEAN
    BY ONLY <1>1
  <2> QED BY ONLY <1>1, <1>3, <2>1, <2>2
<1> QED BY ONLY <1>1, <1>10, <1>11, <1>12, CacheInv, IdleKeeps

\* Between calls nothing is locked.
LEMMA Idle ==
  ASSUME CacheInv, mode = "none"
  PROVE  /\ read = 0 /\ held = <<0, 1>> /\ drawn = due /\ \A s \in Entries : ~cache[s].locked
<1>1. read = 0 /\ drawn = due
  BY DEF CacheInv, Loops
<1>2. held = <<0, 1>>
  BY <1>1 DEF CacheInv, Loops
<1>3. \A s \in Entries : ~(s >= 2 /\ s \in {0, 1})
  BY CacheAssumption DEF Entries
<1> QED BY <1>1, <1>2, <1>3 DEF CacheInv, Locks, InUse

LEMMA BetweenKeeps ==
  ASSUME CacheInv, NEW count \in ArrayCounts, ArraysBetween(count)
  PROVE  CacheInv'
<1> USE CacheAssumption
<1>1. /\ mode = "none" /\ read = 0 /\ held = <<0, 1>> /\ drawn = due
      /\ \A s \in Entries : ~cache[s].locked
  BY Idle DEF ArraysBetween
<1>2. /\ cache' = [s \in Entries |-> IF s \in VERTEX_BUFFER_SIZE .. count - 1
                                THEN [cache[s] EXCEPT !.tag = <<0, s>>] ELSE cache[s]]
      /\ UNCHANGED <<sequence, mode, outside, read, held, winding, tail, head, odd, repeated,
                     drawn, due>>
  BY DEF ArraysBetween
<1>3. cache \in [Entries -> Entry] /\ sequence \in Nat /\ Numbered(cache)
  BY DEF CacheInv, Cells, Tags
<1>4. ASSUME NEW s \in Entries
      PROVE  cache'[s] \in Entry /\ cache'[s].tag[1] <= sequence /\ ~cache'[s].locked
  <2>1. cache[s] \in Entry /\ ~cache[s].locked /\ cache[s].tag[1] <= sequence
    BY ONLY <1>1, <1>3, <1>4 DEF Numbered
  <2>2. CASE s \notin VERTEX_BUFFER_SIZE .. count - 1
    BY ONLY <1>2, <1>4, <2>1, <2>2
  <2>3. CASE s \in VERTEX_BUFFER_SIZE .. count - 1
    <3>1. cache'[s] = [cache[s] EXCEPT !.tag = <<0, s>>]
      BY ONLY <1>2, <1>4, <2>3
    <3>2. s \in Nat
      BY DEF Entries
    <3> DEFINE t == <<0, s>>
    <3>3. t \in Nat \X Nat /\ t[1] = 0
      BY <3>2
    <3> HIDE DEF t
    <3>4. cache'[s] = [cache[s] EXCEPT !.tag = t]
      BY <3>1 DEF t
    <3>5. cache'[s] \in Entry /\ cache'[s].tag = t /\ ~cache'[s].locked
      BY ONLY <2>1, <3>3, <3>4 DEF Entry
    <3> QED BY ONLY <1>3, <3>3, <3>5
  <2> QED BY <2>2, <2>3
<1>5. cache' \in [Entries -> Entry] /\ \A s \in Entries : ~cache'[s].locked
  BY ONLY <1>2, <1>4
<1>6. Numbered(cache)'
  BY <1>2, <1>4 DEF Numbered
<1>7. /\ mode' = "none" /\ read' = 0 /\ held' = <<0, 1>> /\ drawn' = due' /\ sequence' \in Nat
      /\ tail' \in Int \X Int /\ head' \in Int /\ odd' \in BOOLEAN /\ repeated' \in BOOLEAN
  BY <1>1, <1>2 DEF CacheInv, Cells
<1> QED BY ONLY <1>5, <1>6, <1>7, CacheInv, IdleKeeps

\* clear: whatever the entries hold, no tag has the number of the new call,
\* also when the numbers start again.
LEMMA DrawElementsKeeps ==
  ASSUME CacheInv, NEW m \in Lists \union Strips, NEW o, glDrawElements(m, o)
  PROVE  CacheInv'
<1> USE CacheAssumption
<1> DEFINE wraps == sequence + 1 >= SeqLimit
<1>1. /\ mode = "none" /\ read = 0 /\ held = <<0, 1>> /\ drawn = due
      /\ \A s \in Entries : ~cache[s].locked
  BY Idle DEF glDrawElements
<1>2. /\ sequence' = IF wraps THEN 1 ELSE sequence + 1
      /\ cache' = [s \in Entries |-> [cache[s] EXCEPT !.tag = IF wraps THEN NoTag ELSE @]]
      /\ mode' = m /\ winding' = (IF m = "fan" THEN 2 ELSE 1)
      /\ held' = <<0, 1>> /\ odd' = FALSE /\ repeated' = FALSE
      /\ UNCHANGED <<read, tail, head, drawn, due>>
  BY DEF glDrawElements, clear
<1>3. cache \in [Entries -> Entry] /\ sequence \in Nat /\ Numbered(cache)
  BY DEF CacheInv, Cells, Tags
<1>4. m # "none" /\ m # "closed"
  BY DEF Lists, Strips
<1>5. sequence' \in Nat /\ sequence' >= 1 /\ (~wraps => sequence < sequence')
  BY <1>2, <1>3
<1> HIDE DEF wraps
<1>6. ASSUME NEW s \in Entries
      PROVE  cache'[s] \in Entry /\ ~cache'[s].locked /\ cache'[s].tag[1] < sequence'
  <2> DEFINE t == IF wraps THEN NoTag ELSE cache[s].tag
  <2>1. cache[s] \in Entry /\ ~cache[s].locked /\ cache[s].tag[1] <= sequence
    BY ONLY <1>1, <1>3, <1>6 DEF Numbered
  <2>2. cache[s].tag \in Nat \X Nat
    BY ONLY <2>1 DEF Entry
  <2>3. t \in Nat \X Nat /\ t[1] < sequence'
    <3>1. CASE wraps
      BY ONLY <1>5, <3>1 DEF NoTag
    <3>2. CASE ~wraps
      BY ONLY <1>3, <1>5, <2>1, <2>2, <3>2
    <3> QED BY <3>1, <3>2
  <2>4. cache'[s] = [cache[s] EXCEPT !.tag = t]
    BY ONLY <1>2, <1>6
  <2> HIDE DEF t
  <2>5. cache'[s] \in Entry /\ cache'[s].tag = t /\ ~cache'[s].locked
    BY ONLY <2>1, <2>3, <2>4 DEF Entry
  <2> QED BY ONLY <2>3, <2>5
<1>7. cache' \in [Entries -> Entry] /\ \A s \in Entries : ~cache'[s].locked
  BY ONLY <1>2, <1>6
<1>8. Tags'
  <2>1. ASSUME NEW s \in Entries PROVE cache'[s].tag[1] <= sequence'
    <3>1. cache'[s].tag[1] \in Nat
      BY ONLY <1>6, <2>1 DEF Entry
    <3> QED BY ONLY <1>5, <1>6, <2>1, <3>1
  <2>2. ASSUME NEW s \in Entries, NEW i \in Indices, cache'[s].tag = <<sequence', i>> PROVE FALSE
    <3>1. cache'[s].tag[1] = sequence'
      BY ONLY <2>2
    <3> QED BY ONLY <1>5, <1>6, <2>2, <3>1
  <2> QED BY <1>5, <2>1, <2>2 DEF Tags, Numbered, Hits
<1>9. 0 \in Entries /\ 1 \in Entries /\ \A s \in Entries : ~(s >= 2 /\ s \in {0, 1})
  BY DEF Entries
<1>10. Locks'
  BY <1>2, <1>7, <1>9 DEF Locks, InUse, LocksMatchUse
<1>11. Cells'
  BY <1>1, <1>2, <1>5, <1>7, <1>9 DEF CacheInv, Cells
<1>12. Loops'
  BY <1>1, <1>2, <1>4 DEF Loops
<1>13. LinePoints' /\ StripPoints' /\ FanPoints'
  BY <1>1, <1>2 DEF LinePoints, StripPoints, FanPoints
<1>14. PrimitivesExact'
  BY <1>1, <1>2 DEF PrimitivesExact
<1> QED BY <1>8, <1>10, <1>11, <1>12, <1>13, <1>14 DEF CacheInv

LEMMA InitCache == CacheInit => CacheInv
<1> SUFFICES ASSUME CacheInit PROVE CacheInv
  OBVIOUS
<1> USE CacheAssumption
<1>1. /\ sequence = 0 /\ mode = "none" /\ read = 0 /\ held = <<0, 1>>
      /\ tail = <<Stale, Stale>> /\ head = Stale /\ odd = FALSE /\ repeated = FALSE
      /\ drawn = <<>> /\ due = <<>>
      /\ cache = [s \in Entries |-> [tag |-> NoTag, data |-> Stale, locked |-> FALSE]]
  BY DEF CacheInit
<1>2. 0 \in Entries /\ 1 \in Entries /\ \A s \in Entries : ~(s >= 2 /\ s \in {0, 1})
  BY DEF Entries
<1>3. NoTag \in Nat \X Nat /\ NoTag[1] = 0 /\ Stale \in Int
  BY DEF NoTag, Stale
<1>4. cache \in [Entries -> Entry] /\ \A s \in Entries : ~cache[s].locked /\ cache[s].tag = NoTag
  BY ONLY <1>1, <1>3 DEF Entry
<1>5. Cells
  <2>1. held \in Entries \X Entries /\ tail \in Int \X Int /\ head \in Int
    BY ONLY <1>1, <1>2, <1>3
  <2>2. odd \in BOOLEAN /\ repeated \in BOOLEAN
    BY ONLY <1>1
  <2>3. sequence \in Nat /\ read \in 0 .. 3 /\ mode = "none"
    BY ONLY <1>1
  <2> QED BY ONLY <1>4, <2>1, <2>2, <2>3 DEF Cells
<1>6. Tags
  BY <1>1, <1>3, <1>4 DEF Tags, Numbered
<1>7. Locks
  BY <1>1, <1>2, <1>4 DEF Locks, InUse, LocksMatchUse
<1>8. Loops /\ LinePoints /\ StripPoints /\ FanPoints /\ PrimitivesExact
  BY <1>1 DEF Loops, Lists, LinePoints, StripPoints, FanPoints, PrimitivesExact
<1> QED BY <1>5, <1>6, <1>7, <1>8 DEF CacheInv

LEMMA NextCache == CacheInv /\ [CacheNext]_cacheVars => CacheInv'
<1> SUFFICES ASSUME CacheInv, [CacheNext]_cacheVars PROVE CacheInv'
  OBVIOUS
<1>1. ASSUME NEW m \in Lists \union Strips, NEW o \in OutsideSets, glDrawElements(m, o)
      PROVE  CacheInv'
  BY <1>1, DrawElementsKeeps
<1>2. ASSUME NEW count \in ArrayCounts, ArraysBetween(count) PROVE CacheInv'
  BY <1>2, BetweenKeeps
<1>3. ASSUME NEW i \in Indices, Points(i) PROVE CacheInv'
  BY <1>3, PointsKeep
<1>4. ASSUME NEW i \in Indices, Start(i) PROVE CacheInv'
  BY <1>4, StartKeeps
<1>5. ASSUME NEW i \in Indices, LineNext(i) PROVE CacheInv'
  BY <1>5, LineNextKeeps
<1>6. ASSUME NEW i \in Indices, TriangleNext(i) PROVE CacheInv'
  BY <1>6, TriangleNextKeeps
<1>7. ASSUME NEW i \in Indices, NEW j \in Indices, Lines(i, j) PROVE CacheInv'
  BY <1>7, LinesKeep
<1>8. ASSUME NEW i \in Indices, NEW j \in Indices, NEW k \in Indices, Triangles(i, j, k)
      PROVE  CacheInv'
  BY <1>8, TrianglesKeep
<1>9. CASE ShortLoop
  BY <1>9, ShortLoopKeeps
<1>10. CASE IndexedLoopClose
  BY <1>10, LoopCloseKeeps
<1>11. CASE IndexedReturn
  BY <1>11, ReturnKeeps
<1>12. CASE UNCHANGED cacheVars
  <2>1. UNCHANGED <<cache, sequence, mode, read, held, winding, tail, head, odd, repeated, drawn, due>>
    BY <1>12 DEF cacheVars
  <2>2. Cells' /\ Loops'
    BY <2>1 DEF CacheInv, Cells, Loops
  <2>3. Tags' /\ Locks' /\ PrimitivesExact'
    BY <2>1 DEF CacheInv, Tags, Numbered, Hits, Locks, InUse, LocksMatchUse, PrimitivesExact
  <2>4. LinePoints' /\ StripPoints' /\ FanPoints'
    BY <2>1 DEF CacheInv, LinePoints, StripPoints, FanPoints
  <2> QED BY <2>2, <2>3, <2>4 DEF CacheInv
<1> QED BY <1>1, <1>2, <1>3, <1>4, <1>5, <1>6, <1>7, <1>8, <1>9, <1>10, <1>11, <1>12 DEF CacheNext

\* CacheInv holds in every state of a sequence of drawing calls.
THEOREM CacheInvariance == CacheSpec => []CacheInv
<1>1. CacheInit => CacheInv
  BY InitCache
<1>2. CacheInv /\ [CacheNext]_cacheVars => CacheInv'
  BY NextCache
<1> QED BY <1>1, <1>2, PTL DEF CacheSpec

\* Whatever indices collide in the cache, however many calls came before and
\* wherever the sequence numbers wrap, glDrawElements renders the primitives GL
\* defines, each with its winding.  A strip, line strip, loop or fan that uses
\* an index twice in one primitive is excepted from there to the end of its
\* call: the entry is unlocked while it is still held.
THEOREM IndexedRenderExactly == CacheSpec => []PrimitivesExact
<1>1. CacheInv => PrimitivesExact
  BY DEF CacheInv
<1> QED BY <1>1, CacheInvariance, PTL

\* The entries locked are at every iteration the ones the striper points to,
\* and none is between calls, with the same exception for the rest of a call
\* that used an index twice in one primitive of a strip, line strip, loop or
\* fan.
THEOREM LocksExact == CacheSpec => []LocksMatchUse
<1>1. CacheInv => LocksMatchUse
  BY DEF CacheInv, Locks
<1> QED BY <1>1, CacheInvariance, PTL
=============================================================================
