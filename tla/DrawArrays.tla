----------------------------- MODULE DrawArrays -----------------------------
(***************************************************************************)
(* glDrawArrays of swrender/array.cpp: the vertices of a call are compiled *)
(* in batches into one array of entries (the buffer and the cache of       *)
(* VertexCache together), a batch that lies outside a clip plane as a      *)
(* whole is rejected at once, and strips and fans carry their last         *)
(* vertices over to the next batch.  Vertices are counted from the first   *)
(* argument of the call.  One thread draws; an action is one iteration of  *)
(* a batch loop.                                                           *)
(***************************************************************************)
EXTENDS Drawing, Integers, Sequences

CONSTANTS VERTICES,     \* VERTEX_BUFFER_SIZE + VERTEX_CACHE_SIZE
          Planes,       \* the clip planes
          MaxCount      \* the longest call

ASSUME ArraysAssumption ==
  /\ VERTICES \in Nat /\ VERTICES >= 4
  /\ MaxCount \in Nat

Slots == 0 .. VERTICES - 1
LineStrips == {"line_strip", "line_loop"}
TriangleStrips == {"strip", "fan"}
Modes == Lists \union LineStrips \union TriangleStrips

VARIABLES total,        \* the count of the call
          flags,        \* flags[k]: the planes vertex k is outside of
          entry,        \* the vertex each entry holds
          first,        \* the next vertex to compile: the code's first
          cull,
          stage,        \* "loop" in the batch loop, "close" before the last line
                        \* of a loop, "end" after it
          from,         \* the first vertex of the last batch
          high,         \* the entries the last batch reached to
          rejected      \* a batch of this call was rejected

vars == <<mode, total, flags, entry, first, cull, winding, stage, from, high, drawn,
          rejected>>

Init ==
  /\ mode = "none" /\ total = 0 /\ flags = <<>> /\ entry = [s \in Slots |-> Stale]
  /\ first = 0 /\ cull = {} /\ winding = 0 /\ stage = "end" /\ from = 0 /\ high = 0
  /\ drawn = <<>> /\ rejected = FALSE
-----------------------------------------------------------------------------
Flags(k) == IF k = Stale THEN {} ELSE flags[k]

\* No primitive whose vertices are all outside one plane is rendered.
Visible(p) == \A c \in Planes : \E i \in DOMAIN p : c \notin Flags(p[i])

\* What is rendered of the primitives ps of a batch, each at its place: drawn[j]
\* is the j-th primitive, where that was rendered.
Shown(ps) == [j \in {x \in DOMAIN ps : Visible(ps[x])} |-> ps[j]]

\* The vertices of one primitive of a list.
Per(m) == CASE m = "points" -> 1 [] m = "lines" -> 2 [] m = "triangles" -> 3

\* The vertices a loop needs to begin: below, the function returns at once.
Least(m) == CASE m \in Lists          -> Per(m)
              [] m \in LineStrips     -> 2
              [] m \in TriangleStrips -> 3

\* The vertices that are compiled before the batch loop and carried over.
Carried(m) == CASE m \in Lists          -> 0
                [] m \in LineStrips     -> 1
                [] m \in TriangleStrips -> 2

\* Mutant: the room for the carried vertices is forgotten.
vcs_whole(m) == CASE m \in Lists          -> (VERTICES \div Per(m)) * Per(m)
                  [] m \in LineStrips     -> VERTICES
                  [] m \in TriangleStrips -> (VERTICES \div 2) * 2

\* Mutant: the batches of a strip may be odd.
vcs_odd(m) == CASE m \in Lists          -> (VERTICES \div Per(m)) * Per(m)
                [] m \in LineStrips     -> VERTICES - 1
                [] m \in TriangleStrips -> VERTICES - 2

\* vcs: how many vertices a batch takes.
vcs(m) == CASE m \in Lists          -> (VERTICES \div Per(m)) * Per(m)
            [] m \in LineStrips     -> VERTICES - 1
            [] m \in TriangleStrips -> ((VERTICES - 2) \div 2) * 2

num == IF total - first > vcs(mode) THEN vcs(mode) ELSE total - first

\* compileElements: num vertices from k on go to the entries from s on.
compileElements(e, s, k, count) ==
  [x \in Slots |-> IF x \in s .. s + count - 1 THEN k + (x - s) ELSE e[x]]

At(e, s) == IF s \in Slots THEN e[s] ELSE Stale       \* past the end: anything

\* What is left of cull after the vertices k .. k + count - 1.
Culled(c, k, count) == {p \in c : \A x \in k .. k + count - 1 : p \in flags[x]}

\* The flags of the vertices are whatever the transformation makes them.
glDrawArrays(m, count) ==
  /\ mode = "none" /\ count >= Least(m)
  /\ flags' \in [0 .. count - 1 -> SUBSET Planes]
  /\ mode' = m /\ total' = count
  /\ entry' = compileElements(entry, 0, 0, Carried(m))
  /\ first' = Carried(m) /\ from' = Carried(m) /\ high' = Carried(m)
  /\ cull' = {p \in Planes : \A x \in 0 .. Carried(m) - 1 : p \in flags'[x]}
  /\ winding' = IF m = "fan" THEN 2 ELSE 1
  /\ stage' = "loop" /\ drawn' = <<>> /\ rejected' = FALSE

Advance == /\ first' = first + num /\ from' = first
           /\ high' = Carried(mode) + num
           /\ UNCHANGED <<mode, total, flags>>

\* drawPrimitivesPoints, drawPrimitivesLines and drawPrimitivesTriangles: the
\* vertices that do not make up a primitive at the end are compiled too.
ListBatch ==
  LET per == Per(mode)
      e   == compileElements(entry, 0, first, num)
      c   == Culled(Planes, first, num)
  IN  /\ stage = "loop" /\ mode \in Lists
      /\ Advance
      /\ entry' = e /\ cull' = c
      /\ drawn' = IF c # {} THEN <<>>
                  ELSE Shown([j \in 1 .. num \div per |->
                                [i \in 1 .. per |-> At(e, (j - 1) * per + i - 1)]])
      /\ rejected' = (rejected \/ c # {})
      /\ stage' = IF total - first' >= per THEN "loop" ELSE "end"
      /\ UNCHANGED winding

\* drawPrimitivesLineStrip: v0 stays at entry 0 when the batch is rejected,
\* and is what is copied back.
LineBatch ==
  LET e    == compileElements(entry, 1, first, num)
      c    == Culled(cull, first, num)
      last == At(e, IF c # {} THEN 0 ELSE num)
  IN  /\ stage = "loop" /\ mode \in LineStrips
      /\ Advance
      /\ drawn' = IF c # {} THEN <<>>
                  ELSE Shown([j \in 1 .. num |-> <<At(e, j - 1), At(e, j)>>])
      /\ entry' = [e EXCEPT ![0] = last]
      /\ cull' = Flags(last)
      /\ rejected' = (rejected \/ c # {})
      /\ stage' = CASE first' < total                          -> "loop"
                    [] first' = total /\ mode = "line_loop" /\ total >= 3 -> "close"
                    [] OTHER                                   -> "end"
      /\ UNCHANGED winding

\* drawPrimitivesLineLoop, after the strip.
LoopClose ==
  LET e == [entry EXCEPT ![1] = 0]
  IN  /\ stage = "close" /\ stage' = "end"
      /\ entry' = e /\ high' = 2
      /\ drawn' = Shown(<< <<e[0], e[1]>> >>)
      /\ from' = total
      /\ UNCHANGED <<mode, total, flags, first, cull, winding, rejected>>

\* The pointers v0 and v1 and the winding after the j-th triangle of a batch:
\* v2 takes the place of v1, or for every other triangle of a strip of v0.
Swapped(t, j) ==
  LET w == Flip(t.winding)
  IN  [v0 |-> IF w # 0 THEN t.v0 ELSE j + 1,
       v1 |-> IF w # 0 THEN j + 1 ELSE t.v1, winding |-> w]

\* The same from the start of the batch on.
Pointers(count, w0) ==
  LET st[j \in 0 .. count] == IF j = 0 THEN [v0 |-> 0, v1 |-> 1, winding |-> w0]
                              ELSE Swapped(st[j - 1], j)
  IN  st

\* The last two vertices go to the front; entry 0 stays the centre of a fan.
CarryOver(e, w) ==
  [e EXCEPT ![0] = IF w < 2 THEN At(e, vcs(mode)) ELSE e[0], ![1] = At(e, vcs(mode) + 1)]

\* drawPrimitivesTriangleFanOrStrip.
TriangleBatch ==
  LET e  == compileElements(entry, 2, first, num)
      c  == Culled(cull, first, num)
      st == Pointers(num, winding)
      w  == IF c # {} THEN winding ELSE st[num].winding
      more == first + num < total
  IN  /\ stage = "loop" /\ mode \in TriangleStrips
      /\ Advance
      /\ drawn' = IF c # {} THEN <<>>
                  ELSE Shown([j \in 1 .. num |-> <<At(e, st[j - 1].v0), At(e, st[j - 1].v1),
                                                   At(e, j + 1)>>])
      /\ winding' = w
      /\ entry' = IF more THEN CarryOver(e, w) ELSE e
      /\ cull' = IF ~more THEN c
                 ELSE Flags(At(e, vcs(mode))) \intersect Flags(At(e, vcs(mode) + 1))
      /\ rejected' = (rejected \/ c # {})
      /\ stage' = IF more THEN "loop" ELSE "end"

\* The call returns; what the entries hold is of an earlier call from here on.
Return ==
  /\ stage = "end" /\ mode # "none"
  /\ mode' = "none" /\ total' = 0 /\ flags' = <<>> /\ entry' = [s \in Slots |-> Stale]
  /\ first' = 0 /\ cull' = {} /\ winding' = 0 /\ from' = 0 /\ high' = 0
  /\ drawn' = <<>> /\ rejected' = FALSE
  /\ UNCHANGED stage

Next ==
  \/ \E m \in Modes, count \in 1 .. MaxCount : glDrawArrays(m, count)
  \/ ListBatch \/ LineBatch \/ LoopClose \/ TriangleBatch \/ Return

Spec == Init /\ [][Next]_vars
-----------------------------------------------------------------------------
\* The n-th primitive of a call as GL defines it, counted from 0, its vertices
\* in the order that gives it its winding.
Primitive(m, n) ==
  CASE m \in Lists      -> [i \in 1 .. Per(m) |-> n * Per(m) + i - 1]
    [] m \in LineStrips -> <<n, n + 1>>
    [] m = "strip"      -> IF n % 2 = 0 THEN <<n, n + 1, n + 2>> ELSE <<n + 1, n, n + 2>>
    [] m = "fan"        -> <<0, n + 1, n + 2>>

\* How many primitives the first k vertices of a call make up.
Complete(m, k) == IF m \in Lists THEN k \div Per(m) ELSE k - Carried(m)

\* The primitives GL completes with the vertices k .. l - 1 of a call.
Primitives(m, k, l) ==
  [j \in 1 .. Complete(m, l) - Complete(m, k) |-> Primitive(m, Complete(m, k) + j - 1)]

\* What GL draws with the last batch, or with the step that closes a loop.
Due ==
  CASE mode = "none"                   -> <<>>
    [] mode # "none" /\ from = total   -> Shown(<< <<total - 1, 0>> >>)
    [] mode # "none" /\ from # total   -> Shown(Primitives(mode, from, first))

\* Every batch renders the visible ones of the primitives GL defines, in order
\* and with their winding, wherever the batches end and whichever of them were
\* rejected as a whole.  The exceptions are line strips and fans, after a
\* batch was rejected.
BatchesExact ==
  (rejected => mode \notin LineStrips \union {"fan"}) => drawn = Due

\* No batch is compiled past the end of the entries.
BatchesFit == high <= VERTICES
=============================================================================
