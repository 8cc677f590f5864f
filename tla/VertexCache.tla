---------------------------- MODULE VertexCache ----------------------------
(***************************************************************************)
(* glDrawElements of swrender/array.cpp: the cache of transformed vertices *)
(* (VC_CACHE_TYPE_INDEXED, the type that is built) and the assembly of     *)
(* primitives from it.  The striper and the faner keep plain pointers into *)
(* the cache from one iteration to the next; the locked flag of an entry   *)
(* is all that keeps it from being compiled again under them.              *)
(* One thread draws, so an iteration of a loop is one action.  The number  *)
(* of vertices of a call is left open: a loop may end wherever its count   *)
(* may become 0.                                                           *)
(***************************************************************************)
EXTENDS Drawing, Integers, Sequences

CONSTANTS VERTEX_BUFFER_SIZE,   \* entries used directly; 0 and 1 by the striper
          VERTEX_CACHE_SIZE,
          Indices,              \* the vertices clients draw
          SeqLimit,             \* 0x80000000 / INDEX_SEQ
          OutsideSets,          \* which vertices are outside the clip plane
          ArrayCounts           \* the counts of the glDrawArrays in between

Entries == 0 .. VERTEX_BUFFER_SIZE + VERTEX_CACHE_SIZE - 1
Strips == {"line_strip", "line_loop", "strip", "fan"}

ASSUME CacheAssumption ==
  /\ VERTEX_BUFFER_SIZE \in Nat /\ VERTEX_BUFFER_SIZE >= 5
  /\ VERTEX_CACHE_SIZE \in Nat /\ VERTEX_CACHE_SIZE >= 1
  /\ Indices \subseteq Nat /\ SeqLimit \in Nat /\ SeqLimit > 1
  /\ OutsideSets \subseteq SUBSET Indices
  /\ ArrayCounts \subseteq Nat

VARIABLES cache,      \* the vertex_t array: tag (sequence and index), data, locked
          sequence,
          outside,    \* the vertices outside the clip plane during this call
          read,       \* indices read by this call, up to 3
          held,       \* the pointers v0 and v1 of the striper
          tail,       \* the last two indices read,
          head,       \* the first one,
          odd,        \* whether a strip has an odd number of triangles so far:
                      \* what GL draws from
          repeated,   \* a strip used an index twice in one primitive
          due         \* what GL says the last iteration should have drawn

cacheVars == <<cache, sequence, mode, outside, read, held, winding, tail, head, odd,
               repeated, drawn, due>>

NoTag == <<0, 0>>

CacheInit ==
  /\ cache = [s \in Entries |-> [tag |-> NoTag, data |-> Stale, locked |-> FALSE]]
  /\ sequence = 0 /\ mode = "none" /\ outside = {} /\ read = 0
  /\ held = <<0, 1>> /\ winding = 0
  /\ tail = <<Stale, Stale>> /\ head = Stale /\ odd = FALSE /\ repeated = FALSE
  /\ drawn = <<>> /\ due = <<>>
-----------------------------------------------------------------------------
\* vertex_cache_t::clear: a new sequence number makes every tag old; when the
\* numbers run out the tags are erased.
clear ==
  LET wraps == sequence + 1 >= SeqLimit
  IN  /\ sequence' = IF wraps THEN 1 ELSE sequence + 1
      /\ cache' = [s \in Entries |-> [cache[s] EXCEPT !.tag = IF wraps THEN NoTag ELSE @]]

\* The tags of the buffer are written but never read, and left out.
compileElement(e, s, tag) ==
  [e EXCEPT ![s] = [tag    |-> IF s < VERTEX_BUFFER_SIZE THEN NoTag ELSE tag,
                    data   |-> tag[2],
                    locked |-> @.locked]]

Unlock(e, s) == [e EXCEPT ![s].locked = FALSE]

\* Mutant: the second spare entry is never used.
Spare_one(e) == 2

\* cache_vertex computes the index of a free entry from the locks of 2 and 3.
Spare(e) == 2 + (IF e[2].locked THEN 1 ELSE 0) + (IF e[3].locked THEN 2 ELSE 0)

\* An entry that is returned is locked: the entries after the call and the one
\* returned.
Locking(e, s) == [entry |-> [e EXCEPT ![s].locked = TRUE], at |-> s]

\* A miss: the vertex is compiled into its entry c, or into a spare one.
cache_vertex(e, c, tag) ==
  LET at == IF e[c].locked THEN Spare(e) ELSE c
  IN  Locking(compileElement(e, at, tag), at)

fetch_vertex(e, index) ==
  LET c   == VERTEX_BUFFER_SIZE + (index % VERTEX_CACHE_SIZE)
      tag == <<sequence, index>>
  IN  IF e[c].tag = tag THEN Locking(e, c) ELSE cache_vertex(e, c, tag)

\* A primitive is rejected when all of it is outside the plane.
Show(p) == IF \A i \in DOMAIN p : p[i] \in outside THEN <<>> ELSE p

\* GL draws from the last two indices of a strip, and the first of a fan or loop.
Read(i) == /\ tail' = <<IF mode = "strip" THEN tail[2] ELSE Stale, i>>
           /\ head' = IF read = 0 /\ mode \in {"fan", "line_loop"} THEN i ELSE head
           /\ read' = IF read < 3 THEN read + 1 ELSE read

\* clear() and the choice of the loop.  A call that draws nothing (count too
\* small, arrays off) returns from the loop's first test.
glDrawElements(m, o) ==
  /\ mode = "none"
  /\ clear
  /\ mode' = m /\ outside' = o
  /\ winding' = IF m = "fan" THEN 2 ELSE 1
  /\ held' = <<0, 1>> /\ odd' = FALSE /\ repeated' = FALSE
  /\ UNCHANGED <<read, tail, head, drawn, due>>

\* glDrawArrays uses the entries as one array, without sequence numbers; see
\* module DrawArrays.  It draws the vertices 0 .. count - 1 here.
ArraysBetween(count) ==
  /\ mode = "none"
  /\ cache' = [s \in Entries |-> IF s \in VERTEX_BUFFER_SIZE .. count - 1
                               THEN [cache[s] EXCEPT !.tag = <<0, s>>] ELSE cache[s]]
  /\ UNCHANGED <<sequence, mode, outside, read, held, winding, tail, head, odd, repeated,
                 drawn, due>>

\* drawIndexedPrimitivesPoints: one iteration.
Points(i) ==
  LET f == fetch_vertex(cache, i)
  IN  /\ mode = "points"
      /\ drawn' = Show(<<f.entry[f.at].data>>) /\ due' = Show(<<i>>)
      /\ cache' = Unlock(f.entry, f.at)
      /\ UNCHANGED <<sequence, mode, outside, read, held, winding, tail, head, odd, repeated>>

\* drawIndexedPrimitivesLines: one iteration.
Lines(i, j) ==
  LET f == fetch_vertex(cache, i)
      g == fetch_vertex(f.entry, j)
      e == g.entry
  IN  /\ mode = "lines"
      /\ drawn' = Show(<<e[f.at].data, e[g.at].data>>) /\ due' = Show(<<i, j>>)
      /\ cache' = Unlock(Unlock(e, f.at), g.at)
      /\ UNCHANGED <<sequence, mode, outside, read, held, winding, tail, head, odd, repeated>>

\* Mutant: the third vertex stays locked.
Triangles_keepsLock(i, j, k) ==
  LET f == fetch_vertex(cache, i)
      g == fetch_vertex(f.entry, j)
      h == fetch_vertex(g.entry, k)
      e == h.entry
  IN  /\ mode = "triangles"
      /\ drawn' = Show(<<e[f.at].data, e[g.at].data, e[h.at].data>>)
      /\ due' = Show(<<i, j, k>>)
      /\ cache' = Unlock(Unlock(e, f.at), g.at)
      /\ UNCHANGED <<sequence, mode, outside, read, held, winding, tail, head, odd, repeated>>

\* drawIndexedPrimitivesTriangles: one iteration, the same for bytes and shorts.
Triangles(i, j, k) ==
  LET f == fetch_vertex(cache, i)
      g == fetch_vertex(f.entry, j)
      h == fetch_vertex(g.entry, k)
      e == h.entry
  IN  /\ mode = "triangles"
      /\ drawn' = Show(<<e[f.at].data, e[g.at].data, e[h.at].data>>)
      /\ due' = Show(<<i, j, k>>)
      /\ cache' = Unlock(Unlock(Unlock(e, f.at), g.at), h.at)
      /\ UNCHANGED <<sequence, mode, outside, read, held, winding, tail, head, odd, repeated>>

\* A line loop of at most two vertices is drawn as lines.
ShortLoop ==
  /\ mode = "line_loop" /\ read = 0 /\ mode' = "lines"
  /\ UNCHANGED <<cache, sequence, outside, read, held, winding, tail, head, odd, repeated,
                 drawn, due>>

\* The striper compiles its first vertex, or two, into the buffer.
Start(i) ==
  LET needed == IF mode \in {"strip", "fan"} THEN 2 ELSE 1
  IN  /\ mode \in Strips /\ read < needed
      /\ cache' = compileElement(cache, read, <<0, i>>)
      /\ Read(i)
      /\ UNCHANGED <<sequence, mode, outside, held, winding, odd, repeated, drawn, due>>

\* drawIndexedPrimitivesLineStrip and LineLoop: one iteration.
LineNext(i) ==
  LET f == fetch_vertex(cache, i)
  IN  /\ mode \in {"line_strip", "line_loop"} /\ read >= 1
      /\ drawn' = Show(<<f.entry[held[1]].data, f.entry[f.at].data>>)
      /\ due' = Show(<<tail[2], i>>)
      /\ cache' = Unlock(f.entry, held[1])
      /\ held' = <<f.at, held[2]>>
      /\ repeated' = (repeated \/ i = tail[2])
      /\ Read(i)
      /\ UNCHANGED <<sequence, mode, outside, winding, odd>>

\* drawIndexedPrimitivesTriangleFanOrStrip: one iteration.  A strip consumes
\* v0 and v1 in turn, a fan always v1.
TriangleNext(i) ==
  LET f == fetch_vertex(cache, i)
      w == Flip(winding)
  IN  /\ mode \in {"strip", "fan"} /\ read >= 2
      /\ drawn' = Show(<<f.entry[held[1]].data, f.entry[held[2]].data, f.entry[f.at].data>>)
      /\ due' = Show(CASE mode = "fan"            -> <<head, tail[2], i>>
                       [] mode = "strip" /\ odd  -> <<tail[2], tail[1], i>>
                       [] mode = "strip" /\ ~odd -> <<tail[1], tail[2], i>>)
      /\ winding' = w /\ odd' = (mode = "strip" /\ ~odd)
      /\ cache' = Unlock(f.entry, IF w # 0 THEN held[2] ELSE held[1])
      /\ held' = IF w # 0 THEN <<held[1], f.at>> ELSE <<f.at, held[2]>>
      /\ repeated' = (repeated \/ i = tail[2] \/ (mode = "strip" /\ i = tail[1]))
      /\ Read(i)
      /\ UNCHANGED <<sequence, mode, outside>>

Finished == /\ mode' = "none" /\ outside' = {} /\ read' = 0 /\ held' = <<0, 1>>
            /\ winding' = 0 /\ tail' = <<Stale, Stale>> /\ head' = Stale
            /\ odd' = FALSE /\ repeated' = FALSE

\* The closing line of a loop of at least three vertices.
IndexedLoopClose ==
  /\ mode = "line_loop" /\ read = 3
  /\ drawn' = Show(<<cache[held[1]].data, cache[0].data>>)
  /\ due' = Show(<<tail[2], head>>)
  /\ cache' = Unlock(cache, held[1])
  /\ mode' = "closed" /\ held' = <<0, 1>>
  /\ UNCHANGED <<sequence, outside, read, winding, tail, head, odd, repeated>>

\* The loop ends and unlocks what the striper still holds.  What the entries
\* hold is of an earlier call from here on.
IndexedReturn ==
  /\ \/ mode \in Lists \union {"closed"}
     \/ mode = "line_strip" /\ read >= 2
     \/ mode \in {"strip", "fan"} /\ read = 3
     \/ mode \in Strips /\ read = 0
  /\ LET e == Unlock(Unlock(cache, held[1]), held[2])
     IN  cache' = [s \in Entries |-> [e[s] EXCEPT !.data = Stale]]
  /\ Finished
  /\ drawn' = <<>> /\ due' = <<>>
  /\ UNCHANGED sequence

CacheNext ==
  \/ \E m \in Lists \union Strips, o \in OutsideSets : glDrawElements(m, o)
  \/ \E count \in ArrayCounts : ArraysBetween(count)
  \/ \E i \in Indices : Points(i) \/ Start(i) \/ LineNext(i) \/ TriangleNext(i)
  \/ \E i, j \in Indices : Lines(i, j) \/ \E k \in Indices : Triangles(i, j, k)
  \/ ShortLoop \/ IndexedLoopClose \/ IndexedReturn

CacheSpec == CacheInit /\ [][CacheNext]_cacheVars
-----------------------------------------------------------------------------
\* What is rendered is what GL defines for the indices read, in the order that
\* gives the triangle its winding: whatever collides in the cache, however
\* many calls and sequence numbers there were, no pointer the striper keeps
\* has been compiled over and nothing of an earlier call is hit.  A strip
\* must not use an index twice in one primitive.
PrimitivesExact == ~repeated => drawn = due

\* Between calls no entry is locked, and during a strip exactly the entries
\* the striper holds are: a lock that was left would spoil the computation of
\* a free entry, which has no second choice.
LocksMatchUse ==
  ~repeated => \A s \in Entries : cache[s].locked <=> s >= 2 /\ s \in {held[1], held[2]}
=============================================================================
