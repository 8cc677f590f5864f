--------------------------- MODULE TextureObject ---------------------------
(***************************************************************************)
(* swrender/TextureObjectManager.cpp, class EGLTextureObject, and          *)
(* mipmap.cpp: the images of one texture object and the memory behind      *)
(* them, as operators.  The manager and the texture units that use them    *)
(* are module Textures.                                                    *)
(*                                                                         *)
(* A surface is its memory, its dimensions and its bytes per texel; rows   *)
(* are not padded (GL_UNPACK_ALIGNMENT 1).  The texels are left out.       *)
(***************************************************************************)
EXTENDS Integers, Sequences

CONSTANTS Blocks,         \* the addresses malloc can return
          Null            \* a null pointer

ASSUME NullAssumption == Null \notin Blocks

Released == -1            \* heap[b]: the size of block b, or nobody has it

Free(heap, bs) == [b \in Blocks |-> IF b \in bs THEN Released ELSE heap[b]]
Full(heap) == \A b \in Blocks : heap[b] # Released
Fresh(heap) == CHOOSE b \in Blocks : heap[b] = Released
Malloc(heap, b, size) == [heap EXCEPT ![b] = size]

\* Dimensions up to GGL_MAX_TEXTURE_SIZE, 4096, which clients are told of: with
\* at most 4 bytes per texel the size of an image is far from overflowing.
Bit(k) == 2^k             \* 1 << k
Sides == {n \in Nat : 0 < n /\ n <= Bit(12)}
Dims == Sides \X Sides

Bytes(dim, fmt) == dim[1] * dim[2] * fmt
NoSurface == [data |-> Null, dim |-> <<0, 0>>, fmt |-> 0]
Surface(b, dim, fmt) == [data |-> b, dim |-> dim, fmt |-> fmt]

\* The memory of a surface holds the texels its dimensions promise.
Fits(heap, s) == s.data # Null /\ heap[s.data] >= Bytes(s.dim, s.fmt)

\* EGLTextureObject::init.  param stands for the wrap modes and the filters.
NewTexture ==
  [surface |-> NoSurface, size |-> 0, mips |-> <<>>, complete |-> FALSE,
   internalformat |-> 0, generate |-> FALSE, direct |-> FALSE, param |-> 0]

copyParameters(old) ==
  [NewTexture EXCEPT !.param = old.param, !.generate = old.generate,
                     !.direct = old.direct]
-----------------------------------------------------------------------------
Larger(dim) == IF dim[1] > dim[2] THEN dim[1] ELSE dim[2]

\* 31 - gglClz(max(w, h)), the levels beyond the first.
NumLods(dim) == CHOOSE n \in 0 .. 30 : Bit(n) <= Larger(dim) /\ Larger(dim) < 2 * Bit(n)

Shift(n, i) == IF n \div Bit(i) = 0 THEN 1 ELSE n \div Bit(i)
LevelDim(dim, i) == <<Shift(dim[1], i), Shift(dim[2], i)>>

\* mip(lod): which surface level lod is kept in, 0 being the base image.
\* Levels the object has no room for are those of the last one.
LodIndex(t, lod) ==
  IF lod <= 0 \/ t.mips = <<>> THEN 0
  ELSE IF lod < Len(t.mips) THEN lod ELSE Len(t.mips)

mip(t, lod) == IF LodIndex(t, lod) = 0 THEN t.surface ELSE t.mips[LodIndex(t, lod)]

editMip(t, lod, s) ==
  IF LodIndex(t, lod) = 0 THEN [t EXCEPT !.surface = s]
  ELSE [t EXCEPT !.mips[LodIndex(t, lod)] = s]

MipBlocks(t) == {t.mips[i].data : i \in 1 .. Len(t.mips)} \ {Null}
BaseBlocks(t) == IF t.size # 0 /\ t.surface.data # Null THEN {t.surface.data} ELSE {}

\* What ~EGLTextureObject frees.
Owned(t) == IF t.direct THEN {} ELSE BaseBlocks(t) \union MipBlocks(t)

\* setImage and setSurface: the image belongs to the native buffer, whose
\* memory nobody maps.  m is the heap and the object.
setSurface(m, dim, fmt) ==
  [m EXCEPT !.heap = Free(@, BaseBlocks(m.tex) \union MipBlocks(m.tex)),
            !.tex = [@ EXCEPT !.surface = Surface(Null, dim, fmt), !.size = 0,
                              !.internalformat = 0, !.generate = FALSE,
                              !.direct = TRUE, !.mips = <<>>, !.complete = TRUE]]
-----------------------------------------------------------------------------
(* reallocate, on m = [heap, tex, ok]: ok is NO_ERROR.  fail is the level  *)
(* and the malloc that returns null: that of "array" (mMipmaps), of "data" *)
(* or of "none"; that of "data" also does when no block is left.           *)

NoFailure == [at |-> 0, what |-> "none"]
Failures(levels) == {NoFailure} \union [at : levels, what : {"data"}]
                                \union [at : levels \ {0}, what : {"array"}]
Fails(fail, level, what) == fail = [at |-> level, what |-> what]

\* Mutant: memory is reused whatever its size.
Reuses_any(t, size) == t.surface.data # Null

\* The image goes to the memory that is there.
Reuses(t, size) == size = t.size /\ t.surface.data # Null

\* Level 0.  An image of the same size reuses the memory; a failed allocation
\* forgets it but not the dimensions.
reallocateBase(m, dim, fmt, fail) ==
  LET t == m.tex
      size == Bytes(dim, fmt)
      keep == Reuses(t, size)
      heap1 == IF keep THEN m.heap ELSE Free(m.heap, BaseBlocks(t))
      b == IF keep THEN t.surface.data ELSE Fresh(heap1)
  IN  IF ~keep /\ (Fails(fail, 0, "data") \/ Full(heap1))
      THEN [heap |-> heap1, ok |-> FALSE,
            tex |-> [t EXCEPT !.surface.data = Null, !.size = 0, !.complete = FALSE]]
      ELSE [heap |-> Free(IF keep THEN heap1 ELSE Malloc(heap1, b, size), MipBlocks(t)),
            ok |-> TRUE,
            tex |-> [t EXCEPT !.surface = Surface(b, dim, fmt), !.size = size,
                              !.mips = <<>>, !.complete = TRUE]]

\* allocateMipmaps: room for the levels the base image needs, which is none
\* for one of 1x1.
allocateMipmaps(m, noArray) ==
  LET n == NumLods(m.tex.surface.dim)
  IN  IF m.tex.mips # <<>> THEN m
      ELSE IF m.tex.surface.data = Null \/ (n > 0 /\ noArray)
      THEN [m EXCEPT !.ok = FALSE]
      ELSE [m EXCEPT !.tex.mips = [i \in 1 .. n |-> NoSurface]]

\* Every level has the format of the base and half the size of the one before.
IsPyramid(t) ==
  \A i \in 1 .. Len(t.mips) :
    /\ t.mips[i].fmt = t.surface.fmt
    /\ t.mips[i].dim = LevelDim(IF i = 1 THEN t.surface.dim ELSE t.mips[i - 1].dim, 1)

Checked(t) == [t EXCEPT !.complete = IsPyramid(t)]

\* Mutant: the memory of the level that is replaced is forgotten.
reallocateMip_leaks(m, level, dim, fmt, fail) ==
  LET m1 == allocateMipmaps(m, Fails(fail, level, "array"))
      b == Fresh(m1.heap)
  IN  IF ~m1.ok THEN m1
      ELSE IF Fails(fail, level, "data") \/ Full(m1.heap) THEN [m1 EXCEPT !.ok = FALSE]
      ELSE [m1 EXCEPT !.heap = Malloc(@, b, Bytes(dim, fmt)),
                      !.tex = Checked(editMip(@, level, Surface(b, dim, fmt)))]

\* A level above 0.  mSize is that of the base image and is not touched, even
\* where the level is kept in the base image.
reallocateMip(m, level, dim, fmt, fail) ==
  LET m1 == allocateMipmaps(m, Fails(fail, level, "array"))
      heap1 == Free(m1.heap, {mip(m1.tex, level).data})
      b == Fresh(heap1)
  IN  IF ~m1.ok THEN m1
      ELSE IF Fails(fail, level, "data") \/ Full(heap1)
      THEN [heap |-> heap1, ok |-> FALSE,
            tex |-> [editMip(m1.tex, level, NoSurface) EXCEPT !.complete = FALSE]]
      ELSE [heap |-> Malloc(heap1, b, Bytes(dim, fmt)), ok |-> TRUE,
            tex |-> Checked(editMip(m1.tex, level, Surface(b, dim, fmt)))]

\* The levels 1 .. top, each with the dimensions of its level, until one fails.
Levels(m, dim, fmt, top, fail) ==
  LET upTo[i \in 0 .. top] ==
        IF i = 0 THEN m
        ELSE IF ~upTo[i - 1].ok THEN upTo[i - 1]
        ELSE reallocateMip(upTo[i - 1], i, LevelDim(dim, i), fmt, fail)
  IN  upTo[top]
-----------------------------------------------------------------------------
\* (w & h) == 1: 1 is the only bit the two have in common.
AndIsOne(dim) ==
  /\ dim[1] % 2 = 1 /\ dim[2] % 2 = 1
  /\ \A k \in 1 .. 15 : (dim[1] \div Bit(k)) % 2 = 0 \/ (dim[2] \div Bit(k)) % 2 = 0

\* The last level buildAPyramid makes.
PyramidTop(dim) ==
  CHOOSE i \in 0 .. 30 : AndIsOne(LevelDim(dim, i)) /\ \A j \in 0 .. i - 1 : ~AndIsOne(LevelDim(dim, j))

\* buildAPyramid averages 2x2 texels of the level above for each texel.
buildAPyramid(m, fail) ==
  Levels(m, m.tex.surface.dim, m.tex.surface.fmt,
         PyramidTop(m.tex.surface.dim), fail)
=============================================================================
