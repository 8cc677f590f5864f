------------------------------ MODULE Textures ------------------------------
(***************************************************************************)
(* The textures of one context: EGLSurfaceManager                          *)
(* (TextureObjectManager.cpp), the texture units and the calls of          *)
(* texture.cpp, and the copy of a unit's surface the rasterizer samples    *)
(* (libpixelflinger/pixelflinger.cpp, buffer.cpp).  The manager and every  *)
(* unit hold counted references to the objects; the rasterizer's copy is a *)
(* plain one.  A draw refreshes the copy of a dirty unit before it uses    *)
(* it, so the copy is Stale here while the unit is dirty.  A context is    *)
(* used by one thread at a time, so a call is one action.                  *)
(*                                                                         *)
(* Names come from a TokenManager, see BufferObjects; here clients use any *)
(* name, which glBindTexture allows.                                       *)
(***************************************************************************)
EXTENDS TextureObject, FiniteSets

CONSTANTS Names,          \* GLuint texture names without 0
          Units,          \* 0 .. GGL_TEXTURE_UNIT_COUNT - 1
          Objects,        \* the addresses operator new can return
          defaultTexture, \* the one that holds texture 0
          Images,         \* the dimensions and formats of the images clients use
          Lods,           \* the levels clients upload, of which a dimension can
                          \* be shifted by
          Params,         \* the values of the wrap modes and filters
          Stale,          \* the rasterizer's copy for a dirty unit
          MaxChanges,     \* bound: images and parameters given to textures
          MaxOdd          \* bound: kinds of exceptional events in odd

ASSUME TexturesAssumption ==
  /\ Names \subseteq Nat \ {0} /\ IsFiniteSet(Names)
  /\ Units \subseteq Nat /\ 0 \in Units /\ IsFiniteSet(Units)
  /\ Images \subseteq [dim : Dims, fmt : 1 .. 4]
  /\ {MaxChanges, MaxOdd} \subseteq Nat
  /\ 0 \in Lods /\ Lods \subseteq 0 .. 30
  /\ 0 \in Params /\ Params \subseteq Nat /\ Null \notin Objects /\ defaultTexture \in Objects

VARIABLES tex,            \* the texture objects
          count,          \* LightRefBase::mCount; 0 where there is no object
          heap,           \* the sizes of the blocks of memory
          mTextures,      \* the object of each name, or Null
          unit,           \* texture_unit_t: the object and the name
          active,         \* the active texture unit
          ras,            \* the rasterizer's copy of each unit, or Stale
          enable,         \* rasterizer.state.texture[].enable
          open,           \* the context exists
          changes,        \* images and parameters given to textures so far
          badUpload,      \* texels were written to memory that is not theirs
          badDraw,        \* a draw read texels of no memory, or of too little
          odd             \* what happened that the code is known not to survive

objVars == <<tex, count, heap, mTextures>>
rasVars == <<ras, enable>>
ghosts  == <<badUpload, badDraw, odd>>
vars == <<objVars, unit, active, rasVars, open, changes, ghosts>>

NoBindings == [u \in Units |-> [tex |-> defaultTexture, name |-> 0]]

\* ogles_init_texture: the default texture is bound to every unit.
Init ==
  /\ tex = [o \in Objects |-> NewTexture]
  /\ count = [o \in Objects |-> IF o = defaultTexture THEN 1 + Cardinality(Units) ELSE 0]
  /\ heap = [b \in Blocks |-> Released]
  /\ mTextures = [n \in Names |-> Null]
  /\ unit = NoBindings
  /\ active = 0
  /\ ras = [u \in Units |-> Stale]
  /\ enable = [u \in Units |-> FALSE]
  /\ open = TRUE /\ changes = 0
  /\ badUpload = FALSE /\ badDraw = FALSE /\ odd = {}
-----------------------------------------------------------------------------
(* References.                                                             *)

Invalidate(us) == [u \in Units |-> IF u \in us THEN Stale ELSE ras[u]]

NewObject == CHOOSE o \in Objects : count[o] = 0

\* decStrong of every object o drop[o] times: the last one deletes it, with
\* what it owns.
Dropped(drop) == [o \in Objects |-> count[o] - drop[o]]
Deleted(drop) == {o \in Objects : drop[o] # 0 /\ count[o] = drop[o]}
HeapAfter(drop) == Free(heap, UNION {Owned(tex[o]) : o \in Deleted(drop)})
TexAfter(drop) == [o \in Objects |-> IF o \in Deleted(drop) THEN NewTexture ELSE tex[o]]

One(o) == [p \in Objects |-> IF p = o THEN 1 ELSE 0]
Add(c, o) == [c EXCEPT ![o] = @ + 1]

glActiveTexture(u) ==
  /\ active' = u
  /\ UNCHANGED <<objVars, unit, rasVars, open, changes, ghosts>>

\* Mutant: the reference to the texture that was bound is kept.
BindUnit_keeps(u, n, o, c) ==
  /\ unit' = [unit EXCEPT ![u] = [tex |-> o, name |-> n]]
  /\ ras' = Invalidate({u})
  /\ count' = Add(c, o)
  /\ UNCHANGED <<tex, heap>>

\* bindTextureTmu, on the counts c: nothing happens when the unit has the
\* object already.
BindUnit(u, n, o, c) ==
  IF unit[u].tex = o
  THEN count' = c /\ UNCHANGED <<unit, ras, tex, heap>>
  ELSE /\ unit' = [unit EXCEPT ![u] = [tex |-> o, name |-> n]]
       /\ ras' = Invalidate({u})
       /\ count' = Add([c EXCEPT ![unit[u].tex] = @ - 1], o)
       /\ heap' = HeapAfter(One(unit[u].tex)) /\ tex' = TexAfter(One(unit[u].tex))

ObjectOf(n) == IF n = 0 THEN defaultTexture ELSE mTextures[n]

\* glBindTexture of 0 or of a name that has an object.
BindExisting(n) ==
  /\ ObjectOf(n) # Null
  /\ BindUnit(active, n, ObjectOf(n), count)
  /\ UNCHANGED <<mTextures, active, enable, open, changes, ghosts>>

\* glBindTexture of a name without one: createTexture.
BindNew(n) ==
  LET o == NewObject
  IN  /\ mTextures[n] = Null /\ \E p \in Objects : count[p] = 0
      /\ mTextures' = [mTextures EXCEPT ![n] = o]
      /\ BindUnit(active, n, o, Add(count, o))
      /\ UNCHANGED <<active, enable, open, changes, ghosts>>

\* Mutant: only the active unit is looked at.
Bound_active(ns) == {u \in Units : u = active /\ unit[u].name \in ns}

\* The units glDeleteTextures binds to texture 0.
Bound(ns) == {u \in Units : unit[u].name \in ns}

\* glDeleteTextures: units that have one of the names go back to texture 0,
\* the manager drops its references.
glDeleteTextures(ns) ==
  LET drop == [o \in Objects |-> Cardinality({u \in Bound(ns) : unit[u].tex = o})
                               + Cardinality({n \in ns : mTextures[n] = o})]
  IN  /\ unit' = [u \in Units |-> IF u \in Bound(ns)
                   THEN [tex |-> defaultTexture, name |-> 0] ELSE unit[u]]
      /\ ras' = Invalidate(Bound(ns))
      /\ count' = [Dropped(drop) EXCEPT ![defaultTexture] = @ + Cardinality(Bound(ns))]
      /\ heap' = HeapAfter(drop) /\ tex' = TexAfter(drop)
      /\ mTextures' = [n \in Names |-> IF n \in ns THEN Null ELSE mTextures[n]]
      /\ UNCHANGED <<active, enable, open, changes, ghosts>>
-----------------------------------------------------------------------------
(* Images.                                                                 *)

Old  == unit[active].tex
Name == unit[active].name

\* getAndBindActiveTextureObject drops the reference of the unit first.
Left == [count EXCEPT ![Old] = @ - 1]

\* replaceTexture finds that somebody else has the object of the name.
Shared == Name # 0 /\ Left[mTextures[Name]] # 1

\* The object the active unit gets: texture 0, a new object when its own is
\* shared, otherwise its own.
Target == IF Name = 0 THEN defaultTexture
          ELSE IF Shared THEN NewObject ELSE mTextures[Name]

\* What the upload finds: the heap and that object.
Found ==
  [heap |-> HeapAfter(One(Old)), ok |-> TRUE,
   tex |-> IF Shared THEN copyParameters(tex[mTextures[Name]]) ELSE tex[Target]]

\* Mutant: only the active unit is told of a new image of texture 0.
Affected_active == {active}

\* The units that become dirty: the active one, and every unit with texture 0
\* when that is what changes.
Affected == {u \in Units : u = active \/ (Name = 0 /\ unit[u].tex = defaultTexture)}

\* getAndBindActiveTextureObject, but for the heap and the object, which the
\* caller goes on to change.
getAndBind ==
  /\ Shared => \E p \in Objects : count[p] = 0
  /\ count' = Add(IF Shared THEN Add([Left EXCEPT ![mTextures[Name]] = @ - 1], Target)
                  ELSE Left, Target)
  /\ mTextures' = IF Shared THEN [mTextures EXCEPT ![Name] = Target] ELSE mTextures
  /\ unit' = [unit EXCEPT ![active].tex = Target]
  /\ ras' = Invalidate(Affected)

NextImage == changes < MaxChanges /\ changes' = changes + 1

Store(o, m, before) == tex' = [before EXCEPT ![o] = m.tex] /\ heap' = m.heap

Note(events) == odd' = odd \union events /\ Cardinality(odd') <= MaxOdd
When(condition, event) == IF condition THEN {event} ELSE {}

generateMipmap(m, fail) ==
  IF m.tex.generate THEN buildAPyramid(m, fail) ELSE m

\* glTexImage2D, glCopyTexImage2D and glCompressedTexImage2D at level 0.  Then
\* the levels of a paletted image follow, which come with it (top of them),
\* or those of generateMipmap when there were texels to copy.  ETC1 images are
\* not compiled in (GLES/glext.h).
TexImageBase(dim, fmt, texels, top, fail) ==
  LET m0 == reallocateBase(Found, dim, fmt, fail)
      m1 == [m0 EXCEPT !.tex.internalformat = fmt]
      m2 == IF top > 0 THEN Levels(m1, dim, fmt, top, fail)
            ELSE IF texels THEN generateMipmap(m1, fail) ELSE m1
      m  == IF m0.ok THEN m2 ELSE m0
  IN  /\ NextImage /\ getAndBind
      /\ Store(Target, m, TexAfter(One(Old)))
      /\ badUpload' = (m0.ok /\ texels /\ ~Fits(m0.heap, m0.tex.surface))
      /\ Note(When(~m.ok, "oom")
              \union When(m0.ok /\ top > 0 /\ NumLods(dim) = 0, "tiny"))
      /\ UNCHANGED <<active, enable, open, badDraw>>

\* reallocate refuses a level of an object without a base image (NO_INIT).
NoImage(t) == t.surface.data = Null /\ t.mips = <<>>

\* The same calls at a level above 0: no new object, and no unit is told.
TexImageLevel(level, dim, fmt, fail) ==
  LET t == tex[Old]
      m == reallocateMip([heap |-> heap, tex |-> t, ok |-> TRUE], level, dim, fmt, fail)
  IN  /\ NextImage
      /\ Store(Old, m, tex)
      /\ Note(When(~m.ok /\ ~NoImage(t), "oom")
              \union When(t.surface.data # Null /\ LodIndex(m.tex, level) = 0, "tiny"))
      /\ UNCHANGED <<count, mTextures, unit, active, rasVars, open,
                     badUpload, badDraw>>

\* glTexSubImage2D, which refuses the image of a native buffer, and
\* glCopyTexSubImage2D, which does not.  The dimensions are tested against
\* those of the level.
TexSubImage(level, copy, fail) ==
  LET t == tex[Old]
      m == [heap |-> heap, tex |-> t, ok |-> TRUE]
      m1 == IF level = 0 THEN generateMipmap(m, fail) ELSE m
  IN  /\ t.internalformat # 0 /\ (copy \/ ~t.direct)
      /\ mip(t, level).dim # <<0, 0>>
      /\ IF m1 = m THEN UNCHANGED changes ELSE NextImage
      /\ Store(Old, m1, tex)
      /\ badUpload' = ~Fits(heap, mip(t, level))
      /\ Note(When(~m1.ok, "oom"))
      /\ UNCHANGED <<count, mTextures, unit, active, rasVars, open, badDraw>>

glEGLImageTargetTexture2DOES(dim, fmt) ==
  /\ NextImage /\ getAndBind
  /\ Store(Target, setSurface(Found, dim, fmt), TexAfter(One(Old)))
  /\ Note({"image"})
  /\ UNCHANGED <<active, enable, open, badUpload, badDraw>>

\* glTexParameter: the object of the active unit changes, and that unit is
\* told.
texParameterx(t) ==
  /\ changes' = changes + (IF t = tex[Old] THEN 0 ELSE 1) /\ changes' <= MaxChanges
  /\ tex' = [tex EXCEPT ![Old] = t]
  /\ ras' = Invalidate({active})
  /\ Note(When(t.param # tex[Old].param /\ \E u \in Units \ {active} : unit[u].tex = Old,
               "shared"))
  /\ UNCHANGED <<count, heap, mTextures, unit, active, enable, open,
                 badUpload, badDraw>>

glTexParameter ==
  \/ \E p \in Params : texParameterx([tex[Old] EXCEPT !.param = p])
  \/ \E g \in BOOLEAN : texParameterx([tex[Old] EXCEPT !.generate = g])
-----------------------------------------------------------------------------
(* Drawing.                                                                *)

\* glEnable and glDisable of GL_TEXTURE_2D act on the rasterizer's flag.
EnableTexture(on) ==
  /\ enable[active] # on
  /\ enable' = [enable EXCEPT ![active] = on]
  /\ Note(When(on /\ ras[active] # Stale /\ ~tex[Old].complete, "revived"))
  /\ UNCHANGED <<objVars, unit, active, ras, open, changes, badUpload, badDraw>>

CopyOf(o) == [surface |-> tex[o].surface, param |-> tex[o].param]

Dirty(u) == enable[u] /\ ras[u] = Stale

\* Mutant: a unit whose texture is incomplete stays on.
StillOn_all == {u \in Units : enable[u]}

\* validate_tmu of every enabled unit that is dirty: the rasterizer copies the
\* surface and the parameters, and an incomplete texture turns the unit off.
StillOn == {u \in Units : enable[u] /\ (Dirty(u) => tex[unit[u].tex].complete)}
Validated == [u \in Units |-> IF Dirty(u) THEN CopyOf(unit[u].tex) ELSE ras[u]]

Samples(copy, us) ==
  badDraw' = \E u \in us : ~Fits(heap, copy[u].surface)

\* A draw call: ogles_validate_texture, then the units left on are sampled.
Draw ==
  /\ ras' = Validated /\ enable' = [u \in Units |-> u \in StillOn]
  /\ Samples(Validated, StillOn)
  /\ UNCHANGED <<objVars, unit, active, open, changes, badUpload, odd>>

\* The wrap and texture coordinate modes that glDrawTex*OES sets go to the
\* unit the rasterizer has active: the one just validated if that was dirty,
\* otherwise the client's.
Altered == -1
Misses == enable[active] = FALSE /\ ras[active] # Stale
          /\ \E u \in Units : enable[u] /\ \A v \in Units : enable[v] /\ v <= u => ~Dirty(v)

AfterDrawTex ==
  /\ ras' = [u \in Units |-> IF enable[u] THEN Stale
                            ELSE IF u = active /\ Misses THEN [ras[u] EXCEPT !.param = Altered]
                            ELSE ras[u]]
  /\ Note(When(Misses, "missed"))
  /\ UNCHANGED <<objVars, unit, active, open, changes, badUpload>>

\* glDrawTex*OES: every enabled unit is validated and left dirty.
DrawTex ==
  /\ enable' = [u \in Units |-> u \in StillOn]
  /\ Samples(Validated, StillOn)
  /\ AfterDrawTex

\* drawTexiOES when unit 0 alone is enabled and the crop rectangle is drawn
\* one to one: the surface is copied, complete or not.
DrawTexOneToOne ==
  /\ \A u \in Units : enable[u] <=> u = 0
  /\ tex[unit[0].tex].surface.dim # <<0, 0>>
  /\ Samples(Validated, {0})
  /\ AfterDrawTex /\ UNCHANGED enable

Holders(o) == Cardinality({u \in Units : unit[u].tex = o})
            + Cardinality({n \in Names : mTextures[n] = o})
            + (IF o = defaultTexture THEN 1 ELSE 0)

\* ogles_uninit drops the references of the context, of its units and, with
\* the manager, of the names; nothing of the context is left.
Uninit == [o \in Objects |-> Holders(o)]

Close ==
  /\ open' = FALSE
  /\ count' = Dropped(Uninit) /\ heap' = HeapAfter(Uninit) /\ tex' = TexAfter(Uninit)
  /\ mTextures' = [n \in Names |-> Null] /\ unit' = NoBindings /\ active' = 0
  /\ ras' = [u \in Units |-> Stale] /\ enable' = [u \in Units |-> FALSE]
  /\ UNCHANGED <<changes, ghosts>>

\* Nothing is said of what follows an access outside the memory.
Alive == open /\ ~badUpload /\ ~badDraw

Next ==
  Alive /\
    \/ \E u \in Units : glActiveTexture(u)
    \/ \E n \in Names \union {0} : BindExisting(n)
    \/ \E n \in Names : BindNew(n)
    \/ \E ns \in SUBSET Names \ {{}} : glDeleteTextures(ns)
    \/ \E i \in Images :
         \/ glEGLImageTargetTexture2DOES(i.dim, i.fmt)
         \/ \E level \in Lods \ {0} : \E fail \in Failures({level}) :
              TexImageLevel(level, i.dim, i.fmt, fail)
         \/ \E top \in Lods, fail \in Failures(Lods) :
              TexImageBase(i.dim, i.fmt, TRUE, top, fail)
         \/ \E fail \in Failures({0}) : TexImageBase(i.dim, i.fmt, FALSE, 0, fail)
    \/ \E level \in Lods, copy \in BOOLEAN :
         \E fail \in IF tex[Old].generate THEN Failures(Lods) ELSE {NoFailure} :
           TexSubImage(level, copy, fail)
    \/ glTexParameter
    \/ \E on \in BOOLEAN : EnableTexture(on)
    \/ Draw \/ DrawTex \/ DrawTexOneToOne
    \/ Close

Spec == Init /\ [][Next]_vars
-----------------------------------------------------------------------------
\* replaceTexture finds what it looks for, and no unit points to nothing: a unit
\* with a name has one that the manager knows, however the names were deleted
\* and the textures replaced through other units; a unit without one has
\* texture 0, and texture 0 never gets a name.
NamesResolve ==
  \A u \in Units :
    /\ unit[u].name # 0 => mTextures[unit[u].name] # Null
    /\ unit[u].name = 0 <=> unit[u].tex = defaultTexture

\* Every object is counted exactly as often as the manager, the units and the
\* context point to it, so that one somebody points to exists and one nobody
\* points to is gone, however often names were shared, replaced and deleted.
ReferencesCounted ==
  \A o \in Objects : count[o] = IF open THEN Holders(o) ELSE 0

\* No memory is lost and none belongs to two objects: a block is allocated
\* exactly when one object owns it; after ogles_uninit there is none.  Images
\* of native buffers are excluded: the object keeps direct for ever, and its
\* destructor then frees nothing.
BlocksOwned ==
  "image" \notin odd =>
    \A b \in Blocks :
      LET owners == {o \in Objects : count[o] > 0 /\ b \in Owned(tex[o])}
      IN  IF heap[b] = Released THEN owners = {} ELSE Cardinality(owners) = 1

\* "since we only changed the content of the texture, we don't need to call
\* bindTexture on the main rasterizer": a unit that is not dirty has the
\* surface and the parameters of its texture in the rasterizer, whichever
\* unit or name they were changed through.  Not after a level above 0 of a
\* 1x1 texture, after the parameters of a texture of two units changed, or
\* after glDrawTex*OES set its modes on the wrong unit.
RasterizerFollows ==
  odd \intersect {"tiny", "shared", "missed"} = {} =>
    \A u \in Units : ras[u] \in {Stale, CopyOf(unit[u].tex)}

\* Texels are only written to memory that has room for them, provided no
\* allocation failed before (the dimensions survive, the memory does not) and
\* no level above 0 replaced a 1x1 image (mSize stays behind).
UploadsFit == odd \intersect {"oom", "tiny"} = {} => ~badUpload

\* A draw only samples units that have memory for their texels: incomplete
\* textures are turned off first.  Not so for images of native buffers, when
\* the client turns such a unit on again, and, in the one-to-one path, after
\* an allocation failed.
DrawsSampleTexels ==
  odd \intersect {"image", "oom", "tiny", "revived"} = {} => ~badDraw
=============================================================================
