-------------------------------- MODULE Egl --------------------------------
(***************************************************************************)
(* swrender/egl.cpp: contexts, surfaces and the current context of each    *)
(* thread.  EGL takes no lock, and eglMakeCurrent reads the flags and      *)
(* links of contexts and surfaces before it changes any, so it is two      *)
(* actions; every other call is one.                                       *)
(*                                                                         *)
(* A context or surface is "absent", "live" or "freed", and a pointer to a *)
(* freed one stays where it is until the code clears it.  Dereferencing a  *)
(* null or dangling pointer, or waiting for a buffer that nobody can give  *)
(* back, is recorded in failure and ends the behaviour.                    *)
(***************************************************************************)
EXTENDS NativeWindow, FiniteSets

CONSTANTS Threads, Contexts,
          WindowSurfaces, Pbuffers,
          Windows, WindowOf,  \* WindowOf[s]: the native window of s
          None,               \* EGL_NO_CONTEXT, EGL_NO_SURFACE
          May                 \* what clients and the allocator may do, beyond
                              \* the plain use of the interface

Surfaces == WindowSurfaces \union Pbuffers

\* switch_draw:     bind another surface to a context that has one already
\* destroy_bound:   destroy a surface that is bound to a context
\* destroy_context: destroy a context that is current or has surfaces
\* share_window:    create two surfaces for one window
\* read_window:     read from a window surface that is not drawn to
\* swap_read:       post a surface that a context only reads from
\* race:            call EGL from two threads at the same time
\* carry_on:        use EGL again after eglMakeCurrent could not allocate
\* stale_front:     the uninitialised front pointer looks like a buffer
AllHabits == {"switch_draw", "destroy_bound", "destroy_context", "share_window",
              "read_window", "swap_read", "race", "carry_on", "stale_front"}

ASSUME EglAssumption ==
  /\ None \notin Contexts \union Surfaces
  /\ WindowSurfaces \intersect Pbuffers = {}
  /\ WindowOf \in [WindowSurfaces -> Windows]
  /\ May \subseteq AllHabits

VARIABLES cx,         \* cx[c]: life, IS_CURRENT flag, draw and read surface, and
                      \* the colour and read buffer its rasterizer is set to
          sf,         \* sf[s]: life, ctx and the dequeued buffer
          fb,         \* fb[w]: the native windows
          current,    \* the GL thread-specific value of each thread
          call,       \* call[t]: the eglMakeCurrent under way, or None
          failure

vars == <<cx, sf, fb, current, call, failure>>

NoData == <<None, NoBuffer>>

\* The memory bindDrawSurface and bindReadSurface hand to the rasterizer.
Data(s, buffer) == IF s \in WindowSurfaces THEN <<WindowOf[s], buffer>> ELSE <<s, 0>>

Init ==
  /\ cx = [c \in Contexts |-> [life |-> "absent", is_current |-> FALSE, draw |-> None,
                               read |-> None, color |-> NoData, readb |-> NoData]]
  /\ sf = [s \in Surfaces |-> [life |-> "absent", ctx |-> None, buffer |-> NoBuffer]]
  /\ \E garbage \in {NoBuffer} \union (IF "stale_front" \in May THEN Buffers ELSE {}) :
       fb = [w \in Windows |-> NewFramebuffer(garbage)]
  /\ current = [t \in Threads |-> None]
  /\ call = [t \in Threads |-> None]
  /\ failure = "none"

LiveContext(c) == c # None /\ cx[c].life = "live"
LiveSurface(s) == s # None /\ sf[s].life = "live"

\* A thread may enter EGL: it is not inside, and nor is any other unless the
\* clients race.
MayEnter(t) == /\ failure = "none" /\ call[t] = None
               /\ "race" \in May \/ \A u \in Threads : call[u] = None
-----------------------------------------------------------------------------
(* What happens to surfaces and windows.  m is a record with the fields    *)
(* sf, fb and bad; once bad is set nothing more happens.                   *)

Memory == [sf |-> sf, fb |-> fb, bad |-> "none"]

\* disconnect: a window surface queues its buffer, which queueBuffer
\* dereferences; other surfaces do nothing.
Disconnect(m, s) ==
  CASE m.bad # "none" \/ s = None   -> m
    [] s # None /\ m.sf[s].life = "freed" -> [m EXCEPT !.bad = "use_after_free"]
    [] s \in Pbuffers /\ m.sf[s].life = "live" -> m
    [] OTHER ->
         IF m.sf[s].buffer = NoBuffer THEN [m EXCEPT !.bad = "null_buffer"]
         ELSE [m EXCEPT !.fb[WindowOf[s]] = queueBuffer(@, m.sf[s].buffer),
                        !.sf[s].buffer = NoBuffer]

\* What connect and swapBuffers do with the window: take its next buffer, and
\* wait until that is not on the screen.
Dequeue(m, s) ==
  LET d == dequeueBuffer(m.fb[WindowOf[s]])
  IN  IF DequeueWaits(m.fb[WindowOf[s]]) THEN [m EXCEPT !.bad = "hang"]
      ELSE [m EXCEPT !.fb[WindowOf[s]] = d.fb, !.sf[s].buffer = d.buffer]
Lock(m, s) ==
  IF m.bad = "none" /\ LockWaits(m.fb[WindowOf[s]], m.sf[s].buffer)
  THEN [m EXCEPT !.bad = "hang"] ELSE m

\* connect, up to the allocation of the depth buffer and beyond it.
ConnectFails(m, s) == IF m.bad # "none" THEN m ELSE Dequeue(m, s)
Connect(m, s) ==
  IF m.bad # "none" \/ s \notin WindowSurfaces THEN m ELSE Lock(Dequeue(m, s), s)

\* bindDrawSurface and bindReadSurface dereference the buffer of a window
\* surface.
Bind(m, s) ==
  IF m.bad = "none" /\ s \in WindowSurfaces /\ m.sf[s].buffer = NoBuffer
  THEN [m EXCEPT !.bad = "null_buffer"] ELSE m

SetCtx(m, s, c) ==
  CASE m.bad # "none" \/ s = None -> m
    [] m.bad = "none" /\ s # None -> IF m.sf[s].life = "freed"
                                    THEN [m EXCEPT !.bad = "use_after_free"]
                                    ELSE [m EXCEPT !.sf[s].ctx = c]

\* makeCurrent clears the flag of the context the thread had, if it lives.
Leave(c) == IF c # None /\ cx[c].life = "freed"
            THEN [Memory EXCEPT !.bad = "use_after_free"] ELSE Memory

Store(m) == sf' = m.sf /\ fb' = m.fb /\ failure' = m.bad
-----------------------------------------------------------------------------
\* createWindowSurface and createPbufferSurface.
CreateSurface(t, s) ==
  /\ MayEnter(t)
  /\ sf[s].life = "absent"
  /\ s \in WindowSurfaces /\ "share_window" \notin May =>                \* client
       \A x \in WindowSurfaces : WindowOf[x] = WindowOf[s] => ~LiveSurface(x)
  /\ sf' = [sf EXCEPT ![s].life = "live"]
  /\ UNCHANGED <<cx, fb, current, call, failure>>

\* A bound surface is disconnected first; the contexts that point to it are
\* not told.  The destructor of a surface that still has a buffer calls a
\* decRef that was never set.
eglDestroySurface(t, s) ==
  /\ MayEnter(t) /\ LiveSurface(s)
  /\ "destroy_bound" \notin May =>                                       \* client
       \A c \in Contexts : LiveContext(c) => s \notin {cx[c].draw, cx[c].read}
  /\ LET m == IF sf[s].ctx # None THEN SetCtx(Disconnect(Memory, s), s, None) ELSE Memory
         d == IF m.bad = "none" /\ m.sf[s].buffer # NoBuffer
              THEN [m EXCEPT !.bad = "null_call"] ELSE m
     IN  Store([d EXCEPT !.sf[s].life = "freed"])
  /\ UNCHANGED <<cx, current, call>>

eglCreateContext(t, c) ==
  /\ MayEnter(t)
  /\ cx[c].life = "absent"
  /\ cx' = [cx EXCEPT ![c].life = "live"]
  /\ UNCHANGED <<sf, fb, current, call, failure>>

\* The value of the calling thread is cleared, whoever the context is current
\* to; the surfaces bound to the context are not told.
eglDestroyContext(t, c) ==
  /\ MayEnter(t) /\ LiveContext(c)
  /\ "destroy_context" \notin May =>                                     \* client
       ~cx[c].is_current /\ cx[c].draw = None /\ cx[c].read = None
  /\ current' = IF cx[c].is_current THEN [current EXCEPT ![t] = None] ELSE current
  /\ cx' = [cx EXCEPT ![c].life = "freed"]
  /\ UNCHANGED <<sf, fb, call, failure>>
-----------------------------------------------------------------------------
\* eglMakeCurrent up to the tests of makeCurrent: the surfaces are not bound
\* to another context, and the context is not current to another thread.
MakeCurrentCheck(t, draw, read, ctx) ==
  /\ MayEnter(t)
  /\ draw # None => LiveSurface(draw)
  /\ read # None => LiveSurface(read)
  /\ (draw = None /\ read = None) <=> ctx = None
  /\ ctx # None => /\ LiveContext(ctx)                                   \* client
                   /\ draw # None => sf[draw].ctx \in {None, ctx}
                   /\ read # None => sf[read].ctx \in {None, ctx}
                   /\ cx[ctx].is_current => current[t] = ctx
                   /\ "switch_draw" \notin May =>                        \* client
                        cx[ctx].draw \in {None, draw} /\ cx[ctx].read \in {None, read}
                   /\ "read_window" \notin May =>                        \* client
                        read \in Pbuffers \union {None, draw}
  /\ call' = [call EXCEPT ![t] = [draw |-> draw, read |-> read, ctx |-> ctx,
                                  claim |-> ctx = None \/ ~cx[ctx].is_current]]
  /\ UNCHANGED <<cx, sf, fb, current, failure>>

\* Mutant: the context that was current keeps its flag.
Flags_keepsOld(t, ctx, claim) ==
  [c \in Contexts |-> (claim /\ c = ctx) \/ cx[c].is_current]

\* makeCurrent: what becomes of the flags.  The context that was current to
\* this thread loses its flag, the new one gets it.
Flags(t, ctx, claim) ==
  [c \in Contexts |->
     IF claim /\ c = ctx THEN TRUE
     ELSE IF claim /\ c = current[t] THEN FALSE
     ELSE cx[c].is_current]

\* The rest of eglMakeCurrent with a context: makeCurrent's assignments, then
\* the old draw surface is disconnected and the new surfaces are connected and
\* bound.
MakeCurrentBind(t, draw, read, ctx) ==
  LET claim == call[t].claim
      old   == Disconnect(IF claim THEN Leave(current[t]) ELSE Memory, cx[ctx].draw)
      drawn == Bind(SetCtx(Connect(old, draw), draw, ctx), draw)
      done  == Bind(SetCtx(drawn, read, ctx), read)
  IN  /\ current' = IF claim THEN [current EXCEPT ![t] = ctx] ELSE current
      /\ cx' = [c \in Contexts |-> [cx[c] EXCEPT
           !.is_current = Flags(t, ctx, claim)[c],
           !.draw = IF c = ctx THEN draw ELSE @,
           !.read = IF c = ctx THEN read ELSE @,
           !.color = IF c = ctx /\ draw # None THEN Data(draw, done.sf[draw].buffer) ELSE @,
           !.readb = IF c = ctx /\ read # None THEN Data(read, done.sf[read].buffer) ELSE @]]
      /\ Store(done)

\* The same when the depth buffer cannot be allocated: eglMakeCurrent answers
\* EGL_FALSE, the context is current and has its surfaces, but the surfaces do
\* not know it.  Plain clients stop there.
MakeCurrentBindFails(t, draw, read, ctx) ==
  LET claim == call[t].claim
      old   == Disconnect(IF claim THEN Leave(current[t]) ELSE Memory, cx[ctx].draw)
  IN  /\ draw \in WindowSurfaces
      /\ current' = IF claim THEN [current EXCEPT ![t] = ctx] ELSE current
      /\ cx' = [c \in Contexts |-> [cx[c] EXCEPT
           !.is_current = Flags(t, ctx, claim)[c],
           !.draw = IF c = ctx THEN draw ELSE @,
           !.read = IF c = ctx THEN read ELSE @]]
      /\ LET m == ConnectFails(old, draw)
         IN  Store(IF m.bad = "none" /\ "carry_on" \notin May
                   THEN [m EXCEPT !.bad = "bad_alloc"] ELSE m)

\* Mutant: the surfaces of the context that is detached keep their ctx.
MakeCurrentDetach_keepsCtx(t) ==
  LET old == current[t]
      m   == IF old = None THEN Memory ELSE Disconnect(Memory, cx[old].draw)
  IN  /\ current' = [current EXCEPT ![t] = None]
      /\ cx' = [c \in Contexts |-> IF c = old
                  THEN [cx[c] EXCEPT !.is_current = FALSE, !.draw = None, !.read = None]
                  ELSE cx[c]]
      /\ Store(m)

\* The rest of eglMakeCurrent without a context: the thread's context is
\* detached and its surfaces are unbound.
MakeCurrentDetach(t) ==
  LET old  == current[t]
      draw == IF old = None THEN None ELSE cx[old].draw
      read == IF old = None THEN None ELSE cx[old].read
      m    == SetCtx(Disconnect(SetCtx(Leave(old), draw, None), draw), read, None)
  IN  /\ current' = [current EXCEPT ![t] = None]
      /\ cx' = [c \in Contexts |-> IF c = old
                  THEN [cx[c] EXCEPT !.is_current = FALSE, !.draw = None, !.read = None]
                  ELSE cx[c]]
      /\ Store(m)

eglMakeCurrent(t) ==
  /\ failure = "none" /\ call[t] # None
  /\ LET draw == call[t].draw
         read == call[t].read
         ctx  == call[t].ctx
     IN  \/ ctx = None /\ MakeCurrentDetach(t)
         \/ ctx # None /\ MakeCurrentBind(t, draw, read, ctx)
         \/ ctx # None /\ MakeCurrentBindFails(t, draw, read, ctx)
  /\ call' = [call EXCEPT ![t] = None]
-----------------------------------------------------------------------------
\* Mutant: the context keeps the buffer that was just queued.
eglSwapBuffers_noRebind(t, s) ==
  /\ MayEnter(t) /\ LiveSurface(s) /\ s \in WindowSurfaces
  /\ sf[s].buffer # NoBuffer
  /\ Store(Lock(Dequeue([Memory EXCEPT !.fb[WindowOf[s]] =
                           queueBuffer(@, sf[s].buffer)], s), s))
  /\ UNCHANGED <<cx, current, call>>

\* The context draws to the memory, and reads from it if it reads from s.
Rebound(c, s, data) ==
  [cx EXCEPT ![c].color = data, ![c].readb = IF cx[c].read = s THEN data ELSE @]

\* swapBuffers queues the buffer and dequeues the next one (a surface without
\* a buffer only reports an error); then, whatever swapBuffers answered, the
\* context the surface is bound to gets the new buffer.
eglSwapBuffers(t, s) ==
  LET c == sf[s].ctx
      m == IF s \in Pbuffers \/ sf[s].buffer = NoBuffer THEN Memory
           ELSE Lock(Dequeue([Memory EXCEPT !.fb[WindowOf[s]] =
                                queueBuffer(@, sf[s].buffer)], s), s)
      b == IF c = None \/ m.bad # "none" THEN m
           ELSE IF cx[c].life = "freed" THEN [m EXCEPT !.bad = "use_after_free"]
           ELSE Bind(m, s)
  IN  /\ MayEnter(t) /\ LiveSurface(s)
      /\ "swap_read" \notin May /\ c # None => cx[c].draw = s                \* client
      /\ Store(b)
      /\ cx' = IF c = None \/ b.bad # "none" THEN cx
               ELSE Rebound(c, s, Data(s, b.sf[s].buffer))
      /\ UNCHANGED <<current, call>>

Next ==
  \E t \in Threads :
    \/ \E s \in Surfaces : CreateSurface(t, s) \/ eglDestroySurface(t, s) \/ eglSwapBuffers(t, s)
    \/ \E c \in Contexts : eglCreateContext(t, c) \/ eglDestroyContext(t, c)
    \/ \E d, r \in Surfaces \union {None}, c \in Contexts \union {None} :
         MakeCurrentCheck(t, d, r, c)
    \/ eglMakeCurrent(t)

Spec == Init /\ [][Next]_vars
-----------------------------------------------------------------------------
Binds(c, s) == LiveContext(c) /\ s \in {cx[c].draw, cx[c].read}

\* No call dereferences a null or freed object or waits for ever.
NoFailure == failure \in {"none", "bad_alloc"}

\* The surface's link to its context and the context's links to its surfaces
\* say the same, which is what eglMakeCurrent's refusal of a surface that "is
\* bound to a context in another thread" relies on.
BindingsAgree ==
  failure = "none" => \A s \in Surfaces : LiveSurface(s) =>
    /\ \A c \in Contexts : sf[s].ctx = c <=> Binds(c, s)
    /\ s \in WindowSurfaces => (sf[s].buffer # NoBuffer <=> \E c \in Contexts :
                                   LiveContext(c) /\ cx[c].draw = s)

\* Every buffer of a window is free or belongs to one surface, and a surface
\* never draws into the buffer on the screen.
BuffersAccounted ==
  \A w \in Windows :
    LET users == {s \in WindowSurfaces : WindowOf[s] = w /\ sf[s].buffer # NoBuffer}
    IN  /\ fb[w].free + Cardinality(users) = NumBuffers
        /\ \A s \in users : fb[w].front # sf[s].buffer
        /\ \A s, x \in users : sf[s].buffer = sf[x].buffer => s = x

\* The rasterizer of a context draws into the buffer its draw surface has
\* dequeued, and reads from that of its read surface, across every swap.
RasterizerFollowsSurface ==
  failure = "none" => \A c \in Contexts : LiveContext(c) =>
    /\ cx[c].draw # None => cx[c].color = Data(cx[c].draw, sf[cx[c].draw].buffer)
    /\ cx[c].read # None => cx[c].readb = Data(cx[c].read, sf[cx[c].read].buffer)

\* "It is an error to set a context current, if it's already current to
\* another thread": no two threads have the same context, and the flag that
\* guards it is set exactly for the contexts some thread has.
ContextOnOneThread ==
  /\ \A t, u \in Threads : current[t] # None /\ current[t] = current[u] => t = u
  /\ \A c \in Contexts : LiveContext(c) =>
       (cx[c].is_current <=> \E t \in Threads : current[t] = c)
=============================================================================
