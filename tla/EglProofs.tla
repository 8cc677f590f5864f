----------------------------- MODULE EglProofs -----------------------------
(***************************************************************************)
(* A context is current to one thread, for any numbers of threads,         *)
(* contexts and surfaces and whatever else clients do, as long as they     *)
(* enter EGL one at a time and destroy no context that is in use.  What    *)
(* eglMakeCurrent tested before it changes anything must still be so when  *)
(* it does: that is the part of the invariant about the call under way.    *)
(*                                                                         *)
(* Under plain use more is true: no call fails, links and rasterizers      *)
(* agree with the surfaces, and the buffers of every window are accounted  *)
(* for.  A window is then idle or in the hands of one surface, and what    *)
(* its ring looks like in each case is the part that makes dequeueBuffer   *)
(* and lockBuffer return.                                                  *)
(***************************************************************************)
EXTENDS Egl, FiniteSetTheorems, TLAPS

Record(c) ==
  [life |-> cx[c].life, is_current |-> cx[c].is_current, draw |-> cx[c].draw,
   read |-> cx[c].read, color |-> cx[c].color, readb |-> cx[c].readb]

Types ==
  /\ cx = [c \in Contexts |-> Record(c)]
  /\ \A c \in Contexts : cx[c].is_current \in BOOLEAN
  /\ current \in [Threads -> Contexts \union {None}]
  /\ call = [t \in Threads |-> call[t]]

\* One call of eglMakeCurrent is under way at most.
OneCall == \A t, u \in Threads : call[t] # None /\ call[u] # None => t = u

\* What it found still holds.
Checked(t) ==
  LET c == call[t].ctx
  IN  c # None =>
        /\ c \in Contexts /\ LiveContext(c)
        /\ call[t].claim <=> ~cx[c].is_current
        /\ ~call[t].claim => current[t] = c

\* The contexts threads have are alive, marked, and each has one thread.
Marked ==
  /\ \A t \in Threads : current[t] # None =>
       LiveContext(current[t]) /\ cx[current[t]].is_current
  /\ \A c \in Contexts : cx[c].is_current => \E t \in Threads : current[t] = c
  /\ \A t, u \in Threads : current[t] # None /\ current[t] = current[u] => t = u

IInv == /\ Types /\ OneCall /\ Marked
        /\ \A t \in Threads : call[t] # None => Checked(t)

\* Clients enter one at a time and leave contexts in use alone.
Disciplined == "race" \notin May /\ "destroy_context" \notin May
-----------------------------------------------------------------------------
\* What calls that touch neither life, flag nor the threads' values change is
\* of no consequence.
LEMMA OthersKeepIInv ==
  ASSUME IInv, UNCHANGED <<current, call>>, cx' = [c \in Contexts |-> Record(c)'],
         \A c \in Contexts : cx'[c].life = cx[c].life /\ cx'[c].is_current = cx[c].is_current
  PROVE  IInv'
<1> USE EglAssumption
<1>1. Types' /\ OneCall'
  BY DEF IInv, Types, OneCall
<1>2. Marked'
  <2>1. \A t \in Threads : current[t] # None => current[t] \in Contexts
    BY DEF IInv, Types
  <2>2. \A t \in Threads : current'[t] # None =>
          cx'[current'[t]].life = "live" /\ cx'[current'[t]].is_current
    BY <2>1 DEF IInv, Marked, LiveContext
  <2>3. \A c \in Contexts : cx'[c].is_current => \E t \in Threads : current'[t] = c
    BY DEF IInv, Marked
  <2>4. \A t, u \in Threads : current'[t] # None /\ current'[t] = current'[u] => t = u
    BY DEF IInv, Marked
  <2> QED BY <2>2, <2>3, <2>4 DEF Marked, LiveContext
<1>3. ASSUME NEW t \in Threads, call'[t] # None PROVE Checked(t)'
  BY <1>3 DEF IInv, Checked, LiveContext
<1> QED BY <1>1, <1>2, <1>3 DEF IInv

\* eglSwapBuffers gives the context another buffer.
LEMMA SwapKeepsIInv ==
  ASSUME IInv, NEW t \in Threads, NEW s \in Surfaces, eglSwapBuffers(t, s)
  PROVE  IInv'
<1>1. UNCHANGED <<current, call>>
  BY DEF eglSwapBuffers
<1>2. \/ cx' = cx
      \/ \E d : cx' = Rebound(sf[s].ctx, s, d)
  BY DEF eglSwapBuffers
<1>3. CASE cx' = cx
  BY <1>1, <1>3, OthersKeepIInv DEF IInv, Types, Record
<1>4. CASE \E d : cx' = Rebound(sf[s].ctx, s, d)
  <2>1. PICK d : cx' = Rebound(sf[s].ctx, s, d)
    BY <1>4
  <2>2. ASSUME NEW c \in Contexts
        PROVE  /\ cx'[c] = Record(c)'
               /\ cx'[c].life = cx[c].life /\ cx'[c].is_current = cx[c].is_current
    <3>1. cx[c] = Record(c)
      BY DEF IInv, Types
    <3>2. CASE c = sf[s].ctx
      <4>1. cx'[c] = [[cx[c] EXCEPT !.color = d] EXCEPT !.readb =
                        IF cx[c].read = s THEN d ELSE @]
        BY <2>1, <3>2 DEF IInv, Types, Rebound
      <4> QED BY <3>1, <4>1 DEF Record
    <3>3. CASE c # sf[s].ctx
      <4>1. cx'[c] = cx[c]
        BY <2>1, <3>3 DEF IInv, Types, Rebound
      <4> QED BY <3>1, <4>1 DEF Record
    <3> QED BY <3>2, <3>3
  <2>3. cx' = [c \in Contexts |-> Record(c)']
    BY <2>1, <2>2 DEF IInv, Types, Rebound
  <2> QED BY <1>1, <2>2, <2>3, OthersKeepIInv
<1> QED BY <1>2, <1>3, <1>4

\* The end of eglMakeCurrent with a context, whether or not the allocation
\* failed: nobody had a context that was not marked, and the one the thread
\* leaves was its own.
LEMMA FlagsKeepMarked ==
  ASSUME IInv, NEW t \in Threads, call[t] # None, NEW ctx \in Contexts, ctx = call[t].ctx,
         current' = IF call[t].claim THEN [current EXCEPT ![t] = ctx] ELSE current,
         \A c \in Contexts : /\ cx'[c].life = cx[c].life
                             /\ cx'[c].is_current = Flags(t, ctx, call[t].claim)[c]
  PROVE  /\ Marked' /\ current' \in [Threads -> Contexts \union {None}]
         /\ \A c \in Contexts : cx'[c].is_current \in BOOLEAN
<1> USE EglAssumption
<1>1. /\ ctx # None /\ cx[ctx].life = "live"
      /\ call[t].claim <=> ~cx[ctx].is_current
      /\ ~call[t].claim => current[t] = ctx
  BY DEF IInv, Checked, LiveContext
<1>2. current \in [Threads -> Contexts \union {None}] /\ \A c \in Contexts : cx[c].is_current \in BOOLEAN
  BY DEF IInv, Types
<1>3. /\ \A u \in Threads : current[u] # None =>
            current[u] \in Contexts /\ cx[current[u]].life = "live" /\ cx[current[u]].is_current
      /\ \A c \in Contexts : cx[c].is_current => \E u \in Threads : current[u] = c
      /\ \A u, v \in Threads : current[u] # None /\ current[u] = current[v] => u = v
  BY <1>2 DEF IInv, Marked, LiveContext
<1>4. CASE ~call[t].claim
  <2>1. current' = current /\ \A c \in Contexts : cx'[c].is_current = cx[c].is_current
    BY <1>4 DEF Flags
  <2> QED BY <1>2, <1>3, <2>1 DEF Marked, LiveContext
<1>5. CASE call[t].claim
  <2>1. /\ current' = [current EXCEPT ![t] = ctx]
        /\ \A c \in Contexts : cx'[c].is_current =
              IF c = ctx THEN TRUE ELSE IF c = current[t] THEN FALSE ELSE cx[c].is_current
    BY <1>5 DEF Flags
  <2>2. ~cx[ctx].is_current
    BY <1>1, <1>5
  <2>3. \A u \in Threads : current'[u] = IF u = t THEN ctx ELSE current[u]
    BY <1>2, <2>1
  <2>4. \A u \in Threads : u # t /\ current[u] # None => current[u] # ctx /\ current[u] # current[t]
    BY <1>3, <2>2
  <2>5. \A u \in Threads : current'[u] # None =>
          cx'[current'[u]].life = "live" /\ cx'[current'[u]].is_current
    <3> SUFFICES ASSUME NEW u \in Threads, current'[u] # None
                 PROVE  cx'[current'[u]].life = "live" /\ cx'[current'[u]].is_current
      OBVIOUS
    <3>1. CASE u = t
      BY <1>1, <2>1, <2>3, <3>1, ZenonT(60)
    <3>2. CASE u # t
      <4>1. /\ current'[u] = current[u] /\ current[u] # ctx /\ current[u] # current[t]
            /\ current[u] \in Contexts /\ cx[current[u]].life = "live"
            /\ cx[current[u]].is_current
        BY <1>3, <2>3, <2>4, <3>2
      <4> QED BY <2>1, <4>1, ZenonT(60)
    <3> QED BY <3>1, <3>2
  <2>6. \A c \in Contexts : cx'[c].is_current => \E u \in Threads : current'[u] = c
    <3> SUFFICES ASSUME NEW c \in Contexts, cx'[c].is_current PROVE \E u \in Threads : current'[u] = c
      OBVIOUS
    <3>1. CASE c = ctx
      BY <2>3, <3>1
    <3>2. CASE c # ctx
      <4>1. c # current[t] /\ cx[c].is_current
        BY <2>1, <3>2
      <4>2. PICK u \in Threads : current[u] = c
        BY <1>3, <4>1
      <4> QED BY <2>3, <4>1, <4>2
    <3> QED BY <3>1, <3>2
  <2>7. \A u, v \in Threads : current'[u] # None /\ current'[u] = current'[v] => u = v
    BY <1>3, <2>3, <2>4
  <2>8. \A c \in Contexts : cx'[c].is_current \in BOOLEAN
    BY <1>2, <2>1
  <2>9. current' \in [Threads -> Contexts \union {None}]
    BY <1>2, <2>1
  <2> QED BY <2>5, <2>6, <2>7, <2>8, <2>9 DEF Marked, LiveContext
<1> QED BY <1>4, <1>5

\* Both outcomes of the second half of eglMakeCurrent with a context.
LEMMA BindKeepsIInv ==
  ASSUME IInv, NEW t \in Threads, call[t] # None, call' = [call EXCEPT ![t] = None],
         NEW draw, NEW read, NEW ctx, ctx = call[t].ctx, ctx # None,
         MakeCurrentBind(t, draw, read, ctx) \/ MakeCurrentBindFails(t, draw, read, ctx)
  PROVE  IInv'
<1> USE EglAssumption
<1>1. ctx \in Contexts
  BY DEF IInv, Checked
<1>2. current' = IF call[t].claim THEN [current EXCEPT ![t] = ctx] ELSE current
  BY DEF MakeCurrentBind, MakeCurrentBindFails
<1>3. ASSUME NEW c \in Contexts
      PROVE  /\ cx'[c] = Record(c)'
             /\ cx'[c].life = cx[c].life
             /\ cx'[c].is_current = Flags(t, ctx, call[t].claim)[c]
  <2>1. cx[c] = Record(c)
    BY DEF IInv, Types
  <2>2. CASE MakeCurrentBind(t, draw, read, ctx)
    BY <2>1, <2>2 DEF MakeCurrentBind, Record
  <2>3. CASE MakeCurrentBindFails(t, draw, read, ctx)
    BY <2>1, <2>3 DEF MakeCurrentBindFails, Record
  <2> QED BY <2>2, <2>3
<1>4. cx' = [c \in Contexts |-> Record(c)']
  <2>1. cx' = [c \in Contexts |-> cx'[c]]
    BY DEF MakeCurrentBind, MakeCurrentBindFails
  <2> QED BY <1>3, <2>1
<1>5. /\ Marked' /\ current' \in [Threads -> Contexts \union {None}]
      /\ \A c \in Contexts : cx'[c].is_current \in BOOLEAN
  BY <1>1, <1>2, <1>3, FlagsKeepMarked
<1>6. \A u \in Threads : call'[u] = None
  BY DEF IInv, Types, OneCall
<1>7. call' = [u \in Threads |-> call'[u]]
  BY DEF IInv, Types
<1> QED BY <1>4, <1>5, <1>6, <1>7 DEF IInv, Types, OneCall

\* eglMakeCurrent without a context.
LEMMA DetachKeepsIInv ==
  ASSUME IInv, NEW t \in Threads, call[t] # None, call' = [call EXCEPT ![t] = None],
         MakeCurrentDetach(t)
  PROVE  IInv'
<1> USE EglAssumption
<1>1. current' = [current EXCEPT ![t] = None]
  BY DEF MakeCurrentDetach
<1>2. ASSUME NEW c \in Contexts
      PROVE  /\ cx'[c] = Record(c)' /\ cx'[c].life = cx[c].life
             /\ cx'[c].is_current = IF c = current[t] THEN FALSE ELSE cx[c].is_current
  <2>1. cx[c] = Record(c)
    BY DEF IInv, Types
  <2> QED BY <2>1 DEF MakeCurrentDetach, Record
<1>3. cx' = [c \in Contexts |-> Record(c)']
  <2>1. cx' = [c \in Contexts |-> cx'[c]]
    BY DEF MakeCurrentDetach
  <2> QED BY <1>2, <2>1
<1>4. Types'
  BY <1>1, <1>2, <1>3 DEF IInv, Types
<1>5. \A u \in Threads : call'[u] = None
  BY DEF IInv, Types, OneCall
<1>6. /\ \A u \in Threads : current[u] # None =>
            current[u] \in Contexts /\ cx[current[u]].life = "live" /\ cx[current[u]].is_current
      /\ \A c \in Contexts : cx[c].is_current => \E u \in Threads : current[u] = c
      /\ \A u, v \in Threads : current[u] # None /\ current[u] = current[v] => u = v
  BY DEF IInv, Types, Marked, LiveContext
<1>7. \A u \in Threads : current'[u] = IF u = t THEN None ELSE current[u]
  BY <1>1 DEF IInv, Types
<1>8. \A u \in Threads : current'[u] # None =>
        cx'[current'[u]].life = "live" /\ cx'[current'[u]].is_current
  <2> SUFFICES ASSUME NEW u \in Threads, current'[u] # None
               PROVE  cx'[current'[u]].life = "live" /\ cx'[current'[u]].is_current
    OBVIOUS
  <2>1. current'[u] = current[u] /\ current[u] \in Contexts /\ current[u] # current[t]
    BY <1>6, <1>7
  <2>2. /\ cx'[current[u]].life = cx[current[u]].life
        /\ cx'[current[u]].is_current = cx[current[u]].is_current
    BY <1>2, <2>1
  <2>3. cx[current[u]].life = "live" /\ cx[current[u]].is_current
    BY <1>6, <2>1
  <2> QED BY <2>1, <2>2, <2>3
<1>9. \A c \in Contexts : cx'[c].is_current => \E u \in Threads : current'[u] = c
  <2> SUFFICES ASSUME NEW c \in Contexts, cx'[c].is_current PROVE \E u \in Threads : current'[u] = c
    OBVIOUS
  <2>1. c # current[t] /\ cx[c].is_current
    BY <1>2
  <2>2. PICK u \in Threads : current[u] = c
    BY <1>6, <2>1
  <2> QED BY <1>7, <2>1, <2>2
<1>10. \A u, v \in Threads : current'[u] # None /\ current'[u] = current'[v] => u = v
  BY <1>6, <1>7
<1>11. Marked'
  BY <1>8, <1>9, <1>10 DEF Marked, LiveContext
<1> QED BY <1>4, <1>5, <1>11 DEF IInv, OneCall

\* The tests of eglMakeCurrent, with nobody else inside.
LEMMA CheckKeepsIInv ==
  ASSUME Disciplined, IInv, NEW t \in Threads, NEW draw, NEW read,
         NEW ctx \in Contexts \union {None}, MakeCurrentCheck(t, draw, read, ctx)
  PROVE  IInv'
<1> USE EglAssumption
<1>1. \A u \in Threads : call[u] = None
  BY DEF MakeCurrentCheck, MayEnter, Disciplined
<1>2. UNCHANGED <<cx, current>>
  BY DEF MakeCurrentCheck
<1>3. call' = [call EXCEPT ![t] = [draw |-> draw, read |-> read, ctx |-> ctx,
                                    claim |-> ctx = None \/ ~cx[ctx].is_current]]
  BY DEF MakeCurrentCheck
<1>4. /\ call'[t].ctx = ctx
      /\ call'[t].claim = (ctx = None \/ ~cx[ctx].is_current)
      /\ \A u \in Threads \ {t} : call'[u] = None
      /\ call' = [u \in Threads |-> call'[u]]
  BY <1>1, <1>3 DEF IInv, Types
<1>5. Checked(t)'
  <2>1. ctx # None => LiveContext(ctx) /\ (cx[ctx].is_current => current[t] = ctx)
    BY DEF MakeCurrentCheck
  <2>2. ctx # None => (call'[t].claim <=> ~cx[ctx].is_current)
    BY <1>4
  <2> QED BY <1>2, <1>4, <2>1, <2>2 DEF Checked, LiveContext
<1>6. Types'
  BY <1>2, <1>4 DEF IInv, Types, Record
<1>7. Marked'
  BY <1>2 DEF IInv, Marked, LiveContext
<1> QED BY <1>4, <1>5, <1>6, <1>7 DEF IInv, OneCall

\* eglCreateContext and eglDestroyContext change the life of a context that no
\* thread has and no call is about.
LEMMA LifeKeepsIInv ==
  ASSUME IInv, NEW d \in Contexts, NEW life, ~cx[d].is_current,
         cx' = [cx EXCEPT ![d].life = life], UNCHANGED <<current, call>>,
         \A t \in Threads : call[t] = None
  PROVE  IInv'
<1> USE EglAssumption
<1>1. ASSUME NEW c \in Contexts
      PROVE  /\ cx'[c] = Record(c)' /\ cx'[c].is_current = cx[c].is_current
             /\ c # d => cx'[c].life = cx[c].life
  <2>1. cx[c] = Record(c) /\ cx'[c] = IF c = d THEN [cx[c] EXCEPT !.life = life] ELSE cx[c]
    BY DEF IInv, Types
  <2> QED BY <2>1 DEF Record
<1>2. cx' = [c \in Contexts |-> Record(c)']
  <2>1. cx' = [c \in Contexts |-> cx'[c]]
    BY DEF IInv, Types
  <2> QED BY <1>1, <2>1
<1>3. Types'
  BY <1>1, <1>2 DEF IInv, Types
<1>4. \A u \in Threads : current[u] # None =>
        current[u] \in Contexts /\ cx[current[u]].life = "live" /\ cx[current[u]].is_current
  <2>1. \A u \in Threads : current[u] \in Contexts \union {None}
    BY DEF IInv, Types
  <2> QED BY <2>1 DEF IInv, Marked, LiveContext
<1>5. \A u \in Threads : current[u] # None =>
        cx'[current[u]].life = "live" /\ cx'[current[u]].is_current
  <2> SUFFICES ASSUME NEW u \in Threads, current[u] # None
               PROVE  cx'[current[u]].life = "live" /\ cx'[current[u]].is_current
    OBVIOUS
  <2>1. current[u] \in Contexts /\ current[u] # d /\ cx[current[u]].life = "live"
        /\ cx[current[u]].is_current
    BY <1>4
  <2>2. /\ cx'[current[u]].life = cx[current[u]].life
        /\ cx'[current[u]].is_current = cx[current[u]].is_current
    BY <1>1, <2>1
  <2> QED BY <2>1, <2>2
<1>6. Marked'
  <2>1. \A c \in Contexts : cx'[c].is_current => \E u \in Threads : current[u] = c
    BY <1>1 DEF IInv, Marked
  <2>2. \A u, v \in Threads : current[u] # None /\ current[u] = current[v] => u = v
    BY DEF IInv, Marked
  <2> QED BY <1>5, <2>1, <2>2 DEF Marked, LiveContext
<1> QED BY <1>3, <1>6 DEF IInv, OneCall
-----------------------------------------------------------------------------
LEMMA InitIInv == Init => IInv
<1> USE EglAssumption
<1> SUFFICES ASSUME Init PROVE IInv
  OBVIOUS
<1>1. Types
  BY DEF Init, Types, Record
<1>2. \A c \in Contexts : ~cx[c].is_current
  BY DEF Init
<1>3. \A t \in Threads : call[t] = None /\ current[t] = None
  BY DEF Init
<1> QED BY <1>1, <1>2, <1>3 DEF IInv, OneCall, Marked

LEMMA NextIInv == Disciplined /\ IInv /\ [Next]_vars => IInv'
<1> USE EglAssumption
<1> SUFFICES ASSUME Disciplined, IInv, [Next]_vars PROVE IInv'
  OBVIOUS
<1>1. CASE UNCHANGED <<cx, current, call>>
  BY <1>1, OthersKeepIInv DEF IInv, Types, Record
<1>2. ASSUME NEW t \in Threads, NEW s \in Surfaces,
             CreateSurface(t, s) \/ eglDestroySurface(t, s)
      PROVE  IInv'
  BY <1>1, <1>2 DEF CreateSurface, eglDestroySurface
<1>3. ASSUME NEW t \in Threads, NEW s \in Surfaces, eglSwapBuffers(t, s) PROVE IInv'
  BY <1>3, SwapKeepsIInv
<1>4. ASSUME NEW t \in Threads, NEW c \in Contexts, eglCreateContext(t, c) PROVE IInv'
  <2>1. \A u \in Threads : call[u] = None
    BY <1>4 DEF eglCreateContext, MayEnter, Disciplined
  <2>2. ~cx[c].is_current
    <3> SUFFICES ASSUME cx[c].is_current PROVE FALSE
      OBVIOUS
    <3>1. PICK u \in Threads : current[u] = c
      BY DEF IInv, Marked
    <3>2. cx[c].life = "live"
      BY <3>1 DEF IInv, Marked, LiveContext
    <3> QED BY <1>4, <3>2 DEF eglCreateContext
  <2> QED BY <1>4, <2>1, <2>2, LifeKeepsIInv DEF eglCreateContext
<1>5. ASSUME NEW t \in Threads, NEW c \in Contexts, eglDestroyContext(t, c) PROVE IInv'
  <2>1. \A u \in Threads : call[u] = None
    BY <1>5 DEF eglDestroyContext, MayEnter, Disciplined
  <2>2. ~cx[c].is_current
    BY <1>5 DEF eglDestroyContext, Disciplined
  <2>3. cx' = [cx EXCEPT ![c].life = "freed"] /\ current' = current /\ call' = call
    BY <1>5, <2>2 DEF eglDestroyContext
  <2> QED BY <2>1, <2>2, <2>3, LifeKeepsIInv
<1>6. ASSUME NEW t \in Threads, NEW d \in Surfaces \union {None}, NEW r \in Surfaces \union {None},
             NEW c \in Contexts \union {None}, MakeCurrentCheck(t, d, r, c)
      PROVE  IInv'
  BY <1>6, CheckKeepsIInv
<1>7. ASSUME NEW t \in Threads, eglMakeCurrent(t) PROVE IInv'
  <2>1. call[t] # None /\ call' = [call EXCEPT ![t] = None]
    BY <1>7 DEF eglMakeCurrent
  <2>2. CASE MakeCurrentDetach(t)
    BY <2>1, <2>2, DetachKeepsIInv
  <2>3. CASE /\ call[t].ctx # None
             /\ \/ MakeCurrentBind(t, call[t].draw, call[t].read, call[t].ctx)
                \/ MakeCurrentBindFails(t, call[t].draw, call[t].read, call[t].ctx)
    BY <2>1, <2>3, BindKeepsIInv
  <2> QED BY <1>7, <2>2, <2>3 DEF eglMakeCurrent
<1> QED BY <1>1, <1>2, <1>3, <1>4, <1>5, <1>6, <1>7 DEF Next, vars

\* The invariant holds at first and every call keeps it.
THEOREM Invariance == Disciplined /\ Spec => []IInv
<1> SUFFICES ASSUME Disciplined PROVE Spec => []IInv
  OBVIOUS
<1>1. IInv /\ [Next]_vars => IInv'
  BY NextIInv
<1> QED BY InitIInv, <1>1, PTL DEF Spec

\* "It is an error to set a context current, if it's already current to another
\* thread": no context is ever current to two, and the flag tells which are.
THEOREM OneThreadPerContext == Disciplined /\ Spec => []ContextOnOneThread
<1>1. IInv => ContextOnOneThread
  <2> SUFFICES ASSUME IInv PROVE ContextOnOneThread
    OBVIOUS
  <2>1. \A t \in Threads : current[t] # None => cx[current[t]].is_current
    BY DEF IInv, Marked
  <2>2. \A c \in Contexts : cx[c].is_current <=> \E t \in Threads : current[t] = c
    BY <2>1, EglAssumption DEF IInv, Marked
  <2> QED BY <2>2 DEF IInv, Marked, ContextOnOneThread
<1> QED BY <1>1, Invariance, PTL
-----------------------------------------------------------------------------
(* Plain use.  The ring of a window is idle, or one surface has a buffer.  *)

Rings  == [head : Buffers, free : Int, front : Buffers \union {NoBuffer}]
Idle(f) == f \in Rings /\ f.free = NumBuffers /\ f.front # f.head
Busy(f, b) ==
  /\ f \in Rings /\ b \in Buffers
  /\ f.free = NumBuffers - 1 /\ f.front # b
  /\ f.head = IF b + 1 >= NumBuffers THEN 0 ELSE b + 1

SurfaceTable == [Surfaces -> [life : {"absent", "live", "freed"}, ctx : Contexts \union {None},
                              buffer : Buffers \union {NoBuffer}]]

\* Only live window surfaces have buffers, and a window has one of these.
Buffered(g) == \A s \in Surfaces : g[s].buffer # NoBuffer => s \in WindowSurfaces /\ g[s].life = "live"
Apart(g) == \A s, x \in WindowSurfaces :
  g[s].life = "live" /\ g[x].life = "live" /\ WindowOf[s] = WindowOf[x] => s = x

RingsAgree(g, f) ==
  /\ f \in [Windows -> Rings]
  /\ \A w \in Windows :
       (\A s \in WindowSurfaces : WindowOf[s] = w => g[s].buffer = NoBuffer) => Idle(f[w])
  /\ \A s \in WindowSurfaces : g[s].buffer # NoBuffer => Busy(f[WindowOf[s]], g[s].buffer)

\* A state of surfaces and windows in which nothing has gone wrong.
Sane(m) ==
  /\ m \in [sf : SurfaceTable, fb : [Windows -> Rings], bad : {"none"}]
  /\ Buffered(m.sf) /\ Apart(m.sf) /\ RingsAgree(m.sf, m.fb)

\* The links between contexts and surfaces.
Links ==
  /\ \A s \in Surfaces : sf[s].life # "live" => sf[s].ctx = None
  /\ \A c \in Contexts : cx[c].life # "live" => cx[c].draw = None /\ cx[c].read = None
  /\ \A s \in Surfaces, c \in Contexts : sf[s].ctx = c <=> s \in {cx[c].draw, cx[c].read}
  /\ \A s \in WindowSurfaces : sf[s].buffer # NoBuffer <=> \E c \in Contexts : cx[c].draw = s
  /\ \A c \in Contexts : cx[c].read \in WindowSurfaces => cx[c].draw = cx[c].read

\* What eglMakeCurrent found of the surfaces still holds.
Found(t) ==
  LET k == call[t]
  IN  /\ k.draw \in Surfaces \union {None} /\ k.read \in Surfaces \union {None}
      /\ k.ctx # None =>
           /\ \A s \in {k.draw, k.read} \ {None} : sf[s].life = "live" /\ sf[s].ctx \in {None, k.ctx}
           /\ cx[k.ctx].draw \in {None, k.draw} /\ cx[k.ctx].read \in {None, k.read}
           /\ k.read \in Pbuffers \union {None, k.draw}

Bound == \A c \in Contexts : /\ cx[c].draw \in Surfaces \union {None}
                             /\ cx[c].read \in Surfaces \union {None}

\* What holds besides: no call fails, and until an allocation does the links and
\* the rasterizers are right.
Orderly ==
  /\ NoFailure /\ Sane(Memory) /\ Bound
  /\ failure = "none" =>
       /\ Links /\ RasterizerFollowsSurface
       /\ \A t \in Threads : call[t] # None => Found(t)

PlainInv == IInv /\ Orderly

PlainUse == May = {}

\* A buffer that is queued leaves the ring idle, and the next one is not on the
\* screen.
LEMMA QueueRing ==
  ASSUME NEW f, NEW b, Busy(f, b)
  PROVE  Idle(queueBuffer(f, b))
<1> USE NumBuffersAssumption DEF Buffers, NoBuffer
<1>1. f \in Rings /\ b \in Buffers
  BY DEF Busy
<1> DEFINE h == [head |-> f.head, free |-> f.free, front |-> b]
<1>2. [f EXCEPT !.front = b] = h
  BY <1>1 DEF Rings
<1>3. queueBuffer(f, b) = [h EXCEPT !.free = f.free + 1]
  <2> HIDE DEF h
  <2> QED BY <1>2, Zenon DEF queueBuffer
<1>4. queueBuffer(f, b) = [head |-> f.head, free |-> f.free + 1, front |-> b]
  BY <1>1, <1>3 DEF Rings
<1> QED BY <1>1, <1>4 DEF Busy, Idle, Rings

\* An idle ring gives a buffer without waiting.
LEMMA DequeueRing ==
  ASSUME NEW f, Idle(f)
  PROVE  /\ ~DequeueWaits(f) /\ dequeueBuffer(f).buffer = f.head /\ f.head \in Buffers
         /\ Busy(dequeueBuffer(f).fb, f.head) /\ ~LockWaits(dequeueBuffer(f).fb, f.head)
<1> USE NumBuffersAssumption DEF Buffers, NoBuffer
<1>1. dequeueBuffer(f).fb = [head |-> IF f.head + 1 >= NumBuffers THEN 0 ELSE f.head + 1,
                             free |-> f.free - 1, front |-> f.front]
  BY DEF Idle, Rings, dequeueBuffer, Moved
<1>2. dequeueBuffer(f).buffer = f.head
  BY DEF dequeueBuffer
<1> QED BY <1>1, <1>2 DEF Busy, Idle, Rings, DequeueWaits, LockWaits

SetBuffer(g, s, b) == [g EXCEPT ![s].buffer = b]
SetWindow(f, w, r) == [f EXCEPT ![w] = r]

LEMMA SetBufferFields ==
  ASSUME NEW g \in SurfaceTable, NEW s \in Surfaces, NEW b \in Buffers \union {NoBuffer}
  PROVE  /\ SetBuffer(g, s, b) \in SurfaceTable
         /\ \A x \in Surfaces : /\ SetBuffer(g, s, b)[x].life = g[x].life
                                /\ SetBuffer(g, s, b)[x].ctx = g[x].ctx
                                /\ SetBuffer(g, s, b)[x].buffer = IF x = s THEN b ELSE g[x].buffer
BY DEF SurfaceTable, SetBuffer

\* The surface changes its buffer together with the ring.
LEMMA RingChanged ==
  ASSUME NEW m, Sane(m), NEW s \in WindowSurfaces, m.sf[s].life = "live",
         NEW b \in Buffers \union {NoBuffer}, NEW r \in Rings,
         IF b = NoBuffer THEN Idle(r) ELSE Busy(r, b),
         NEW n, n = [sf |-> SetBuffer(m.sf, s, b), fb |-> SetWindow(m.fb, WindowOf[s], r),
                     bad |-> "none"]
  PROVE  Sane(n)
<1> USE EglAssumption DEF Surfaces
<1>1. /\ m.sf \in SurfaceTable /\ m.fb \in [Windows -> Rings] /\ Buffered(m.sf) /\ Apart(m.sf)
      /\ RingsAgree(m.sf, m.fb)
  BY DEF Sane
<1> DEFINE g == SetBuffer(m.sf, s, b)
           f == SetWindow(m.fb, WindowOf[s], r)
<1>2. n.sf = g /\ n.fb = f /\ n.bad = "none"
  OBVIOUS
<1>3. /\ g \in SurfaceTable
      /\ \A x \in Surfaces : /\ g[x].life = m.sf[x].life /\ g[x].ctx = m.sf[x].ctx
                             /\ g[x].buffer = IF x = s THEN b ELSE m.sf[x].buffer
  BY <1>1, SetBufferFields
<1>4. /\ f \in [Windows -> Rings] /\ WindowOf[s] \in Windows
      /\ \A w \in Windows : f[w] = IF w = WindowOf[s] THEN r ELSE m.fb[w]
  BY <1>1 DEF SetWindow
<1> HIDE DEF g, f
<1>5. Buffered(g)
  BY <1>1, <1>3 DEF Buffered
<1>6. Apart(g)
  BY <1>1, <1>3 DEF Apart
<1>7. \A x \in WindowSurfaces : x # s /\ WindowOf[x] = WindowOf[s] => m.sf[x].buffer = NoBuffer
  BY <1>1 DEF Buffered, Apart
<1>8. RingsAgree(g, f)
  <2>1. ASSUME NEW w \in Windows,
               \A x \in WindowSurfaces : WindowOf[x] = w => g[x].buffer = NoBuffer
        PROVE  Idle(f[w])
    <3>1. CASE w = WindowOf[s]
      BY <1>3, <1>4, <2>1, <3>1
    <3>2. CASE w # WindowOf[s]
      <4>1. \A x \in WindowSurfaces : WindowOf[x] = w => m.sf[x].buffer = NoBuffer
        BY <1>3, <2>1, <3>2
      <4> QED BY <1>1, <1>4, <3>2, <4>1 DEF RingsAgree
    <3> QED BY <3>1, <3>2
  <2>2. ASSUME NEW x \in WindowSurfaces, g[x].buffer # NoBuffer
        PROVE  Busy(f[WindowOf[x]], g[x].buffer)
    <3>1. CASE x = s
      BY <1>3, <1>4, <2>2, <3>1
    <3>2. CASE x # s
      <4>1. g[x].buffer = m.sf[x].buffer /\ WindowOf[x] # WindowOf[s] /\ WindowOf[x] \in Windows
        BY <1>3, <1>7, <2>2, <3>2
      <4> QED BY <1>1, <1>4, <2>2, <4>1 DEF RingsAgree
    <3> QED BY <3>1, <3>2
  <2> QED BY <1>4, <2>1, <2>2 DEF RingsAgree
<1> QED BY <1>2, <1>3, <1>4, <1>5, <1>6, <1>8 DEF Sane

\* queueBuffer by the surface that has the buffer.
LEMMA QueueSane ==
  ASSUME NEW m, Sane(m), NEW s \in WindowSurfaces, m.sf[s].buffer # NoBuffer
  PROVE  Sane([sf |-> SetBuffer(m.sf, s, NoBuffer),
               fb |-> SetWindow(m.fb, WindowOf[s], queueBuffer(m.fb[WindowOf[s]], m.sf[s].buffer)),
               bad |-> "none"])
<1>1. m.sf[s].life = "live" /\ Busy(m.fb[WindowOf[s]], m.sf[s].buffer)
  BY DEF Sane, Buffered, RingsAgree, Surfaces
<1>2. Idle(queueBuffer(m.fb[WindowOf[s]], m.sf[s].buffer))
  BY <1>1, QueueRing
<1>3. queueBuffer(m.fb[WindowOf[s]], m.sf[s].buffer) \in Rings
  BY <1>2 DEF Idle
<1> QED BY <1>1, <1>2, <1>3, RingChanged

\* Dequeue and Lock by a live surface that has no buffer.
LEMMA DequeueSane ==
  ASSUME NEW m, Sane(m), NEW s \in WindowSurfaces, m.sf[s].life = "live",
         m.sf[s].buffer = NoBuffer
  PROVE  /\ Sane(Dequeue(m, s)) /\ Lock(Dequeue(m, s), s) = Dequeue(m, s)
         /\ \E b \in Buffers : Dequeue(m, s).sf = SetBuffer(m.sf, s, b)
<1> USE EglAssumption
<1>1. m \in [sf : SurfaceTable, fb : [Windows -> Rings], bad : {"none"}] /\ WindowOf[s] \in Windows
  BY DEF Sane
<1>2. \A x \in WindowSurfaces : WindowOf[x] = WindowOf[s] => m.sf[x].buffer = NoBuffer
  BY DEF Sane, Buffered, Apart, Surfaces
<1>3. Idle(m.fb[WindowOf[s]])
  BY <1>1, <1>2 DEF Sane, RingsAgree
<1> DEFINE w == WindowOf[s]
           d == dequeueBuffer(m.fb[w])
<1>4. /\ ~DequeueWaits(m.fb[w]) /\ d.buffer \in Buffers /\ Busy(d.fb, d.buffer)
      /\ ~LockWaits(d.fb, d.buffer)
  BY <1>3, DequeueRing
<1>5. Dequeue(m, s) = [m EXCEPT !.fb[w] = d.fb, !.sf[s].buffer = d.buffer]
  BY <1>4 DEF Dequeue
<1> DEFINE n == [sf |-> SetBuffer(m.sf, s, d.buffer), fb |-> SetWindow(m.fb, w, d.fb), bad |-> "none"]
<1>6. Dequeue(m, s) = n
  BY <1>1, <1>5 DEF SetBuffer, SetWindow
<1>7. Sane(n)
  <2>1. d.buffer # NoBuffer /\ d.fb \in Rings
    BY <1>4, NumBuffersAssumption DEF Busy, Buffers, NoBuffer
  <2> HIDE DEF d
  <2> QED BY <1>4, <2>1, RingChanged
<1>8. n.fb[w] = d.fb /\ n.sf[s].buffer = d.buffer
  <2> HIDE DEF d
  <2>1. SetWindow(m.fb, w, d.fb)[w] = d.fb
    BY <1>1 DEF SetWindow
  <2>2. SetBuffer(m.sf, s, d.buffer)[s].buffer = d.buffer
    BY <1>1, <1>4, SetBufferFields DEF Surfaces
  <2> QED BY <2>1, <2>2
<1>9. Lock(n, s) = n
  <2>1. ~LockWaits(n.fb[w], n.sf[s].buffer)
    BY <1>4, <1>8
  <2> HIDE DEF n, d
  <2> QED BY <2>1 DEF Lock
<1>10. n.sf = SetBuffer(m.sf, s, d.buffer)
  OBVIOUS
<1> HIDE DEF n, d
<1> QED BY <1>4, <1>6, <1>7, <1>9, <1>10

\* What the steps of a call do to the surfaces: buffers change, or links do.
SameLinks(m, n) == \A x \in Surfaces : n.sf[x].life = m.sf[x].life /\ n.sf[x].ctx = m.sf[x].ctx
SameBuffers(m, n) ==
  \A x \in Surfaces : n.sf[x].life = m.sf[x].life /\ n.sf[x].buffer = m.sf[x].buffer
Given(s) == s \in Surfaces \union {None}

LEMMA DisconnectSane ==
  ASSUME NEW m, Sane(m), NEW s, Given(s),
         s # None => m.sf[s].life = "live" /\ (s \in WindowSurfaces => m.sf[s].buffer # NoBuffer)
  PROVE  /\ Sane(Disconnect(m, s)) /\ SameLinks(m, Disconnect(m, s))
         /\ \A x \in Surfaces : Disconnect(m, s).sf[x].buffer = IF x = s THEN NoBuffer
                                                                ELSE m.sf[x].buffer
<1> USE EglAssumption
<1>1. /\ m \in [sf : SurfaceTable, fb : [Windows -> Rings], bad : {"none"}]
      /\ \A x \in Surfaces : m.sf[x].buffer # NoBuffer => x \in WindowSurfaces
  BY DEF Sane, Buffered
<1>2. CASE s = None
  <2>1. Disconnect(m, s) = m
    BY <1>2 DEF Disconnect
  <2> QED BY <1>2, <2>1 DEF SameLinks
<1>3. CASE s \in Pbuffers
  <2>1. s # None /\ s \in Surfaces /\ s \notin WindowSurfaces
    BY <1>3 DEF Surfaces
  <2>2. Disconnect(m, s) = m
    BY <1>1, <1>3, <2>1 DEF Disconnect
  <2>3. m.sf[s].buffer = NoBuffer
    BY <1>1, <2>1
  <2> QED BY <2>2, <2>3 DEF SameLinks
<1>4. CASE s \in WindowSurfaces
  <2>1. s # None /\ s \in Surfaces /\ s \notin Pbuffers
    BY <1>4 DEF Surfaces
  <2>2. m.bad = "none" /\ m.sf[s].life = "live" /\ m.sf[s].buffer # NoBuffer
    BY <1>1, <1>4, <2>1
  <2>3. Disconnect(m, s) = [m EXCEPT !.fb[WindowOf[s]] = queueBuffer(@, m.sf[s].buffer),
                                     !.sf[s].buffer = NoBuffer]
    BY <2>1, <2>2 DEF Disconnect
  <2> DEFINE q == queueBuffer(m.fb[WindowOf[s]], m.sf[s].buffer)
             n == [sf |-> SetBuffer(m.sf, s, NoBuffer), fb |-> SetWindow(m.fb, WindowOf[s], q),
                   bad |-> "none"]
  <2>4. Disconnect(m, s) = n
    BY <1>1, <2>3 DEF SetBuffer, SetWindow
  <2>5. Sane(n)
    BY <1>4, <2>2, QueueSane
  <2>6. n.sf = SetBuffer(m.sf, s, NoBuffer)
    OBVIOUS
  <2> HIDE DEF n
  <2>7. /\ \A x \in Surfaces : n.sf[x].life = m.sf[x].life /\ n.sf[x].ctx = m.sf[x].ctx
        /\ \A x \in Surfaces : n.sf[x].buffer = IF x = s THEN NoBuffer ELSE m.sf[x].buffer
    BY <1>1, <2>1, <2>6, SetBufferFields
  <2> QED BY <2>4, <2>5, <2>7 DEF SameLinks
<1> QED BY <1>2, <1>3, <1>4 DEF Given, Surfaces

\* Taking a buffer, with or without the wait for the screen.
LEMMA TakeSane ==
  ASSUME NEW m, Sane(m), NEW s \in WindowSurfaces, m.sf[s].life = "live", m.sf[s].buffer = NoBuffer
  PROVE  /\ Sane(Dequeue(m, s)) /\ SameLinks(m, Dequeue(m, s))
         /\ Dequeue(m, s).sf[s].buffer # NoBuffer
         /\ \A x \in Surfaces \ {s} : Dequeue(m, s).sf[x].buffer = m.sf[x].buffer
<1>1. m.sf \in SurfaceTable /\ s \in Surfaces
  BY DEF Sane, Surfaces
<1>2. PICK b \in Buffers : Dequeue(m, s).sf = SetBuffer(m.sf, s, b)
  BY DequeueSane
<1>3. b # NoBuffer
  BY NumBuffersAssumption DEF Buffers, NoBuffer
<1>4. Sane(Dequeue(m, s))
  BY DequeueSane
<1>5. /\ \A x \in Surfaces : SetBuffer(m.sf, s, b)[x].life = m.sf[x].life /\ SetBuffer(m.sf, s, b)[x].ctx = m.sf[x].ctx
      /\ \A x \in Surfaces : SetBuffer(m.sf, s, b)[x].buffer = IF x = s THEN b ELSE m.sf[x].buffer
  BY <1>1, SetBufferFields
<1> QED BY <1>1, <1>2, <1>3, <1>4, <1>5 DEF SameLinks

LEMMA ConnectSane ==
  ASSUME NEW m, Sane(m), NEW s, Given(s),
         s # None => m.sf[s].life = "live" /\ m.sf[s].buffer = NoBuffer
  PROVE  /\ Sane(Connect(m, s)) /\ SameLinks(m, Connect(m, s))
         /\ s \in WindowSurfaces => Connect(m, s).sf[s].buffer # NoBuffer
         /\ \A x \in Surfaces \ {s} : Connect(m, s).sf[x].buffer = m.sf[x].buffer
<1> USE EglAssumption
<1>1. m.bad = "none"
  BY DEF Sane
<1>2. CASE s \notin WindowSurfaces
  <2>1. Connect(m, s) = m
    BY <1>2 DEF Connect
  <2> QED BY <1>2, <2>1 DEF SameLinks
<1>3. CASE s \in WindowSurfaces
  <2>1. s # None
    BY <1>3 DEF Surfaces
  <2>2. Connect(m, s) = Lock(Dequeue(m, s), s)
    BY <1>1, <1>3 DEF Connect
  <2>3. Connect(m, s) = Dequeue(m, s)
    BY <1>3, <2>1, <2>2, DequeueSane
  <2> QED BY <1>3, <2>1, <2>3, TakeSane
<1> QED BY <1>2, <1>3

SetLink(g, s, c) == [g EXCEPT ![s].ctx = c]

LEMMA SetLinkFields ==
  ASSUME NEW g \in SurfaceTable, NEW s \in Surfaces, NEW c \in Contexts \union {None}
  PROVE  /\ SetLink(g, s, c) \in SurfaceTable
         /\ \A x \in Surfaces : /\ SetLink(g, s, c)[x].life = g[x].life
                                /\ SetLink(g, s, c)[x].buffer = g[x].buffer
                                /\ SetLink(g, s, c)[x].ctx = IF x = s THEN c ELSE g[x].ctx
BY DEF SurfaceTable, SetLink

\* Links do not matter to the windows.
LEMMA SaneLinks ==
  ASSUME NEW m, Sane(m), NEW n, n \in [sf : SurfaceTable, fb : [Windows -> Rings], bad : {"none"}],
         n.fb = m.fb, SameBuffers(m, n)
  PROVE  Sane(n)
<1> USE DEF Surfaces
<1>1. Buffered(n.sf) /\ Apart(n.sf)
  BY DEF Sane, SameBuffers, Buffered, Apart
<1>2. RingsAgree(m.sf, m.fb) /\ \A x \in WindowSurfaces : n.sf[x].buffer = m.sf[x].buffer
  BY DEF Sane, SameBuffers
<1>3. RingsAgree(n.sf, n.fb)
  BY ONLY <1>2, n.fb = m.fb DEF RingsAgree
<1> QED BY <1>1, <1>3 DEF Sane

LEMMA SetCtxSane ==
  ASSUME NEW m, Sane(m), NEW s, Given(s), s # None => m.sf[s].life = "live",
         NEW c \in Contexts \union {None}
  PROVE  /\ Sane(SetCtx(m, s, c)) /\ SameBuffers(m, SetCtx(m, s, c))
         /\ \A x \in Surfaces : SetCtx(m, s, c).sf[x].ctx = IF x = s THEN c ELSE m.sf[x].ctx
<1> USE EglAssumption
<1>1. m \in [sf : SurfaceTable, fb : [Windows -> Rings], bad : {"none"}]
  BY DEF Sane
<1>2. CASE s = None
  <2>1. SetCtx(m, s, c) = m
    BY <1>2 DEF SetCtx
  <2> QED BY <1>2, <2>1 DEF SameBuffers
<1>3. CASE s # None
  <2>1. s \in Surfaces /\ m.sf[s].life = "live" /\ m.bad = "none"
    BY <1>1, <1>3 DEF Given
  <2>2. SetCtx(m, s, c) = [m EXCEPT !.sf[s].ctx = c]
    BY <1>3, <2>1 DEF SetCtx
  <2> DEFINE n == [sf |-> SetLink(m.sf, s, c), fb |-> m.fb, bad |-> "none"]
  <2>3. SetCtx(m, s, c) = n
    BY <1>1, <2>2 DEF SetLink
  <2>4. n.sf = SetLink(m.sf, s, c) /\ n.fb = m.fb
    OBVIOUS
  <2>5. SetLink(m.sf, s, c) \in SurfaceTable
    BY <1>1, <2>1, SetLinkFields
  <2>6. n \in [sf : SurfaceTable, fb : [Windows -> Rings], bad : {"none"}]
    BY <1>1, <2>5
  <2> HIDE DEF n
  <2>7. /\ \A x \in Surfaces : n.sf[x].life = m.sf[x].life /\ n.sf[x].buffer = m.sf[x].buffer
        /\ \A x \in Surfaces : n.sf[x].ctx = IF x = s THEN c ELSE m.sf[x].ctx
    BY <1>1, <2>1, <2>4, SetLinkFields
  <2>8. SameBuffers(m, n)
    BY <2>7 DEF SameBuffers
  <2>9. Sane(n)
    BY <2>4, <2>6, <2>8, SaneLinks
  <2> QED BY <2>3, <2>7, <2>8, <2>9
<1> QED BY <1>2, <1>3

LEMMA BindSane ==
  ASSUME NEW m, NEW s, s \in WindowSurfaces => m.sf[s].buffer # NoBuffer
  PROVE  Bind(m, s) = m
BY DEF Bind

-----------------------------------------------------------------------------
(* The calls under plain use.                                              *)

\* The links, as the steps below use them.
LEMMA LinkFacts ==
  ASSUME PlainInv, failure = "none"
  PROVE  /\ \A c \in Contexts, s \in Surfaces : s \in {cx[c].draw, cx[c].read} =>
              sf[s].ctx = c /\ sf[s].life = "live" /\ cx[c].life = "live"
         /\ \A s \in Surfaces : sf[s].ctx \in Contexts \union {None}
         /\ \A s \in Surfaces, c \in Contexts : sf[s].ctx = c => s \in {cx[c].draw, cx[c].read}
         /\ \A s \in Surfaces : s \notin WindowSurfaces => sf[s].buffer = NoBuffer
         /\ \A s \in Surfaces, c \in Contexts : sf[s].buffer # NoBuffer /\ sf[s].ctx = c => cx[c].draw = s
         /\ \A s \in Surfaces : sf[s].buffer # NoBuffer => sf[s].ctx \in Contexts
         /\ \A c \in Contexts : cx[c].draw \in WindowSurfaces => sf[cx[c].draw].buffer # NoBuffer
         /\ \A c \in Contexts : cx[c].read \in WindowSurfaces => cx[c].draw = cx[c].read
<1> USE EglAssumption
<1>1. Links /\ Bound /\ Sane(Memory)
  BY DEF PlainInv, Orderly
<1>2. sf \in SurfaceTable /\ Buffered(sf)
  BY <1>1 DEF Sane, Memory
<1>3. \A c \in Contexts, s \in Surfaces : s \in {cx[c].draw, cx[c].read} =>
        sf[s].ctx = c /\ sf[s].life = "live" /\ cx[c].life = "live"
  BY <1>1 DEF Links
<1>4. \A s \in Surfaces : sf[s].ctx \in Contexts \union {None}
  BY <1>2 DEF SurfaceTable
<1>5. \A s \in Surfaces : s \notin WindowSurfaces => sf[s].buffer = NoBuffer
  BY <1>2 DEF Buffered
<1>6. \A s \in Surfaces : sf[s].buffer # NoBuffer => \E c \in Contexts : cx[c].draw = s
  BY <1>1, <1>5 DEF Links
<1>7. \A s \in Surfaces : sf[s].buffer # NoBuffer => sf[s].ctx \in Contexts /\ cx[sf[s].ctx].draw = s
  BY <1>3, <1>6
<1> QED BY <1>1, <1>3, <1>4, <1>5, <1>7 DEF Links

\* Nobody else is inside when a thread enters.
LEMMA EnterAlone ==
  ASSUME PlainUse, NEW t \in Threads, MayEnter(t)
  PROVE  failure = "none" /\ \A u \in Threads : call[u] = None
BY DEF MayEnter, PlainUse

LEMMA StoreSane ==
  ASSUME NEW m, Sane(m), Store(m)
  PROVE  Sane(Memory)' /\ failure' = "none" /\ sf' = m.sf
<1>1. m \in [sf : SurfaceTable, fb : [Windows -> Rings], bad : {"none"}]
  BY DEF Sane
<1>2. m = [sf |-> m.sf, fb |-> m.fb, bad |-> "none"] /\ m.bad = "none"
  BY <1>1
<1>3. m = Memory' /\ failure' = "none" /\ sf' = m.sf
  BY <1>2 DEF Store, Memory
<1> QED BY <1>3, Sane(m) DEF Sane, Memory

\* The old draw surface is disconnected without failure.
LEMMA OldDisconnects ==
  ASSUME PlainInv, failure = "none", NEW c \in Contexts
  PROVE  LET n == Disconnect(Memory, cx[c].draw)
         IN  /\ Sane(n) /\ SameLinks(Memory, n)
             /\ \A x \in Surfaces : n.sf[x].buffer = IF x = cx[c].draw THEN NoBuffer ELSE sf[x].buffer
<1> USE EglAssumption
<1>1. Sane(Memory) /\ Memory.sf = sf /\ Given(cx[c].draw)
  BY DEF PlainInv, Orderly, Memory, Bound, Given
<1>2. cx[c].draw # None => /\ Memory.sf[cx[c].draw].life = "live"
                           /\ cx[c].draw \in WindowSurfaces => Memory.sf[cx[c].draw].buffer # NoBuffer
  BY <1>1, LinkFacts DEF Given
<1> QED BY <1>1, <1>2, DisconnectSane

\* Leaving the thread's context is safe: it is alive.
LEMMA LeaveSafe ==
  ASSUME PlainInv, NEW t \in Threads
  PROVE  Leave(current[t]) = Memory
BY DEF PlainInv, IInv, Marked, LiveContext, Leave

\* old is the state of now with the old drawing surface disconnected.
Taken(old, draw, read, ctx) ==
  /\ ctx \in Contexts /\ Given(draw) /\ Given(read) /\ Sane(old) /\ SameLinks(Memory, old)
  /\ draw # None => old.sf[draw].life = "live" /\ old.sf[draw].buffer = NoBuffer
  /\ read # None => old.sf[read].life = "live"
  /\ \A x \in Surfaces \ {draw} : old.sf[x].buffer = sf[x].buffer

\* What eglMakeCurrent does to the surfaces, first up to the new buffer.
LEMMA BindTakes ==
  ASSUME PlainInv, failure = "none", NEW t \in Threads, call[t] # None,
         NEW draw, NEW read, NEW ctx, draw = call[t].draw, read = call[t].read, ctx = call[t].ctx,
         ctx # None,
         NEW old, old = Disconnect(Memory, cx[ctx].draw)
  PROVE  Taken(old, draw, read, ctx)
<1> USE EglAssumption
<1>1. ctx \in Contexts /\ Found(t)
  BY DEF PlainInv, IInv, Checked, Orderly
<1>2. Given(draw) /\ Given(read)
  BY <1>1 DEF Found, Given
<1>3. /\ Sane(old) /\ SameLinks(Memory, old)
      /\ \A x \in Surfaces : old.sf[x].buffer = IF x = cx[ctx].draw THEN NoBuffer ELSE sf[x].buffer
  BY <1>1, OldDisconnects
<1>4. \A x \in Surfaces : old.sf[x].life = sf[x].life
  BY <1>3 DEF SameLinks, Memory
<1>5. /\ draw # None => sf[draw].life = "live" /\ sf[draw].ctx \in {None, ctx}
      /\ read # None => sf[read].life = "live"
      /\ cx[ctx].draw \in {None, draw}
  BY <1>1 DEF Found
<1>6. ASSUME draw # None PROVE old.sf[draw].buffer = NoBuffer
  <2>1. draw \in Surfaces
    BY <1>2, <1>6 DEF Given
  <2>2. sf[draw].buffer # NoBuffer => cx[ctx].draw = draw
    BY <1>1, <1>5, <1>6, <2>1, LinkFacts
  <2> QED BY <1>3, <2>1, <2>2
<1>7. \A x \in Surfaces \ {draw} : old.sf[x].buffer = sf[x].buffer
  BY <1>3, <1>5
<1>8. /\ draw # None => draw \in Surfaces
      /\ read # None => read \in Surfaces
  BY <1>2 DEF Given
<1>9. /\ draw # None => old.sf[draw].life = "live"
      /\ read # None => old.sf[read].life = "live"
  BY ONLY <1>4, <1>5, <1>8
<1> QED BY ONLY <1>1, <1>2, <1>3, <1>6, <1>7, <1>9 DEF Taken

\* done is the state of now with the new surfaces connected and linked.
Connected(done, draw, read, ctx) ==
  /\ Sane(done)
  /\ \A x \in Surfaces :
       /\ done.sf[x].life = sf[x].life
       /\ done.sf[x].ctx = IF x \in {draw, read} THEN ctx ELSE sf[x].ctx
       /\ x # draw => done.sf[x].buffer = sf[x].buffer
  /\ draw \in WindowSurfaces => done.sf[draw].buffer # NoBuffer

LEMMA BindEffect ==
  ASSUME PlainInv, failure = "none", NEW t \in Threads, call[t] # None,
         NEW draw, NEW read, NEW ctx, draw = call[t].draw, read = call[t].read, ctx = call[t].ctx,
         ctx # None,
         NEW old, old = Disconnect(Memory, cx[ctx].draw),
         NEW drawn, drawn = Bind(SetCtx(Connect(old, draw), draw, ctx), draw),
         NEW done, done = Bind(SetCtx(drawn, read, ctx), read)
  PROVE  Connected(done, draw, read, ctx)
<1> USE EglAssumption
<1>1. /\ ctx \in Contexts /\ Given(draw) /\ Given(read) /\ Sane(old) /\ SameLinks(Memory, old)
      /\ draw # None => old.sf[draw].life = "live" /\ old.sf[draw].buffer = NoBuffer
      /\ read # None => old.sf[read].life = "live"
      /\ \A x \in Surfaces \ {draw} : old.sf[x].buffer = sf[x].buffer
  <2>1. Taken(old, draw, read, ctx)
    BY ONLY BindTakes, PlainInv, failure = "none", t \in Threads, call[t] # None,
            draw = call[t].draw, read = call[t].read, ctx = call[t].ctx, ctx # None,
            old = Disconnect(Memory, cx[ctx].draw)
  <2> QED BY ONLY <2>1 DEF Taken
<1>2. read \in Pbuffers \union {None, draw}
  BY DEF PlainInv, Orderly, Found
<1> DEFINE con == Connect(old, draw)
           set == SetCtx(con, draw, ctx)
           all == SetCtx(drawn, read, ctx)
<1>3. /\ Sane(con) /\ SameLinks(old, con)
      /\ draw \in WindowSurfaces => con.sf[draw].buffer # NoBuffer
      /\ \A x \in Surfaces \ {draw} : con.sf[x].buffer = old.sf[x].buffer
  BY ONLY <1>1, ConnectSane, Zenon
<1> HIDE DEF con
<1>4. draw # None => con.sf[draw].life = "live"
  BY <1>1, <1>3 DEF SameLinks, Given
<1>5. /\ Sane(set) /\ SameBuffers(con, set)
      /\ \A x \in Surfaces : set.sf[x].ctx = IF x = draw THEN ctx ELSE con.sf[x].ctx
  <2>1. ctx \in Contexts \union {None} /\ Given(draw) /\ Sane(con)
    BY <1>1, <1>3
  <2> QED BY ONLY <1>4, <2>1, SetCtxSane
<1>6. drawn = Bind(set, draw)
  BY DEF con, set
<1> HIDE DEF set
<1>7. draw \in WindowSurfaces => set.sf[draw].buffer # NoBuffer
  BY ONLY <1>3, <1>5 DEF SameBuffers, Surfaces
<1>8. drawn = set
  BY ONLY <1>1, <1>6, <1>7, BindSane
<1>9. read # None => drawn.sf[read].life = "live"
  <2>1. SUFFICES ASSUME read # None PROVE drawn.sf[read].life = "live"
    OBVIOUS
  <2>2. read \in Surfaces /\ old.sf[read].life = "live"
    BY ONLY <1>1, <2>1 DEF Given
  <2>3. con.sf[read].life = old.sf[read].life
    BY ONLY <1>3, <2>2 DEF SameLinks
  <2>4. set.sf[read].life = con.sf[read].life
    BY ONLY <1>5, <2>2 DEF SameBuffers
  <2> QED BY ONLY <1>8, <2>2, <2>3, <2>4
<1>10. /\ Sane(all) /\ SameBuffers(drawn, all)
       /\ \A x \in Surfaces : all.sf[x].ctx = IF x = read THEN ctx ELSE drawn.sf[x].ctx
  <2>1. ctx \in Contexts \union {None} /\ Given(read) /\ Sane(drawn)
    BY ONLY <1>1, <1>5, <1>8
  <2> QED BY ONLY <1>9, <2>1, SetCtxSane
<1>11. done = Bind(all, read)
  OBVIOUS
<1> HIDE DEF all
<1>12. read \in WindowSurfaces => read = draw
  BY <1>2, EglAssumption DEF Surfaces
<1>13. read \in WindowSurfaces => all.sf[read].buffer # NoBuffer
  BY ONLY <1>7, <1>8, <1>10, <1>12 DEF SameBuffers, Surfaces
<1>14. done = all
  BY ONLY <1>1, <1>11, <1>13, BindSane
<1>15. draw \in WindowSurfaces => done.sf[draw].buffer # NoBuffer
  BY ONLY <1>7, <1>8, <1>10, <1>14 DEF SameBuffers, Surfaces
<1>16. ASSUME NEW x \in Surfaces
       PROVE  /\ done.sf[x].life = sf[x].life
              /\ done.sf[x].ctx = IF x \in {draw, read} THEN ctx ELSE sf[x].ctx
              /\ x # draw => done.sf[x].buffer = sf[x].buffer
  <2>1. done.sf[x].life = drawn.sf[x].life /\ done.sf[x].buffer = drawn.sf[x].buffer
    BY ONLY <1>10, <1>14, <1>16 DEF SameBuffers
  <2>2. drawn.sf[x].life = con.sf[x].life /\ drawn.sf[x].buffer = con.sf[x].buffer
    BY ONLY <1>5, <1>8, <1>16 DEF SameBuffers
  <2>3. con.sf[x].life = old.sf[x].life /\ con.sf[x].ctx = old.sf[x].ctx
    BY ONLY <1>3, <1>16 DEF SameLinks
  <2>4. old.sf[x].life = sf[x].life /\ old.sf[x].ctx = sf[x].ctx
    BY ONLY <1>1, <1>16 DEF SameLinks, Memory
  <2>5. done.sf[x].ctx = IF x \in {draw, read} THEN ctx ELSE sf[x].ctx
    BY ONLY <1>5, <1>8, <1>10, <1>14, <1>16, <2>3, <2>4
  <2>6. x # draw => con.sf[x].buffer = sf[x].buffer
    BY ONLY <1>1, <1>3, <1>16
  <2> QED BY ONLY <2>1, <2>2, <2>3, <2>4, <2>5, <2>6
<1> QED BY <1>10, <1>14, <1>15, <1>16 DEF Connected

\* What it does to the contexts.
LEMMA BindContexts ==
  ASSUME PlainInv, failure = "none", NEW t \in Threads, call[t] # None,
         NEW draw, NEW read, NEW ctx, draw = call[t].draw, read = call[t].read, ctx = call[t].ctx,
         ctx # None, MakeCurrentBind(t, draw, read, ctx)
  PROVE  /\ Sane(Memory)' /\ failure' = "none"
         /\ \A x \in Surfaces :
              /\ sf'[x].life = sf[x].life
              /\ sf'[x].ctx = IF x \in {draw, read} THEN ctx ELSE sf[x].ctx
              /\ x # draw => sf'[x].buffer = sf[x].buffer
         /\ draw \in WindowSurfaces => sf'[draw].buffer # NoBuffer
         /\ \A c \in Contexts :
              /\ cx'[c].life = cx[c].life
              /\ cx'[c].draw = IF c = ctx THEN draw ELSE cx[c].draw
              /\ cx'[c].read = IF c = ctx THEN read ELSE cx[c].read
              /\ cx'[c].color = IF c = ctx /\ draw # None THEN Data(draw, sf'[draw].buffer) ELSE cx[c].color
              /\ cx'[c].readb = IF c = ctx /\ read # None THEN Data(read, sf'[read].buffer) ELSE cx[c].readb
<1> DEFINE old   == Disconnect(Memory, cx[ctx].draw)
           drawn == Bind(SetCtx(Connect(old, draw), draw, ctx), draw)
           done  == Bind(SetCtx(drawn, read, ctx), read)
<1>1. (IF call[t].claim THEN Leave(current[t]) ELSE Memory) = Memory
  BY LeaveSafe
<1>2. /\ Store(done)
      /\ cx' = [c \in Contexts |-> [cx[c] EXCEPT
           !.is_current = Flags(t, ctx, call[t].claim)[c],
           !.draw = IF c = ctx THEN draw ELSE @,
           !.read = IF c = ctx THEN read ELSE @,
           !.color = IF c = ctx /\ draw # None THEN Data(draw, done.sf[draw].buffer) ELSE @,
           !.readb = IF c = ctx /\ read # None THEN Data(read, done.sf[read].buffer) ELSE @]]
  BY <1>1, ZenonT(60) DEF MakeCurrentBind
<1>3. Connected(done, draw, read, ctx)
  <2> HIDE DEF done, drawn, old
  <2>1. old = Disconnect(Memory, cx[ctx].draw)
    BY DEF old
  <2>2. drawn = Bind(SetCtx(Connect(old, draw), draw, ctx), draw)
    BY DEF drawn
  <2>3. done = Bind(SetCtx(drawn, read, ctx), read)
    BY DEF done
  <2> QED
    BY ONLY <2>1, <2>2, <2>3, BindEffect, PlainInv, failure = "none", t \in Threads, call[t] # None,
            draw = call[t].draw, read = call[t].read, ctx = call[t].ctx, ctx # None
<1> HIDE DEF done
<1>4. Sane(Memory)' /\ failure' = "none" /\ sf' = done.sf
  BY <1>2, <1>3, StoreSane DEF Connected
<1>5. ASSUME NEW c \in Contexts
      PROVE  /\ cx'[c].life = cx[c].life
             /\ cx'[c].draw = IF c = ctx THEN draw ELSE cx[c].draw
             /\ cx'[c].read = IF c = ctx THEN read ELSE cx[c].read
             /\ cx'[c].color = IF c = ctx /\ draw # None THEN Data(draw, sf'[draw].buffer) ELSE cx[c].color
             /\ cx'[c].readb = IF c = ctx /\ read # None THEN Data(read, sf'[read].buffer) ELSE cx[c].readb
  <2>1. cx[c] = Record(c)
    BY DEF PlainInv, IInv, Types
  <2>2. done.sf = sf'
    BY <1>4
  <2> QED BY ONLY <1>2, <2>1, <2>2, c \in Contexts DEF Record
<1> QED BY <1>3, <1>4, <1>5 DEF Connected

LEMMA BindOrderly ==
  ASSUME PlainInv, failure = "none", NEW t \in Threads, call[t] # None,
         NEW draw, NEW read, NEW ctx, draw = call[t].draw, read = call[t].read, ctx = call[t].ctx,
         ctx # None, MakeCurrentBind(t, draw, read, ctx), call' = [call EXCEPT ![t] = None]
  PROVE  Orderly'
<1> USE EglAssumption
<1>1. ctx \in Contexts /\ Found(t) /\ cx[ctx].life = "live"
  BY DEF PlainInv, IInv, Checked, Orderly, LiveContext
<1>2. /\ Given(draw) /\ Given(read)
      /\ draw # None => sf[draw].life = "live" /\ sf[draw].ctx \in {None, ctx}
      /\ read # None => sf[read].life = "live" /\ sf[read].ctx \in {None, ctx}
      /\ cx[ctx].draw \in {None, draw} /\ cx[ctx].read \in {None, read}
      /\ read \in WindowSurfaces => read = draw
  BY <1>1 DEF Found, Given, Surfaces
<1>3. /\ Sane(Memory)' /\ failure' = "none"
      /\ \A x \in Surfaces :
           /\ sf'[x].life = sf[x].life
           /\ sf'[x].ctx = IF x \in {draw, read} THEN ctx ELSE sf[x].ctx
           /\ x # draw => sf'[x].buffer = sf[x].buffer
      /\ draw \in WindowSurfaces => sf'[draw].buffer # NoBuffer
      /\ \A c \in Contexts :
           /\ cx'[c].life = cx[c].life
           /\ cx'[c].draw = IF c = ctx THEN draw ELSE cx[c].draw
           /\ cx'[c].read = IF c = ctx THEN read ELSE cx[c].read
           /\ cx'[c].color = IF c = ctx /\ draw # None THEN Data(draw, sf'[draw].buffer) ELSE cx[c].color
           /\ cx'[c].readb = IF c = ctx /\ read # None THEN Data(read, sf'[read].buffer) ELSE cx[c].readb
  BY BindContexts
<1>4. /\ \A c \in Contexts, s \in Surfaces : s \in {cx[c].draw, cx[c].read} =>
           sf[s].ctx = c /\ sf[s].life = "live" /\ cx[c].life = "live"
      /\ \A s \in Surfaces, c \in Contexts : sf[s].ctx = c => s \in {cx[c].draw, cx[c].read}
      /\ \A c \in Contexts : cx[c].read \in WindowSurfaces => cx[c].draw = cx[c].read
      /\ Bound /\ Links /\ RasterizerFollowsSurface
  BY LinkFacts DEF PlainInv, Orderly
<1>5. Bound'
  BY <1>2, <1>3, <1>4 DEF Bound, Given
<1>6. ASSUME NEW s \in Surfaces, NEW c \in Contexts
      PROVE  sf'[s].ctx = c <=> s \in {cx'[c].draw, cx'[c].read}
  <2>1. CASE c = ctx
    BY <1>2, <1>3, <1>4, <2>1 DEF Given
  <2>2. CASE c # ctx
    <3>1. cx'[c].draw = cx[c].draw /\ cx'[c].read = cx[c].read
      BY <1>3, <2>2
    <3>2. s \in {cx[c].draw, cx[c].read} <=> sf[s].ctx = c
      BY <1>4
    <3>3. sf[s].ctx = c => s \notin {draw, read}
      BY <1>2, <2>2
    <3> QED BY <1>3, <2>2, <3>1, <3>2, <3>3
  <2> QED BY <2>1, <2>2
<1>7. ASSUME NEW s \in WindowSurfaces
      PROVE  sf'[s].buffer # NoBuffer <=> \E c \in Contexts : cx'[c].draw = s
  <2>1. s \in Surfaces /\ s # None
    BY DEF Surfaces
  <2>2. CASE s = draw
    BY <1>1, <1>3, <2>2
  <2>3. CASE s # draw
    <3>1. sf'[s].buffer = sf[s].buffer
      BY <1>3, <2>1, <2>3
    <3>2. \A c \in Contexts : cx'[c].draw = s <=> cx[c].draw = s
      BY <1>2, <1>3, <2>1, <2>3
    <3> QED BY <1>4, <3>1, <3>2 DEF Links
  <2> QED BY <2>2, <2>3
<1>8. Links'
  <2>1. \A s \in Surfaces : sf'[s].life # "live" => sf'[s].ctx = None
    BY <1>2, <1>3, <1>4 DEF Links
  <2>2. \A c \in Contexts : cx'[c].life # "live" => cx'[c].draw = None /\ cx'[c].read = None
    BY <1>1, <1>3, <1>4 DEF Links
  <2>3. \A c \in Contexts : cx'[c].read \in WindowSurfaces => cx'[c].draw = cx'[c].read
    BY <1>2, <1>3, <1>4
  <2> QED BY <1>6, <1>7, <2>1, <2>2, <2>3 DEF Links
<1>9. RasterizerFollowsSurface'
  <2>1. ASSUME NEW c \in Contexts, cx'[c].life = "live"
        PROVE  /\ cx'[c].draw # None => cx'[c].color = Data(cx'[c].draw, sf'[cx'[c].draw].buffer)
               /\ cx'[c].read # None => cx'[c].readb = Data(cx'[c].read, sf'[cx'[c].read].buffer)
    <3>1. CASE c = ctx
      BY <1>3, <3>1
    <3>2. CASE c # ctx
      <4>1. /\ cx'[c].draw = cx[c].draw /\ cx'[c].read = cx[c].read /\ cx[c].life = "live"
            /\ cx'[c].color = cx[c].color /\ cx'[c].readb = cx[c].readb
        BY <1>3, <2>1, <3>2
      <4>2. \A s \in {cx[c].draw, cx[c].read} \ {None} : s \in Surfaces /\ s # draw
        <5>1. \A s \in {cx[c].draw, cx[c].read} \ {None} : s \in Surfaces
          BY <1>4 DEF Bound
        <5> QED BY <1>2, <1>4, <3>2, <5>1
      <4>3. \A s \in {cx[c].draw, cx[c].read} \ {None} : sf'[s].buffer = sf[s].buffer
        BY <1>3, <4>2
      <4>4. /\ cx[c].draw # None => cx[c].color = Data(cx[c].draw, sf[cx[c].draw].buffer)
            /\ cx[c].read # None => cx[c].readb = Data(cx[c].read, sf[cx[c].read].buffer)
        BY <1>4, <4>1, EglAssumption DEF RasterizerFollowsSurface, LiveContext
      <4> QED BY <4>1, <4>3, <4>4
    <3> QED BY <3>1, <3>2
  <2> QED BY <2>1 DEF RasterizerFollowsSurface, LiveContext
<1>10. \A u \in Threads : call'[u] = None
  BY DEF PlainInv, IInv, Types, OneCall
<1> QED BY <1>3, <1>5, <1>8, <1>9, <1>10 DEF Orderly, NoFailure

\* The allocation of the depth buffer fails: the buffer was taken all the same.
LEMMA BindFailsOrderly ==
  ASSUME PlainUse, PlainInv, failure = "none", NEW t \in Threads, call[t] # None,
         NEW draw, NEW read, NEW ctx, draw = call[t].draw, read = call[t].read, ctx = call[t].ctx,
         ctx # None, MakeCurrentBindFails(t, draw, read, ctx)
  PROVE  Orderly'
<1> USE EglAssumption
<1> DEFINE old == Disconnect(Memory, cx[ctx].draw)
           m   == ConnectFails(old, draw)
<1>1. (IF call[t].claim THEN Leave(current[t]) ELSE Memory) = Memory
  BY LeaveSafe
<1>2. /\ draw \in WindowSurfaces
      /\ Store(IF m.bad = "none" /\ "carry_on" \notin May THEN [m EXCEPT !.bad = "bad_alloc"] ELSE m)
  BY <1>1 DEF MakeCurrentBindFails
<1>3. cx' = [c \in Contexts |-> [cx[c] EXCEPT
           !.is_current = Flags(t, ctx, call[t].claim)[c],
           !.draw = IF c = ctx THEN draw ELSE @,
           !.read = IF c = ctx THEN read ELSE @]]
  BY DEF MakeCurrentBindFails
<1>4. /\ ctx \in Contexts /\ Given(draw) /\ Given(read) /\ Sane(old)
      /\ draw # None => old.sf[draw].life = "live" /\ old.sf[draw].buffer = NoBuffer
  <2> HIDE DEF old
  <2>1. old = Disconnect(Memory, cx[ctx].draw)
    BY DEF old
  <2>2. Taken(old, draw, read, ctx)
    BY ONLY <2>1, BindTakes, PlainInv, failure = "none", t \in Threads, call[t] # None,
            draw = call[t].draw, read = call[t].read, ctx = call[t].ctx, ctx # None
  <2> QED BY ONLY <2>2 DEF Taken
<1>5. draw # None /\ old.bad = "none"
  BY <1>2, <1>4 DEF Surfaces, Sane
<1>6. m = Dequeue(old, draw)
  BY <1>5 DEF ConnectFails
<1> HIDE DEF m, old
<1>7. Sane(m)
  BY <1>2, <1>4, <1>5, <1>6, TakeSane
<1>8. m \in [sf : SurfaceTable, fb : [Windows -> Rings], bad : {"none"}]
  BY <1>7 DEF Sane
<1>9. Store([m EXCEPT !.bad = "bad_alloc"])
  BY <1>2, <1>8 DEF PlainUse
<1>10. sf' = m.sf /\ fb' = m.fb /\ failure' = "bad_alloc"
  <2>1. [m EXCEPT !.bad = "bad_alloc"] = [sf |-> m.sf, fb |-> m.fb, bad |-> "bad_alloc"]
    BY <1>8
  <2> QED BY <1>9, <2>1 DEF Store
<1>11. Sane(Memory)'
  <2>1. m = [sf |-> m.sf, fb |-> m.fb, bad |-> "none"]
    BY <1>8
  <2>2. Memory' = m
    BY <1>10, <2>1 DEF Memory
  <2> QED BY <1>7, <2>2 DEF Sane, Memory
<1>12. Bound'
  <2>1. ASSUME NEW c \in Contexts
        PROVE  /\ cx'[c].draw = IF c = ctx THEN draw ELSE cx[c].draw
               /\ cx'[c].read = IF c = ctx THEN read ELSE cx[c].read
    <3>1. cx[c] = Record(c)
      BY DEF PlainInv, IInv, Types
    <3> QED BY ONLY <1>3, <3>1, c \in Contexts DEF Record
  <2> QED BY <1>4, <2>1 DEF PlainInv, Orderly, Bound, Given
<1> QED BY <1>10, <1>11, <1>12 DEF Orderly, NoFailure

\* Detaching a thread that has a context.
LEMMA DetachEffect ==
  ASSUME PlainInv, failure = "none", NEW old \in Contexts,
         NEW m, m = SetCtx(Disconnect(SetCtx(Memory, cx[old].draw, None), cx[old].draw), cx[old].read, None)
  PROVE  /\ Sane(m)
         /\ \A x \in Surfaces :
              /\ m.sf[x].life = sf[x].life
              /\ m.sf[x].ctx = IF x \in {cx[old].draw, cx[old].read} THEN None ELSE sf[x].ctx
              /\ m.sf[x].buffer = IF x = cx[old].draw THEN NoBuffer ELSE sf[x].buffer
<1> USE EglAssumption
<1> DEFINE draw == cx[old].draw
           read == cx[old].read
           m1 == SetCtx(Memory, draw, None)
           m2 == Disconnect(m1, draw)
<1>1. Sane(Memory) /\ Memory.sf = sf /\ Given(draw) /\ Given(read)
  BY DEF PlainInv, Orderly, Memory, Bound, Given
<1>2. /\ draw # None => sf[draw].life = "live" /\ (draw \in WindowSurfaces => sf[draw].buffer # NoBuffer)
      /\ read # None => sf[read].life = "live"
  BY <1>1, LinkFacts DEF Given
<1>3. m = SetCtx(m2, read, None)
  OBVIOUS
<1> HIDE DEF draw, read
<1>4. /\ Sane(m1) /\ SameBuffers(Memory, m1)
      /\ \A x \in Surfaces : m1.sf[x].ctx = IF x = draw THEN None ELSE Memory.sf[x].ctx
  <2>1. None \in Contexts \union {None}
    OBVIOUS
  <2>2. draw # None => Memory.sf[draw].life = "live"
    BY <1>1, <1>2
  <2>3. Sane(Memory) /\ Given(draw)
    BY <1>1
  <2> QED BY ONLY <2>1, <2>2, <2>3, SetCtxSane
<1>5. draw # None => m1.sf[draw].life = "live" /\ (draw \in WindowSurfaces => m1.sf[draw].buffer # NoBuffer)
  BY <1>1, <1>2, <1>4 DEF SameBuffers, Given
<1> HIDE DEF m1
<1>6. /\ Sane(m2) /\ SameLinks(m1, m2)
      /\ \A x \in Surfaces : m2.sf[x].buffer = IF x = draw THEN NoBuffer ELSE m1.sf[x].buffer
  <2>1. Sane(m1) /\ Given(draw)
    BY <1>1, <1>4
  <2> QED BY ONLY <1>5, <2>1, DisconnectSane
<1> HIDE DEF m2
<1>7. /\ Sane(m) /\ SameBuffers(m2, m)
      /\ \A x \in Surfaces : m.sf[x].ctx = IF x = read THEN None ELSE m2.sf[x].ctx
  <2>1. None \in Contexts \union {None}
    OBVIOUS
  <2>2. read # None => m2.sf[read].life = "live"
    BY <1>1, <1>2, <1>4, <1>6 DEF SameBuffers, SameLinks, Given
  <2>3. Sane(m2) /\ Given(read)
    BY <1>1, <1>6
  <2> QED BY ONLY <1>3, <2>1, <2>2, <2>3, SetCtxSane
<1>8. ASSUME NEW x \in Surfaces
      PROVE  /\ m.sf[x].life = sf[x].life
             /\ m.sf[x].ctx = IF x \in {draw, read} THEN None ELSE sf[x].ctx
             /\ m.sf[x].buffer = IF x = draw THEN NoBuffer ELSE sf[x].buffer
  <2>1. /\ m1.sf[x].life = sf[x].life /\ m1.sf[x].buffer = sf[x].buffer
        /\ m1.sf[x].ctx = IF x = draw THEN None ELSE sf[x].ctx
    BY <1>1, <1>4 DEF SameBuffers
  <2>2. /\ m2.sf[x].life = m1.sf[x].life /\ m2.sf[x].ctx = m1.sf[x].ctx
        /\ m2.sf[x].buffer = IF x = draw THEN NoBuffer ELSE m1.sf[x].buffer
    BY <1>6 DEF SameLinks
  <2>3. /\ m.sf[x].life = m2.sf[x].life /\ m.sf[x].buffer = m2.sf[x].buffer
        /\ m.sf[x].ctx = IF x = read THEN None ELSE m2.sf[x].ctx
    BY <1>7 DEF SameBuffers
  <2> QED BY ONLY <2>1, <2>2, <2>3
<1> QED BY <1>7, <1>8 DEF draw, read

LEMMA DetachOrderly ==
  ASSUME PlainInv, failure = "none", NEW t \in Threads, call[t] # None,
         MakeCurrentDetach(t), call' = [call EXCEPT ![t] = None]
  PROVE  Orderly'
<1> USE EglAssumption
<1>0. \A u \in Threads : call'[u] = None
  BY DEF PlainInv, IInv, Types, OneCall
<1> DEFINE old == current[t]
<1>1. old \in Contexts \union {None} /\ Leave(old) = Memory
  BY LeaveSafe DEF PlainInv, IInv, Types
<1>2. ASSUME NEW c \in Contexts
      PROVE  /\ cx'[c].life = cx[c].life /\ cx'[c].color = cx[c].color /\ cx'[c].readb = cx[c].readb
             /\ cx'[c].draw = IF c = old THEN None ELSE cx[c].draw
             /\ cx'[c].read = IF c = old THEN None ELSE cx[c].read
  <2>1. cx[c] = Record(c)
    BY DEF PlainInv, IInv, Types
  <2>2. cx' = [d \in Contexts |-> IF d = old
                  THEN [cx[d] EXCEPT !.is_current = FALSE, !.draw = None, !.read = None] ELSE cx[d]]
    BY DEF MakeCurrentDetach
  <2> QED BY ONLY <2>1, <2>2, c \in Contexts DEF Record
<1>3. /\ Bound /\ Links /\ RasterizerFollowsSurface /\ Sane(Memory)
      /\ \A c \in Contexts, s \in Surfaces : s \in {cx[c].draw, cx[c].read} =>
           sf[s].ctx = c /\ sf[s].life = "live" /\ cx[c].life = "live"
  BY LinkFacts DEF PlainInv, Orderly
<1>4. CASE old = None
  <2>1. Store(SetCtx(Disconnect(SetCtx(Memory, None, None), None), None, None))
    BY <1>1, <1>4 DEF MakeCurrentDetach
  <2>2. \A m : SetCtx(m, None, None) = m /\ Disconnect(m, None) = m
    BY DEF SetCtx, Disconnect
  <2>3. Store(Memory)
    BY ONLY <2>1, <2>2
  <2>4. Sane(Memory)' /\ failure' = "none" /\ sf' = sf
    BY <1>3, <2>3, StoreSane DEF Memory
  <2>5. \A c \in Contexts : /\ cx'[c].life = cx[c].life /\ cx'[c].draw = cx[c].draw
                            /\ cx'[c].read = cx[c].read /\ cx'[c].color = cx[c].color
                            /\ cx'[c].readb = cx[c].readb
    BY <1>2, <1>4
  <2>6. Links'
    BY <1>3, <2>4, <2>5 DEF Links
  <2>7. RasterizerFollowsSurface'
    BY <1>3, <2>4, <2>5 DEF RasterizerFollowsSurface, LiveContext
  <2>8. Bound'
    BY <1>3, <2>5 DEF Bound
  <2> QED BY <1>0, <2>4, <2>6, <2>7, <2>8 DEF Orderly, NoFailure
<1>5. CASE old # None
  <2> DEFINE m == SetCtx(Disconnect(SetCtx(Memory, cx[old].draw, None), cx[old].draw), cx[old].read, None)
  <2>1. Store(m)
    BY <1>1, <1>5 DEF MakeCurrentDetach
  <2>2. /\ Sane(m)
        /\ \A x \in Surfaces :
             /\ m.sf[x].life = sf[x].life
             /\ m.sf[x].ctx = IF x \in {cx[old].draw, cx[old].read} THEN None ELSE sf[x].ctx
             /\ m.sf[x].buffer = IF x = cx[old].draw THEN NoBuffer ELSE sf[x].buffer
    BY <1>1, <1>5, DetachEffect
  <2> HIDE DEF m
  <2>3. Sane(Memory)' /\ failure' = "none" /\ sf' = m.sf
    BY <2>1, <2>2, StoreSane
  <2>4. \A x \in Surfaces :
             /\ sf'[x].life = sf[x].life
             /\ sf'[x].ctx = IF x \in {cx[old].draw, cx[old].read} THEN None ELSE sf[x].ctx
             /\ sf'[x].buffer = IF x = cx[old].draw THEN NoBuffer ELSE sf[x].buffer
    BY <2>2, <2>3
  <2>5. old \in Contexts
    BY <1>1, <1>5
  <2> HIDE DEF old
  <2>6. Links'
    <3>1. \A s \in Surfaces : sf'[s].life # "live" => sf'[s].ctx = None
      BY <1>3, <2>4 DEF Links
    <3>2. \A c \in Contexts : cx'[c].life # "live" => cx'[c].draw = None /\ cx'[c].read = None
      BY <1>2, <1>3 DEF Links
    <3>3. \A s \in Surfaces, c \in Contexts : sf'[s].ctx = c <=> s \in {cx'[c].draw, cx'[c].read}
      BY <1>2, <1>3, <2>4, <2>5 DEF Links
    <3>4. \A s \in WindowSurfaces : sf'[s].buffer # NoBuffer <=> \E c \in Contexts : cx'[c].draw = s
      <4> SUFFICES ASSUME NEW s \in WindowSurfaces
                   PROVE  sf'[s].buffer # NoBuffer <=> \E c \in Contexts : cx'[c].draw = s
        OBVIOUS
      <4>1. s \in Surfaces /\ s # None
        BY DEF Surfaces
      <4>2. CASE s = cx[old].draw
        <5>1. \A c \in Contexts : cx[c].draw = s => c = old
          BY <1>3, <2>5, <4>1, <4>2
        <5> QED BY <1>2, <2>4, <4>1, <4>2, <5>1
      <4>3. CASE s # cx[old].draw
        <5>1. \A c \in Contexts : cx'[c].draw = s <=> cx[c].draw = s
          BY <1>2, <4>1, <4>3
        <5>2. sf'[s].buffer = sf[s].buffer
          BY <2>4, <4>1, <4>3
        <5> QED BY <1>3, <5>1, <5>2 DEF Links
      <4> QED BY <4>2, <4>3
    <3>5. \A c \in Contexts : cx'[c].read \in WindowSurfaces => cx'[c].draw = cx'[c].read
      BY <1>2, <1>3 DEF Links
    <3> QED BY <3>1, <3>2, <3>3, <3>4, <3>5 DEF Links
  <2>7. RasterizerFollowsSurface'
    <3>1. ASSUME NEW c \in Contexts, cx'[c].life = "live"
          PROVE  /\ cx'[c].draw # None => cx'[c].color = Data(cx'[c].draw, sf'[cx'[c].draw].buffer)
                 /\ cx'[c].read # None => cx'[c].readb = Data(cx'[c].read, sf'[cx'[c].read].buffer)
      <4>1. CASE c = old
        BY <1>2, <4>1
      <4>2. CASE c # old
        <5>1. /\ cx'[c].draw = cx[c].draw /\ cx'[c].read = cx[c].read /\ cx[c].life = "live"
              /\ cx'[c].color = cx[c].color /\ cx'[c].readb = cx[c].readb
          BY <1>2, <3>1, <4>2
        <5>2. \A s \in {cx[c].draw, cx[c].read} \ {None} : s \in Surfaces
          BY <1>3 DEF Bound
        <5>3. \A s \in {cx[c].draw, cx[c].read} \ {None} : s # cx[old].draw
          BY <1>3, <2>5, <4>2, <5>2
        <5>4. \A s \in {cx[c].draw, cx[c].read} \ {None} : sf'[s].buffer = sf[s].buffer
          BY <2>4, <5>2, <5>3
        <5>5. /\ cx[c].draw # None => cx[c].color = Data(cx[c].draw, sf[cx[c].draw].buffer)
              /\ cx[c].read # None => cx[c].readb = Data(cx[c].read, sf[cx[c].read].buffer)
          BY <1>3, <5>1 DEF RasterizerFollowsSurface, LiveContext
        <5> QED BY <5>1, <5>4, <5>5
      <4> QED BY <4>1, <4>2
    <3> QED BY <3>1 DEF RasterizerFollowsSurface, LiveContext
  <2>8. Bound'
    BY <1>2, <1>3 DEF Bound
  <2> QED BY <1>0, <2>3, <2>6, <2>7, <2>8 DEF Orderly, NoFailure
<1> QED BY <1>4, <1>5

\* What swapBuffers does with the buffers of a window surface that has one.
LEMMA SwapEffect ==
  ASSUME NEW m, Sane(m), NEW s \in WindowSurfaces, m.sf[s].buffer # NoBuffer,
         NEW n, n = Lock(Dequeue([m EXCEPT !.fb[WindowOf[s]] = queueBuffer(@, m.sf[s].buffer)], s), s)
  PROVE  /\ Sane(n) /\ SameLinks(m, n) /\ n.sf[s].buffer # NoBuffer
         /\ \A x \in Surfaces \ {s} : n.sf[x].buffer = m.sf[x].buffer
<1> USE EglAssumption
<1> DEFINE w == WindowOf[s]
           r == queueBuffer(m.fb[w], m.sf[s].buffer)
           q == [m EXCEPT !.fb[w] = queueBuffer(@, m.sf[s].buffer)]
           k == [sf |-> SetBuffer(m.sf, s, NoBuffer), fb |-> SetWindow(m.fb, w, r), bad |-> "none"]
<1>1. /\ m \in [sf : SurfaceTable, fb : [Windows -> Rings], bad : {"none"}] /\ w \in Windows
      /\ s \in Surfaces /\ m.sf[s].life = "live"
  BY DEF Sane, Buffered, Surfaces
<1>2. Sane(k)
  BY QueueSane
<1>3. q = [sf |-> m.sf, fb |-> SetWindow(m.fb, w, r), bad |-> "none"]
  BY <1>1 DEF SetWindow
<1> HIDE DEF q
<1>4. /\ k.sf \in SurfaceTable
      /\ \A x \in Surfaces : /\ k.sf[x].life = m.sf[x].life /\ k.sf[x].ctx = m.sf[x].ctx
                             /\ k.sf[x].buffer = IF x = s THEN NoBuffer ELSE m.sf[x].buffer
  <2>1. k.sf = SetBuffer(m.sf, s, NoBuffer)
    OBVIOUS
  <2> HIDE DEF k
  <2> QED BY <1>1, <2>1, SetBufferFields
<1>5. /\ Sane(Dequeue(k, s)) /\ SameLinks(k, Dequeue(k, s)) /\ Dequeue(k, s).sf[s].buffer # NoBuffer
      /\ \A x \in Surfaces \ {s} : Dequeue(k, s).sf[x].buffer = k.sf[x].buffer
      /\ Lock(Dequeue(k, s), s) = Dequeue(k, s)
  <2>1. k.sf[s].life = "live" /\ k.sf[s].buffer = NoBuffer
    BY <1>1, <1>4
  <2> HIDE DEF k
  <2> QED BY <1>2, <2>1, TakeSane, DequeueSane
<1>6. Dequeue(q, s) = Dequeue(k, s)
  <2>1. q.fb = k.fb /\ q.bad = k.bad
    BY <1>3
  <2>2. q \in [sf : SurfaceTable, fb : [Windows -> Rings], bad : {"none"}]
    <3>1. SetWindow(m.fb, w, r) \in [Windows -> Rings]
      BY <1>2 DEF Sane
    <3> QED BY <1>1, <1>3, <3>1
  <2>3. k \in [sf : SurfaceTable, fb : [Windows -> Rings], bad : {"none"}]
    BY <1>2 DEF Sane
  <2>4. \A b \in Buffers : SetBuffer(q.sf, s, b) = SetBuffer(k.sf, s, b)
    <3> SUFFICES ASSUME NEW b \in Buffers PROVE SetBuffer(q.sf, s, b) = SetBuffer(k.sf, s, b)
      OBVIOUS
    <3>1. q.sf = m.sf /\ k.sf = SetBuffer(m.sf, s, NoBuffer)
      BY <1>3
    <3> HIDE DEF k
    <3> QED BY <1>1, <3>1 DEF SurfaceTable, SetBuffer
  <2> DEFINE d == dequeueBuffer(k.fb[w])
  <2>5. ~DequeueWaits(k.fb[w]) /\ d.buffer \in Buffers
    <3>1. Idle(k.fb[w])
      <4>1. \A x \in WindowSurfaces : WindowOf[x] = w => k.sf[x].buffer = NoBuffer
        BY <1>1, <1>2, <1>4 DEF Sane, Buffered, Apart, Surfaces
      <4> HIDE DEF k
      <4> QED BY <1>1, <1>2, <4>1 DEF Sane, RingsAgree
    <3> HIDE DEF k
    <3> QED BY <3>1, DequeueRing
  <2> HIDE DEF k, d
  <2>6. Dequeue(q, s) = [q EXCEPT !.fb[w] = d.fb, !.sf[s].buffer = d.buffer]
    BY <2>1, <2>5 DEF Dequeue, d
  <2>7. Dequeue(k, s) = [k EXCEPT !.fb[w] = d.fb, !.sf[s].buffer = d.buffer]
    BY <2>5 DEF Dequeue, d
  <2>8. Dequeue(q, s) = [sf |-> SetBuffer(q.sf, s, d.buffer), fb |-> SetWindow(q.fb, w, d.fb), bad |-> "none"]
    BY ONLY <2>2, <2>6 DEF SetBuffer, SetWindow
  <2>9. Dequeue(k, s) = [sf |-> SetBuffer(k.sf, s, d.buffer), fb |-> SetWindow(k.fb, w, d.fb), bad |-> "none"]
    BY ONLY <2>3, <2>7 DEF SetBuffer, SetWindow
  <2> QED BY <2>1, <2>4, <2>5, <2>8, <2>9
<1>7. n = Dequeue(k, s)
  <2>1. n = Lock(Dequeue(q, s), s)
    BY DEF q
  <2> HIDE DEF k
  <2> QED BY <1>5, <1>6, <2>1
<1> HIDE DEF k
<1>8. ASSUME NEW x \in Surfaces
      PROVE  /\ n.sf[x].life = m.sf[x].life /\ n.sf[x].ctx = m.sf[x].ctx
             /\ x # s => n.sf[x].buffer = m.sf[x].buffer
  BY <1>4, <1>5, <1>7 DEF SameLinks
<1> QED BY <1>5, <1>7, <1>8 DEF SameLinks

\* eglSwapBuffers: whoever has the surface gets its new buffer.
LEMMA SwapOrderly ==
  ASSUME PlainUse, PlainInv, NEW t \in Threads, NEW s \in Surfaces, eglSwapBuffers(t, s)
  PROVE  Orderly'
<1> USE EglAssumption
<1> DEFINE c == sf[s].ctx
           m == IF s \in Pbuffers \/ sf[s].buffer = NoBuffer THEN Memory
                ELSE Lock(Dequeue([Memory EXCEPT !.fb[WindowOf[s]] =
                                     queueBuffer(@, sf[s].buffer)], s), s)
           b == IF c = None \/ m.bad # "none" THEN m
                ELSE IF cx[c].life = "freed" THEN [m EXCEPT !.bad = "use_after_free"]
                ELSE Bind(m, s)
<1>1. /\ MayEnter(t) /\ sf[s].life = "live" /\ (c # None => cx[c].draw = s)
      /\ Store(b) /\ call' = call
      /\ cx' = IF c = None \/ b.bad # "none" THEN cx ELSE Rebound(c, s, Data(s, b.sf[s].buffer))
  BY DEF eglSwapBuffers, PlainUse, LiveSurface
<1>2. failure = "none" /\ \A u \in Threads : call[u] = None
  BY <1>1, EnterAlone
<1>3. /\ Sane(Memory) /\ Memory.sf = sf /\ Bound /\ Links /\ RasterizerFollowsSurface
  BY <1>2 DEF PlainInv, Orderly, Memory
<1>4. /\ c \in Contexts \union {None} /\ (c # None => cx[c].life = "live")
      /\ \A d \in Contexts, x \in Surfaces : x \in {cx[d].draw, cx[d].read} => sf[x].ctx = d
      /\ sf[s].buffer # NoBuffer => c # None
      /\ s \in WindowSurfaces /\ c # None => sf[s].buffer # NoBuffer
  <2>1. \A x \in Surfaces : sf[x].ctx \in Contexts \union {None}
    BY ONLY <1>2, PlainInv, LinkFacts, Zenon
  <2>2. \A d \in Contexts, x \in Surfaces : x \in {cx[d].draw, cx[d].read} =>
          sf[x].ctx = d /\ sf[x].life = "live" /\ cx[d].life = "live"
    BY ONLY <1>2, PlainInv, LinkFacts, Zenon
  <2>4. \A x \in Surfaces : sf[x].buffer # NoBuffer => sf[x].ctx \in Contexts
    BY ONLY <1>2, PlainInv, LinkFacts, Zenon
  <2>5. \A d \in Contexts : cx[d].draw \in WindowSurfaces => sf[cx[d].draw].buffer # NoBuffer
    BY ONLY <1>2, PlainInv, LinkFacts, Zenon
  <2>6. c \in Contexts \union {None} /\ (c # None => cx[c].draw = s)
    BY ONLY <1>1, <2>1, s \in Surfaces
  <2>7. None \notin Contexts
    BY EglAssumption
  <2>8. c # None => cx[c].life = "live"
    BY ONLY <2>2, <2>6, <2>7, s \in Surfaces
  <2>9. s \in WindowSurfaces /\ c # None => sf[s].buffer # NoBuffer
    BY ONLY <2>5, <2>6, <2>7
  <2>10. sf[s].buffer # NoBuffer => c # None
    BY ONLY <2>4, <2>7, s \in Surfaces
  <2>11. \A d \in Contexts, x \in Surfaces : x \in {cx[d].draw, cx[d].read} => sf[x].ctx = d
    BY ONLY <2>2
  <2> QED BY ONLY <2>6, <2>8, <2>9, <2>10, <2>11, Zenon
<1>5. /\ Sane(m) /\ SameLinks(Memory, m) /\ (s \in WindowSurfaces /\ c # None => m.sf[s].buffer # NoBuffer)
      /\ \A x \in Surfaces : x # s \/ c = None => m.sf[x].buffer = sf[x].buffer
  <2>1. CASE s \in Pbuffers \/ sf[s].buffer = NoBuffer
    <3>1. m = Memory
      BY <2>1
    <3>2. s \in WindowSurfaces /\ c # None => FALSE
      BY <1>4, <2>1
    <3> HIDE DEF m
    <3> QED BY <1>3, <3>1, <3>2 DEF SameLinks
  <2>2. CASE ~(s \in Pbuffers \/ sf[s].buffer = NoBuffer)
    <3>1. s \in WindowSurfaces /\ sf[s].buffer # NoBuffer /\ c # None
      BY <1>4, <2>2 DEF Surfaces
    <3>2. m = Lock(Dequeue([Memory EXCEPT !.fb[WindowOf[s]] =
                              queueBuffer(@, Memory.sf[s].buffer)], s), s)
      BY <1>3, <2>2
    <3> HIDE DEF m
    <3>3. /\ Sane(m) /\ SameLinks(Memory, m) /\ m.sf[s].buffer # NoBuffer
          /\ \A x \in Surfaces \ {s} : m.sf[x].buffer = Memory.sf[x].buffer
      BY <1>3, <3>1, <3>2, SwapEffect
    <3> QED BY <1>3, <3>1, <3>3
  <2> QED BY <2>1, <2>2
<1>6. m.bad = "none"
  BY <1>5 DEF Sane
<1>7. b = m
  <2> HIDE DEF m
  <2>1. c # None => Bind(m, s) = m
    BY <1>5, BindSane
  <2> QED BY <1>4, <2>1
<1> HIDE DEF m, b
<1>8. Sane(Memory)' /\ failure' = "none" /\ sf' = m.sf
  BY <1>1, <1>5, <1>7, StoreSane
<1>9. \A x \in Surfaces : /\ sf'[x].life = sf[x].life /\ sf'[x].ctx = sf[x].ctx
                          /\ x # s \/ c = None => sf'[x].buffer = sf[x].buffer
  BY <1>3, <1>5, <1>8 DEF SameLinks
<1>10. s \in WindowSurfaces /\ c # None => sf'[s].buffer # NoBuffer
  BY <1>5, <1>8
<1>11. cx' = IF c = None THEN cx ELSE Rebound(c, s, Data(s, sf'[s].buffer))
  BY <1>1, <1>6, <1>7, <1>8
<1>12. ASSUME NEW d \in Contexts
       PROVE  /\ cx'[d].life = cx[d].life /\ cx'[d].draw = cx[d].draw /\ cx'[d].read = cx[d].read
              /\ cx'[d].color = IF d = c THEN Data(s, sf'[s].buffer) ELSE cx[d].color
              /\ cx'[d].readb = IF d = c /\ cx[d].read = s THEN Data(s, sf'[s].buffer) ELSE cx[d].readb
  <2>1. cx[d] = Record(d) /\ cx = [e \in Contexts |-> cx[e]]
    BY DEF PlainInv, IInv, Types
  <2>2. CASE d # c
    <3>1. cx'[d] = cx[d]
      BY <1>11, <2>1, <2>2 DEF Rebound
    <3> QED BY <2>2, <3>1
  <2>3. CASE d = c
    <3>1. c # None
      BY <2>3
    <3> DEFINE data == Data(s, sf'[s].buffer)
    <3> HIDE DEF data
    <3>2. cx' = Rebound(c, s, data)
      BY <1>11, <3>1 DEF data
    <3>3. cx'[d] = [[cx[d] EXCEPT !.color = data] EXCEPT !.readb = IF cx[d].read = s THEN data ELSE @]
      BY <2>1, <2>3, <3>2 DEF Rebound
    <3> QED BY <2>1, <2>3, <3>3 DEF Record, data
  <2> QED BY <2>2, <2>3
<1>13. Bound'
  BY <1>3, <1>12 DEF Bound
<1>14. Links'
  <2>1. \A x \in WindowSurfaces : x # s \/ c = None => sf'[x].buffer = sf[x].buffer
    BY <1>9 DEF Surfaces
  <2>2. \A x \in WindowSurfaces : sf'[x].buffer # NoBuffer <=> sf[x].buffer # NoBuffer
    BY <1>4, <1>10, <2>1
  <2>3. \A x \in WindowSurfaces : sf'[x].buffer # NoBuffer <=> \E d \in Contexts : cx'[d].draw = x
    BY <1>3, <1>12, <2>2 DEF Links
  <2> QED BY <1>3, <1>9, <1>12, <2>3 DEF Links
<1>15. RasterizerFollowsSurface'
  <2>1. ASSUME NEW d \in Contexts, cx'[d].life = "live"
        PROVE  /\ cx'[d].draw # None => cx'[d].color = Data(cx'[d].draw, sf'[cx'[d].draw].buffer)
               /\ cx'[d].read # None => cx'[d].readb = Data(cx'[d].read, sf'[cx'[d].read].buffer)
    <3>1. \A x \in {cx[d].draw, cx[d].read} \ {None} : x \in Surfaces /\ (x = s => d = c)
      BY <1>3, <1>4 DEF Bound
    <3>2. /\ cx[d].draw # None => cx[d].color = Data(cx[d].draw, sf[cx[d].draw].buffer)
          /\ cx[d].read # None => cx[d].readb = Data(cx[d].read, sf[cx[d].read].buffer)
          /\ d # None
      BY <1>2, <1>3, <1>12, <2>1 DEF RasterizerFollowsSurface, LiveContext
    <3>3. \A x \in {cx[d].draw, cx[d].read} \ {None} : x # s => sf'[x].buffer = sf[x].buffer
      BY <1>9, <3>1
    <3>4. d = c => cx[d].draw = s
      BY <1>1, <3>2
    <3>5. cx'[d].draw # None => cx'[d].color = Data(cx'[d].draw, sf'[cx'[d].draw].buffer)
      BY <1>12, <3>1, <3>2, <3>3, <3>4
    <3>6. cx'[d].read # None => cx'[d].readb = Data(cx'[d].read, sf'[cx'[d].read].buffer)
      BY <1>12, <3>1, <3>2, <3>3
    <3> QED BY <3>5, <3>6
  <2> QED BY <2>1 DEF RasterizerFollowsSurface, LiveContext
<1> QED BY <1>1, <1>2, <1>8, <1>13, <1>14, <1>15 DEF Orderly, NoFailure

SetLife(g, s, life) == [g EXCEPT ![s].life = life]

\* A surface that has no buffer and is linked to no context comes or goes.
LEMMA LifeOrderly ==
  ASSUME PlainInv, failure = "none", \A u \in Threads : call[u] = None,
         NEW s \in Surfaces, NEW life \in {"live", "freed"}, sf' = SetLife(sf, s, life),
         UNCHANGED <<cx, fb, call, failure>>, sf[s].ctx = None, sf[s].buffer = NoBuffer,
         life = "live" /\ s \in WindowSurfaces =>
           \A x \in WindowSurfaces : WindowOf[x] = WindowOf[s] => sf[x].life # "live"
  PROVE  Orderly'
<1> USE EglAssumption
<1>1. /\ Memory \in [sf : SurfaceTable, fb : [Windows -> Rings], bad : {"none"}]
      /\ Buffered(sf) /\ Apart(sf) /\ RingsAgree(sf, fb) /\ Bound /\ Links /\ RasterizerFollowsSurface
  BY DEF PlainInv, Orderly, Sane, Memory
<1>2. sf \in SurfaceTable /\ fb \in [Windows -> Rings]
  BY <1>1 DEF Memory
<1>3. /\ sf' \in SurfaceTable
      /\ \A x \in Surfaces : /\ sf'[x].life = IF x = s THEN life ELSE sf[x].life
                             /\ sf'[x].buffer = sf[x].buffer /\ sf'[x].ctx = sf[x].ctx
  BY <1>2 DEF SurfaceTable, SetLife
<1>4. Buffered(sf')
  BY <1>1, <1>3 DEF Buffered
<1>5. Apart(sf')
  BY <1>1, <1>3 DEF Apart, Surfaces
<1>6. RingsAgree(sf', fb')
  <2>1. \A x \in WindowSurfaces : sf'[x].buffer = sf[x].buffer
    BY <1>3 DEF Surfaces
  <2> QED BY ONLY <1>1, <2>1, fb' = fb DEF RingsAgree
<1>7. Sane(Memory)'
  <2>1. Memory' = [sf |-> sf', fb |-> fb', bad |-> "none"]
    BY DEF Memory
  <2>2. Memory' \in [sf : SurfaceTable, fb : [Windows -> Rings], bad : {"none"}]
    BY <1>2, <1>3, <2>1
  <2>3. Memory'.sf = sf' /\ Memory'.fb = fb'
    BY <2>1
  <2> QED BY <1>4, <1>5, <1>6, <2>2, <2>3 DEF Sane
<1>8. Links'
  <2>1. \A x \in Surfaces : sf'[x].life # "live" => sf'[x].ctx = None
    BY <1>1, <1>3 DEF Links
  <2>2. \A x \in WindowSurfaces : sf'[x].buffer = sf[x].buffer
    BY <1>3 DEF Surfaces
  <2> QED BY <1>1, <1>3, <2>1, <2>2 DEF Links
<1>9. RasterizerFollowsSurface'
  <2>1. ASSUME NEW c \in Contexts, cx[c].life = "live", c # None
        PROVE  /\ cx[c].draw # None => cx[c].color = Data(cx[c].draw, sf'[cx[c].draw].buffer)
               /\ cx[c].read # None => cx[c].readb = Data(cx[c].read, sf'[cx[c].read].buffer)
    <3>1. \A x \in {cx[c].draw, cx[c].read} \ {None} : sf'[x].buffer = sf[x].buffer
      BY <1>1, <1>3 DEF Bound
    <3>2. /\ cx[c].draw # None => cx[c].color = Data(cx[c].draw, sf[cx[c].draw].buffer)
          /\ cx[c].read # None => cx[c].readb = Data(cx[c].read, sf[cx[c].read].buffer)
      BY <1>1, <2>1 DEF RasterizerFollowsSurface, LiveContext
    <3> QED BY <3>1, <3>2
  <2> QED BY <2>1 DEF RasterizerFollowsSurface, LiveContext
<1> QED BY <1>1, <1>7, <1>8, <1>9 DEF Orderly, NoFailure, Bound

LEMMA CreateSurfaceOrderly ==
  ASSUME PlainUse, PlainInv, NEW t \in Threads, NEW s \in Surfaces, CreateSurface(t, s)
  PROVE  Orderly'
<1> USE EglAssumption
<1>1. failure = "none" /\ \A u \in Threads : call[u] = None
  BY EnterAlone DEF CreateSurface
<1>2. Links /\ Buffered(sf)
  BY <1>1 DEF PlainInv, Orderly, Sane, Memory
<1>3. sf[s].ctx = None /\ sf[s].buffer = NoBuffer
  BY <1>2 DEF CreateSurface, Links, Buffered
<1>4. sf' = SetLife(sf, s, "live") /\ UNCHANGED <<cx, fb, call, failure>>
  BY DEF CreateSurface, SetLife
<1>5. s \in WindowSurfaces => \A x \in WindowSurfaces : WindowOf[x] = WindowOf[s] => sf[x].life # "live"
  BY DEF CreateSurface, PlainUse, LiveSurface, Surfaces
<1> QED BY <1>1, <1>3, <1>4, <1>5, LifeOrderly

\* A surface that no context is bound to has no link and no buffer.
LEMMA DestroySurfaceOrderly ==
  ASSUME PlainUse, PlainInv, NEW t \in Threads, NEW s \in Surfaces, eglDestroySurface(t, s)
  PROVE  Orderly'
<1> USE EglAssumption
<1>1. failure = "none" /\ \A u \in Threads : call[u] = None
  BY EnterAlone DEF eglDestroySurface
<1>2. \A c \in Contexts : cx[c].life = "live" => s \notin {cx[c].draw, cx[c].read}
  BY DEF eglDestroySurface, PlainUse, LiveContext
<1>3. sf[s].ctx = None /\ sf[s].buffer = NoBuffer
  <2>1. sf[s].ctx \notin Contexts
    BY <1>1, <1>2, LinkFacts
  <2> QED BY <1>1, <2>1, LinkFacts
<1>4. /\ Memory \in [sf : SurfaceTable, fb : [Windows -> Rings], bad : {"none"}]
      /\ Memory.sf = sf /\ Memory.fb = fb /\ Memory.bad = "none"
  BY DEF PlainInv, Orderly, Sane, Memory
<1> HIDE DEF Memory
<1>5. Store([Memory EXCEPT !.sf[s].life = "freed"]) /\ UNCHANGED <<cx, call>>
  BY <1>3, <1>4 DEF eglDestroySurface
<1>6. [Memory EXCEPT !.sf[s].life = "freed"] = [sf |-> SetLife(sf, s, "freed"), fb |-> fb, bad |-> "none"]
  BY ONLY <1>4 DEF SetLife
<1>7. sf' = SetLife(sf, s, "freed") /\ UNCHANGED <<cx, fb, call, failure>>
  BY <1>1, <1>5, <1>6 DEF Store
<1> QED BY <1>1, <1>3, <1>7, LifeOrderly

\* A context without surfaces comes or goes.
LEMMA ContextOrderly ==
  ASSUME PlainInv, failure = "none", \A u \in Threads : call[u] = None,
         NEW d \in Contexts, NEW life, cx' = [cx EXCEPT ![d].life = life],
         UNCHANGED <<sf, fb, call, failure>>, cx[d].draw = None, cx[d].read = None
  PROVE  Orderly'
<1> USE EglAssumption
<1>1. /\ Sane(Memory) /\ Bound /\ Links /\ RasterizerFollowsSurface
  BY DEF PlainInv, Orderly
<1>2. ASSUME NEW c \in Contexts
      PROVE  /\ cx'[c].draw = cx[c].draw /\ cx'[c].read = cx[c].read
             /\ cx'[c].color = cx[c].color /\ cx'[c].readb = cx[c].readb
             /\ c # d => cx'[c].life = cx[c].life
  <2>1. cx[c] = Record(c) /\ cx'[c] = IF c = d THEN [cx[c] EXCEPT !.life = life] ELSE cx[c]
    BY DEF PlainInv, IInv, Types
  <2> QED BY <2>1 DEF Record
<1>3. Bound'
  BY <1>1, <1>2 DEF Bound
<1>4. Links'
  <2>1. \A c \in Contexts : cx'[c].life # "live" => cx'[c].draw = None /\ cx'[c].read = None
    BY <1>1, <1>2 DEF Links
  <2> QED BY <1>1, <1>2, <2>1 DEF Links
<1>5. RasterizerFollowsSurface'
  <2>1. ASSUME NEW c \in Contexts, cx'[c].life = "live"
        PROVE  /\ cx'[c].draw # None => cx'[c].color = Data(cx'[c].draw, sf[cx'[c].draw].buffer)
               /\ cx'[c].read # None => cx'[c].readb = Data(cx'[c].read, sf[cx'[c].read].buffer)
    <3>1. CASE c = d
      BY <1>2, <3>1
    <3>2. CASE c # d
      BY <1>1, <1>2, <2>1, <3>2 DEF RasterizerFollowsSurface, LiveContext
    <3> QED BY <3>1, <3>2
  <2> QED BY <2>1 DEF RasterizerFollowsSurface, LiveContext
<1>6. Sane(Memory)'
  BY <1>1 DEF Memory, Sane
<1> QED BY <1>3, <1>4, <1>5, <1>6 DEF Orderly, NoFailure

LEMMA CheckOrderly ==
  ASSUME PlainUse, PlainInv, NEW t \in Threads, NEW draw \in Surfaces \union {None},
         NEW read \in Surfaces \union {None}, NEW ctx \in Contexts \union {None},
         MakeCurrentCheck(t, draw, read, ctx)
  PROVE  Orderly'
<1> USE EglAssumption
<1>1. failure = "none" /\ \A u \in Threads : call[u] = None
  BY EnterAlone DEF MakeCurrentCheck
<1>2. UNCHANGED <<cx, sf, fb, failure>>
  BY DEF MakeCurrentCheck
<1>3. /\ Sane(Memory) /\ Bound /\ Links /\ RasterizerFollowsSurface
  BY <1>1 DEF PlainInv, Orderly
<1>4. Sane(Memory)'
  BY <1>2, <1>3 DEF Memory, Sane
<1>5. Bound' /\ Links'
  BY <1>2, <1>3 DEF Bound, Links
<1>6. RasterizerFollowsSurface'
  BY <1>2, <1>3 DEF RasterizerFollowsSurface, LiveContext
<1>7. /\ call'[t].draw = draw /\ call'[t].read = read /\ call'[t].ctx = ctx
      /\ \A u \in Threads \ {t} : call'[u] = None
  <2>1. call' = [call EXCEPT ![t] = [draw |-> draw, read |-> read, ctx |-> ctx,
                                      claim |-> ctx = None \/ ~cx[ctx].is_current]]
    BY DEF MakeCurrentCheck
  <2> QED BY <1>1, <2>1 DEF PlainInv, IInv, Types
<1>8. ctx # None =>
        /\ draw # None => sf[draw].life = "live" /\ sf[draw].ctx \in {None, ctx}
        /\ read # None => sf[read].life = "live" /\ sf[read].ctx \in {None, ctx}
        /\ cx[ctx].draw \in {None, draw} /\ cx[ctx].read \in {None, read}
        /\ read \in Pbuffers \union {None, draw}
  BY DEF MakeCurrentCheck, LiveSurface, PlainUse
<1>9. Found(t)'
  BY <1>2, <1>7, <1>8 DEF Found
<1>10. \A u \in Threads : call'[u] # None => Found(u)'
  BY <1>7, <1>9
<1> QED BY <1>1, <1>2, <1>4, <1>5, <1>6, <1>10 DEF Orderly, NoFailure

LEMMA InitOrderly ==
  ASSUME PlainUse, Init
  PROVE  Orderly
<1> USE EglAssumption
<1>1. /\ \A s \in Surfaces : sf[s].life = "absent" /\ sf[s].ctx = None /\ sf[s].buffer = NoBuffer
      /\ sf \in SurfaceTable
  BY DEF Init, SurfaceTable
<1>2. \A c \in Contexts : cx[c].life = "absent" /\ cx[c].draw = None /\ cx[c].read = None
  BY DEF Init
<1>3. fb = [w \in Windows |-> NewFramebuffer(NoBuffer)]
  BY DEF Init, PlainUse
<1>4. Idle(NewFramebuffer(NoBuffer))
  BY NumBuffersAssumption DEF Idle, Rings, NewFramebuffer, Buffers, NoBuffer
<1>5. RingsAgree(sf, fb) /\ fb \in [Windows -> Rings]
  <2>1. \A w \in Windows : fb[w] \in Rings /\ Idle(fb[w])
    BY <1>3, <1>4 DEF Idle
  <2>2. fb \in [Windows -> Rings]
    BY <1>3, <1>4 DEF Idle
  <2> QED BY <1>1, <2>1, <2>2 DEF RingsAgree, Surfaces
<1>6. Buffered(sf) /\ Apart(sf)
  BY <1>1 DEF Buffered, Apart, Surfaces
<1>7. Sane(Memory)
  <2>1. /\ Memory \in [sf : SurfaceTable, fb : [Windows -> Rings], bad : {"none"}]
        /\ Memory.sf = sf /\ Memory.fb = fb
    BY <1>1, <1>5 DEF Memory
  <2> QED BY <1>5, <1>6, <2>1 DEF Sane
<1>8. Links /\ Bound
  BY <1>1, <1>2 DEF Links, Bound, Surfaces
<1>9. RasterizerFollowsSurface
  BY <1>2 DEF RasterizerFollowsSurface, LiveContext
<1>10. failure = "none" /\ \A t \in Threads : call[t] = None
  BY DEF Init
<1> QED BY <1>7, <1>8, <1>9, <1>10 DEF Orderly, NoFailure

LEMMA NextOrderly == PlainUse /\ PlainInv /\ [Next]_vars => Orderly'
<1> SUFFICES ASSUME PlainUse, PlainInv, [Next]_vars PROVE Orderly'
  OBVIOUS
<1> USE EglAssumption
<1>1. CASE UNCHANGED vars
  BY <1>1 DEF PlainInv, Orderly, NoFailure, Memory, Sane, Bound, Links, RasterizerFollowsSurface,
              LiveContext, Found, vars
<1>2. ASSUME NEW t \in Threads, NEW s \in Surfaces,
             CreateSurface(t, s) \/ eglDestroySurface(t, s) \/ eglSwapBuffers(t, s)
      PROVE  Orderly'
  BY <1>2, CreateSurfaceOrderly, DestroySurfaceOrderly, SwapOrderly
<1>3. ASSUME NEW t \in Threads, NEW c \in Contexts, eglCreateContext(t, c) PROVE Orderly'
  <2>1. failure = "none" /\ \A u \in Threads : call[u] = None
    BY <1>3, EnterAlone DEF eglCreateContext
  <2>2. cx[c].draw = None /\ cx[c].read = None
    BY <1>3, <2>1 DEF PlainInv, Orderly, Links, eglCreateContext
  <2> QED BY <1>3, <2>1, <2>2, ContextOrderly DEF eglCreateContext
<1>4. ASSUME NEW t \in Threads, NEW c \in Contexts, eglDestroyContext(t, c) PROVE Orderly'
  <2>1. failure = "none" /\ \A u \in Threads : call[u] = None
    BY <1>4, EnterAlone DEF eglDestroyContext
  <2>2. cx[c].draw = None /\ cx[c].read = None
    BY <1>4 DEF PlainUse, eglDestroyContext
  <2> QED BY <1>4, <2>1, <2>2, ContextOrderly DEF eglDestroyContext
<1>5. ASSUME NEW t \in Threads, NEW d \in Surfaces \union {None}, NEW r \in Surfaces \union {None},
             NEW c \in Contexts \union {None}, MakeCurrentCheck(t, d, r, c)
      PROVE  Orderly'
  BY <1>5, CheckOrderly
<1>6. ASSUME NEW t \in Threads, eglMakeCurrent(t) PROVE Orderly'
  <2>1. failure = "none" /\ call[t] # None /\ call' = [call EXCEPT ![t] = None]
    BY <1>6 DEF eglMakeCurrent
  <2>2. CASE MakeCurrentDetach(t)
    BY <2>1, <2>2, DetachOrderly
  <2>3. CASE call[t].ctx # None /\ MakeCurrentBind(t, call[t].draw, call[t].read, call[t].ctx)
    BY <2>1, <2>3, BindOrderly
  <2>4. CASE call[t].ctx # None /\ MakeCurrentBindFails(t, call[t].draw, call[t].read, call[t].ctx)
    BY <2>1, <2>4, BindFailsOrderly
  <2> QED BY <1>6, <2>2, <2>3, <2>4 DEF eglMakeCurrent
<1> QED BY <1>1, <1>2, <1>3, <1>4, <1>5, <1>6 DEF Next

\* Under plain use, for any numbers of threads, contexts, surfaces, windows and
\* buffers, every call keeps links, rings and rasterizers in order.
THEOREM PlainInvariance == PlainUse /\ Spec => []PlainInv
<1> SUFFICES ASSUME PlainUse PROVE Spec => []PlainInv
  OBVIOUS
<1>1. Init => PlainInv
  BY InitIInv, InitOrderly DEF PlainInv
<1>2. PlainInv /\ [Next]_vars => PlainInv'
  <2>1. Disciplined
    BY DEF PlainUse, Disciplined
  <2> QED BY <2>1, NextIInv, NextOrderly DEF PlainInv
<1> QED BY <1>1, <1>2, PTL DEF Spec

\* No call of a plain client dereferences a null or freed object, and none
\* waits for a buffer that nobody can give back.
THEOREM EglNeverFails == PlainUse /\ Spec => []NoFailure
<1>1. PlainInv => NoFailure
  BY DEF PlainInv, Orderly
<1> QED BY <1>1, PlainInvariance, PTL

\* A surface is linked to a context exactly when the context has it, and has a
\* buffer exactly when a context draws to it: what eglMakeCurrent's refusal of
\* a surface bound elsewhere relies on.
THEOREM LinksAgree == PlainUse /\ Spec => []BindingsAgree
<1>1. PlainInv => BindingsAgree
  <2> SUFFICES ASSUME PlainInv, failure = "none", NEW s \in Surfaces, sf[s].life = "live"
               PROVE  /\ \A c \in Contexts : sf[s].ctx = c <=> Binds(c, s)
                      /\ s \in WindowSurfaces => (sf[s].buffer # NoBuffer <=> \E c \in Contexts :
                                                     LiveContext(c) /\ cx[c].draw = s)
    BY DEF BindingsAgree, LiveSurface
  <2>1. Links
    BY DEF PlainInv, Orderly
  <2>2. \A c \in Contexts : s \in {cx[c].draw, cx[c].read} => LiveContext(c)
    BY EglAssumption, LinkFacts DEF LiveContext
  <2> QED BY <2>1, <2>2 DEF Links, Binds
<1> QED BY <1>1, PlainInvariance, PTL

\* The rasterizer draws to the buffer that is dequeued now, across every swap
\* and rebinding.
THEOREM RasterizersFollow == PlainUse /\ Spec => []RasterizerFollowsSurface
<1>1. PlainInv => RasterizerFollowsSurface
  <2>1. failure # "none" => RasterizerFollowsSurface
    BY DEF RasterizerFollowsSurface
  <2> QED BY <2>1 DEF PlainInv, Orderly
<1> QED BY <1>1, PlainInvariance, PTL

\* Every buffer of a window is free or has one user, who does not draw to what
\* is on the screen, for rings of any length.
THEOREM RingsAccounted == PlainUse /\ Spec => []BuffersAccounted
<1>1. PlainInv => BuffersAccounted
  <2> SUFFICES ASSUME PlainInv, NEW w \in Windows
               PROVE  LET users == {s \in WindowSurfaces : WindowOf[s] = w /\ sf[s].buffer # NoBuffer}
                      IN  /\ fb[w].free + Cardinality(users) = NumBuffers
                          /\ \A s \in users : fb[w].front # sf[s].buffer
                          /\ \A s, x \in users : sf[s].buffer = sf[x].buffer => s = x
    BY DEF BuffersAccounted
  <2> DEFINE users == {s \in WindowSurfaces : WindowOf[s] = w /\ sf[s].buffer # NoBuffer}
  <2>1. Buffered(sf) /\ Apart(sf) /\ RingsAgree(sf, fb)
    BY DEF PlainInv, Orderly, Sane, Memory
  <2>2. \A s, x \in users : s = x
    BY <2>1 DEF Buffered, Apart, Surfaces
  <2>3. \A s \in users : Busy(fb[w], sf[s].buffer)
    BY <2>1 DEF RingsAgree
  <2>4. CASE users = {}
    <3>1. Idle(fb[w])
      BY <2>1, <2>4 DEF RingsAgree
    <3>2. Cardinality(users) = 0
      BY <2>4, FS_EmptySet
    <3> QED BY <2>4, <3>1, <3>2, NumBuffersAssumption DEF Idle
  <2>5. CASE users # {}
    <3>1. PICK s \in users : users = {s}
      BY <2>2, <2>5
    <3>2. Cardinality(users) = 1
      BY <3>1, FS_Singleton
    <3>3. fb[w].free = NumBuffers - 1
      BY <2>3 DEF Busy
    <3>4. \A x \in users : fb[w].front # sf[x].buffer
      BY <2>3 DEF Busy
    <3> QED BY <2>2, <3>2, <3>3, <3>4, NumBuffersAssumption
  <2> QED BY <2>4, <2>5
<1> QED BY <1>1, PlainInvariance, PTL
=============================================================================
