---------------------------- MODULE NativeWindow ----------------------------
(***************************************************************************)
(* windisplay/Framebuffer.cpp: the window a surface draws to, a ring of    *)
(* buffers.  The state of a window is a record that the EGL surfaces       *)
(* change; the waits of dequeueBuffer and lockBuffer are predicates, since *)
(* only another call to the same window can end them.                      *)
(***************************************************************************)
EXTENDS Integers

CONSTANT NumBuffers     \* NUM_FRAME_BUFFERS
ASSUME NumBuffersAssumption == NumBuffers \in Nat \ {0, 1}

Buffers  == 0 .. NumBuffers - 1
NoBuffer == -1          \* a null ANativeWindowBuffer pointer

\* front is not initialised by the constructor: any pointer may be there.
NewFramebuffer(garbage) ==
  [head |-> NumBuffers - 1, free |-> NumBuffers, front |-> garbage]

\* Mutant: the head stays where it is.
Moved_stays(fb) == fb

\* The ring moves on before dequeueBuffer waits.
Moved(fb) == [fb EXCEPT !.head = IF @ + 1 >= NumBuffers THEN 0 ELSE @ + 1]

\* dequeueBuffer hands out the buffer at the old head and never fails.
DequeueWaits(fb) == fb.free = 0
dequeueBuffer(fb) == [buffer |-> fb.head, fb |-> [Moved(fb) EXCEPT !.free = @ - 1]]

\* lockBuffer waits while the buffer is the front one and changes nothing.
LockWaits(fb, buffer) == fb.front = buffer

\* Mutant: the buffer is not counted as free again.
queueBuffer_lost(fb, buffer) == [fb EXCEPT !.front = buffer]

\* queueBuffer shows the buffer and makes it the front one; whose buffer it is
\* is not checked.
queueBuffer(fb, buffer) == [fb EXCEPT !.front = buffer, !.free = @ + 1]
=============================================================================
