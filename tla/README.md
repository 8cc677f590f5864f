# A TLA+ verification of rabbitrender

rabbitrender is a software OpenGL ES renderer. Its own core is in four places:

* `swrender/`: the GL ES entry points and EGL on top of them;
* `libpixelflinger/`: the rasterizer they drive;
* `windisplay/`: the native window, a ring of frame buffers shown by SDL or Win32;
* `base/`: message loops, task queues, worker pools and the merging of the raster
  and the platform thread.

`compiler/frontend`, `third_party`, `include` and `pthreads` are vendored, and
`gl_basic`, `particle` and `rotatecube` are samples.

This directory models the parts whose correctness depends on the order of steps:
who sleeps and who wakes whom, which pointer outlives which object, which buffer
is whose. Each module names the source it translates; `PROJECT.json` maps every
definition to its lines.

## 1. Inventory

| Component | State | Operations | What is hard | Correct when |
|---|---|---|---|---|
| GL object names (`Tokenizer.cpp`, `TokenManager.cpp`) | a vector of runs of names in use | acquire, reserve, release, getToken, recycleTokens | merging and splitting runs, binary search at the ends, uint32 wrap | the vector stands for a set; names handed out are free; 0 is never handed out |
| Buffer objects (`BufferObjectManager.cpp`, buffer calls of `array.cpp`) | objects by name; plain pointers in two targets and in every vertex array | gen, bind, data, sub-data, pointer calls, delete | a pointer in a rarely used slot, malloc failing between two calls, an address used again | no pointer dangles; copies stay inside |
| EGL (`egl.cpp`) | contexts, surfaces, the current context of each thread | create, destroy, eglMakeCurrent, eglSwapBuffers | no lock anywhere, links in both directions, one step of several failing | links, rasterizer and thread values agree |
| Native window (`Framebuffer.cpp`) | ring head, free count, front buffer | dequeue, lock, queue | two waits that only another call can end | every buffer is free or has one user |
| Task queues (`message_loop_task_queues.cc`, `task_source.cc`) | a map of entries with two heaps each and merge links | register, take next, merge, unmerge, dispose, pause, resume | four heaps of two queues compete, links to erased entries | links consistent; the earliest task is next |
| Message loops (`message_loop_impl.cc`, `thread.cc`, the Linux and Windows loops) | terminated and running flags, a timer | run, post, terminate, join, destroy | unlocked flags, lost wake-ups, shutdown while merged | nobody oversleeps, tasks are handled, Join returns |
| Concurrent loop (`concurrent_message_loop.cc`) | a shared queue, a list per worker, shutdown | post, post to all, terminate, worker rounds | notify after unlock, shutdown read before the task and used after | no task lost or run twice, workers leave |
| Raster thread merger (`raster_thread_merger.cc`) | lease, enabled flag, condition variable | merge, extend, decrement, unmerge, enable, disable, wait | a gap between two locks, an unlocked reader | lease and queues agree, the waiter is woken |
| Indexed drawing (`glDrawElements` in `array.cpp`) | a cache of transformed vertices with tags, locks and a sequence number; the striper's pointers into it | the seven primitive loops, fetch, clear | colliding indices, pointers kept across fetches, sequence numbers that wrap | the primitives rendered are those GL defines |
| Array drawing (`glDrawArrays` in `array.cpp`) | the same entries as one array, the common clip flags of a batch | batches for the seven primitives | what is carried over from batch to batch, also from a rejected one | the primitives rendered are those GL defines; batches fit |
| Textures (`TextureObjectManager.cpp`, `texture.cpp`, `mipmap.cpp`) | objects with levels and their memory, a table by name, an object and a name per unit, the rasterizer's copy of each unit's surface | bind, delete, upload, copy, paletted and generated levels, native images, parameters, enable, draw | an object shared by two units and replaced through one, a malloc failing at one of several levels, a copy that goes stale | references and memory are counted exactly; texels are read and written only where there is memory; the copy follows the texture |
| Waitable events and latch (`waitable_event.cc`, `count_down_latch.cc`) | `signaled_`, `signal_id_`, a mutex and condition variable; a count | signal, reset, wait, timed wait, count down | spurious wake-ups, a timeout that swallows a notification, destruction by who returns first | no signal lost or used twice; a latch opens with the last count; who returns may destroy |
| GL state, matrices, lights, clipping, pixelflinger, containers, reference counts | see `PROJECT.json` | | | planned or left out, section 7 |

How they interact. A client calls EGL, which binds a surface to a context and
points the context's rasterizer at the buffer the surface has dequeued from its
native window; `eglSwapBuffers` queues that buffer, dequeues the next and points
the rasterizer at it. GL calls find the context in a thread-specific value that
`eglMakeCurrent` sets. Every context owns a buffer object manager and a texture
manager, and both take names from a `TokenManager`. Drawing calls read the arrays
those buffers back, refresh the rasterizer's copy of every texture unit that changed,
compile vertices into the context's vertex cache and hand them
to the rasterizer. Independently of GL,
`fml::Thread` runs a message loop per thread; all loops share one
`MessageLoopTaskQueues`, which arms the timer of a loop whenever a task is
registered. A thread and its creator hand over through a latch or a waitable event.
The raster thread merger calls `Merge` and `Unmerge` on it, after which
the platform loop also drains the raster queue.

## 2. Modules

| Module | Models | Built on |
|---|---|---|
| `Tokenizer` | the run vector as operators, with arithmetic modulo `TokenCount` (2^32 in the code) | community sequences |
| `TokenManager` | the locked manager as a state machine | `Tokenizer` |
| `NameSpace` | abstract: a set of names in use | - |
| `BufferObjects` | buffer objects and every pointer to them, names as in `NameSpace` | - |
| `TextureObject` | the levels of one texture and the memory behind them, as operators | - |
| `Textures` | a context's textures, units and the rasterizer's copies | `TextureObject` |
| `NativeWindow` | the frame buffer ring as operators on a record | - |
| `Egl` | contexts, surfaces, threads | `NativeWindow` |
| `TaskQueues` | the container of task queues | - |
| `MessageLoops` | loops, threads, posting and joining | `TaskQueues` |
| `ConcurrentLoop` | the worker pool | - |
| `WaitableEvent` | the two events and the count-down latch | - |
| `Drawing` | what the two drawing calls share: the call under way, its winding, what it renders | - |
| `VertexCache` | `glDrawElements` and its cache | `Drawing` |
| `DrawArrays` | `glDrawArrays` and its batches | `Drawing` |
| `RasterThreadMerger` | the lease | - (its `owns` is `owner_of` of `TaskQueues`) |
| `*Proofs` | theorems of the module they extend (`DrawingProofs`: of both drawing calls; `GLObjectsProofs`: of `BufferObjects` and `TokenManager`) | TLAPS |
| `MC*` | constants for TLC | the module they extend |

Conventions. An action is what a thread does between two points where another
thread can see or change its state; a method that holds its mutex from the first to
the last statement is one action. A failed assertion, an exception that nobody
catches, a null or dangling pointer that is followed, or a wait nobody can end is
recorded in a variable (`failure`, `failed`) and ends the behaviour. A guard marked
`client` or `caller` is a restriction on how the code is used, not a test the code
makes. An operator whose comment starts with "Mutant" is a variant of the definition
below it with a plausible bug; every property of a passing run is violated by
one.

### Names
`Tokenizer` keeps the fields of `run_t`, `first` and `length`, and the code's
order of steps: `_indexOrderOf` is the binary search with its `order`
output, a recursive function over its rounds (`Round`), `_insertTokenAt` extends the previous run, merges with the next or
inserts, `release` splits. `TokenManager` adds the batches of `getToken` and
`recycleTokens`, whose loops run under `mLock`. `call` records the array the caller
gets or gave, so that `NameSpace` can speak of it.

### Buffer objects
`bound` holds the `buffer_t` pointer of `array_buffer`, `element_array_buffer` and of
each vertex array; `mBuffers` is the keyed vector; `obj[o]` is the object at
address `o`, and `new` may return any address that no live object has, so a
dangling pointer can meet a new object. `room` is what `malloc` gave, `size` what
the code believes. `glBufferSubData` tests a sum of two signed words, which wraps above
`MaxLong` (`SignedSum`); `SumsFit` says that no sum of two sizes does. Clients bind any name, generated or not. A context is current to one thread, so a GL call is one action.

### Textures
`TextureObject` is `EGLTextureObject`: a base surface with its byte count `mSize`, an
array of levels, `mIsComplete`. `reallocateBase`, `reallocateMip`, `allocateMipmaps` and
`buildAPyramid` work on a record of the heap and the object, in the code's order, and
any one malloc of a call may fail, or must when no block is left. Sides are 1 to 4096 texels
(`GGL_MAX_TEXTURE_SIZE`) and texels up to four bytes, so byte counts fit an `int32_t`. A surface is its memory, its dimensions and its
bytes per texel; the texels are left out. Rows are taken without padding, as with
`GL_UNPACK_ALIGNMENT` 1: the alignment (`texture.cpp:53`, `383`) changes the stride and the
byte count of an image together.

`Textures` has the table of the manager (`mTextures`), `unit[u]` with its object and
name, and `count`, the reference count of every object. `getAndBind` is
`getAndBindActiveTextureObject` with `replaceTexture`: a named object somebody else
still holds is replaced by a new one. `ras[u]` is the rasterizer's copy of the unit's
surface and parameters, or `Stale` while the unit is dirty; `Draw` refreshes it as
`ogles_validate_texture` does and turns units with incomplete textures off. `badUpload` and
`badDraw` record that texels were written or read where there is no memory for them.
`odd` collects events the code is known not to handle (section 3); each property
names those it excludes, and all others hold after them too. A level above 0 that is refused because
there is no base image (`NO_INIT`, `NoImage`) is no such event.

### EGL and the native window
`cx[c]` has the `IS_CURRENT` flag, `draw` and `read`, and the two buffers its rasterizer
was last given (`color`, `readb`). `sf[s]` has `ctx` and the dequeued `buffer`.
`eglMakeCurrent` is `MakeCurrentCheck`, everything it and `makeCurrent` read and
test, followed by `eglMakeCurrent`, everything they change; in between, and only
if the clients race, another thread may enter EGL. `connect`, `disconnect`,
`bindDrawSurface` and the window's `dequeueBuffer`, `lockBuffer` and `queueBuffer` are
operators on a record of surfaces and windows, applied in the code's order.

The constant `May` is the set of things clients do beyond plain use: switching a
context to another draw surface, destroying bound objects, sharing a window, reading
from a window, swapping a surface that is only read, racing, carrying on after a
failed `eglMakeCurrent`, and an uninitialised `front` that happens to be a buffer.
Plain use is the empty set. The allocation of the depth buffer may always fail; under
plain use that ends the behaviour (`bad_alloc`).

### Task queues and message loops
`tasks[q]` is the union of the two heaps of a queue's task source; `Top` chooses
between them as `TaskSource::Top` does. `kUserInteraction` and `kUnspecified` share the
primary heap everywhere and are one grade. `timer[q]` is the time the loop is armed
for: `WakeUp` replaces it, as `timerfd_settime` does. `MessageLoops` adds the position
of each loop's thread (`start`, `wait`, `flush`, the `final` flush of `DoRun`, `dispose`,
`done`, `gone`), the two unlocked halves of `PostTask`, `Thread::Join` and the
destruction of the loop. A step that meets an erased queue, or a queue it may not
dispose of, is recorded as a failure, for the loop (`LoopFails`), its destructor
(`DestroyFails`) and a thread that posts (`PostFails`) alike. A task that `Join` posts terminates the loop of the thread
that runs it.

### Worker pool
`pc[w]` says whether a worker is about to take the mutex, asleep, outside with
work, or gone. `notify_one` is an action of its own since the code calls it after
unlocking. Spurious wake-ups are allowed. `early` records which tasks for all workers were
posted before `shutdown_` was set.

### Raster thread merger
`Merge`/`Unmerge` and the assignment of `lease_term_` are separate steps because
`IsOnRasterizingThread` reads the lease without the mutex; `lock` holds everybody else
back. Between `DecrementLease`'s unlock and `UnMergeNow`'s lock a thread is in `gap`, and
between `IsMerged()` and `ExtendLeaseTo`'s lock in `extend`. `Renderers` merge; those in
`Managers` also extend, decrement and end the lease (`raster_thread_merger.h` wants
`UnMergeNow` on the raster task runner, so this is one thread at a time); `Togglers`
enable and disable; with `Checked` a manager asks `IsMerged()` first.

### Events and latch
One module for the three classes: `kind` says which one a behaviour is about.
`Signal` is two steps, since it notifies with the mutex held; a waiter is `asleep` until
it is notified or wakes spuriously, and `woken` until it has the mutex. `wait_for` may
report a timeout to a waiter that was notified as well: `TimeOut`. `Destroy` is the end
of the scope that holds the event, which its waiter reaches first.

### Drawing
A vertex is its index, and `data` (`entry` in `DrawArrays`) says which vertex an
entry was last compiled from; `-1` stands for anything left by an earlier call, so a
primitive with a stale vertex never equals the one GL defines. A tag is the pair of
sequence number and index that the code packs into a word. `drawn` is what an
iteration renders, in `DrawArrays` with each primitive at its place in the batch, and
`due` (`Due`) what GL says, rejected primitives taken away on both sides. `DrawArrays`
follows the pointers v0 and v1 through a batch with `Pointers`, a function of the
triangles swapped so far. The transformation decides which clip planes a vertex is outside of: any
choice is possible in `DrawArrays` (`flags`), and a constant one in `VertexCache`.
The early returns of both entry points for a bad mode, type or count, disabled
arrays and culled faces change nothing but the error code and are not actions.
`VertexCache` leaves the count of a call open, `DrawArrays` needs it for its batches.
One thread draws, so an iteration of a loop is an action.

## 3. Runs

Passing runs:

| Run | Shows | Bounds |
|---|---|---|
| `names` | `RunsSortedAndMerged` (the run vector is sorted and merged, the search is membership); `ImplementsNameSpace` | 3-bit names, at most 7 in use, batches of 2: up to four separate runs, every split and merge |
| `buffers` | `PointersLive`, `CopiesStayInside` with any names and failing mallocs | 2 names and 0, 2 addresses, 2 texture units, sizes 0..2, whose sums fit (`MaxLong` = 4) |
| `textures` | `NamesResolve`, `ReferencesCounted`, `BlocksOwned`, `RasterizerFollows`, `UploadsFit`, `DrawsSampleTexels` | 1 name and texture 0, 2 units, 3 objects (the default one, a shared one and its replacement), 4 blocks, images of 1x1 and 2x2, levels 0 and 1, 2 images or parameter changes, 1 kind of event in `odd` |
| `egl` | `NoFailure`, `BindingsAgree`, `BuffersAccounted`, `RasterizerFollowsSurface`, `ContextOnOneThread` under plain use | 2 threads, 2 contexts, 2 window surfaces of one window, 1 pbuffer, rings of 2 buffers (`NUM_FRAME_BUFFERS`) |
| `loops_wake` | `NoOversleep`, `MergeTopology`, `PeekIsEarliest` with merges, pauses, joins and the clock | 2 loops, 1 poster, 3 tasks, 2 times, 1 merge; one loop is joined, the other one's microtasks are paused |
| `loops_join` | `NoFailure`, `TasksAreHandled`, `JoinReturns` for clients that never join a merged loop; `TasksAreHandled` is about the tasks registered before `DisposeTasks` | 2 loops, 1 poster, 3 tasks, 1 merge |
| `pool` | `ExactlyOnePlace`, `SomebodyComes`, `OwnTasksKept` (a task for all workers is once in each worker's list, hands or past, and whoever left has run the early ones); `PostedTasksRun`, `AllWorkersRun`, `WorkersExit` | 2 workers, 1 caller, 3 tasks (more than workers), 1 task for all |
| `merger` | `LeaseMatchesQueues`, `RasterizesWhatItOwns`, `ChecksHold`, `WaitReturns` | 2 renderers, of which one manages the lease, enables and disables while the other merges at any time; leases up to 4, waiting platform thread |
| `events` | `OneWaitPerSignal`, `SignalIsTaken`, `LatchWaitsForAll`, `NotUsedAfterWait`, `WaitersReleased` | 3 threads (a signaler and two waiters, or two counters and a waiter), counts up to 2, 3 signals, 1 reset, 4 waits, `signal_id_` modulo 4 |
| `draw_elements` | `PrimitivesExact`, `LocksMatchUse` for strips that do not repeat an index within a primitive | 5 buffer entries, 4 cache entries, 4 indices of which 3 share an entry, 3 sequence numbers, array calls over all 9 entries |
| `draw_arrays` | `BatchesExact`, `BatchesFit` | 5 entries: batches of 2 to 5; up to 6 vertices, so two batches of a strip; 2 planes |

One run expects a violation, with a finding in `PROJECT.json` that quotes what the
repository says: in `merger_disable`, `Disable` comes in the gap, `kUnmergedNow` is
answered, and the queues stay merged.

The passing runs restrict the clients where the code needs it. What TLC reports when
a restriction is lifted (a constant of the run is changed, nothing else):

| Restriction lifted | Property violated | What happens |
|---|---|---|
| `names`: `NameLimit` = `TokenCount`, which `BoundsAssumption` excludes | `RunsSortedAndMerged` | with every name in use the length of the only run wraps to 0, so the next `acquire` (`Tokenizer.cpp:50`) hands out the reserved name 0 |
| `loops_join`: clients join a merged loop | `NoFailure` | `DisposeTasks` asserts that the queue is not subsumed |
| `loops_wake`: `ResumeSubsumed` | `NoOversleep` | resuming the secondary source of a subsumed queue wakes nobody (`message_loop_task_queues.cc:302`): the owner sleeps past a microtask that is due |
| `buffers`: `MaxLong` = 3, so that `SumsFit` is false | `CopiesStayInside` | `offset + size` (`array.cpp:1532`) wraps to a negative value and passes the test |
| `merger`: `Checked` = FALSE | `ChecksHold` | `UnMergeNow` tests only `enabled_`, so it unmerges queues that are not merged; `ExtendLeaseTo` finds no lease |
| `merger`: both renderers are managers | `ChecksHold` | both pass `IsMerged()` or the end of the lease, and the second `Unmerge` fails |
| `merger`: another thread toggles | `LeaseMatchesQueues` | `Disable` in the gap: the lease is over and the queues stay merged |
| `egl`: `switch_draw` | `BindingsAgree` | the old surface is disconnected but keeps its `ctx` (`egl.cpp:1719`), so it counts as bound for good |
| `egl`: `destroy_bound` | `RasterizerFollowsSurface` | `eglDestroySurface` disconnects a surface a context is bound to; the context keeps the pointer |
| `egl`: `destroy_context` | `BindingsAgree` | a context destroyed while bound: its surfaces keep their `ctx` |
| `egl`: `share_window` | `NoFailure` | the second surface dequeues the buffer that is on the screen, and `lockBuffer` waits for ever |
| `egl`: `read_window` | `NoFailure` | a window surface that is only read from is never connected and has no buffer (`egl.cpp:573`) |
| `egl`: `swap_read` | `RasterizerFollowsSurface` | swapping a surface that is only read redirects the drawing (`egl.cpp:1852`) |
| `egl`: `race` | `NoFailure` | a call acts on what it tested before another thread changed it: a surface destroyed in between is connected |
| `egl`: `carry_on` | `BindingsAgree` | after a failed depth buffer the context keeps surfaces that do not know it (`egl.cpp:1742`) |
| `egl`: `stale_front` | `NoFailure` | `lockBuffer` compares with a `front` nobody has written and waits for ever |

Other restrictions are written into a property or an assumption rather than a
constant, and TLC reports a violation without them:

* `pool`: tasks that are still queued at `Terminate`, beyond one per worker, are
  never run, since a worker that saw `shutdown_` takes one task and leaves
  (`concurrent_message_loop.cc:92`). `PostedTasksRun` speaks of a running pool.
* `loops_join`: a task that is registered after `DisposeTasks` (`message_loop_impl.cc:108-111`),
  by a thread that found `terminated_` still false (`:61`), is neither run nor dropped until the loop
  is destroyed. `TasksAreHandled` speaks of the tasks registered before.
* `merger`: a lease granted between `DecrementLease`'s unlock and `UnMergeNow`'s lock is
  ended at once, although by `raster_thread_merger.h:31-33` a lease of 2 lasts for two calls of
  `DecrementLease`. No property says that it does; `RasterizesWhatItOwns` and `ChecksHold`
  hold in that case too.
* `PrimitivesExact` and `LocksMatchUse` hold for strips that do not repeat an index within a primitive.
  A repeated index hits the entry the striper already holds; consuming the older
  pointer unlocks it, and the next colliding index is compiled over it
  (`array.cpp:803`, `892`).
* `BatchesExact` leaves out line strips and fans after a rejected batch. A rejected
  batch of a line strip copies back the wrong vertex (`array.cpp:601`), so the next line
  starts at the vertex before the batch. For fans the flags carried over are those of
  the last two vertices (`array.cpp:703`) and not of the centre, so a batch whose rim is
  outside is rejected although the centre is inside.
* `SignalIsTaken` leaves out a timed waiter that was notified and reports a timeout all
  the same: it takes the `notify_one` with it, and a plain `Wait` sleeps on although the
  event is signaled (`waitable_event.cc:92`).
* `EventAssumption` has fewer signals than `Ids`: a waiter of a manual-reset event
  that sleeps through 2^32 signals would find `signal_id_` unchanged.

The properties of `textures` exclude these events of `odd`:

| Event | What happens |
|---|---|
| `oom` | a failed allocation at level 0 clears the memory but keeps dimensions and format; `glTexSubImage2D` and the one-to-one path of `glDrawTexiOES` then use a null pointer |
| `tiny` | a level above 0 of a 1x1 texture replaces the base image, without `mSize` and without a dirty unit |
| `image` | an image of a native buffer has no memory, since the code that locks the buffer is compiled out; `direct` is never reset, so the destructor frees nothing of what is uploaded later and `glTexSubImage2D` is refused |
| `shared` | `glTexParameter` on a texture of two units makes only the active unit dirty |
| `revived` | a draw turns a unit with an incomplete texture off; `glEnable` turns it on without making it dirty, and the next draw samples no memory (`texture.cpp:99`) |
| `missed` | `glDrawTex*OES` sets its wrap and coordinate modes on the client's active unit when the enabled unit was clean (`texture.cpp:717`) |

`CacheAssumption` asks for five buffer entries: with four, which `gl_context.h:224`
allows, `Spare` reaches the first cache entry and TLC finds `PrimitivesExact` violated.
The build uses eight. A cache of a single entry is enough. The code computes
entries with bit masks, for which `VERTEX_CACHE_SIZE` must be a power of two.

Deadlock checking is off where the system may stop: clients need not call anything,
the bounds on tasks, leases and merges run out, and a recorded failure ends the
behaviour. It is on for names and buffers, where some call is always possible.

## 4. Fairness

`MessageLoops`: weak fairness of every loop's steps, of the second half of a
`PostTask` under way and of the clock. Threads are preemptively scheduled, nothing in
`PostTask` blocks for ever, and the timer is a kernel timer. Nothing is assumed of
clients: they need not post, join or unmerge.

`ConcurrentLoop`: weak fairness of each worker and of the `notify_one` that follows
an unlock. Tasks are taken to return. No fairness for spurious wake-ups, which
would hide a lost notification.

`RasterThreadMerger`: weak fairness of a method under way and of the woken waiter.
`WaitReturns` says that a waiter gets to run when the threads are merged for good,
not that somebody merges them.

`WaitableEvent`: weak fairness of each thread inside a call: it gets the mutex some
time, goes on, and a timeout expires. Nobody need signal or count down, and spurious
wake-ups are not relied on.

## 5. Proofs

TLAPS checks these for every value of the constants, from the named `ASSUME`s of the
modules:

* `MessageLoopsProofs!TypeCorrect`, `TopologyCorrect`: for every number of queues,
  tasks and pauses the task queues are well typed and `MergeTopology` holds:
  `owner_of` and `subsumed_by` are inverse, there are no chains, and both lead to
  live entries. The conjunction with the type invariant is inductive. `Merge` keeps it
  because it refuses a queue that owns or is owned, `Dispose` because it erases a
  subsumed queue together with its owner. `LoopsTopology` says the same of the queues
  under the loops.
* `MessageLoopsProofs!EarliestTaskNext` (`PeekIsEarliest`): the next task of a loop is the
  earliest of up to four heaps. `QueueInv` adds to types and topology that the orders
  of the tasks registered are below the next one and differ, so that `CHOOSE` in
  `HeapTop` has one value, and that erased entries have left no task; a nonempty heap has a top because (time, order) is well founded.
* `MessageLoopsProofs!NoLoopOversleeps` (`NoOversleep`), assuming `~ResumeSubsumed`; section 3
  shows that the assumption is needed. The invariant is that a loop which waits or
  will wait without looking again has its timer armed for its earliest task
  (`OnTime`). A task taken away or a source paused leaves only later ones; whatever adds a task to those a
  loop drains (register, merge, unmerge, resume) arms the timer of the loop that drains it.
* `MessageLoopsProofs!LoopsNeverFail` (`NoFailure`), for clients that never merge a loop
  that is joined or join one that is merged (`Disciplined`). `QuitTasksOwn`: the task `Join`
  posts is in the queue of the joined loop and in no other; `JoinsInOrder`: a loop ends only
  after its join began, and from then on it is not merged, so `DisposeTasks` finds it alone;
  `HeldLoops`: a loop that somebody is posting to has not been destroyed, so its queue is there.
* `ConcurrentLoopProofs!PoolNeverSleepsOnWork` (`SomebodyComes`), for every number of workers,
  callers and tasks. The strengthening says that a worker has tasks in its hands only in `work`,
  that it left only after it saw the shutdown, and that a shutdown it saw is still
  there; without it a worker that exits could be the one the queue counted on.
* `ConcurrentLoopProofs!TasksRunAtMostOnce` (`ExactlyOnePlace`), for the same constants: a
  posted task is once in the queue, in the hands of one worker, or was run by one. It
  needs that a worker only holds a task at `work` and that each task is posted once.
* `ConcurrentLoopProofs!OwnTasksNotLost` (`OwnTasksKept`): the same for the lists of the workers,
  and a worker that has left has run every task for all workers that was posted before
  the shutdown. `LastRound` is what makes the end of the loop right: a worker that saw the
  shutdown took its list in the same critical section, so no early task can still be in it.
* `GLObjectsProofs!BufferPointersLive` (`PointersLive`) and `BufferCopiesInside`
  (`CopiesStayInside`), for every set of names, addresses, texture units and sizes; the second
  assumes `SumsFit`, and section 3 shows that it is needed.
  `PointersLive` needs `ObjectsKeyed`: the manager keeps an object under the name
  stored in it. `glDeleteBuffers` clears slots by the stored name and frees by the
  key, and only this makes them the same object. `CopiesStayInside` needs `RoomFits`:
  `size` never exceeds what `malloc` gave.
* `GLObjectsProofs!TokenRunsSorted` (`RunsSortedAndMerged`) and `TokenImplements`
  (`ImplementsNameSpace`), for every `TokenCount`, batch size and `NameLimit` below
  `TokenCount`: the run vector stays sorted, merged and without empty runs, the binary
  search finds exactly the names in it, and every behaviour of the manager is one of the
  abstract set of names. The invariant (`TokenInv`) is that any two runs have a free token
  between them, that no run reaches above `NameLimit`, so that no sum wraps, and that 0 is
  in a run. From it `SearchFinds` shows that the search ends on the run that holds the token
  or at the place where its run belongs, `InsertToken` and `ReleaseTakes` that the four
  cases of `_insertTokenAt` and of `release` add or take the token and nothing else, and
  `AcquireAdds` that the first run ends at a free token: as many names as it is long are in
  use, and that is less than `NameLimit`. A loop of the code is a recursive function; that
  it has a value and what its turns keep is shown with the least turn that would
  be the first to fail, which needs no induction rule.
* `DrawingProofs!BatchesStayInside` (`BatchesFit`) and `EveryBatchAdvances`, for
  every number of entries from four on, every primitive and every count. The
  invariant says that while the batch loop runs there are vertices left
  (`first < total`); with `vcs` at least 1 a batch then takes at least one, so a call
  ends after at most `count` batches.
* `DrawingProofs!BatchesRenderExactly` (`BatchesExact`), for the same constants and all flags
  of the vertices; line strips, line loops and fans are left out from a rejected batch to the end of
  their call, as the property says. `Held` says which vertices the entries carry into the next batch:
  nothing for lists, which advance by whole primitives (`ListsEven`), the last vertex
  for lines (`LinesHeld`), the last two in the order that keeps the winding for strips
  (`StripHeld`; it needs that batches are even), the centre and the last one for fans
  (`FanHeld`). Within a batch the pointers are a recursion over its triangles;
  that they have a closed form is shown by a least counterexample.
* `DrawingProofs!IndexedRenderExactly` (`PrimitivesExact`) and `LocksExact` (`LocksMatchUse`),
  for every buffer of at least five entries, every cache, every set of indices and every
  limit of the sequence numbers; both leave out the rest of a call once a strip, line strip,
  loop or fan has used an index twice in one primitive. `CacheInv` adds `Tags`, no tag is of a later call and one of this call
  names what its entry holds; `Locks`, nothing is locked but what the two pointers hold;
  and `LinePoints`, `StripPoints`, `FanPoints`, what they point to is what GL draws from.
  With at most two entries in use `Spare` is free (`FetchVertex`; the comment at
  `array.cpp:467` says as much). A fetch returns an entry the striper points to
  only if that entry holds the vertex already (`FetchElsewhere`), and then the strip uses an index twice. `clear`
  leaves no tag of the new call, also where the numbers start again.
* `TexturesProofs!TextureReferencesCounted` (`ReferencesCounted`) and `UnitNamesResolve`
  (`NamesResolve`), for every number of names, units, objects and images and any
  failing allocation. The two need each other and `Nameless` (texture 0 has no
  name): `replaceTexture` reads the count of an object because the unit's name
  resolves, and a new object is not the default one because that is counted. The
  lemmas count the units and names that point to an object before and after one
  of them is changed.
* `TexturesProofs!TextureBlocksOwned` (`BlocksOwned`), `CopiesFollow` (`RasterizerFollows`),
  `TexelsFit` (`UploadsFit`) and `SamplesHaveTexels` (`DrawsSampleTexels`), for images of every
  size up to `GGL_MAX_TEXTURE_SIZE` and up to four bytes per texel. Their common invariant is
  `ImageInv`. `MemInv`, `LeakInv`, `SizeInv` and `DataInv` say of every object that its blocks are allocated and
  nobody else's, that every allocated block is somebody's, that base and levels have room for their
  dimensions, and that a complete texture has memory at level 0. `CopyTypes`, `SurfacesFollow`,
  `ParamsFollow` and `OnHasData` say of every clean unit that the rasterizer's copy is
  that of its texture, and has memory if the unit is on. An action changes one
  object; that the copies of the other units do not notice rests on
  `ReferencesCounted`: an object with a second pointer to it has a count of at least two,
  and then `replaceTexture` makes a new one. The levels `buildAPyramid` generates are
  handled one at a time, by a least counterexample over the level instead of an induction.
* `WaitableEventProofs`: `OneWait` (`OneWaitPerSignal`), `NoLostSignal` (`SignalIsTaken`),
  `LatchOpensLast` (`LatchWaitsForAll`), `DestroyIsSafe` (`NotUsedAfterWait`), for every
  number of threads, signals, waits and counts. The strengthening: `Inside`, the
  mutex is held by the thread between its two steps of `Signal`; `Quiet`, before the
  first signal nothing looks like one; `First`, no wait has returned while the first
  signaler is still inside; `Last`, a latch is signaled by the one thread that
  counted down to 0 and not before.
* `RasterThreadMergerProofs!NeverRasterizesUnowned` (`RasterizesWhatItOwns`), for any threads in
  any role and leases of any length: a positive lease implies that the platform queue owns the
  raster queue (`Sound`), although the lease is read without the mutex.
* `RasterThreadMergerProofs!NoCheckFails` (`ChecksHold`), assuming one manager that asks
  first (`Checked`), with any number of other renderers and togglers. `Managed`: only the
  manager is in `gap`, `unmerging` or `extend`, and there the queues are merged; another
  renderer can only merge them again.
* `RasterThreadMergerProofs!LeaseAndQueuesAgree` (`LeaseMatchesQueues`), assuming also that the
  manager is the only toggler; `merger_disable` shows that this is needed. `Pending`: queues that
  are merged without a lease are about to get one or about to be unmerged.
* `EglProofs!OneThreadPerContext` (`ContextOnOneThread`), for every number of threads,
  contexts and surfaces and all habits of clients but two: they enter EGL one at a
  time and destroy no context in use (`Disciplined`). `Checked` says that what
  `eglMakeCurrent` tested still holds when it acts, and `Marked` that `IS_CURRENT` is
  set for exactly the contexts some thread has.
* `EglProofs!EglNeverFails` (`NoFailure`), `LinksAgree` (`BindingsAgree`), `RingsAccounted`
  (`BuffersAccounted`) and `RasterizersFollow` (`RasterizerFollowsSurface`), for plain use
  (`May = {}`) and every number of threads, contexts, surfaces, windows and buffers per
  ring. `PlainInv` adds to the invariant above: `Links`, the links in both directions,
  also for objects that are not live; `Sane`, only live window surfaces have a buffer, a
  window has one such surface, and its ring is `Idle` (all buffers free, the next one not
  on the screen) or `Busy` (the next one follows the buffer in use, which is not on the
  screen); `Found`, what `eglMakeCurrent` tested of surfaces still holds. `dequeueBuffer` and
  `lockBuffer` return because a surface that connects finds the ring `Idle`, and
  `queueBuffer` leaves it so. When the depth buffer cannot be allocated `Sane` still holds.

Out of the prover's reach and left to TLC: liveness under fairness (`loops_join`,
`pool`, `merger`, `events`).

## 6. Only model-checked

All liveness, on the instances of section 3. The state of these modules is symmetric in
threads, contexts, tasks or workers, and the interactions are between two or three
of them, which the bounds allow.

## 7. Not modelled

* Fixed-point arithmetic, lighting, gradients, spans and pixel conversion: numerics
  on 32-bit words, for which small integers are no substitute.
* The bytes in buffers and texels in textures, `glReadPixels`, the texture environment;
  the fetching of vertices and the functions `validate_arrays` selects for it; the LRU
  variant of the vertex cache, which is not built; array calls over more than 65536
  vertices, whose tags reach into the sequence numbers.
* EGL config tables, queries, pixmaps, swap rectangles, the error code of a thread;
  the depth buffer beyond its failed allocation; the locking of native buffers that
  are textures, which is compiled out.
* Task observers and the thread-local grade of task queues; the loops of macOS,
  Android and Fuchsia; thread names.
* `Semaphore`, `SyncSwitch` and `SharedMutex`: each wraps one call of the system or one
  critical section.
* File access, logging, parsing and paths in `base/`; window creation and drawing in
  `windisplay/`.
* ETC1 textures: the path is compiled only with `GL_OES_compressed_ETC1_RGB8_texture`, which
  `include/gles/GLES/glext.h:463` has commented out.
* Vendored code, samples, and `compiler/shader`, which the renderer does not call. These
  are all but a few percent of the repository's lines.

Met while reading, outside of what the properties say:

* `glActiveTexture` and `glMultiTexCoord` accept the number of units as a unit
  (`> GGL_TEXTURE_UNIT_COUNT`). The models take units that exist.
* When a texture of two units gets a new base image through one, the other keeps the
  old image under the same name, since `replaceTexture` makes a new object.
* `buildAPyramid` reads outside the row above for images one texel wide or high, and
  its end test `(w & h) == 1` (`mipmap.cpp:185`) stops early for sizes that are no
  powers of two. `PyramidTop` keeps the test, the reads are data.
* An image of size 0 keeps the block of a `malloc(0)` for ever. The models use images
  that have texels.
* `glCompressedTexImage2D` computes the size of a paletted image from the format it
  converts to and not from the one of the data (`texture.cpp:1154`).
* Two `Signal()` calls before a wait count as one, as with any event.
* `GetCurrentTaskSourceGrade` follows a thread-local pointer that not every thread has
  set (`message_loop_task_queues.cc:100`); a pool whose last reference is dropped by its
  own task joins itself (`concurrent_message_loop.cc:38`).
* Swap rectangles (`egl.cpp:457`): the dirty regions are not initialised, and the old one
  is out of date after a frame without a rectangle and after a reconnection; a
  rectangle outside the window makes the copied region reach past the row.

## 8. Plan

Done: names, task queues, message loops, worker pool, merger, native window and EGL,
buffer objects, indexed and array drawing, textures, events and latch. Next, in order of
importance:

1. `SwapRectangle`: the dirty regions of a window surface, the copy back from the
   previous buffer, and `Region::subtract` against set difference. Abstract
   specification: outside the swap rectangle a frame shows what the frame before it
   showed.
2. A composition of `RasterThreadMerger` with `TaskQueues` instead of its `owns`;
   observers and grades in `TaskQueues`.
3. `MatrixStack` and the lazy validation of derived state: every value a draw call
   uses is that of the current stacks.
4. `Clipper`: the six-plane clipper's buffers, bounded by the vertices they can hold.
5. `SyncSwitch`, `WeakPtr`, `SharedBuffer`: small concurrent state machines.
6. The theorem that `TaskQueues` implements an abstract priority queue.
