# kiwin: a verification project

kiwin is a small window system for the Linux frame buffer: a server (kwgssrv)
with one thread per window, a client library (kwgscli) that talks to those
threads over stream sockets, and drivers for keyboard, mouse and screen. This
directory holds TLA+ modules that model its concurrent and algorithmic core,
TLC configurations that check them on small instances, and TLAPS proofs.

All source paths below are relative to `src/src/`.

## 1. Inventory

### Who runs

* The **main thread** (`kwgssrv/kwgssrv_main.c`): `select()` on the listening
  socket and the two driver sockets. The first two connections are taken for
  the mouse and the keyboard driver, every further one for a client, whose
  first request it reads and hands to `accept_window` or `accept_wmanager`.
* **One thread per window** (`wnd_thread_func`, `kwgssrv/kwgssrv_wnd.c`): sends
  at most one pending event if the client waits for one, then sleeps in
  `select()` until the client writes, then handles one request.
* **Two driver threads** of the server, for mouse and keyboard: each reads its
  device and writes events to the main thread, through a connection to the same
  named socket that clients connect to.
* **Clients**, each with one thread and one socket per window.

They share the tree of windows, the clips that hang off it, the event queues
and the frame buffer. What keeps them apart are semaphores: a readers/writer
permit `wnd_stack_sync` on the tree, a second one for the window manager, two
plain semaphores per event queue, and two for the window table.

### Parts

| part | state | operations | hard behaviour | what makes it correct |
|---|---|---|---|---|
| readers/writer permit, `sync_t` (`kwgssrv_wnd.c`) | mutex, two token semaphores, `aw ww ar wr` | get and release, for reading and for writing | a grant and the taking of it are two steps of two threads; hand-over to waiting threads | excludes; counts everybody once; forgets nobody; writers first |
| window event queue (`kwgssrv_event.c`) | linked list with head and tail, free list, a semaphore each | `alloc_event`, `get_next_event`, `deliver_*` | filled and copied outside the semaphores; `malloc` fails | no node lost or used twice; each event handed over once, in order |
| window threads (`kwgssrv_wnd.c`) | `waiting_for_event`, `eventmask`, socket | loop, request handlers | an event races a request for it; the thread sleeps in `select()` | what is pending and asked for is sent |
| client library (`kwgscli/`) | `reqbuf`, `getevent_active`, `*ep` | draw, select, map requests; `KGetNextEvent` | buffering, several windows ready at once | both sides agree who is asked; order kept; what is buffered is sent |
| window tree (`kwgssrv_wnd.c`) | `parent`, `children`, `siblings`, position, `mapped`, `need_recalc_clip` | accept, map, move, find | stale checks, who is affected by a change | clips fresh, exposures complete, pointer finds what is seen |
| regions (`kwgssrv_region.c`) | array of rectangles in bands, extents | init, subtract, intersect | band sweep, array growth in place | exact, banded, within its array |
| clip, clip cache, drawing (`kwgssrv_clip.c`, `kwgssrv_draw.c`) | region, cached rectangle with its answer | `calc_window_clip`, `check_point_in_clip`, point, line, rect, fill | answers for points nobody looked at | draws exactly what is visible |
| frame buffer (`screen/`) | pixels | points, lines, fills | – | – |
| server start, main loop (`kwgssrv_main.c`) | steps done, driver connections, the queue of connections | `kw_init`, `main_select` | who connects first; steps that fail; waiting for a client's first request | drivers and clients told apart; input is served |
| window manager (`kwgssrv_wmanager.c`, `kwgscli_wmanager.c`) | the one manager, its permit | register, init events | waits for an uninitialised permit | a registration is answered (it is not) |
| socket wrappers (`kwgssrv_io.c`, `kwgscli_io.c`) | bytes under way | framed reads and writes | short reads and writes, closed peers, failing writes | both ends stay in step; what is written is handled |
| keyboard (`kbd/`) | modifiers, locks, lights, mode of the console | one key code at a time, console switch | codes missed while switched away; auto-repeat | modifiers are the keys held; a lock changes once a stroke |
| mouse, cursor (`mouse/`, `kwgssrv_cursor.c`) | packet buffer, buttons, position; block saved under the pointer | read, packet, event; restore, save, draw | bytes in portions or lost; windows draw under the pointer | driver follows the mouse; buttons in turn; no trace left |
| xpm reader (`kwxpm/`) | hash table, scanner | intern, look up, grow | collisions, growth of an open-addressed table | a look-up is a search through the colours; it ends |
| colours, graphics contexts, registry file, log | – | conversions and thin wrappers | – | not modelled |
| `Program_files/` | – | callers of the library | – | not modelled |
| gdbm, zlib, libpng, FreeType | – | third-party code | – | not modelled |

`PROJECT.json` lists the same parts with their status, and under `hazards` the
places in the code, by line, where something can go wrong that a test would
hardly reach.

### The composed server does not get far

At this commit a server started from `main` stops at its first client:

* The first window's parent is `root_window_ptr`, which is still `NULL` when
  `accept_window` reads its children (`kwgssrv_wnd.c:806`); `insert_wndhash`
  (`:436`) overwrites its parameter and never inserts anything.
* `wmp_sync` is never given to `init_sync`, so `accept_wmanager` (and
  `accept_window`, if it got so far) waits for a semaphore that is zero;
  `wndlist_sem` and `cache_window_sem` are never initialised either.
* `init_region` (`kwgssrv_region.c:663-672`) writes its rectangle and then falls
  through to the code for an empty region: every clip starts empty.
* The client's thread-specific keys are never created.

`ServerStart` has this as it is: main ends in `crashed` or `blocked` with the
first request. The other modules model each component by its own code and start
it where its callers mean to start it: the permit after `init_sync`, the tree with
a root window, `Clip` with the rectangle `init_region` is called with, `Wire` and
`EventDelivery` with a window that was accepted. `Region` has `init_region` as it
is.

## 2. Modules

    RWLock    <== RWSync        <-- WndStackProofs
                  WndTree       <-- WndStackProofs
    EventFIFO <== EventQueue    <-- TransportProofs
                  Wire          <-- TransportProofs
                  EventDelivery <-- EventDeliveryProofs
                  ServerStart   <-- ServerStartProofs
                  Pointer       <-- InputProofs
                  Keyboard      <-- InputProofs
                  XpmHash       <-- XpmHashProofs
    Rects     <-- Region        <-- RegionProofs
              <-- Clip          <-- DrawingProofs <-- RegionProofs
    A <== B: B implements A      A <-- B: B extends A      MC*: instances for TLC

**RWLock** is what a readers/writer permit promises; **RWSync** is `sync_t`. A
thread's `pc` names the statement it is at. Each semaphore operation is a step.
The counters are used only between P and V of `readWriteMutex`, so the
statements in between are one step (`GrantRead`, `QueueRead`, `DropRead`,
`HandToWriter`, ...), except the loop of `release_write_permit` that wakes the
readers, which is a step an iteration (`WakeReader`). A token goes to any thread
blocked on the semaphore. Window threads read (drawing) and write (mapping),
the main thread writes (accepting).

**EventFIFO** is what an event queue promises; **EventQueue** is `alloc_event`,
`deliver_exposure_event` and `get_next_event` over a heap of nodes with `next`
pointers. There is one producer at a time, as it holds the write permit, and one
consumer, the window's thread, which holds none. What a semaphore encloses is
one step, every other statement its own. `malloc` may fail. What `malloc` leaves in
a node is an event of type `garbage`.

**EventDelivery** has both ends of the sockets: `reqbuf` and `KGetNextEvent` in the
client, `wnd_thread_func` and the request handlers in the server. A socket is a
sequence of requests or events per direction. Events of a window are numbered.
The first loop of `KGetNextEvent` asks windows that are not asked, the second
reads those that are ready, in any order, all into the same `*ep`. A signal may end either
side's `select()` while there is nothing to be read: `KGetNextEvent` then returns
`EVENT_TYPE_NONE`, with its windows still marked as asked (`SelectInterrupted`), and a
window's thread goes round its loop (`ThreadInterrupted`). A handler is one
step; the queue is a sequence, as EventQueue shows that it may be. The client creates
its windows one after the other, at any time.

**Wire** is what lies below: the bytes of requests. `alloc_req` and `flush_reqbuf` put
them into a buffer and write it in pieces; `handle_client_window_req` reads a header
and then a body in pieces. A byte is known by its request and its place in it. The
socket starts with the rest of the request for the window, of which main has read the
header only (`kwgssrv_main.c:137`): the thread takes each of its words for a request
of length 0, or for one that is too large. Which handler such a word calls is left out.
`flush_reqbuf` does not ask whether writing failed (`WriteFails`), and a client may
close its socket at any moment with what it has not written.

**ServerStart** is `kw_init` step by step, each of which may fail, and `main_select`.
The queue of `listen` holds connections of drivers and programs; main accepts from it,
takes the first two for the drivers, and after that waits for the first request of
each connection it accepts, and for nothing else meanwhile. Messages have a type
only. A program that was taken for a driver, and a driver that was taken for a client,
are read as what they were taken for.

**Pointer** goes from the bytes of the PS/2 device over the mouse thread's buffer,
packets, position and buttons, and the events in the socket, to the pixels under the
pointer. Restoring, saving and drawing a block are a step each, between which windows
draw. `mouse` is what the device was moved to, and `content` what windows drew: what
driver and screen are compared with.

**Keyboard** is the keyboard driver: a key code is read, modifiers, locks and lights
are set, and an event is written. The user, the auto-repeat of the keyboard and the
kernel's consoles are outside. A code goes to the console that is active when the key
moves (`tty` is ours); `elsewhere` are the keys that moved last while another was.
`switch_vt` is four steps, in which consoles go on changing.

**XpmHash** is the hash table of the xpm reader. A turn of the loop of `xpmHashSlot`
is a step, as is each slot that `HashTableGrows` copies. A code is a model value, its hash
any number; `hash` is chosen among `Hashes`.

**WndTree** is the tree. `children[w]` is the list that `children` and `siblings`
make. A change of the tree is one step: it holds the write permit, and RWSync shows that
this excludes everybody else. A drawing request is one step as well, which is an
abstraction: several threads may draw under read permits at a time, and
`calc_window_clip` writes the clips of ancestors, whose threads may be among them
(`kwgssrv_clip.c:170`; see section 5). `map_window` reads `mapped` before it takes the
permit, and so that is a step (`CheckMapped`). A clip is kept as what it was
calculated from (the rectangle and what was cut out), because the question is
when it must be calculated again. `last` records the exposures of the last operation.
A draw into the root window that has mapped children reads through a null
pointer (`kwgssrv_clip.c:165`); the model stops there (`crashed`).

**Rects** has rectangles, and two notions of the specification that translate no code: the
points of a list of rectangles, and the banded form of a set of points (`Banded`), with
which results are compared and from which operands are taken.
**Region** is `region_operation` with the functions passed to it, one round of its loop
a step, the array's capacity (`rects_have`) included. The result replaces the first operand,
whose `rects_use` is zeroed (`kwgssrv_region.c:235`) before it is compared (`:242`): the array
starts at twice the length of the second operand. The loops over the rectangles of two
bands are a function from the places such a loop comes by to what it writes there and the
place it goes on to (`SubtractTurns`, `IntersectTurns`); `WrittenFrom` runs it.

**Clip** is the clip cache and all the drawing functions. A step draws one
request, or calculates the region anew. `Painting(q)` is what a request draws,
computed with the cache as the loops of `drawrow`, `drawcol`, `draw_line` and
`check_area_in_clip` use it, and the cache afterwards.

Definitions headed "Slips" are steps or operators with a mistake that their code
could have. `Next` does not use them. `PROJECT.json` names for every property a slip
that breaks it, so that no property holds whatever the code does.

## 3. Runs

Runs that pass:

| run | instance | what it shows |
|---|---|---|
| `rwsync` | windows w1, w2, w3 read; w1, w2 and the main thread write | `PermitExclusion`, `NobodyForgotten`, `WritersFirst`, the proofs' invariant `IInv`, refinement of `RWLock`, and under fairness `SomeWriterProgresses` and `ReadersServedAfterWriters` |
| `eventqueue` | 3 nodes, 8 events | `TailEndsQueue`, `NodesAccounted`, `EventsKeepTheirContent`, refinement of `EventFIFO` |
| `delivery` | 2 windows created at any time, both mapped and selecting events, one drawn into; buffer of 2 requests, 4 requests, 1 exposure, signals at any time | `OneRequestOutstanding`, `ReturnedInOrder`, `EveryEventReturned`, and under fairness `BufferedRequestsAreSent`, `PendingBeforeRequestIsSent` |
| `wndtree` | 3 windows of 2x1 on a screen of 3x1, two positions | `ClipIsFresh`, `PointerFindsWhatIsSeen`, `UncoveredIsExposed` |
| `region` | every region of 3x3, less or with any rectangle or region of two rows | `RoundsAreExact`, `ResultIsBanded`, `ArrayIsLargeEnough`, `ExtentsAreTight` |
| `clip` | a window of 4x3 under up to two rectangles; requests from one point outside each edge | `CacheIsTrue`, `DrawsWhatIsVisible` |
| `start` | the root window's program and another one, a queue of 3 connections | `ConnectionsAreTakenRightly`, and under fairness `InputIsServed` |
| `wire` | 3 requests of 2, 4 or 6 bytes, headers of 2, a socket of 5, a buffer of 5 that grows | `StreamIsWhole`, and under fairness `WrittenIsHandled` |
| `pointer` | a screen of 5x3, 3 of 6 packets, a cursor of 3 pixels, 2 pixels drawn | `DriverFollowsMouse`, `LeftButtonIsPaired`, `PointerLeavesNoTrace` |
| `keyboard` | 2 Alt keys, Ctrl, a lock, F2, space; 4 key moves, 2 consoles | `ModifiersAreHeld`, `LocksFollowStrokes` |
| `xpmhash` | 5 colours of 4 codes, 6 hash functions, a table of 2 slots that grows to 8 | `LookupIsFirstMatch`, `OneAtomForEachCode`, and under fairness `ProbingEnds` |

Each state machine's `TypeOK` (`KbdTypeOK` of `Keyboard`) is checked with its run: on its own, or as a conjunct of
`IInv`, `NodesAccounted`, `OneRequestOutstanding`, `ClipIsFresh`,
`ConnectionsAreTakenRightly` or `StreamIsWhole`. It has a say of its own in `pointer`
(the position stays on the screen), `keyboard` (the driver reads and writes in graphics
mode only) and `xpmhash` (the array is as large as the table says).

The run that finds a disagreement between the code and what it says of itself:

| run | property | what happens |
|---|---|---|
| `delivery_wakeup` | `PendingEventIsPassed` | `waiting_for_event` is looked at before `select()`; an event queued after that wakes nobody, and the client waits for good |

Further disagreements, which the definitions have as they are in the code:

* `alloc_event` links a node before its caller fills it, and the window's thread may
  send the old content (`kwgssrv_event.c:69`). `EventsKeepTheirContent` promises the
  content only of events that were filled when they were taken.
* Mapping or moving a child leaves its parent's clip as it was (`kwgssrv_wnd.c:957`),
  and the parent draws over the child. `kwgssrv_clip.c:182` says "If not the root
  window, clip all children."
* `calc_window_clip` cuts what covers an ancestor out of the ancestor's region, not of
  the window's (`kwgssrv_clip.c:170`). `:137-139` says "The windows that can obscure us
  are the earlier siblings of all of our parents."
* A request beyond `MAX_COORD` replaces the cache that prevents all drawing of a covered
  window (`kwgssrv_clip.c:247`). `:31-32` says of such a window "then set the clip cache
  to prevent all drawing."
* `KGetNextEvent` flushes a window only when it asks it or reads from it. A window that was
  asked by a call that returned without an event of that window (a signal interrupted it,
  `kwgscli_event.c:151`, or another window was ready) is passed over by the next call
  (`:124`), and what is buffered for it meanwhile, drawing requests say, waits until an event
  of that window comes, which may be never. `BufferedRequestsAreSent` states what does hold.
* The array of a new region is meant to be "enough so the individual functions don't need to
  reallocate" (`kwgssrv_region.c:237-239`); as `rects_use` of the first region is zero by then,
  it starts with two places when a window is cut out of a clip, and is grown step by step.
* `init_region` empties its region; the root window's clip dereferences `NULL`;
  `calc_window_clip` treats right and bottom edges as inclusive and the region functions
  as exclusive, so a window keeps the border of what covers it.
* A line to the left or upwards takes other points when it is wholly visible
  (`fb_draw_line`) than when it is partly covered (`draw_line`), which is why
  `DrawsWhatIsVisible` is checked for lines to the right or downwards.
* `reqHandlers` has eight entries, `TotalReqNum` is 9 (`kwgssrv_wnd.c:51`, `:636`).
* `KRegisterWManager` waits for an answer of type `KWNewWndReqNum`
  (`kwgscli_wmanager.c:112`); `accept_wmanager` sends `KWNewWManagerReqNum`.
* Alt and the *release* of Fn switch consoles too (`kbd/kwgssrv_kbd.c:411-417`, where the
  comment speaks of pressing), so coming back with Fn still held may switch away again;
  and `VT_WAITACTIVE` for our own console returns at once when the kernel has not left it
  yet, so graphics mode is restored while another console is about to be shown.
* DRAG events compare with where the mouse started, as nothing assigns
  `mouseDriver_previous_x/y` later (`mouse/kwgssrv_mouse.c:112`); the condition for
  MOVE asks for `event.middle` and `event.right` twice and never for their old values
  (`:148-150`); `MIDDLE_BUTTON_UP` and `RIGHT_BUTTON_UP` are never sent.
* When `HashTableGrows` finds no memory, `table->size` is already that of the larger array
  (`kwxpm/kwxpm_hash.c:106`), over which `xpmHashTableFree` then walks.
* `parse_xpm_file_comment` does not stop at the end of the file: within a comment it reads on
  for ever (`kwxpm/kwxpm_parse.c:532`).

### Bounds

* `rwsync`: no bound on behaviours. Three readers and three writers are the least
  with a reader and a writer each active, waiting, and in between; two
  threads do both. The proofs cover every other number.
* `eventqueue`: `MaxEvents` = 8 with 3 nodes: every node is used, recycled and
  used again, and `malloc` fails with the queue empty and not empty.
* `delivery`: `MaxRequests`, `MaxExposures` and `RequestsOf`; a buffer of 2 overflows with
  4 requests, which let both windows get events. One of them is exposed again and one is drawn
  into. That exposures are deselected is left to `delivery_wakeup` and to the proofs.
  `EveryEventReturned` speaks of clients with one window: with two, `KGetNextEvent` drops
  the first of two events that are ready together. `BufferedRequestsAreSent` speaks of
  windows that are not asked, or have an event to read (see above). The proofs
  cover every other size for `OneRequestOutstanding`, `ReturnedInOrder` and `EveryEventReturned`.
* `wndtree`: three windows make every shape of tree in which a window has a
  sibling and a child, or a grandchild; a row of three points suffices for windows
  that are apart, overlap, or stick out. Windows are interchangeable (`SYMMETRY`);
  the view leaves out the history variable and clips that are calculated again before
  they are used.
* `region`: all first operands, so all alignments of bands and gaps in three rows. The proofs
  cover every other screen and second operand.
* `clip`: `MIN_COORD` and `MAX_COORD` are -3 and 6, beyond the requests: all states of the
  cache that requests leave behind are reached. Rectangles that are cut out are at
  least two points wide and high; of thinner ones `calc_window_clip` cuts an empty
  rectangle, which splits others and takes nothing away.
* `start`: one event of each driver, so that both are under way at once; one program
  besides the root window suffices to be early, to take a driver's place, and to fill
  the queue (`Backlog` 2) together with the drivers. The proof covers every other
  number.
* `wire`: `MaxRequests` = 3: requests that fit, that overflow the buffer, and one that is
  larger than the buffer, each behind each. The socket holds less than the largest
  request, so that both sides wait for one another.
* `pointer`: three packets, one with an overflow bit, moves that reach the edges, both buttons;
  the driver starts in step, or with one or two bytes of a packet to come. Two draws
  suffice for one below the pointer and one beside it between any two of its steps.
* `keyboard`: four codes: Alt and F2 pressed and released, with keys held and lights lit
  from the start; a switch of consoles that the driver does not ask for. The proof covers
  longer strokes.
* `xpmhash`: six hash functions make all codes collide, make runs that overlap, and make
  searches go round the end of the array, before and after each growth.

`CHECK_DEADLOCK FALSE` is set where behaviours end: the bounded requests of `Wire`, the
finished operation of `Region`, the crash of `WndTree` and of `ServerStart`, the bounded
codes of `Keyboard` and packets of `Pointer`, the table that was freed in `XpmHash`.

### Fairness

`RWSync`: weak fairness of each thread for the statements of a request it has
begun, releasing included: handlers have no early return between get and release. Nothing
obliges a thread to begin another. `sem_wait` is not fair: which of the waiting
threads takes a token is open, so the promise is that *some* writer gets on.
`EventDelivery`: weak fairness of the client's loop, as the programs call
`KGetNextEvent` without end (`Program_files/kwRootWnd`, `demo2`), and of each window's
thread. Requests, exposures and signals are not fair: a signal may interrupt a `select()`,
and nothing that is promised waits for one.
`ServerStart`: weak fairness of the main thread, which loops in `main_select`; no driver
and no program is obliged to do anything.
`Wire`: weak fairness of the window's thread, which has no other end than the
server's, and of a write that was begun; a client need not make or flush a request.
`XpmHash`: weak fairness of the one thread that reads the image.
`Pointer`, `Keyboard`, `EventQueue` and `WndTree` are checked for safety only.

## 4. Proofs

For every value of the constants that the modules' assumptions allow:

| module | theorems |
|---|---|
| `WndStackProofs` | of `RWSync`: `InductiveInvariant`, `Exclusion`, `TypeCorrect`, `NoLostWakeup`, `WritersComeFirst`, `Refinement`; of `WndTree`: `TreeIsWellFormed`, `ClipsAreFresh`, `PointerFindsTheWindow`, `UncoveredIsTold` |
| `TransportProofs` | of `EventQueue`: `QueueTailIsRight`, `QueueNodesAreAccounted`, `QueuedEventsKeepTheirContent`, `QueueIsFIFO`; of `Wire`: `WireInvariant`, `NothingIsLost` |
| `EventDeliveryProofs` | `DeliveryInvariant`, `AskedOnce`, `EventsInOrder`, `NoEventIsLost` |
| `ServerStartProofs` | `StartInvariant`, `DriversAreKnown` |
| `InputProofs` | of `Pointer`: `PointerTypes`, `NoTrace`, `ButtonIsPaired`, `MouseIsFollowed`; of `Keyboard`: `KeyboardInvariant`, `KeyboardTypes`, `ModifiersAreKnown`, `LocksAreCounted` |
| `XpmHashProofs` | `HashInvariant`, `HashTypes`, `LookupIsSearch`, `AtomsAreKept` |
| `DrawingProofs` | of `Clip`: `CacheStaysTrue`, `DrawingIsExact` |
| `RegionProofs` | `RegionInvHolds`, `OperationIsExact`, `OperationIsBanded`, `ArrayHasRoom`, `ExtentsStayTight` |

Each has a lemma for each action, or for each action that the conjunct can be
disturbed by; the last step puts them together.

**The permit.** For any finite sets of readers and writers, overlapping or
not (`ThreadsAssumption`). Exclusion is not inductive: a token posted earlier may be
taken at any time. `IInv` adds where every thread is accounted for. `MutexExclusion`: at
most one thread works on the counters. `EveryRequestCounted`: `ar + wr` and `aw + ww` are
the numbers of threads between being counted in and counted out. `TokensMatchGrants`: an
active thread has taken its token or one lies there for it. `GrantsExclude`: an active
writer is the only active thread. `NobodyForgotten`: a waiting thread has somebody to
wake it, where the loop of `release_write_permit` counts until it has woken the last
reader. Counting is `Num(pc, S)`, the cardinality of the threads whose label is in
`S`; `NumMove` says what one thread's step adds to it, `CountsMove` applies it to the
sets of labels the invariant speaks of. Exclusion follows by counting: if a thread
holds the write permit, `aw` is 1 and `ar` is 0, and then no second thread is at a label
that holds. The refinement maps labels to phases (`PhaseOf`): taking a token is the
acquiring step, the counting out the releasing one, any other step stutters; that the
acquiring step is allowed is again `IInv`.

**The window tree.** `WndTree` has its own names for the specification (`TreeInit`,
`TreeNext`, `TreeSpec`, `TreeTypeOK`) so that one module can be about the stack and the
permit that guards it. What the links keep is `TreeInv`: each window has a rank above
its parent's (`Links`: there are no cycles), and the list of a window's children has those
that name it as their parent, each once (`Lists`). The rank gives induction from the root
downwards (`Downwards`), and so what the recursive `Ancestors` is (`AncestorsAre`,
`Lineage`): the parent with its ancestors. Above and below go by places in the list
(`Siblings`). `TInv` adds that an unmarked window's clip is `Current`. For a map or a move
that says: a window that is not listed keeps its line of ancestors in place
(`LineOutside`); if a window above it moved or was mapped, it is the window of the request
itself (`OutsideTree`), as the tree under that one moves with it; and it overlaps the
unlisted one neither before nor after (`ListedBelow`). Cutting an ancestor's clip anew, as
`CalcClip` does, leaves a current one as it is. `PointerFindsTheWindow` is a lemma about
states: `find_visible_window`'s walk comes by every window in which a point is not
hidden from outside (`WalkComesBy`, downwards), and there is one of these with no child at
the point, the one with most ancestors (`WalkEnds`). `UncoveredIsTold` compares two
states: what covered a point before a move and does not after it is the moved window, and
then the window under it was listed.

**The event queue.** The lists are what the recursive `ListFrom` finds along the links. A
sequence that the links join from the start to `NULL` is that list (`ListFromIsTheList`):
at the least place where they differed the places before would be the same. `Inv` is
about these sequences: `Linked` (queue, free list and hands are disjoint and all that
malloc gave), `Numbered` (the queue has the events delivered and not taken, in order) and
`Content` (a node that is not being filled is full). Each action has a lemma that names the
lists after it. The refinement follows from `Numbered`: the events that wait are the
numbers from `taken + 1` to `delivered`.

**Delivery of events.** `DInv` is `TypeOK` with `OneRequest` for every window (a request
for an event is in the client's buffer, in the socket, with the thread, or answered: just
one of them if the client has asked, and none otherwise), `WillRead` (a window the client
is going to read has something to be read), and `Ordered` (an event read, one in the
socket and those in the queue are numbered in the order of their way, above all that
were returned). That none is missing (`NoEventIsLost`) needs a count as well: `Counted`
says that as many numbers are on a window's way as events were delivered to it, and
`NoneMissing` that so many numbers in increasing order, none above their number, are
1, 2, 3 and so on. `CInv` keeps the count while there is one window (`Single`), as the
property does.

**The start.** `SInv` adds to `TypeOK` where kw_init and main are (`Course`: how far a step
counter goes with the place in the loop, when the socket listens) and the order of the
connections (`Line`): unless a program was early, what was accepted and what waits
begins with the mouse and goes on with the keyboard, so that main never takes one from the
queue for the other.

**The pointer.** `PointerTypes` needs of arithmetic only that `Clamp` ends on the screen.
`NoTrace` is inductive together with `TypeOK`, because it says at each of the four places
of the main thread where the colour of a covered pixel is: on the screen, or in the
saved block. `ButtonIsPaired` adds to its property that what is told of the left button, after
the last event in the socket, is what the driver has (`PInv`): then the events of the next
packet fit, one after the other (`TellOne`, `TellPacket`), and taking the first event from the
socket changes nothing for the others (`BelievedTail`). `MouseIsFollowed` says of a driver in
step that the bytes it has and those on the device are whole packets, and that these
lead from where it is to where the mouse is (`Underway`, with the stations between as
a function). When it waits for more with nothing on the device, less than a packet is left:
none.

**The keyboard.** `Keyboard`, too, has its own names for the specification (`KbdInit` and so
on), as its proofs share a module with those of the pointer. What holds when all codes are read is not inductive. The invariant
applies the codes that are still in `tty`, up to each place, to the state of the driver:
the last code of a modifier says whether it is held, and each release of a lock turns it
once.

**The hash table.** The invariant is about reach: from the home slot of an atom down to
its slot, round the end, no slot is empty. It holds of the array while it is being
filled, for each search under way (all slots it has passed are full and have other
names), and, while the table grows, of the new array for the atoms that were moved.
A search that stops at an empty slot has then passed every place where its name could be.

**The stream.** `StreamIsWhole` compares neighbouring bytes, which is little use where a
sequence is cut in the middle. `InOrder` says the same of any two bytes: so many places
apart in the stream are so many apart in a request, or in different ones. It is kept by
cutting at any place (a write, a read) and by appending a request, of which no induction
over the sequence is needed. `Begins` and `Ends` say where the stream stands to what was
handled and what was made, `Body` that the thread has taken the length from the header of the
request whose body it reads. All of it holds until a write fails.

**Drawing through the clip.** For windows, cuts and requests of any size. `CInv` says
that the region is a list of boxes inside the window and the cache one of `TrueCaches`,
which have their points all visible or all invisible. `CheckPointIsTrue` says that
`check_point_in_clip` leaves such a cache, with the point in it. Each drawing function
then has a lemma that it `Paints` its points: the cache is true again, and of the points
just the visible ones were added. The functions are loops; a loop of n rounds is taken
round by round (`UpTo`), over the values it has after each, which exist because a
recursive function over 0..n does (`RoundsExist`). That the region a window starts with is a list at
all goes by ranks: no two boxes of `BandedSet` have as many boxes before them
(`BandedRanks`), so each number up to their count is the rank of one (`BandedLists`).
A line is drawn by one of two algorithms, and they must take the same points: both round
alike in the directions of `Onward`.
What is assumed says where the code is exact. Requests lie within `MIN_COORD` and
`MAX_COORD` (`RequestAssumption`; the code takes any, see section 1). `DrawingIsExact`,
as its run does, takes windows no larger than the screen and lines to the right or
downwards; `CacheStaysTrue` needs neither.

**Regions.** For a screen and two regions of any size. That a result is *the* banded list of
its points (`ResultIsBanded`) is no property to take a loop through: `BandedSet` speaks of a
set of points as a whole. `Regular` is what can be seen in the list itself: its boxes are in
bands, and no band has the columns of the row above it. `RegularIsBanded` says that such a
list is the banded list of its points. Every box of it is one of `BandedSet`, and the other
way round; both are put in order by `Before`; and two lists in the same order with the same
boxes are one (`CountList` and the ranks of `DrawingProofs`). A new region is `Built`: regular,
in an array that has room, with the last band known. `AddBandIs` adds a band below it:
`MergedRegular` says that merging two bands that touch and are alike changes no point, and
`UnionRegular` that bands that are not merged may stay apart, as then their columns differ
(`SimilarBands`). The loops over two bands are loops whose rounds lead on, by a size that
decreases: `WrittenFromIs` says that what such a loop writes may be put together of its rounds.
With it, `SubtractIs` and `IntersectIs` say that a loop leaves one band, with the columns it
should have. What this rests on is that `left` always lies in the current rectangle of the
first band, and behind all rectangles of the second that were passed (`ReachedPlaces`). `RegionInv` is inductive: the cursors cut both
regions at `overlap_bot` (`Sweep`), and above it the new region has the points of the result
(`Collected`). A round adds what the first region has alone above the second one's band, and
what they have together (`BandRoundAdds`); `RestIs` is the loop's end. The extents of a
regular list are those of its points (`ExtentsAre`), so regions that `CHECK_EXTENT_OVERLAP`
rejects have no point in common (`ExtentsMeet`).

Only model-checked: liveness (`SomeWriterProgresses`, `ReadersServedAfterWriters`,
`BufferedRequestsAreSent`, `PendingBeforeRequestIsSent`, `InputIsServed`, `WrittenIsHandled`,
`ProbingEnds`), which is out of TLAPS's reach. Every safety property of the runs is stated by
a theorem.

## 5. Not modelled

* Vendored code: FreeType, libpng, zlib and gdbm are third-party libraries, and some
  106,000 of the 116,000 lines of the repository. kiwin's own code has about 9,000
  lines, of which a third are headers, tables and logging.
* The hash and list of windows: `insert_wndhash` inserts nothing, `find_window_in_wndhash`
  finds nothing, so no window is ever cached; `remove_*` functions have no caller.
* What follows a registered window manager, which cannot register (see above).
* SIGPIPE: the server has no handler, and ends when a client goes away at the moment it is
  written to (`kwgssrv_io.c:40`). `ServerStart` has it for the answer to a first request;
  in `EventDelivery` clients do not end.
* Words left over of the request for the window that happen to say the type of a request:
  `Wire` has that they count as requests, `EventDelivery` starts behind them.
* Dotted lines, and clips of windows that reach out of their parents to the left or
  above, in `Clip`. `calc_window_clip` in steps against drawing threads: regions with their
  sweeps taken apart are too many states for three windows, and no smaller
  tree has the ancestors that it writes to.
* `translate_keycode` and the key maps: tables from codes to characters.
* The scanner of xpm files, which is sequential reading of text, and the tables for codes of
  one and two characters: `XpmHash` has the longer ones.
* Opening and mapping devices, the registry file, the log, colour conversion, graphics
  contexts and sample programs: I/O, or no state worth a module.
