------------------------------ MODULE Pointer ------------------------------
(***************************************************************************)
(* The mouse from the wire to the screen.  The mouse thread reads bytes of *)
(* the PS/2 device in whatever portions they come, cuts them into packets, *)
(* moves its own idea of the position, and writes events to a socket       *)
(* (mouse/kwgssrv_mouse.c, mouse/kwgssrv_mouseps2.c).  The main thread     *)
(* reads the events and moves the pointer: it puts back what it saved      *)
(* below the pointer, saves what is at the new place and draws the pointer *)
(* there (kwgssrv_mouse_process.c, kwgssrv_cursor.c).  The threads of the  *)
(* windows draw on the same screen meanwhile; nothing excludes them.       *)
(*                                                                         *)
(* A block is restored, saved or drawn in one step here, and an event is   *)
(* written and read as a whole.                                            *)
(***************************************************************************)
EXTENDS Integers, Sequences

CONSTANTS Width, Height,  \* of the screen
          Packets,        \* packets of three bytes that the mouse may send
          Shape,          \* offsets of the cursor's pixels that are not transparent
          DrawAt,         \* pixels that windows draw
          MaxPackets, MaxDraws  \* bounds

Pixels == (0..(Width - 1)) \X (0..(Height - 1))

ASSUME PointerAssumption ==
  /\ Width \in Nat /\ Height \in Nat /\ Width >= 2 /\ Height >= 2
  /\ \A p \in Packets : p \in Seq(0..255) /\ Len(p) = 3
  /\ Shape \subseteq Int \X Int
  /\ DrawAt \subseteq Pixels
  /\ MaxPackets \in Nat /\ MaxDraws \in Nat

VARIABLES
  sent, inStep,  \* packets sent; none was cut by the initialisation or overflowed
  mouse,         \* where the packets sent lead, and the buttons of the last one
  device,        \* bytes that the driver has not read
  pc, buf,       \* the mouse thread, and the bytes in its buffer
  driver,        \* mouseDriver_current_x/y and old_left, old_middle, old_right
  sock,          \* events in the socket
  srv, current, previous,  \* the main thread: current_x/y and previous_x/y
  leftDown,      \* what the main thread was last told of the left button
  saved,         \* mouse_pointer_saved_data
  screen,        \* the frame buffer
  content, dirty, draws  \* what windows drew; where they drew below the pointer

hardware == <<sent, inStep, mouse, device>>
mouseThread == <<pc, buf, driver>>
mainThread == <<srv, current, previous, leftDown, saved>>
windows == <<content, dirty, draws>>
vars == <<hardware, mouseThread, sock, mainThread, screen, windows>>

Buttons == {"left", "middle", "right"}
Centre == <<Width \div 2, Height \div 2>>
Start == [pos |-> Centre, pressed |-> {}]

\* The pixels the pointer covers at a position: draw_pixel ignores the others.
Under(pos) == {p \in Pixels : <<p[1] - pos[1], p[2] - pos[2]>> \in Shape}

PixelAt(pos, offset) == <<pos[1] + offset[1], pos[2] + offset[2]>>

\* read_pixel, 0 outside the screen.
ReadBlock(pos) ==
  [o \in Shape |-> IF PixelAt(pos, o) \in Pixels THEN screen[PixelAt(pos, o)] ELSE "none"]

\* cursor_init saves and draws at the centre before any event is processed.
\* ps2_mouse_init throws away the bytes it finds: the device may be in the
\* middle of a packet then, the rest of which comes later.
Init ==
  /\ sent = 0 /\ mouse = Start
  /\ \E p \in Packets, n \in 0..2 :
       /\ device = SubSeq(p, 4 - n, 3)
       /\ inStep = (n = 0)
  /\ pc = "read" /\ buf = <<>> /\ driver = Start
  /\ sock = <<>>
  /\ srv = "select" /\ current = Centre /\ previous = Centre /\ leftDown = FALSE
  /\ saved = [o \in Shape |-> "back"]
  /\ screen = [p \in Pixels |-> IF p \in Under(Centre) THEN "pointer" ELSE "back"]
  /\ content = [p \in Pixels |-> "back"] /\ dirty = {} /\ draws = 0

-----------------------------------------------------------------------------
(* ps2_packet: what a packet says.                                         *)

Bit(byte, n) == (byte \div n) % 2 = 1

Overflow(packet) == Bit(packet[1], 64) \/ Bit(packet[1], 128)

Pressed(packet) ==
  {b \in Buttons : CASE b = "left" -> Bit(packet[1], 1)
                     [] b = "right" -> Bit(packet[1], 2)
                     [] b = "middle" -> Bit(packet[1], 4)}

Accelerated(d) == IF d > 10 \/ d < -10 THEN 2 * d ELSE d

Delta(byte, negative) ==
  IF byte = 0 THEN 0 ELSE IF negative THEN byte - 256 ELSE byte

DeltaX(packet) == Accelerated(Delta(packet[2], Bit(packet[1], 16)))
DeltaY(packet) == Accelerated(- Delta(packet[3], Bit(packet[1], 32)))

\* Slip: Clamp with the size of the screen itself.
ClampToSize(v, size) == IF v > size THEN size ELSE IF v < 0 THEN 0 ELSE v

\* The position stays two pixels off the right and the lower edge.
Clamp(v, size) == IF v > size - 2 THEN size - 2 ELSE IF v < 0 THEN 0 ELSE v

Moved(at, packet) ==
  [pos |-> <<Clamp(at.pos[1] + DeltaX(packet), Width), Clamp(at.pos[2] + DeltaY(packet), Height)>>,
   pressed |-> Pressed(packet)]

\* The mouse sends a packet.
MouseSends ==
  /\ sent < MaxPackets
  /\ \E packet \in Packets :
       /\ device' = device \o packet
       /\ mouse' = Moved(mouse, packet)
       /\ inStep' = (inStep /\ ~ Overflow(packet))
  /\ sent' = sent + 1
  /\ UNCHANGED <<mouseThread, sock, mainThread, screen, windows>>

-----------------------------------------------------------------------------
(* The mouse thread: update_mouse_state.                                   *)

Read ==
  /\ pc = "read"
  /\ \E n \in 1..Len(device) :
       /\ buf' = buf \o SubSeq(device, 1, n)
       /\ device' = SubSeq(device, n + 1, Len(device))
  /\ pc' = "process"
  /\ UNCHANGED <<sent, inStep, mouse, driver, sock, mainThread, screen, windows>>

Event(type, pos) == [type |-> type, pos |-> pos]

\* DRAG is sent where the position is not the one of the start: nothing
\* assigns mouseDriver_previous_x/y after mouse_init.
ButtonEvents(b, next) ==
  LET was == b \in driver.pressed
      is == b \in next.pressed
  IN  IF is /\ ~ was THEN <<Event(<<b, "down">>, next.pos)>>
      ELSE IF is /\ next.pos # Centre THEN <<Event(<<b, "drag">>, next.pos)>>
      ELSE IF was /\ ~ is /\ b = "left" THEN <<Event(<<b, "up">>, next.pos)>>
      ELSE <<>>

\* old_middle and old_right are not asked for.
MoveEvents(next) ==
  IF next.pressed = {} /\ "left" \notin driver.pressed
  THEN <<Event(<<"none", "move">>, next.pos)>> ELSE <<>>

EventsOf(next) ==
  ButtonEvents("left", next) \o ButtonEvents("middle", next) \o ButtonEvents("right", next)
    \o MoveEvents(next)

\* Fewer bytes than a packet stay in the buffer.
NotEnough ==
  /\ pc = "process" /\ Len(buf) < 3
  /\ pc' = "read"
  /\ UNCHANGED <<hardware, buf, driver, sock, mainThread, screen, windows>>

\* A first byte with an overflow bit is taken for garbage and eaten.
EatByte ==
  /\ pc = "process" /\ Len(buf) >= 3 /\ Overflow(buf)
  /\ buf' = Tail(buf)
  /\ UNCHANGED <<hardware, pc, driver, sock, mainThread, screen, windows>>

\* Slips: process_mouse_data with a mistake; Next does not use them.
ProcessWhatIsThere ==
  /\ pc = "process" /\ Len(buf) >= 3 /\ ~ Overflow(buf)
  /\ driver' = Moved(driver, buf)
  /\ sock' = sock \o EventsOf(driver')
  /\ buf' = <<>>
  /\ UNCHANGED <<hardware, pc, mainThread, screen, windows>>

ProcessKeepsOldLeft ==
  /\ pc = "process" /\ Len(buf) >= 3 /\ ~ Overflow(buf)
  /\ LET next == Moved(driver, buf) IN
       /\ driver' = [next EXCEPT !.pressed = @ \ {"left"}]
       /\ sock' = sock \o EventsOf(next)
  /\ buf' = SubSeq(buf, 4, Len(buf))
  /\ UNCHANGED <<hardware, pc, mainThread, screen, windows>>

ProcessPacket ==
  /\ pc = "process" /\ Len(buf) >= 3 /\ ~ Overflow(buf)
  /\ driver' = Moved(driver, buf)
  /\ sock' = sock \o EventsOf(driver')
  /\ buf' = SubSeq(buf, 4, Len(buf))
  /\ UNCHANGED <<hardware, pc, mainThread, screen, windows>>

-----------------------------------------------------------------------------
(* The main thread: process_mouse_event.                                   *)

ReadEvent ==
  /\ srv = "select" /\ sock # <<>>
  /\ current' = Head(sock).pos
  /\ srv' = IF Head(sock).type[2] = "move" THEN "restore" ELSE "select"
  /\ leftDown' = CASE Head(sock).type = <<"left", "down">> -> TRUE
                   [] Head(sock).type = <<"left", "up">> -> FALSE
                   [] OTHER -> leftDown
  /\ sock' = Tail(sock)
  /\ UNCHANGED <<hardware, mouseThread, previous, saved, screen, windows>>

\* Slip: the old block is restored where the pointer goes.
RestoreAtCurrent ==
  /\ srv = "restore"
  /\ screen' = [p \in Pixels |-> IF p \in Under(current)
                                 THEN saved[<<p[1] - current[1], p[2] - current[2]>>]
                                 ELSE screen[p]]
  /\ srv' = "save"
  /\ UNCHANGED <<hardware, mouseThread, sock, current, previous, leftDown, saved, windows>>

\* restore_saved_block
Restore ==
  /\ srv = "restore"
  /\ screen' = [p \in Pixels |-> IF p \in Under(previous)
                                 THEN saved[<<p[1] - previous[1], p[2] - previous[2]>>]
                                 ELSE screen[p]]
  /\ srv' = "save"
  /\ UNCHANGED <<hardware, mouseThread, sock, current, previous, leftDown, saved, windows>>

\* save_current_block
Save ==
  /\ srv = "save"
  /\ saved' = ReadBlock(current)
  /\ srv' = "draw"
  /\ UNCHANGED <<hardware, mouseThread, sock, current, previous, leftDown, screen, windows>>

\* draw_mouse_pointer
Draw ==
  /\ srv = "draw"
  /\ screen' = [p \in Pixels |-> IF p \in Under(current) THEN "pointer" ELSE screen[p]]
  /\ previous' = current
  /\ srv' = "select"
  /\ UNCHANGED <<hardware, mouseThread, sock, current, leftDown, saved, windows>>

-----------------------------------------------------------------------------
(* The threads of the windows.                                             *)

\* The pixels of which the main thread holds a saved colour.
Covered ==
  CASE srv \in {"select", "restore"} -> Under(previous)
    [] srv = "save" -> {}
    [] srv = "draw" -> Under(current)

\* A window draws a pixel, below the pointer too.
WindowDraws ==
  /\ draws < MaxDraws
  /\ \E p \in DrawAt :
       /\ screen' = [screen EXCEPT ![p] = "window"]
       /\ content' = [content EXCEPT ![p] = "window"]
       /\ dirty' = IF p \in Covered THEN dirty \cup {p} ELSE dirty \ {p}
  /\ draws' = draws + 1
  /\ UNCHANGED <<hardware, mouseThread, sock, mainThread>>

MouseThread == Read \/ NotEnough \/ EatByte \/ ProcessPacket
MainThread == ReadEvent \/ Restore \/ Save \/ Draw

Next == MouseSends \/ MouseThread \/ MainThread \/ WindowDraws

Spec == Init /\ [][Next]_vars

-----------------------------------------------------------------------------
(* Properties.                                                             *)

Places == [pos : Pixels, pressed : SUBSET Buttons]
EventTypes == (Buttons \X {"down", "drag", "up"}) \cup {<<"none", "move">>}
Colours == {"back", "window", "pointer", "none"}

TypeOK ==
  /\ sent \in 0..MaxPackets /\ inStep \in BOOLEAN
  /\ mouse \in Places /\ driver \in Places
  /\ pc \in {"read", "process"}
  /\ device \in Seq(0..255) /\ buf \in Seq(0..255)
  /\ srv \in {"select", "restore", "save", "draw"}
  /\ current \in Pixels /\ previous \in Pixels /\ leftDown \in BOOLEAN
  /\ saved \in [Shape -> Colours] /\ screen \in [Pixels -> Colours]
  /\ content \in [Pixels -> {"back", "window"}] /\ dirty \subseteq Pixels
  /\ sock \in Seq([type : EventTypes, pos : Pixels])

\* Once the driver has read everything it is where the mouse was moved to, in
\* whatever portions the bytes came (update_mouse_state keeps the rest of a
\* packet and moves it to the front).
DriverFollowsMouse ==
  inStep /\ device = <<>> /\ pc = "read" => driver = mouse /\ buf = <<>>

\* What the main thread will believe of the left button before event k.
LeftDownBefore(k) ==
  LET told(j) == sock[j].type \in {<<"left", "down">>, <<"left", "up">>} IN
  IF \E j \in 1..(k - 1) : told(j)
  THEN \E j \in 1..(k - 1) : /\ sock[j].type = <<"left", "down">>
                             /\ \A l \in (j + 1)..(k - 1) : ~ told(l)
  ELSE leftDown

\* The left button is pressed and released in turn, dragged only while it is
\* pressed, and the pointer moves only while it is not, also when the driver
\* has lost the start of a packet (process_mouse_data).
LeftButtonIsPaired ==
  \A k \in DOMAIN sock :
    CASE sock[k].type = <<"left", "down">> -> ~ LeftDownBefore(k)
      [] sock[k].type \in {<<"left", "up">>, <<"left", "drag">>} -> LeftDownBefore(k)
      [] sock[k].type = <<"none", "move">> -> ~ LeftDownBefore(k)
      [] OTHER -> TRUE

\* Where the pointer is not, the screen shows what windows drew; where it is,
\* that is what will be put back, except where a window drew below the pointer
\* (restore_saved_block, save_current_block and draw_mouse_pointer, with the
\* threads of the windows between them).
PointerLeavesNoTrace ==
  \A p \in Pixels \ dirty :
    CASE srv \in {"select", "restore"} /\ p \in Under(previous) ->
           /\ screen[p] = "pointer"
           /\ saved[<<p[1] - previous[1], p[2] - previous[2]>>] = content[p]
      [] srv = "draw" /\ p \in Under(current) ->
           saved[<<p[1] - current[1], p[2] - current[2]>>] = content[p]
      [] OTHER -> screen[p] = content[p]

=============================================================================
