---------------------------- MODULE InputProofs ----------------------------
(***************************************************************************)
(* Proofs about the two input drivers.                                     *)
(*                                                                         *)
(* Pointer, for every size of the screen, every cursor, every set of       *)
(* packets and any number of packets and of drawings: types, that the      *)
(* pointer leaves no trace, that the left button is pressed and released   *)
(* in turn, and that the driver is where the packets lead it.              *)
(* PointerLeavesNoTrace is inductive together with the types: what matters *)
(* is that positions are on the screen and that the block saved is the one *)
(* restored.  LeftButtonIsPaired needs that what the socket tells in the   *)
(* end is what the driver has (PInv).  DriverFollowsMouse needs the places *)
(* the driver comes through on the way to where the mouse is, one for each *)
(* packet that is under way (FInv).                                        *)
(*                                                                         *)
(* Keyboard, for all sets of keys and of consoles, any socket and any      *)
(* bounds.  What the driver knows and what the user's hands do are related *)
(* through the codes that nobody has read yet: the inductive invariant is  *)
(* that reading them, one after the other, leads from key_modstate to what *)
(* the keyboard says (KInv).                                               *)
(***************************************************************************)
EXTENDS Pointer, Keyboard, SequenceTheorems, TLAPS

-----------------------------------------------------------------------------
(* The mouse and the pointer.                                              *)

\* A part of a sequence has the elements of the sequence.
LEMMA PartOfSeq ==
  ASSUME NEW S, NEW s \in Seq(S), NEW m \in Nat \ {0}, NEW n \in Nat, n <= Len(s)
  PROVE  SubSeq(s, m, n) \in Seq(S)
<1>1. \A k \in m..n : s[k] \in S
  <2> SUFFICES ASSUME NEW k \in m..n PROVE s[k] \in S
    OBVIOUS
  <2>1. k \in 1..Len(s)
    OBVIOUS
  <2> QED
    BY <2>1, ElementOfSeq
<1> QED
  BY <1>1, SubSeqProperties

\* Where a pixel lies below the pointer.
LEMMA UnderFacts ==
  ASSUME NEW pos \in Pixels, NEW p \in Pixels
  PROVE  /\ pos[1] \in Int /\ pos[2] \in Int /\ p[1] \in Int /\ p[2] \in Int
         /\ p \in Under(pos) => <<p[1] - pos[1], p[2] - pos[2]>> \in Shape
         /\ PixelAt(pos, <<p[1] - pos[1], p[2] - pos[2]>>) = p
<1>1. /\ pos[1] \in Int /\ pos[2] \in Int /\ p[1] \in Int /\ p[2] \in Int
      /\ p = <<p[1], p[2]>>
  BY PointerAssumption DEF Pixels
<1>2. pos[1] + (p[1] - pos[1]) = p[1] /\ pos[2] + (p[2] - pos[2]) = p[2]
  BY <1>1
<1> QED
  BY <1>1, <1>2 DEF Under, PixelAt

LEMMA CentreOnScreen == Centre \in Pixels
<1>1. Width \div 2 \in 0..(Width - 1) /\ Height \div 2 \in 0..(Height - 1)
  BY PointerAssumption
<1> QED
  BY <1>1 DEF Centre, Pixels

\* The driver keeps the position on the screen whatever the bytes say.
LEMMA MovedOnScreen ==
  ASSUME NEW pl \in Places, NEW packet \in Seq(0..255), Len(packet) >= 3
  PROVE  Moved(pl, packet) \in Places
<1>1. packet[2] \in 0..255 /\ packet[3] \in 0..255
  <2>1. Len(packet) \in Nat
    OBVIOUS
  <2>2. 2 \in 1..Len(packet) /\ 3 \in 1..Len(packet)
    BY <2>1
  <2> QED
    BY <2>2, ElementOfSeq
<1>2. pl.pos[1] \in Int /\ pl.pos[2] \in Int
  BY PointerAssumption DEF Places, Pixels
<1>3. DeltaX(packet) \in Int /\ DeltaY(packet) \in Int
  <2>1. \A d \in Int : Accelerated(d) \in Int /\ - d \in Int
    BY DEF Accelerated
  <2>2. \A negative : \A byte \in 0..255 : Delta(byte, negative) \in Int
    BY DEF Delta
  <2> QED
    BY <1>1, <2>1, <2>2 DEF DeltaX, DeltaY
<1>4. /\ Clamp(pl.pos[1] + DeltaX(packet), Width) \in 0..(Width - 1)
      /\ Clamp(pl.pos[2] + DeltaY(packet), Height) \in 0..(Height - 1)
  <2>1. \A v \in Int, size \in Nat : size >= 2 => Clamp(v, size) \in 0..(size - 1)
    BY DEF Clamp
  <2>2. pl.pos[1] + DeltaX(packet) \in Int /\ pl.pos[2] + DeltaY(packet) \in Int
    BY <1>2, <1>3
  <2> QED
    BY <2>1, <2>2, PointerAssumption
<1>5. Pressed(packet) \subseteq Buttons
  BY DEF Pressed
<1> QED
  BY <1>4, <1>5 DEF Moved, Places, Pixels

LEMMA EventsOnScreen ==
  ASSUME NEW next \in Places
  PROVE  EventsOf(next) \in Seq([type : EventTypes, pos : Pixels])
<1> DEFINE E == [type : EventTypes, pos : Pixels]
<1>1. next.pos \in Pixels
  BY DEF Places
<1>2. ASSUME NEW b \in Buttons PROVE ButtonEvents(b, next) \in Seq(E)
  <2>1. \A k \in {"down", "drag", "up"} : Event(<<b, k>>, next.pos) \in E
    BY <1>1 DEF Event, EventTypes
  <2> HIDE DEF E
  <2>2. \A e \in E : <<e>> \in Seq(E)
    OBVIOUS
  <2>3. << >> \in Seq(E)
    OBVIOUS
  <2> QED
    BY <2>1, <2>2, <2>3 DEF ButtonEvents
<1>3. MoveEvents(next) \in Seq(E)
  <2>1. Event(<<"none", "move">>, next.pos) \in E
    BY <1>1 DEF Event, EventTypes
  <2> HIDE DEF E
  <2> QED
    BY <2>1 DEF MoveEvents
<1>4. /\ ButtonEvents("left", next) \in Seq(E) /\ ButtonEvents("middle", next) \in Seq(E)
      /\ ButtonEvents("right", next) \in Seq(E)
  BY <1>2 DEF Buttons
<1> HIDE DEF E
<1>5. EventsOf(next) \in Seq(E)
  BY <1>3, <1>4 DEF EventsOf
<1> QED
  BY <1>5 DEF E

-----------------------------------------------------------------------------
(* Types.                                                                  *)

LEMMA InitTypes ==
  Init => TypeOK
<1> SUFFICES ASSUME Init PROVE TypeOK
  OBVIOUS
<1>1. Centre \in Pixels /\ Start \in Places
  BY CentreOnScreen DEF Start, Places
<1>2. device \in Seq(0..255)
  <2>1. PICK p \in Packets, n \in 0..2 : device = SubSeq(p, 4 - n, 3)
    BY DEF Init
  <2>2. p \in Seq(0..255) /\ Len(p) = 3
    BY PointerAssumption
  <2>3. 4 - n \in Nat \ {0} /\ 3 \in Nat /\ 3 <= Len(p)
    BY <2>2
  <2> QED
    BY <2>1, <2>2, <2>3, PartOfSeq
<1>3. inStep \in BOOLEAN
  BY DEF Init
<1>4. saved \in [Shape -> Colours] /\ screen \in [Pixels -> Colours]
  BY DEF Init, Colours
<1>5. content \in [Pixels -> {"back", "window"}]
  BY DEF Init
<1>6. 0 \in 0..MaxPackets
  BY PointerAssumption
<1> QED
  BY <1>1, <1>2, <1>3, <1>4, <1>5, <1>6, EmptySeq DEF Init, TypeOK

LEMMA StepTypes ==
  ASSUME TypeOK, Next
  PROVE  TypeOK'
<1> USE DEF hardware, mouseThread, mainThread, windows
<1>1. ASSUME MouseSends PROVE TypeOK'
  <2>1. PICK packet \in Packets : /\ device' = device \o packet
                                  /\ mouse' = Moved(mouse, packet)
                                  /\ inStep' = (inStep /\ ~ Overflow(packet))
    BY <1>1 DEF MouseSends
  <2>2. packet \in Seq(0..255) /\ Len(packet) >= 3 /\ mouse \in Places
    <3>1. packet \in Seq(0..255) /\ Len(packet) = 3
      BY PointerAssumption
    <3> QED
      BY <3>1 DEF TypeOK
  <2>3. device' \in Seq(0..255) /\ inStep' \in BOOLEAN
    BY <2>1, <2>2, ConcatProperties DEF TypeOK
  <2>4. mouse' \in Places
    BY <2>1, <2>2, MovedOnScreen
  <2>5. sent' \in 0..MaxPackets
    BY <1>1, PointerAssumption DEF MouseSends, TypeOK
  <2> QED
    BY <1>1, <2>3, <2>4, <2>5 DEF MouseSends, TypeOK
<1>2. ASSUME Read PROVE TypeOK'
  <2>1. PICK n \in 1..Len(device) : /\ buf' = buf \o SubSeq(device, 1, n)
                                    /\ device' = SubSeq(device, n + 1, Len(device))
    BY <1>2 DEF Read
  <2>2. device \in Seq(0..255) /\ buf \in Seq(0..255) /\ Len(device) \in Nat
    BY DEF TypeOK
  <2> DEFINE l == Len(device)
  <2> /\ 1 \in Nat \ {0} /\ n \in Nat /\ n <= l
       /\ n + 1 \in Nat \ {0} /\ l \in Nat /\ l <= l
    BY <2>2
  <2>3. SubSeq(device, 1, n) \in Seq(0..255)
    BY <2>2, PartOfSeq
  <2>4. SubSeq(device, n + 1, l) \in Seq(0..255)
    BY <2>2, PartOfSeq
  <2>5. buf' \in Seq(0..255) /\ device' \in Seq(0..255)
    BY <2>1, <2>2, <2>3, <2>4, ConcatProperties
  <2> QED
    BY <1>2, <2>5 DEF Read, TypeOK
<1>3. ASSUME NotEnough \/ EatByte PROVE TypeOK'
  <2>1. buf' \in Seq(0..255)
    <3>1. buf \in Seq(0..255) /\ (EatByte => buf # << >> /\ buf' = Tail(buf))
      BY DEF EatByte, TypeOK
    <3> QED
      BY <1>3, <3>1, HeadTailProperties DEF NotEnough
  <2> QED
    BY <1>3, <2>1 DEF NotEnough, EatByte, TypeOK
<1>4. ASSUME ProcessPacket PROVE TypeOK'
  <2>1. driver' \in Places
    BY <1>4, MovedOnScreen DEF ProcessPacket, TypeOK
  <2>2. sock' \in Seq([type : EventTypes, pos : Pixels])
    <3>1. EventsOf(driver') \in Seq([type : EventTypes, pos : Pixels])
      BY <2>1, EventsOnScreen
    <3>2. sock' = sock \o EventsOf(driver')
      BY <1>4 DEF ProcessPacket
    <3> QED
      BY <3>1, <3>2 DEF TypeOK
  <2>3. buf' \in Seq(0..255)
    <3>1. buf \in Seq(0..255) /\ Len(buf) \in Nat /\ buf' = SubSeq(buf, 4, Len(buf))
      BY <1>4 DEF ProcessPacket, TypeOK
    <3>2. 4 \in Nat \ {0} /\ Len(buf) <= Len(buf)
      BY <3>1
    <3> QED
      BY <3>1, <3>2, PartOfSeq
  <2> QED
    BY <1>4, <2>1, <2>2, <2>3 DEF ProcessPacket, TypeOK
<1>5. ASSUME ReadEvent PROVE TypeOK'
  <2>1. sock' \in Seq([type : EventTypes, pos : Pixels])
    BY <1>5, HeadTailProperties DEF ReadEvent, TypeOK
  <2>2. Head(sock) \in [type : EventTypes, pos : Pixels]
    BY <1>5, HeadTailProperties DEF ReadEvent, TypeOK
  <2>3. current' \in Pixels
    BY <1>5, <2>2 DEF ReadEvent
  <2>4. leftDown' \in BOOLEAN /\ srv' \in {"select", "restore", "save", "draw"}
    BY <1>5 DEF ReadEvent, TypeOK
  <2> QED
    BY <1>5, <2>1, <2>3, <2>4 DEF ReadEvent, TypeOK
<1>6. ASSUME Restore PROVE TypeOK'
  <2>1. screen' \in [Pixels -> Colours]
    <3> SUFFICES ASSUME NEW p \in Pixels, p \in Under(previous)
                 PROVE  saved[<<p[1] - previous[1], p[2] - previous[2]>>] \in Colours
      BY <1>6 DEF Restore, TypeOK
    <3>1. <<p[1] - previous[1], p[2] - previous[2]>> \in Shape
      BY DEF Under
    <3> QED
      BY <3>1 DEF TypeOK
  <2> QED
    BY <1>6, <2>1 DEF Restore, TypeOK
<1>7. ASSUME Save PROVE TypeOK'
  <2>1. saved' \in [Shape -> Colours]
    <3>1. \A o \in Shape :
            (IF PixelAt(current, o) \in Pixels THEN screen[PixelAt(current, o)] ELSE "none") \in Colours
      BY DEF TypeOK, Colours
    <3> QED
      BY <1>7, <3>1 DEF Save, ReadBlock
  <2> QED
    BY <1>7, <2>1 DEF Save, TypeOK
<1>8. ASSUME Draw PROVE TypeOK'
  <2>1. screen' \in [Pixels -> Colours]
    BY <1>8 DEF Draw, TypeOK, Colours
  <2> QED
    BY <1>8, <2>1 DEF Draw, TypeOK
<1>9. ASSUME WindowDraws PROVE TypeOK'
  <2>1. PICK p \in DrawAt :
          /\ screen' = [screen EXCEPT ![p] = "window"]
          /\ content' = [content EXCEPT ![p] = "window"]
          /\ dirty' = IF p \in Covered THEN dirty \cup {p} ELSE dirty \ {p}
    BY <1>9 DEF WindowDraws
  <2>2. /\ screen' \in [Pixels -> Colours] /\ content' \in [Pixels -> {"back", "window"}]
        /\ dirty' \subseteq Pixels
    BY <2>1, PointerAssumption DEF TypeOK, Colours
  <2> QED
    BY <1>9, <2>2 DEF WindowDraws, TypeOK
<1> QED
  BY <1>1, <1>2, <1>3, <1>4, <1>5, <1>6, <1>7, <1>8, <1>9 DEF Next, MouseThread, MainThread

\* Positions are on the screen, the buffers hold bytes (mouse.c, mouseps2.c).
THEOREM PointerTypes ==
  Spec => []TypeOK
<1>1. TypeOK /\ UNCHANGED vars => TypeOK'
  BY DEF vars, hardware, mouseThread, mainThread, windows, TypeOK
<1>2. TypeOK /\ [Next]_vars => TypeOK'
  BY <1>1, StepTypes
<1> QED
  BY <1>2, InitTypes, PTL DEF Spec

-----------------------------------------------------------------------------
(* The pointer leaves no trace.                                            *)

LEMMA InitTrace ==
  Init => PointerLeavesNoTrace
<1> SUFFICES ASSUME Init PROVE PointerLeavesNoTrace
  OBVIOUS
<1>1. Centre \in Pixels
  BY CentreOnScreen
<1> SUFFICES ASSUME NEW p \in Pixels
             PROVE  IF p \in Under(Centre)
                    THEN /\ screen[p] = "pointer"
                         /\ saved[<<p[1] - Centre[1], p[2] - Centre[2]>>] = content[p]
                    ELSE screen[p] = content[p]
  BY DEF Init, PointerLeavesNoTrace
<1> QED
  BY <1>1, UnderFacts DEF Init

LEMMA StepTrace ==
  ASSUME TypeOK, PointerLeavesNoTrace, Next
  PROVE  PointerLeavesNoTrace'
<1> USE DEF hardware, mouseThread, mainThread, windows
<1>1. ASSUME MouseSends \/ MouseThread PROVE PointerLeavesNoTrace'
  BY <1>1 DEF MouseSends, MouseThread, Read, NotEnough, EatByte, ProcessPacket,
     PointerLeavesNoTrace
<1>2. ASSUME ReadEvent PROVE PointerLeavesNoTrace'
  BY <1>2 DEF ReadEvent, PointerLeavesNoTrace
<1>3. ASSUME Restore PROVE PointerLeavesNoTrace'
  <2>1. \A p \in Pixels \ dirty : screen'[p] = content[p]
    BY <1>3 DEF Restore, PointerLeavesNoTrace
  <2> QED
    BY <1>3, <2>1 DEF Restore, PointerLeavesNoTrace
<1>4. ASSUME Save PROVE PointerLeavesNoTrace'
  <2>1. current \in Pixels /\ srv = "save" /\ saved' = ReadBlock(current)
    BY <1>4 DEF Save, TypeOK
  <2>2. \A p \in Pixels \ dirty : screen[p] = content[p]
    BY <2>1 DEF PointerLeavesNoTrace
  <2>3. ASSUME NEW p \in Pixels \ dirty, p \in Under(current)
        PROVE  saved'[<<p[1] - current[1], p[2] - current[2]>>] = content[p]
    BY <2>1, <2>2, <2>3, UnderFacts DEF ReadBlock
  <2> QED
    BY <1>4, <2>2, <2>3 DEF Save, PointerLeavesNoTrace
<1>5. ASSUME Draw PROVE PointerLeavesNoTrace'
  <2>1. ASSUME NEW p \in Pixels \ dirty
        PROVE  IF p \in Under(current)
               THEN /\ screen'[p] = "pointer"
                    /\ saved[<<p[1] - current[1], p[2] - current[2]>>] = content[p]
               ELSE screen'[p] = content[p]
    BY <1>5 DEF Draw, PointerLeavesNoTrace
  <2> QED
    BY <1>5, <2>1 DEF Draw, PointerLeavesNoTrace
<1>6. ASSUME WindowDraws PROVE PointerLeavesNoTrace'
  <2>1. PICK d \in DrawAt :
          /\ screen' = [screen EXCEPT ![d] = "window"]
          /\ content' = [content EXCEPT ![d] = "window"]
          /\ dirty' = IF d \in Covered THEN dirty \cup {d} ELSE dirty \ {d}
    BY <1>6 DEF WindowDraws
  <2>2. UNCHANGED <<srv, current, previous, saved>>
    BY <1>6 DEF WindowDraws
  <2>3. d \in Pixels /\ screen \in [Pixels -> Colours] /\ content \in [Pixels -> {"back", "window"}]
        /\ srv \in {"select", "restore", "save", "draw"}
    BY PointerAssumption DEF TypeOK
  <2>4. \A p \in Pixels \ dirty' : p # d => p \in Pixels \ dirty
    BY <2>1
  <2>5. \A p \in Pixels : p # d => screen'[p] = screen[p] /\ content'[p] = content[p]
    BY <2>1, <2>3
  <2>6. screen'[d] = "window" /\ content'[d] = "window"
    BY <2>1, <2>3
  <2>7. d \notin dirty' => d \notin Covered
    BY <2>1
  <2>8. d \notin Covered =>
          /\ srv \in {"select", "restore"} => d \notin Under(previous)
          /\ srv = "draw" => d \notin Under(current)
    BY DEF Covered
  <2> DEFINE Fine(p) ==
        CASE srv \in {"select", "restore"} /\ p \in Under(previous) ->
               /\ screen[p] = "pointer"
               /\ saved[<<p[1] - previous[1], p[2] - previous[2]>>] = content[p]
          [] srv = "draw" /\ p \in Under(current) ->
               saved[<<p[1] - current[1], p[2] - current[2]>>] = content[p]
          [] OTHER -> screen[p] = content[p]
  <2>9. ASSUME NEW p \in Pixels \ dirty', p # d PROVE Fine(p)'
    <3>1. Fine(p)
      BY <2>4, <2>9 DEF PointerLeavesNoTrace
    <3> QED
      BY <2>2, <2>5, <2>9, <3>1 DEF Under
  <2>10. ASSUME d \in Pixels \ dirty' PROVE Fine(d)'
    BY <2>2, <2>6, <2>7, <2>8, <2>10 DEF Under
  <2>11. \A p \in Pixels \ dirty' : Fine(p)'
    BY <2>9, <2>10
  <2> QED
    BY <2>11 DEF PointerLeavesNoTrace
<1> QED
  BY <1>1, <1>2, <1>3, <1>4, <1>5, <1>6 DEF Next, MainThread

\* The screen shows what the windows drew, but for the pointer and for what
\* was drawn below it (restore_saved_block, save_current_block,
\* draw_mouse_pointer).
THEOREM NoTrace ==
  Spec => []PointerLeavesNoTrace
<1>1. TypeOK /\ PointerLeavesNoTrace /\ [Next]_vars => PointerLeavesNoTrace'
  <2>1. PointerLeavesNoTrace /\ UNCHANGED vars => PointerLeavesNoTrace'
    BY DEF vars, mainThread, windows, PointerLeavesNoTrace
  <2> QED
    BY <2>1, StepTrace
<1> QED
  BY <1>1, InitTrace, PointerTypes, PTL DEF Spec
-----------------------------------------------------------------------------
(* The left button is pressed and released in turn.                        *)

Events == [type : EventTypes, pos : Pixels]

IsDown(e) == e.type = <<"left", "down">>
IsUp(e) == e.type = <<"left", "up">>
Tells(e) == e.type \in {<<"left", "down">>, <<"left", "up">>}

\* LeftDownBefore and LeftButtonIsPaired of any sequence of events s to one
\* who believes d.
Believed(s, d, k) ==
  IF \E j \in 1..(k - 1) : Tells(s[j])
  THEN \E j \in 1..(k - 1) : IsDown(s[j]) /\ \A l \in (j + 1)..(k - 1) : ~ Tells(s[l])
  ELSE d

Fits(b, e) ==
  CASE e.type = <<"left", "down">> -> ~ b
    [] e.type \in {<<"left", "up">>, <<"left", "drag">>} -> b
    [] e.type = <<"none", "move">> -> ~ b
    [] OTHER -> TRUE

InTurn(s, d) == \A k \in 1..Len(s) : Fits(Believed(s, d, k), s[k])

\* What is believed after an event.
Told(b, e) == (b /\ ~ Tells(e)) \/ IsDown(e)

\* What is told in the end is what the driver has.
PInv == InTurn(sock, leftDown) /\ (Believed(sock, leftDown, Len(sock) + 1) <=> "left" \in driver.pressed)

LEMMA Telling ==
  \A e : (IsDown(e) => Tells(e)) /\ (Tells(e) <=> IsDown(e) \/ IsUp(e)) /\ ~ (IsDown(e) /\ IsUp(e))
BY DEF IsDown, IsUp, Tells

\* An event more.
LEMMA BelievedNext ==
  ASSUME NEW s, NEW d \in BOOLEAN, NEW k \in Nat \ {0}
  PROVE  Believed(s, d, k + 1) <=> Told(Believed(s, d, k), s[k])
<1>1. \A j : j \in 1..((k + 1) - 1) <=> j \in 1..(k - 1) \/ j = k
  OBVIOUS
<1>2. CASE Tells(s[k])
  <2>1. Believed(s, d, k + 1) <=>
          \E j \in 1..((k + 1) - 1) : IsDown(s[j]) /\ \A l \in (j + 1)..((k + 1) - 1) : ~ Tells(s[l])
    BY <1>1, <1>2 DEF Believed
  <2>2. ASSUME NEW j \in 1..((k + 1) - 1), \A l \in (j + 1)..((k + 1) - 1) : ~ Tells(s[l]) PROVE j = k
    <3> SUFFICES ASSUME j # k PROVE FALSE
      OBVIOUS
    <3>1. k \in (j + 1)..((k + 1) - 1)
      OBVIOUS
    <3> QED
      BY <1>2, <2>2, <3>1
  <2>3. k \in 1..((k + 1) - 1) /\ \A l : ~ l \in (k + 1)..((k + 1) - 1)
    OBVIOUS
  <2>4. Believed(s, d, k + 1) <=> IsDown(s[k])
    BY <2>1, <2>2, <2>3
  <2> QED
    BY <1>2, <2>4 DEF Told
<1>3. CASE ~ Tells(s[k])
  <2>1. (\E j \in 1..((k + 1) - 1) : Tells(s[j])) <=> \E j \in 1..(k - 1) : Tells(s[j])
    BY <1>1, <1>3
  <2>2. ASSUME NEW j \in 1..(k - 1)
        PROVE  (\A l \in (j + 1)..((k + 1) - 1) : ~ Tells(s[l])) <=> \A l \in (j + 1)..(k - 1) : ~ Tells(s[l])
    <3>1. \A l : l \in (j + 1)..((k + 1) - 1) <=> l \in (j + 1)..(k - 1) \/ l = k
      OBVIOUS
    <3> QED
      BY <1>3, <3>1
  <2>3. (\E j \in 1..((k + 1) - 1) : IsDown(s[j]) /\ \A l \in (j + 1)..((k + 1) - 1) : ~ Tells(s[l]))
        <=> \E j \in 1..(k - 1) : IsDown(s[j]) /\ \A l \in (j + 1)..(k - 1) : ~ Tells(s[l])
    BY <1>1, <1>3, <2>2, Telling
  <2>4. Believed(s, d, k + 1) <=> Believed(s, d, k)
    BY <2>1, <2>3 DEF Believed
  <2> QED
    BY <1>3, <2>4, Telling DEF Told
<1> QED
  BY <1>2, <1>3

\* What comes later does not matter.
LEMMA BelievedSame ==
  ASSUME NEW s, NEW t, NEW d \in BOOLEAN, NEW k \in Nat, \A j \in 1..(k - 1) : s[j] = t[j]
  PROVE  Believed(s, d, k) <=> Believed(t, d, k)
<1>1. \A j \in 1..(k - 1) : \A l \in (j + 1)..(k - 1) : l \in 1..(k - 1)
  OBVIOUS
<1>2. (\E j \in 1..(k - 1) : Tells(s[j])) <=> \E j \in 1..(k - 1) : Tells(t[j])
  OBVIOUS
<1>3. ASSUME NEW j \in 1..(k - 1)
      PROVE  (\A l \in (j + 1)..(k - 1) : ~ Tells(s[l])) <=> \A l \in (j + 1)..(k - 1) : ~ Tells(t[l])
  BY <1>1
<1> QED
  BY <1>2, <1>3 DEF Believed

\* The first event is taken.
LEMMA BelievedTail ==
  ASSUME NEW s \in Seq(Events), s # <<>>, NEW d \in BOOLEAN, NEW k \in 1..Len(s),
         NEW c \in BOOLEAN, c <=> Told(d, s[1])
  PROVE  Believed(Tail(s), c, k) <=> Believed(s, d, k + 1)
<1> DEFINE t == Tail(s)
<1>1. Len(s) \in Nat /\ \A j \in 1..(k - 1) : t[j] = s[j + 1]
  <2>1. Len(s) \in Nat /\ Len(t) = Len(s) - 1 /\ \A j \in 1..Len(t) : t[j] = s[j + 1]
    BY HeadTailProperties
  <2>2. \A j \in 1..(k - 1) : j \in 1..Len(t)
    BY <2>1
  <2> QED
    BY <2>1, <2>2
<1> HIDE DEF t
<1>2. \A j : /\ j \in 1..(k - 1) => j + 1 \in 1..((k + 1) - 1)
             /\ j \in 1..((k + 1) - 1) /\ j # 1 => j - 1 \in 1..(k - 1) /\ (j - 1) + 1 = j
  BY <1>1
<1>3. ASSUME NEW j \in 0..(k - 1)
      PROVE  (\A l \in (j + 1)..(k - 1) : ~ Tells(t[l])) <=> \A l \in ((j + 1) + 1)..((k + 1) - 1) : ~ Tells(s[l])
  <2>1. ASSUME \A l \in (j + 1)..(k - 1) : ~ Tells(t[l]), NEW l \in ((j + 1) + 1)..((k + 1) - 1)
        PROVE  ~ Tells(s[l])
    <3>1. l - 1 \in (j + 1)..(k - 1) /\ l - 1 \in 1..(k - 1) /\ (l - 1) + 1 = l
      BY <1>1
    <3> QED
      BY <1>1, <2>1, <3>1
  <2>2. ASSUME \A l \in ((j + 1) + 1)..((k + 1) - 1) : ~ Tells(s[l]), NEW l \in (j + 1)..(k - 1)
        PROVE  ~ Tells(t[l])
    <3>1. l + 1 \in ((j + 1) + 1)..((k + 1) - 1) /\ l \in 1..(k - 1)
      BY <1>1
    <3> QED
      BY <1>1, <2>2, <3>1
  <2> QED
    BY <2>1, <2>2
<1>4. 1 \in 1..((k + 1) - 1) /\ 0 \in 0..(k - 1) /\ 0 + 1 = 1
  BY <1>1
<1>5. CASE \E j \in 1..(k - 1) : Tells(t[j])
  <2>1. \E j \in 1..((k + 1) - 1) : Tells(s[j])
    BY <1>1, <1>2, <1>5
  <2>2. ~ \A l \in (0 + 1)..(k - 1) : ~ Tells(t[l])
    BY <1>4, <1>5
  <2>3. ~ \A l \in (1 + 1)..((k + 1) - 1) : ~ Tells(s[l])
    BY <1>3, <1>4, <2>2
  <2>4. ASSUME NEW j \in 1..(k - 1), IsDown(t[j]), \A l \in (j + 1)..(k - 1) : ~ Tells(t[l])
        PROVE  \E i \in 1..((k + 1) - 1) : IsDown(s[i]) /\ \A l \in (i + 1)..((k + 1) - 1) : ~ Tells(s[l])
    <3>1. j \in 0..(k - 1) /\ j + 1 \in 1..((k + 1) - 1) /\ IsDown(s[j + 1])
      BY <1>1, <1>2, <2>4
    <3>2. \A l \in ((j + 1) + 1)..((k + 1) - 1) : ~ Tells(s[l])
      BY <1>3, <2>4, <3>1
    <3> QED
      BY <3>1, <3>2
  <2>5. ASSUME NEW i \in 1..((k + 1) - 1), IsDown(s[i]), \A l \in (i + 1)..((k + 1) - 1) : ~ Tells(s[l])
        PROVE  \E j \in 1..(k - 1) : IsDown(t[j]) /\ \A l \in (j + 1)..(k - 1) : ~ Tells(t[l])
    <3>1. i # 1
      BY <2>3, <2>5
    <3>2. i - 1 \in 1..(k - 1) /\ i - 1 \in 0..(k - 1) /\ (i - 1) + 1 = i
      BY <1>1, <1>2, <3>1
    <3>3. IsDown(t[i - 1])
      BY <1>1, <2>5, <3>2
    <3>4. \A l \in ((i - 1) + 1)..(k - 1) : ~ Tells(t[l])
      BY <1>3, <2>5, <3>2
    <3> QED
      BY <3>2, <3>3, <3>4
  <2> QED
    BY <1>5, <2>1, <2>4, <2>5 DEF Believed, t
<1>6. CASE ~ \E j \in 1..(k - 1) : Tells(t[j])
  <2>1. Believed(t, c, k) <=> Told(d, s[1])
    BY <1>6 DEF Believed
  <2>2. \A l \in (1 + 1)..((k + 1) - 1) : ~ Tells(s[l])
    BY <1>3, <1>4, <1>6
  <2>3. ASSUME NEW j \in 1..((k + 1) - 1), Tells(s[j]) PROVE j = 1
    <3> SUFFICES ASSUME j # 1 PROVE FALSE
      OBVIOUS
    <3>1. j \in (1 + 1)..((k + 1) - 1)
      BY <1>1
    <3> QED
      BY <2>2, <2>3, <3>1
  <2>4. (\E j \in 1..((k + 1) - 1) : Tells(s[j])) <=> Tells(s[1])
    BY <1>4, <2>3
  <2>5. (\E i \in 1..((k + 1) - 1) : IsDown(s[i]) /\ \A l \in (i + 1)..((k + 1) - 1) : ~ Tells(s[l]))
        <=> IsDown(s[1])
    BY <1>4, <2>2, <2>3, Telling
  <2>6. Believed(s, d, k + 1) <=> IF Tells(s[1]) THEN IsDown(s[1]) ELSE d
    BY <2>4, <2>5 DEF Believed
  <2> QED
    BY <2>1, <2>6, Telling DEF Told, t
<1> QED
  BY <1>5, <1>6

\* At most one event is written, which fits what has been told before.
LEMMA TellOne ==
  ASSUME NEW s \in Seq(Events), NEW d \in BOOLEAN, InTurn(s, d), NEW b \in BOOLEAN,
         Believed(s, d, Len(s) + 1) <=> b, NEW e \in Events, Fits(b, e),
         NEW c \in BOOLEAN, c <=> Told(b, e)
  PROVE  /\ s \o <<e>> \in Seq(Events) /\ InTurn(s \o <<e>>, d)
         /\ Believed(s \o <<e>>, d, Len(s \o <<e>>) + 1) <=> c
<1> DEFINE t == s \o <<e>>
<1>1. /\ t \in Seq(Events) /\ Len(s) \in Nat /\ Len(t) = Len(s) + 1
      /\ t[Len(s) + 1] = e /\ \A j \in 1..Len(s) : t[j] = s[j]
  <2>1. t = Append(s, e)
    BY AppendIsConcat
  <2> QED
    BY <2>1, AppendProperties, LenProperties
<1> HIDE DEF t
<1>2. ASSUME NEW k \in 1..(Len(s) + 1) PROVE Believed(t, d, k) <=> Believed(s, d, k)
  <2>1. k \in Nat /\ \A j \in 1..(k - 1) : t[j] = s[j]
    BY <1>1
  <2> QED
    BY <2>1, BelievedSame
<1>3. Believed(t, d, Len(s) + 1) <=> b
  <2>1. Len(s) + 1 \in 1..(Len(s) + 1)
    BY <1>1
  <2> QED
    BY <1>2, <2>1
<1>4. Believed(t, d, Len(t) + 1) <=> Told(b, e)
  <2>1. Len(t) \in Nat \ {0}
    BY <1>1
  <2>2. Believed(t, d, Len(t) + 1) <=> Told(Believed(t, d, Len(t)), t[Len(t)])
    BY <2>1, BelievedNext
  <2> QED
    BY <1>1, <1>3, <2>2 DEF Told
<1>5. InTurn(t, d)
  <2> SUFFICES ASSUME NEW k \in 1..Len(t) PROVE Fits(Believed(t, d, k), t[k])
    BY DEF InTurn
  <2>1. CASE k \in 1..Len(s)
    <3>1. Fits(Believed(s, d, k), s[k]) /\ t[k] = s[k] /\ (Believed(t, d, k) <=> Believed(s, d, k))
      BY <1>1, <1>2, <2>1 DEF InTurn
    <3> QED
      BY <3>1 DEF Fits
  <2>2. CASE k = Len(s) + 1
    BY <1>1, <1>3, <2>2 DEF Fits
  <2> QED
    BY <1>1, <2>1, <2>2
<1> QED
  BY <1>1, <1>4, <1>5 DEF t

\* Concatenation under a name of its own, so that its associativity can be
\* applied several times over.
Cat(a, b) == a \o b

LEMMA CatFacts ==
  ASSUME NEW S, NEW a \in Seq(S), NEW b \in Seq(S), NEW c \in Seq(S)
  PROVE  Cat(a, b) \in Seq(S) /\ Cat(Cat(a, b), c) = Cat(a, Cat(b, c))
<1>1. a \o b \in Seq(S)
  BY ConcatProperties
<1>2. (a \o b) \o c = a \o (b \o c)
  BY ConcatAssociative
<1> QED
  BY <1>1, <1>2 DEF Cat

\* The events of a packet fit, and tell what the driver has then.
LEMMA TellPacket ==
  ASSUME NEW next \in Places, NEW s \in Seq(Events), NEW d \in BOOLEAN, InTurn(s, d),
         NEW was \in BOOLEAN, was <=> "left" \in driver.pressed,
         NEW is \in BOOLEAN, is <=> "left" \in next.pressed,
         Believed(s, d, Len(s) + 1) <=> was
  PROVE  /\ InTurn(s \o EventsOf(next), d)
         /\ Believed(s \o EventsOf(next), d, Len(s \o EventsOf(next)) + 1) <=> is
<1> DEFINE Good(t, b) == /\ t \in Seq(Events) /\ InTurn(t, d)
                         /\ Believed(t, d, Len(t) + 1) <=> b
           L == ButtonEvents("left", next)
           M == ButtonEvents("middle", next)
           R == ButtonEvents("right", next)
           V == MoveEvents(next)
<1>1. Good(s, was)
  OBVIOUS
<1>2. /\ \A b \in Buttons : \A k \in {"down", "drag", "up"} : Event(<<b, k>>, next.pos) \in Events
      /\ Event(<<"none", "move">>, next.pos) \in Events
  <2>1. next.pos \in Pixels
    BY DEF Places
  <2> QED
    BY <2>1 DEF Event, Events, EventTypes
<1>3. ASSUME NEW t, NEW b \in BOOLEAN, Good(t, b), NEW e \in Events, Fits(b, e),
             NEW c \in BOOLEAN, c <=> Told(b, e)
      PROVE  Good(t \o <<e>>, c)
  BY <1>3, TellOne
<1>4. ASSUME NEW t, NEW b \in BOOLEAN, Good(t, b) PROVE Good(t \o <<>>, b)
  BY <1>4, ConcatEmptySeq
<1> HIDE DEF Good
<1>5. Good(s \o L, is)
  <2>1. ASSUME NEW k \in {"down", "drag", "up"}, L = <<Event(<<"left", k>>, next.pos)>>,
               \/ k = "down" /\ is /\ ~ was
               \/ k = "drag" /\ is /\ was
               \/ k = "up" /\ was /\ ~ is
        PROVE  Good(s \o L, is)
    <3> DEFINE e == Event(<<"left", k>>, next.pos)
    <3>1. e \in Events
      BY <1>2 DEF Buttons
    <3>2. Fits(was, e) /\ (is <=> Told(was, e))
      BY <2>1 DEF Event, Fits, Told, IsDown, Tells
    <3> HIDE DEF e
    <3>3. Good(s \o <<e>>, is)
      BY <1>1, <1>3, <3>1, <3>2
    <3> QED
      BY <2>1, <3>3 DEF e
  <2>2. CASE is /\ ~ was
    BY <2>1, <2>2 DEF ButtonEvents
  <2>3. CASE is /\ was /\ next.pos # Centre
    BY <2>1, <2>3 DEF ButtonEvents
  <2>4. CASE was /\ ~ is
    BY <2>1, <2>4 DEF ButtonEvents
  <2>5. CASE is = was /\ ~ (is /\ next.pos # Centre)
    <3>1. L = <<>>
      BY <2>5 DEF ButtonEvents
    <3> QED
      BY <1>1, <1>4, <2>5, <3>1
  <2> QED
    BY <2>2, <2>3, <2>4, <2>5
<1>6. ASSUME NEW t, Good(t, is), NEW b \in {"middle", "right"} PROVE Good(t \o ButtonEvents(b, next), is)
  <2>1. PICK k \in {"down", "drag"} :
          ButtonEvents(b, next) = <<>> \/ ButtonEvents(b, next) = <<Event(<<b, k>>, next.pos)>>
    BY DEF ButtonEvents
  <2> DEFINE e == Event(<<b, k>>, next.pos)
  <2>2. e \in Events
    BY <1>2 DEF Buttons
  <2>3. Fits(is, e) /\ (is <=> Told(is, e))
    BY DEF Event, Fits, Told, IsDown, Tells
  <2> HIDE DEF e
  <2>4. Good(t \o <<e>>, is)
    BY <1>3, <1>6, <2>2, <2>3
  <2>5. Good(t \o <<>>, is)
    BY <1>4, <1>6
  <2> QED
    BY <2>1, <2>4, <2>5 DEF e
<1>7. ASSUME NEW t, Good(t, is) PROVE Good(t \o V, is)
  <2> DEFINE e == Event(<<"none", "move">>, next.pos)
  <2>1. V = <<>> \/ (V = <<e>> /\ ~ is)
    BY DEF MoveEvents
  <2>2. e \in Events
    BY <1>2
  <2>3. (~ is => Fits(is, e)) /\ (is <=> Told(is, e))
    BY DEF Event, Fits, Told, IsDown, Tells
  <2> HIDE DEF e, V
  <2>4. ASSUME ~ is PROVE Good(t \o <<e>>, is)
    BY <1>3, <1>7, <2>2, <2>3, <2>4
  <2>5. Good(t \o <<>>, is)
    BY <1>4, <1>7
  <2> QED
    BY <2>1, <2>4, <2>5
<1>8. Good(((((s \o L) \o M) \o R) \o V), is)
  <2>1. Good((s \o L) \o M, is)
    BY <1>5, <1>6
  <2>2. Good(((s \o L) \o M) \o R, is)
    BY <1>6, <2>1
  <2> QED
    BY <1>7, <2>2
<1>9. ((((s \o L) \o M) \o R) \o V) = s \o EventsOf(next)
  <2>1. L \in Seq(Events) /\ M \in Seq(Events) /\ R \in Seq(Events) /\ V \in Seq(Events)
    <3>1. <<>> \in Seq(Events) /\ \A e \in Events : <<e>> \in Seq(Events)
      OBVIOUS
    <3>2. \A b \in Buttons : ButtonEvents(b, next) \in Seq(Events)
      BY <1>2, <3>1 DEF ButtonEvents
    <3> QED
      BY <1>2, <3>1, <3>2 DEF Buttons, MoveEvents
  <2>2. EventsOf(next) = ((L \o M) \o R) \o V
    BY Zenon DEF EventsOf
  <2> HIDE DEF L, M, R, V
  <2>3. Cat(L, M) \in Seq(Events) /\ Cat(Cat(L, M), R) \in Seq(Events)
    BY <2>1, CatFacts
  <2>4. Cat(Cat(Cat(Cat(s, L), M), R), V) = Cat(s, Cat(Cat(Cat(L, M), R), V))
    BY <2>1, <2>3, CatFacts
  <2> QED
    BY <2>2, <2>4 DEF Cat
<1> QED
  BY <1>8, <1>9 DEF Good

LEMMA StepPaired ==
  ASSUME TypeOK, PInv, [Next]_vars
  PROVE  PInv'
<1> USE DEF hardware, mouseThread, mainThread, windows
<1>1. sock \in Seq(Events) /\ leftDown \in BOOLEAN /\ driver \in Places
  BY DEF TypeOK, Events
<1>2. ASSUME UNCHANGED <<sock, leftDown, driver>> PROVE PInv'
  BY <1>2 DEF PInv
<1>3. ASSUME ProcessPacket PROVE PInv'
  <2>1. driver' \in Places
    BY <1>3, MovedOnScreen DEF ProcessPacket, TypeOK
  <2>2. sock' = sock \o EventsOf(driver') /\ leftDown' = leftDown
    BY <1>3 DEF ProcessPacket
  <2>3. PICK was \in BOOLEAN, is \in BOOLEAN :
          (was <=> "left" \in driver.pressed) /\ (is <=> "left" \in driver'.pressed)
    OBVIOUS
  <2>4. InTurn(sock, leftDown) /\ (Believed(sock, leftDown, Len(sock) + 1) <=> was)
    BY <2>3 DEF PInv
  <2>5. /\ InTurn(sock \o EventsOf(driver'), leftDown)
        /\ Believed(sock \o EventsOf(driver'), leftDown, Len(sock \o EventsOf(driver')) + 1) <=> is
    BY <1>1, <2>1, <2>3, <2>4, TellPacket
  <2> QED
    BY <2>2, <2>3, <2>5 DEF PInv
<1>4. ASSUME ReadEvent PROVE PInv'
  <2>1. sock # <<>> /\ sock' = Tail(sock) /\ driver' = driver /\ Len(sock) \in Nat \ {0} /\ Head(sock) = sock[1]
    BY <1>1, <1>4, EmptySeq DEF ReadEvent
  <2>2. leftDown' \in BOOLEAN /\ (leftDown' <=> Told(leftDown, sock[1]))
    <3> DEFINE type == sock[1].type
    <3>1. leftDown' = CASE type = <<"left", "down">> -> TRUE
                        [] type = <<"left", "up">> -> FALSE
                        [] OTHER -> leftDown
      BY <1>4, <2>1 DEF ReadEvent
    <3>2. /\ IsDown(sock[1]) <=> type = <<"left", "down">>
          /\ IsUp(sock[1]) <=> type = <<"left", "up">>
      BY DEF IsDown, IsUp
    <3> HIDE DEF type
    <3>3. /\ IsDown(sock[1]) => leftDown' = TRUE
          /\ IsUp(sock[1]) => leftDown' = FALSE
          /\ ~ IsDown(sock[1]) /\ ~ IsUp(sock[1]) => leftDown' = leftDown
      BY <3>1, <3>2, Telling
    <3>4. CASE IsDown(sock[1])
      BY <3>3, <3>4 DEF Told
    <3>5. CASE IsUp(sock[1])
      BY <3>3, <3>5, Telling DEF Told
    <3>6. CASE ~ IsDown(sock[1]) /\ ~ IsUp(sock[1])
      <4>1. ~ Tells(sock[1]) /\ leftDown' = leftDown
        BY <3>3, <3>6, Telling
      <4> QED
        BY <1>1, <3>6, <4>1 DEF Told
    <3> QED
      BY <3>4, <3>5, <3>6
  <2>3. Len(sock') = Len(sock) - 1 /\ \A k \in 1..Len(sock') : sock'[k] = sock[k + 1]
    BY <1>1, <2>1, HeadTailProperties
  <2>4. ASSUME NEW k \in 1..Len(sock) PROVE Believed(sock', leftDown', k) <=> Believed(sock, leftDown, k + 1)
    BY <1>1, <2>1, <2>2, BelievedTail
  <2>5. InTurn(sock', leftDown')
    <3> SUFFICES ASSUME NEW k \in 1..Len(sock') PROVE Fits(Believed(sock', leftDown', k), sock'[k])
      BY DEF InTurn
    <3>1. k \in 1..Len(sock) /\ k + 1 \in 1..Len(sock)
      BY <2>1, <2>3
    <3>2. Fits(Believed(sock, leftDown, k + 1), sock[k + 1])
      BY <3>1 DEF PInv, InTurn
    <3>3. sock'[k] = sock[k + 1] /\ (Believed(sock', leftDown', k) <=> Believed(sock, leftDown, k + 1))
      BY <2>3, <2>4, <3>1
    <3> QED
      BY <3>2, <3>3 DEF Fits
  <2>6. Believed(sock', leftDown', Len(sock') + 1) <=> "left" \in driver'.pressed
    <3>1. Len(sock') + 1 \in 1..Len(sock) /\ (Len(sock') + 1) + 1 = Len(sock) + 1
      BY <2>1, <2>3
    <3> QED
      BY <2>1, <2>4, <3>1 DEF PInv
  <2> QED
    BY <2>5, <2>6 DEF PInv
<1>5. ASSUME MouseSends \/ Read \/ NotEnough \/ EatByte \/ Restore \/ Save \/ Draw \/ WindowDraws
      PROVE  UNCHANGED <<sock, leftDown, driver>>
  BY <1>5 DEF MouseSends, Read, NotEnough, EatByte, Restore, Save, Draw, WindowDraws
<1> QED
  BY <1>2, <1>3, <1>4, <1>5 DEF Next, MouseThread, MainThread, vars

\* Whatever the device sends and wherever the driver starts to read it, the
\* main thread is told of presses and releases of the left button in turn
\* (process_mouse_data).
THEOREM ButtonIsPaired ==
  Spec => []LeftButtonIsPaired
<1>1. Init => PInv
  <2> SUFFICES ASSUME Init PROVE PInv
    OBVIOUS
  <2>1. sock = <<>> /\ leftDown = FALSE /\ driver.pressed = {} /\ Len(<<>>) = 0
    BY EmptySeq DEF Init, Start
  <2>2. InTurn(<<>>, FALSE)
    BY <2>1 DEF InTurn
  <2>3. ~ Believed(<<>>, FALSE, 0 + 1)
    BY DEF Believed
  <2> QED
    BY <2>1, <2>2, <2>3 DEF PInv
<1>2. TypeOK /\ PInv => LeftButtonIsPaired
  <2> SUFFICES ASSUME TypeOK, PInv, NEW k \in DOMAIN sock
               PROVE  Fits(Believed(sock, leftDown, k), sock[k])
    BY DEF LeftButtonIsPaired, LeftDownBefore, Fits, Believed, IsDown, Tells
  <2> QED
    BY LenProperties DEF PInv, InTurn, TypeOK
<1> QED
  BY <1>1, <1>2, StepPaired, PointerTypes, PTL DEF Spec

-----------------------------------------------------------------------------
(* The driver follows the mouse.                                           *)

\* The k-th packet of the bytes b, counted from 0.
PacketAt(b, k) == <<b[3 * k + 1], b[3 * k + 2], b[3 * k + 3]>>

\* The bytes b are m packets, which lead by the stations t.
Leads(b, m, t) ==
  /\ Len(b) = 3 * m
  /\ \A k \in 0..(m - 1) : /\ ~ Overflow(PacketAt(b, k))
                           /\ t[k + 1] = Moved(t[k], PacketAt(b, k))

\* What is on its way from the mouse leads the driver to where the mouse is.
Underway ==
  inStep => \E m \in Nat : \E t : /\ Leads(Cat(buf, device), m, t)
                                  /\ t[0] = driver /\ t[m] = mouse

FInv ==
  /\ Underway
  /\ pc = "read" => Len(buf) < 3

\* A packet says by its first three bytes what it says.
LEMMA FirstThree ==
  ASSUME NEW p, NEW q, q[1] = p[1], q[2] = p[2], q[3] = p[3]
  PROVE  Overflow(q) = Overflow(p) /\ \A pl : Moved(pl, q) = Moved(pl, p)
BY DEF Overflow, Moved, DeltaX, DeltaY, Pressed, Bit

\* The bytes of two parts of a sequence.
LEMMA Joined ==
  ASSUME NEW a \in Seq(0..255), NEW b \in Seq(0..255)
  PROVE  /\ Cat(a, b) \in Seq(0..255) /\ Len(Cat(a, b)) = Len(a) + Len(b)
         /\ Len(a) \in Nat /\ Len(b) \in Nat
         /\ \A i \in 1..Len(a) : Cat(a, b)[i] = a[i]
         /\ \A i \in 1..Len(b) : Cat(a, b)[Len(a) + i] = b[i]
BY ConcatProperties, LenProperties DEF Cat

\* The bytes of a portion of a sequence.
Portion(s, m, n) == SubSeq(s, m, n)

LEMMA PortionFacts ==
  ASSUME NEW s \in Seq(0..255), NEW m \in Nat \ {0}, NEW n \in Nat, n <= Len(s), m <= n + 1
  PROVE  /\ Portion(s, m, n) \in Seq(0..255) /\ Len(Portion(s, m, n)) = (n + 1) - m
         /\ \A i \in 1..((n + 1) - m) : Portion(s, m, n)[i] = s[(m - 1) + i]
<1>1. SubSeq(s, m, n) \in Seq(0..255)
  BY PartOfSeq
<1>2. Len(SubSeq(s, m, n)) = (n + 1) - m
  BY LenProperties
<1>3. ASSUME NEW i \in 1..((n + 1) - m) PROVE SubSeq(s, m, n)[i] = s[(m - 1) + i]
  BY LenProperties
<1>4. QED
  BY <1>1, <1>2, <1>3 DEF Portion

\* The mouse sends one more packet.
LEMMA LeadsFurther ==
  ASSUME NEW b \in Seq(0..255), NEW m \in Nat, NEW t, Leads(b, m, t),
         NEW p \in Seq(0..255), Len(p) = 3, ~ Overflow(p)
  PROVE  \E u : Leads(Cat(b, p), m + 1, u) /\ u[0] = t[0] /\ u[m + 1] = Moved(t[m], p)
<1> DEFINE c == Cat(b, p)
           u == [k \in 0..(m + 1) |-> IF k = m + 1 THEN Moved(t[m], p) ELSE t[k]]
<1>1. /\ Len(b) = 3 * m /\ Len(c) = 3 * (m + 1)
      /\ \A i \in 1..(3 * m) : c[i] = b[i]
      /\ \A i \in 1..3 : c[3 * m + i] = p[i]
  <2>1. /\ Len(c) = Len(b) + Len(p)
        /\ \A i \in 1..Len(b) : c[i] = b[i]
        /\ \A i \in 1..Len(p) : c[Len(b) + i] = p[i]
    BY Joined
  <2> HIDE DEF c
  <2>2. Len(b) = 3 * m
    BY DEF Leads
  <2>3. QED
    BY <2>1, <2>2
<1> HIDE DEF c
<1>2. u[0] = t[0] /\ u[m + 1] = Moved(t[m], p) /\ \A k \in 0..m : u[k] = t[k]
  OBVIOUS
<1> HIDE DEF u
<1>3. ASSUME NEW k \in 0..m
      PROVE  ~ Overflow(PacketAt(c, k)) /\ u[k + 1] = Moved(u[k], PacketAt(c, k))
  <2>1. CASE k = m
    <3>1. PacketAt(c, k) = <<p[1], p[2], p[3]>>
      BY <2>1, <1>1 DEF PacketAt
    <3>2. /\ PacketAt(c, k)[1] = p[1] /\ PacketAt(c, k)[2] = p[2]
          /\ PacketAt(c, k)[3] = p[3]
      BY <3>1
    <3>3. QED
      BY <3>2, <2>1, <1>2, FirstThree
  <2>2. CASE k # m
    <3>1. k \in 0..(m - 1) /\ k + 1 \in 0..m
      BY <2>2
    <3>2. 3 * k + 1 \in 1..(3 * m) /\ 3 * k + 2 \in 1..(3 * m) /\ 3 * k + 3 \in 1..(3 * m)
      BY <3>1
    <3>3. PacketAt(c, k) = PacketAt(b, k)
      BY <3>2, <1>1 DEF PacketAt
    <3>4. u[k + 1] = t[k + 1] /\ u[k] = t[k]
      BY <3>1, <1>2
    <3>5. QED
      BY <3>1, <3>3, <3>4 DEF Leads
  <2>3. QED
    BY <2>1, <2>2
<1>4. Leads(c, m + 1, u)
  BY <1>1, <1>3 DEF Leads
<1>5. QED
  BY <1>2, <1>4 DEF c

\* The driver takes the first packet.
LEMMA LeadsOn ==
  ASSUME NEW b \in Seq(0..255), NEW m \in Nat \ {0}, NEW t, Leads(b, m, t),
         NEW c \in Seq(0..255), Len(c) = Len(b) - 3,
         \A i \in 1..Len(c) : c[i] = b[i + 3]
  PROVE  \E u : Leads(c, m - 1, u) /\ u[0] = t[1] /\ u[m - 1] = t[m]
<1> DEFINE u == [k \in 0..(m - 1) |-> t[k + 1]]
<1>1. u[0] = t[1] /\ u[m - 1] = t[m] /\ \A k \in 0..(m - 1) : u[k] = t[k + 1]
  OBVIOUS
<1> HIDE DEF u
<1>2. Len(c) = 3 * (m - 1)
  BY DEF Leads
<1>3. ASSUME NEW k \in 0..(m - 2)
      PROVE  ~ Overflow(PacketAt(c, k)) /\ u[k + 1] = Moved(u[k], PacketAt(c, k))
  <2>1. /\ 3 * k + 1 \in 1..Len(c) /\ 3 * k + 2 \in 1..Len(c) /\ 3 * k + 3 \in 1..Len(c)
        /\ 3 * (k + 1) + 1 = (3 * k + 1) + 3 /\ 3 * (k + 1) + 2 = (3 * k + 2) + 3
        /\ 3 * (k + 1) + 3 = (3 * k + 3) + 3
        /\ k + 1 \in 0..(m - 1) /\ k \in 0..(m - 1)
    BY <1>2
  <2>2. /\ c[3 * k + 1] = b[3 * (k + 1) + 1] /\ c[3 * k + 2] = b[3 * (k + 1) + 2]
        /\ c[3 * k + 3] = b[3 * (k + 1) + 3]
    BY <2>1
  <2>3. PacketAt(c, k) = PacketAt(b, k + 1)
    BY <2>2 DEF PacketAt
  <2>4. u[k + 1] = t[(k + 1) + 1] /\ u[k] = t[k + 1]
    BY <2>1, <1>1
  <2>5. QED
    BY <2>1, <2>3, <2>4 DEF Leads
<1>4. Leads(c, m - 1, u)
  BY <1>2, <1>3 DEF Leads
<1>5. QED
  BY <1>1, <1>4

\* Taking some bytes from the device into the buffer moves nothing.
LEMMA SameBytes ==
  ASSUME NEW a \in Seq(0..255), NEW d \in Seq(0..255), NEW n \in 1..Len(d)
  PROVE  Cat(Cat(a, Portion(d, 1, n)), Portion(d, n + 1, Len(d))) = Cat(a, d)
<1> DEFINE x == Portion(d, 1, n)
           y == Portion(d, n + 1, Len(d))
           r == Cat(x, y)
<1>1. Len(d) \in Nat /\ n \in Nat /\ n <= Len(d)
  BY LenProperties
<1>2. /\ x \in Seq(0..255) /\ Len(x) = (n + 1) - 1
      /\ \A i \in 1..((n + 1) - 1) : x[i] = d[(1 - 1) + i]
  <2>1. 1 \in Nat \ {0} /\ 1 <= n + 1
    BY <1>1
  <2>2. QED
    BY <2>1, <1>1, PortionFacts
<1>3. /\ y \in Seq(0..255) /\ Len(y) = (Len(d) + 1) - (n + 1)
      /\ \A i \in 1..((Len(d) + 1) - (n + 1)) : y[i] = d[((n + 1) - 1) + i]
  <2>1. n + 1 \in Nat \ {0} /\ n + 1 <= Len(d) + 1 /\ Len(d) <= Len(d)
    BY <1>1
  <2>2. QED
    BY <2>1, <1>1, PortionFacts
<1> HIDE DEF x, y
<1>4. /\ r \in Seq(0..255) /\ Len(r) = Len(x) + Len(y)
      /\ \A i \in 1..Len(x) : r[i] = x[i]
      /\ \A i \in 1..Len(y) : r[Len(x) + i] = y[i]
  <2>1. x \in Seq(0..255) /\ y \in Seq(0..255)
    BY <1>2, <1>3
  <2>2. r \in Seq(0..255) /\ Len(r) = Len(x) + Len(y)
    BY ONLY <2>1, Joined
  <2>3. \A i \in 1..Len(x) : r[i] = x[i]
    BY ONLY <2>1, Joined
  <2>4. \A i \in 1..Len(y) : r[Len(x) + i] = y[i]
    BY ONLY <2>1, Joined
  <2>5. QED
    BY <2>2, <2>3, <2>4
<1> HIDE DEF r
<1>5. Len(x) = n /\ Len(r) = Len(d)
  BY <1>1, <1>2, <1>3, <1>4
<1>6. ASSUME NEW i \in 1..Len(r)
      PROVE  r[i] = d[i]
  <2>1. CASE i \in 1..n
    BY <2>1, <1>1, <1>2, <1>4, <1>5
  <2>2. CASE i \notin 1..n
    <3>1. /\ i - n \in 1..Len(y) /\ i = n + (i - n)
          /\ ((n + 1) - 1) + (i - n) = i
      BY <2>2, <1>1, <1>3, <1>5
    <3>2. r[n + (i - n)] = y[i - n]
      BY <3>1, <1>4, <1>5
    <3>3. y[i - n] = d[((n + 1) - 1) + (i - n)]
      BY <3>1, <1>3
    <3>4. QED
      BY <3>1, <3>2, <3>3
  <2>3. QED
    BY <2>1, <2>2
<1>7. r = d
  BY <1>4, <1>5, <1>6, SeqEqual
<1>8. Cat(Cat(a, x), y) = Cat(a, r)
  BY <1>2, <1>3, CatFacts DEF r
<1>9. QED
  BY <1>7, <1>8 DEF x, y

LEMMA InitFollows == Init => FInv
<1> SUFFICES ASSUME Init PROVE FInv
  OBVIOUS
<1>1. buf = <<>> /\ driver = Start /\ mouse = Start /\ Len(<<>>) = 0
  BY EmptySeq DEF Init
<1>2. ASSUME inStep PROVE device = <<>>
  <2>1. PICK p \in Packets, n \in 0..2 : device = SubSeq(p, 4 - n, 3) /\ inStep = (n = 0)
    BY DEF Init
  <2>2. n = 0
    BY <2>1, <1>2, Zenon
  <2>5. device = SubSeq(p, 4, 3)
    BY <2>1, <2>2
  <2>3. p \in Seq(0..255)
    BY PointerAssumption
  <2>4. QED
    BY <2>5, <2>3
<1>3. ASSUME inStep PROVE Leads(Cat(buf, device), 0, [k \in {0} |-> Start])
  <2>1. Cat(buf, device) = <<>>
    BY <1>1, <1>2, <1>3 DEF Cat
  <2>2. QED
    BY <2>1, <1>1 DEF Leads
<1>4. Underway
  <2> DEFINE t == [k \in {0} |-> Start]
  <2>1. t[0] = Start /\ 0 \in Nat
    OBVIOUS
  <2> HIDE DEF t
  <2>2. inStep => Leads(Cat(buf, device), 0, t)
    BY <1>3 DEF t
  <2>3. QED
    BY <2>1, <2>2, <1>1 DEF Underway
<1>5. QED
  BY <1>1, <1>4 DEF FInv

LEMMA StepFollows == TypeOK /\ FInv /\ [Next]_vars => FInv'
<1> SUFFICES ASSUME TypeOK, FInv, [Next]_vars PROVE FInv'
  OBVIOUS
<1>1. buf \in Seq(0..255) /\ device \in Seq(0..255) /\ driver \in Places /\ mouse \in Places
  BY DEF TypeOK
<1>2. Len(buf) \in Nat /\ Len(device) \in Nat
  BY <1>1, LenProperties
<1>3. CASE MouseSends
  <2>1. PICK p \in Packets : /\ device' = device \o p
                             /\ mouse' = Moved(mouse, p)
                             /\ inStep' = (inStep /\ ~ Overflow(p))
    BY <1>3 DEF MouseSends
  <2>2. UNCHANGED <<buf, driver, pc>>
    BY <1>3 DEF MouseSends, mouseThread
  <2>3. p \in Seq(0..255) /\ Len(p) = 3
    BY PointerAssumption
  <2>4. ASSUME inStep'
        PROVE  \E m \in Nat : \E t : /\ Leads(Cat(Cat(buf, device), p), m, t)
                                     /\ t[0] = driver /\ t[m] = Moved(mouse, p)
    <3>1. inStep /\ ~ Overflow(p)
      BY <2>4, <2>1
    <3>20. PICK m \in Nat : \E t : /\ Leads(Cat(buf, device), m, t)
                                   /\ t[0] = driver /\ t[m] = mouse
      BY <3>1 DEF FInv, Underway
    <3>2. PICK t : Leads(Cat(buf, device), m, t) /\ t[0] = driver /\ t[m] = mouse
      BY <3>20
    <3>3. Cat(buf, device) \in Seq(0..255)
      BY <1>1, Joined
    <3>4. PICK u : /\ Leads(Cat(Cat(buf, device), p), m + 1, u)
                   /\ u[0] = t[0] /\ u[m + 1] = Moved(t[m], p)
      BY <3>1, <3>2, <3>3, <2>3, LeadsFurther
    <3>5. m + 1 \in Nat
      OBVIOUS
    <3>6. QED
      BY <3>2, <3>4, <3>5
  <2>5. Cat(Cat(buf, device), p) = Cat(buf, device)'
    <3>1. Cat(buf, device)' = Cat(buf, Cat(device, p))
      BY <2>1, <2>2 DEF Cat
    <3>2. QED
      BY <3>1, <1>1, <2>3, CatFacts
  <2>6. Underway'
    BY <2>1, <2>2, <2>4, <2>5 DEF Underway
  <2>7. QED
    BY <2>2, <2>6 DEF FInv
<1>4. CASE Read
  <2>1. PICK n \in 1..Len(device) : /\ buf' = buf \o SubSeq(device, 1, n)
                                    /\ device' = SubSeq(device, n + 1, Len(device))
    BY <1>4 DEF Read
  <2>2. pc' = "process" /\ UNCHANGED <<inStep, mouse, driver>>
    BY <1>4 DEF Read
  <2>3. Cat(buf, device)' = Cat(buf, device)
    <3>1. Cat(buf, device)' = Cat(Cat(buf, Portion(device, 1, n)), Portion(device, n + 1, Len(device)))
      BY <2>1 DEF Cat, Portion
    <3>2. QED
      BY <3>1, <1>1, SameBytes
  <2>4. Underway'
    BY <2>2, <2>3 DEF FInv, Underway
  <2>5. QED
    BY <2>2, <2>4 DEF FInv
<1>5. CASE NotEnough
  <2>1. UNCHANGED <<inStep, mouse, device, buf, driver>> /\ Len(buf) < 3
    BY <1>5 DEF NotEnough, hardware
  <2>2. Underway'
    BY <2>1 DEF FInv, Underway
  <2>3. QED
    BY <2>1, <2>2 DEF FInv
<1>6. ASSUME pc = "process", Len(buf) >= 3, inStep,
             NEW m \in Nat, NEW t, Leads(Cat(buf, device), m, t)
      PROVE  m # 0 /\ ~ Overflow(buf) /\ t[1] = Moved(t[0], buf)
  <2>1. /\ Len(Cat(buf, device)) = Len(buf) + Len(device)
        /\ \A i \in 1..Len(buf) : Cat(buf, device)[i] = buf[i]
    BY <1>1, Joined
  <2>2. m # 0 /\ 0 \in 0..(m - 1)
    BY <2>1, <1>2, <1>6 DEF Leads
  <2> DEFINE p == PacketAt(Cat(buf, device), 0)
  <2>3. p[1] = buf[1] /\ p[2] = buf[2] /\ p[3] = buf[3]
    BY <2>1, <1>2, <1>6 DEF PacketAt
  <2>4. ~ Overflow(p) /\ t[0 + 1] = Moved(t[0], p)
    BY <2>2, <1>6 DEF Leads
  <2> HIDE DEF p
  <2>5. Overflow(p) = Overflow(buf) /\ Moved(t[0], p) = Moved(t[0], buf)
    BY <2>3, FirstThree
  <2>6. QED
    BY <2>2, <2>4, <2>5
<1>7. CASE EatByte
  <2>1. /\ pc = "process" /\ Len(buf) >= 3 /\ Overflow(buf) /\ pc' = "process"
        /\ inStep' = inStep
    BY <1>7 DEF EatByte, hardware
  <2>2. ~ inStep
    BY <2>1, <1>6 DEF FInv, Underway
  <2>3. QED
    BY <2>1, <2>2 DEF FInv, Underway
<1>8. CASE ProcessPacket
  <2>1. /\ pc = "process" /\ Len(buf) >= 3 /\ pc' = "process"
        /\ driver' = Moved(driver, buf)
        /\ buf' = SubSeq(buf, 4, Len(buf))
        /\ UNCHANGED <<inStep, mouse, device>>
    BY <1>8 DEF ProcessPacket, hardware
  <2>2. ASSUME inStep
        PROVE  \E m \in Nat : \E t : /\ Leads(Cat(buf', device), m, t)
                                     /\ t[0] = driver' /\ t[m] = mouse
    <3>20. PICK m \in Nat : \E t : /\ Leads(Cat(buf, device), m, t)
                                   /\ t[0] = driver /\ t[m] = mouse
      BY <2>2 DEF FInv, Underway
    <3>1. PICK t : Leads(Cat(buf, device), m, t) /\ t[0] = driver /\ t[m] = mouse
      BY <3>20
    <3>2. m \in Nat \ {0} /\ m - 1 \in Nat /\ t[1] = driver'
      BY <3>1, <2>1, <2>2, <1>6
    <3> DEFINE b == Cat(buf, device)
               r == Portion(buf, 4, Len(buf))
               c == Cat(r, device)
    <3>3. r \in Seq(0..255) /\ Len(r) = Len(buf) - 3 /\ \A i \in 1..Len(r) : r[i] = buf[3 + i]
      <4>1. /\ Len(buf) <= Len(buf) /\ 4 <= Len(buf) + 1 /\ 4 \in Nat \ {0}
            /\ Len(buf) \in Nat /\ buf \in Seq(0..255)
        BY <2>1, <1>1, <1>2
      <4>2. /\ r \in Seq(0..255) /\ Len(r) = (Len(buf) + 1) - 4
            /\ \A i \in 1..((Len(buf) + 1) - 4) : r[i] = buf[(4 - 1) + i]
        BY <4>1, PortionFacts
      <4> HIDE DEF r
      <4>3. (4 - 1 = 3) /\ (Len(buf) + 1) - 4 = Len(buf) - 3
        BY <4>1
      <4>4. QED
        BY <4>2, <4>3
    <3> HIDE DEF r
    <3>4. /\ c \in Seq(0..255) /\ Len(c) = Len(r) + Len(device)
          /\ \A i \in 1..Len(r) : c[i] = r[i]
          /\ \A i \in 1..Len(device) : c[Len(r) + i] = device[i]
      <4>1. r \in Seq(0..255) /\ device \in Seq(0..255)
        BY <1>1, <3>3
      <4>2. c \in Seq(0..255) /\ Len(c) = Len(r) + Len(device)
        BY ONLY <4>1, Joined
      <4>3. \A i \in 1..Len(r) : c[i] = r[i]
        BY ONLY <4>1, Joined
      <4>4. \A i \in 1..Len(device) : c[Len(r) + i] = device[i]
        BY ONLY <4>1, Joined
      <4>5. QED
        BY <4>2, <4>3, <4>4
    <3>5. /\ b \in Seq(0..255) /\ Len(b) = Len(buf) + Len(device)
          /\ \A i \in 1..Len(buf) : b[i] = buf[i]
          /\ \A i \in 1..Len(device) : b[Len(buf) + i] = device[i]
      <4>1. buf \in Seq(0..255) /\ device \in Seq(0..255)
        BY <1>1
      <4>2. b \in Seq(0..255) /\ Len(b) = Len(buf) + Len(device)
        BY ONLY <4>1, Joined
      <4>3. \A i \in 1..Len(buf) : b[i] = buf[i]
        BY ONLY <4>1, Joined
      <4>4. \A i \in 1..Len(device) : b[Len(buf) + i] = device[i]
        BY ONLY <4>1, Joined
      <4>5. QED
        BY <4>2, <4>3, <4>4
    <3> HIDE DEF b, c
    <3>6. Len(c) = Len(b) - 3
      BY <3>3, <3>4, <3>5, <1>2
    <3>7. ASSUME NEW i \in 1..Len(c) PROVE c[i] = b[i + 3]
      <4>1. CASE i \in 1..Len(r)
        BY <4>1, <3>3, <3>4, <3>5, <1>2
      <4>2. CASE i > Len(r)
        <5>1. i - Len(r) \in 1..Len(device) /\ i = Len(r) + (i - Len(r))
          BY <4>2, <3>3, <3>4, <1>2
        <5>2. i + 3 = Len(buf) + (i - Len(r))
          BY <4>2, <3>3, <3>4, <1>2
        <5>3. c[Len(r) + (i - Len(r))] = device[i - Len(r)]
          BY <5>1, <3>4
        <5>4. b[Len(buf) + (i - Len(r))] = device[i - Len(r)]
          BY <5>1, <3>5
        <5>5. QED
          BY <5>1, <5>2, <5>3, <5>4
      <4>3. QED
        BY <4>1, <4>2, <3>3, <1>2
    <3>8. Leads(b, m, t)
      BY <3>1 DEF b
    <3>9. PICK u : Leads(c, m - 1, u) /\ u[0] = t[1] /\ u[m - 1] = t[m]
      BY <3>2, <3>4, <3>5, <3>6, <3>7, <3>8, LeadsOn
    <3>10. c = Cat(buf', device)
      BY <2>1 DEF c, r, Portion
    <3>11. QED
      BY <3>1, <3>2, <3>9, <3>10
  <2>3. Underway'
    BY <2>1, <2>2 DEF Underway
  <2>4. QED
    BY <2>1, <2>3 DEF FInv
<1>9. CASE UNCHANGED vars \/ MainThread \/ WindowDraws
  <2>1. UNCHANGED <<inStep, mouse, device, buf, driver, pc>>
    BY <1>9 DEF vars, hardware, mouseThread, MainThread, ReadEvent, Restore, Save, Draw, WindowDraws
  <2>2. Underway'
    BY <2>1 DEF FInv, Underway
  <2>3. QED
    BY <2>1, <2>2 DEF FInv
<1>10. QED
  BY <1>3, <1>4, <1>5, <1>7, <1>8, <1>9 DEF Next, MouseThread

\* The driver is where the mouse is when it has read everything, in whatever
\* portions the bytes of the packets came (update_mouse_state), unless it started
\* to read in the middle of a packet or a packet overflowed.
THEOREM MouseIsFollowed == Spec => []DriverFollowsMouse
<1>1. TypeOK /\ FInv => DriverFollowsMouse
  <2>1. SUFFICES ASSUME TypeOK, FInv, inStep, device = <<>>, pc = "read"
                 PROVE  driver = mouse /\ buf = <<>>
    BY DEF DriverFollowsMouse
  <2>20. PICK m \in Nat : \E t : /\ Leads(Cat(buf, device), m, t)
                                 /\ t[0] = driver /\ t[m] = mouse
    BY <2>1 DEF FInv, Underway
  <2>2. PICK t : Leads(Cat(buf, device), m, t) /\ t[0] = driver /\ t[m] = mouse
    BY <2>20
  <2>3. buf \in Seq(0..255) /\ Len(buf) \in Nat
    BY <2>1, LenProperties DEF TypeOK
  <2>4. Len(Cat(buf, device)) = Len(buf)
    BY <2>1, <2>3 DEF Cat
  <2>5. m = 0 /\ Len(buf) = 0
    BY <2>1, <2>2, <2>3, <2>4 DEF FInv, Leads
  <2>6. QED
    BY <2>2, <2>3, <2>5, EmptySeq
<1>2. QED
  BY <1>1, InitFollows, StepFollows, PointerTypes, PTL DEF Spec

-----------------------------------------------------------------------------
(* The keyboard.                                                           *)

Bits == Modifiers \cup LockKeys

\* What reading a code makes of key_modstate.
After(bits, code) ==
  IF code.key \in LockKeys
  THEN IF code.pressed THEN bits ELSE Toggle(bits, code.key)
  ELSE With(bits, {code.key} \cap Modifiers, code.pressed)

\* f[i] is key_modstate after i codes of tty.
Course(f) ==
  /\ f \in [0..Len(tty) -> SUBSET Bits]
  /\ f[0] = key_modstate
  /\ \A i \in 1..Len(tty) : f[i] = After(f[i - 1], tty[i])

\* bits is what the keyboard says.
Says(bits) ==
  /\ \A m \in Modifiers \ elsewhere : m \in bits <=> m \in held
  /\ bits \cap LockKeys = toggled

CodesTellTheKeys == \E f : Course(f) /\ Says(f[Len(tty)])

LightsAgree ==
  /\ key_modstate \cap LockKeys = led
  /\ key_state \cap LockKeys = led

KInv == KbdTypeOK /\ CodesTellTheKeys /\ LightsAgree

-----------------------------------------------------------------------------
LEMMA AfterFacts ==
  ASSUME NEW bits \in SUBSET Bits, NEW code \in Code
  PROVE  /\ After(bits, code) \in SUBSET Bits
         /\ \A b \in Bits \ {code.key} : b \in After(bits, code) <=> b \in bits
         /\ code.key \in Modifiers => (code.key \in After(bits, code) <=> code.pressed)
         /\ code.key \in LockKeys =>
              After(bits, code) = IF code.pressed THEN bits ELSE Toggle(bits, code.key)
  BY KeyboardAssumption DEF After, Toggle, With, Bits, Code, Modifiers

LEMMA InitInvariant == KbdInit => KInv
<1> SUFFICES ASSUME KbdInit PROVE KInv
  OBVIOUS
<1>1. KbdTypeOK
  <2>1. NoEvent \in KeyEvent
    BY DEF NoEvent, KeyEvent
  <2>2. 0 \in 0..MaxCodes /\ 0 \in 0..MaxSwitches
    BY KeyboardAssumption
  <2>3. held \subseteq Keys
    BY DEF KbdInit
  <2>4. tty \in Seq(Code) /\ socket \in Seq(KeyEvent) /\ Len(socket) = 0 /\ 0 <= SocketSize
    BY KeyboardAssumption DEF KbdInit
  <2> QED
    BY <2>1, <2>2, <2>3, <2>4, KeyboardAssumption DEF KbdInit, KbdTypeOK
<1>2. CodesTellTheKeys
  <2> DEFINE f == [i \in 0..Len(tty) |-> key_modstate]
  <2>1. Len(tty) = 0 /\ key_modstate = led /\ led \subseteq LockKeys /\ toggled = led
        /\ elsewhere = held
    BY DEF KbdInit
  <2>2. f[0] = key_modstate
    BY <2>1
  <2>3. Course(f)
    BY <2>1, <2>2 DEF Course, Bits
  <2>4. Says(key_modstate)
    <3>1. \A m \in Modifiers : m \notin LockKeys
      BY KeyboardAssumption
    <3>2. held \in {{}} \cup {{k} : k \in Keys}
      BY DEF KbdInit
    <3> QED
      BY <2>1, <3>1, <3>2 DEF Says
  <2> QED
    BY <2>1, <2>2, <2>3, <2>4 DEF CodesTellTheKeys
<1>3. LightsAgree
  BY DEF KbdInit, LightsAgree
<1> QED
  BY <1>1, <1>2, <1>3 DEF KInv

-----------------------------------------------------------------------------
(* What is told, when codes come and when they are read.                   *)

\* The driver reads a code as After says: one code less is to be read.
LEMMA ReadKeeps ==
  ASSUME tty \in Seq(Code), tty # <<>>, key_modstate \in SUBSET Bits,
         CodesTellTheKeys, tty' = Tail(tty),
         key_modstate' = After(key_modstate, Head(tty)),
         UNCHANGED hands
  PROVE  CodesTellTheKeys'
<1>1. PICK f : Course(f) /\ Says(f[Len(tty)])
  BY DEF CodesTellTheKeys
<1> DEFINE n == Len(tty)
           g == [i \in 0..(n - 1) |-> f[i + 1]]
<1>2. n \in Nat /\ n > 0 /\ Len(tty') = n - 1 /\ tty[1] = Head(tty)
      /\ \A i \in 1..(n - 1) : tty'[i] = tty[i + 1]
  BY HeadTailProperties
<1>3. g[0] = key_modstate' /\ g[n - 1] = f[n]
  <2>1. 1 \in 1..n
    BY <1>2
  <2>2. f[1] = After(f[0], tty[1]) /\ f[0] = key_modstate
    BY <1>1, <2>1 DEF Course
  <2> QED
    BY <1>2, <2>2
<1>4. g \in [0..(n - 1) -> SUBSET Bits]
  <2>1. f \in [0..n -> SUBSET Bits]
    BY <1>1 DEF Course
  <2>2. \A i \in 0..(n - 1) : i + 1 \in 0..n
    BY <1>2
  <2> QED
    BY <2>1, <2>2
<1>5. \A i \in 1..(n - 1) : g[i] = After(g[i - 1], tty'[i])
  <2> SUFFICES ASSUME NEW i \in 1..(n - 1) PROVE g[i] = After(g[i - 1], tty'[i])
    OBVIOUS
  <2>1. i + 1 \in 1..n /\ i \in 0..(n - 1) /\ i - 1 \in 0..(n - 1) /\ (i + 1) - 1 = i
        /\ (i - 1) + 1 = i
    BY <1>2
  <2>2. f[i + 1] = After(f[(i + 1) - 1], tty[i + 1])
    BY <1>1, <2>1 DEF Course
  <2> QED
    BY <1>2, <2>1, <2>2
<1>6. PICK last : last = f[n]
  OBVIOUS
<1>7. Says(last)'
  BY <1>1, <1>6 DEF Says, hands
<1>8. PICK h : h = g
  OBVIOUS
<1> HIDE DEF g
<1>9. Course(h)' /\ h[Len(tty')] = last
  BY <1>2, <1>3, <1>4, <1>5, <1>6, <1>8 DEF Course
<1> QED
  BY <1>7, <1>9 DEF CodesTellTheKeys

\* A code is added: it tells what the key's move has changed.
LEMMA MoveKeeps ==
  ASSUME tty \in Seq(Code), CodesTellTheKeys,
         NEW c \in Code, tty' = Append(tty, c), UNCHANGED key_modstate,
         \A bits \in SUBSET Bits : Says(bits) => Says(After(bits, c))'
  PROVE  CodesTellTheKeys'
<1>1. PICK f : Course(f) /\ Says(f[Len(tty)])
  BY DEF CodesTellTheKeys
<1> DEFINE n == Len(tty)
           g == [i \in 0..(n + 1) |-> IF i <= n THEN f[i] ELSE After(f[n], c)]
<1>2. n \in Nat /\ Len(tty') = n + 1 /\ tty'[n + 1] = c
      /\ \A i \in 1..n : tty'[i] = tty[i]
  BY AppendProperties
<1>3. g[0] = key_modstate' /\ g[n + 1] = After(f[n], c)
  BY <1>1, <1>2 DEF Course
<1>4. f \in [0..n -> SUBSET Bits] /\ f[n] \in SUBSET Bits
  BY <1>1, <1>2 DEF Course
<1>5. g \in [0..(n + 1) -> SUBSET Bits]
  BY <1>2, <1>4, AfterFacts
<1>6. \A i \in 1..(n + 1) : g[i] = After(g[i - 1], tty'[i])
  <2> SUFFICES ASSUME NEW i \in 1..(n + 1) PROVE g[i] = After(g[i - 1], tty'[i])
    OBVIOUS
  <2>1. CASE i \in 1..n
    <3>1. f[i] = After(f[i - 1], tty[i])
      BY <1>1, <2>1 DEF Course
    <3>2. i \in 0..(n + 1) /\ i - 1 \in 0..(n + 1) /\ i <= n /\ i - 1 <= n
      BY <1>2, <2>1
    <3> QED
      BY <1>2, <2>1, <3>1, <3>2
  <2>2. CASE i = n + 1
    <3>1. i \in 0..(n + 1) /\ i - 1 = n /\ n \in 0..(n + 1) /\ ~ (i <= n)
      BY <1>2, <2>2
    <3> QED
      BY <1>2, <2>2, <3>1
  <2> QED
    BY <1>2, <2>1, <2>2
<1>7. PICK last : last = f[n]
  OBVIOUS
<1>8. Says(After(last, c))'
  BY <1>1, <1>4, <1>7
<1>9. PICK h : h = g
  OBVIOUS
<1> HIDE DEF g
<1>10. Course(h)' /\ h[Len(tty')] = After(last, c)
  BY <1>2, <1>3, <1>5, <1>6, <1>7, <1>9 DEF Course
<1> QED
  BY <1>8, <1>10 DEF CodesTellTheKeys

\* No code comes and none is read, and what was told is told.
LEMMA RestKeeps ==
  ASSUME CodesTellTheKeys, UNCHANGED <<tty, key_modstate>>,
         \A bits : Says(bits) => Says(bits)'
  PROVE  CodesTellTheKeys'
  BY DEF CodesTellTheKeys, Course

-----------------------------------------------------------------------------
(* Types.                                                                  *)

LEMMA MoveTypes ==
  ASSUME KbdTypeOK, NEW k \in Keys, NEW pressed \in BOOLEAN, Move(k, pressed)
  PROVE  /\ tty' \in Seq(Code) /\ elsewhere' \subseteq Keys /\ codes' \in 0..MaxCodes
         /\ UNCHANGED <<consoles, thread, socket>>
<1>1. [key |-> k, pressed |-> pressed] \in Code
  BY DEF Code
<1>2. codes' \in 0..MaxCodes
  BY KeyboardAssumption DEF Move, KbdTypeOK
<1>3. tty' \in Seq(Code)
  BY <1>1, AppendProperties DEF Move, KbdTypeOK
<1> QED
  BY <1>2, <1>3 DEF Move, KbdTypeOK

LEMMA OutsideTypes ==
  ASSUME KbdTypeOK, Outside
  PROVE  KbdTypeOK'
<1>1. ASSUME NEW k \in Keys, Press(k) \/ Repeat(k) \/ Release(k)
      PROVE  KbdTypeOK'
  <2>1. /\ tty' \in Seq(Code) /\ elsewhere' \subseteq Keys /\ codes' \in 0..MaxCodes
        /\ UNCHANGED <<consoles, thread, socket>>
    BY <1>1, MoveTypes DEF Press, Repeat, Release
  <2>2. held' \subseteq Keys /\ typematic' \in held' \cup {"none"} /\ toggled' \subseteq LockKeys
    BY <1>1 DEF Press, Repeat, Release, KbdTypeOK
  <2> QED
    BY <2>1, <2>2 DEF KbdTypeOK, consoles, thread
<1>2. CASE AskForConsole
  <2>1. switches' \in 0..MaxSwitches
    BY <1>2, KeyboardAssumption DEF AskForConsole, KbdTypeOK
  <2> QED
    BY <1>2, <2>1 DEF AskForConsole, KbdTypeOK, hands, thread
<1>3. CASE SwitchConsole
  BY <1>3 DEF SwitchConsole, KbdTypeOK, hands, thread
<1> QED
  BY <1>1, <1>2, <1>3 DEF Outside

LEMMA ReadCodeTypes ==
  ASSUME KbdTypeOK, NEW k, NEW pressed, ReadCode(k, pressed)
  PROVE  /\ tty' \in Seq(Code) /\ Head(tty) = [key |-> k, pressed |-> pressed]
         /\ tty # <<>> /\ tty' = Tail(tty) /\ at = "read"
         /\ UNCHANGED <<hands, consoles, socket>>
  BY HeadTailProperties DEF ReadCode, KbdTypeOK

LEMMA ReadTypes ==
  ASSUME KbdTypeOK, NEW k \in Keys, NEW pressed \in BOOLEAN,
         \/ ReadKey(k, pressed) \/ ReadFn(k, pressed) \/ ReadSwitch(k, pressed)
         \/ ReadSpace(pressed)
  PROVE  KbdTypeOK'
<1>1. /\ tty' \in Seq(Code) /\ at = "read"
      /\ UNCHANGED <<hands, consoles, socket>>
  BY ReadCodeTypes DEF ReadKey, ReadFn, ReadSwitch, ReadSpace
<1>3. \A ch \in Keys \cup {"redraw", "ime"} : Report(ch, pressed) => event' \in KeyEvent
  BY DEF Report, KeyEvent
<1>4. CASE ReadKey(k, pressed)
  <2>1. /\ key_modstate' \subseteq Modifiers \cup LockKeys
        /\ key_state' \subseteq Modifiers \cup LockKeys \cup OtherKeys
        /\ led' \subseteq LockKeys
    <3>1. k \in Modifiers \cup LockKeys \cup OtherKeys
      BY <1>4 DEF ReadKey, Keys
    <3>2. UpdateKeyState(k, pressed)
      BY <1>4 DEF ReadKey
    <3> QED
      BY <3>1, <3>2 DEF UpdateKeyState, ToggleLock, SetKey, Toggle, With, KbdTypeOK
  <2>2. at' \in {"read", "write"} /\ event' \in KeyEvent
    BY <1>1, <1>3, <1>4 DEF ReadKey, KbdTypeOK
  <2> QED
    BY <1>1, <1>4, <2>1, <2>2 DEF ReadKey, KbdTypeOK, hands, consoles
<1>5. CASE ReadFn(k, pressed)
  BY <1>1, <1>3, <1>5 DEF ReadFn, KbdTypeOK, hands, consoles
<1>6. CASE ReadSwitch(k, pressed)
  <2>1. ConsoleOf(k) \in Consoles
    BY <1>6, KeyboardAssumption DEF ReadSwitch
  <2> QED
    BY <1>1, <1>3, <1>6, <2>1 DEF ReadSwitch, KbdTypeOK, hands, consoles
<1>7. CASE ReadSpace(pressed)
  <2>1. event' \in KeyEvent
    BY <1>3, <1>7 DEF ReadSpace, Keys
  <2> QED
    BY <1>1, <1>7, <2>1 DEF ReadSpace, KbdTypeOK, hands, consoles
<1> QED
  BY <1>4, <1>5, <1>6, <1>7

LEMMA ThreadTypes ==
  ASSUME KbdTypeOK,
         Activate \/ WaitActive \/ WaitFails \/ RestoreGraphics \/ WriteEvent \/ ProcessKbdEvent
  PROVE  KbdTypeOK'
<1>1. CASE Activate
  BY <1>1 DEF Activate, KbdTypeOK, hands
<1>2. CASE WaitActive \/ WaitFails
  BY <1>2 DEF WaitActive, WaitFails, WaitDone, KbdTypeOK, hands, consoles
<1>3. CASE RestoreGraphics
  BY <1>3, KeyboardAssumption DEF RestoreGraphics, KbdTypeOK, hands, consoles
<1>4. CASE WriteEvent
  <2>1. socket' \in Seq(KeyEvent) /\ Len(socket') <= SocketSize
    <3>1. socket \in Seq(KeyEvent) /\ event \in KeyEvent /\ socket' = Append(socket, event)
          /\ Len(socket) < SocketSize
      BY <1>4 DEF WriteEvent, KbdTypeOK
    <3>2. Len(socket) \in Nat /\ Len(socket') = Len(socket) + 1
      BY <3>1, AppendProperties
    <3> QED
      BY <3>1, <3>2, AppendProperties, KeyboardAssumption
  <2>2. NoEvent \in KeyEvent
    BY DEF NoEvent, KeyEvent
  <2> QED
    BY <1>4, <2>1, <2>2 DEF WriteEvent, KbdTypeOK, hands, consoles
<1>5. CASE ProcessKbdEvent
  <2>1. socket \in Seq(KeyEvent) /\ socket # <<>> /\ socket' = Tail(socket)
        /\ Len(socket) <= SocketSize
    BY <1>5 DEF ProcessKbdEvent, KbdTypeOK
  <2>2. socket' \in Seq(KeyEvent) /\ Len(socket') <= SocketSize
    <3>1. Len(socket) \in Nat /\ Len(socket') = Len(socket) - 1
      BY <2>1, HeadTailProperties
    <3> QED
      BY <2>1, <3>1, HeadTailProperties, KeyboardAssumption
  <2> QED
    BY <1>5, <2>2 DEF ProcessKbdEvent, KbdTypeOK, hands, consoles, thread
<1> QED
  BY <1>1, <1>2, <1>3, <1>4, <1>5

-----------------------------------------------------------------------------
(* The codes tell the keys, and the lights agree.                          *)

LEMMA OutsideTells ==
  ASSUME KInv, Outside
  PROVE  CodesTellTheKeys' /\ LightsAgree'
<1> USE DEF KInv
<1>1. ASSUME NEW k \in Keys, NEW pressed \in BOOLEAN, Move(k, pressed),
             active # Ours => UNCHANGED toggled,
             active = Ours => toggled' = IF k \in LockKeys /\ ~ pressed THEN Toggle(toggled, k)
                                         ELSE toggled,
             held' = With(held, {k}, pressed)
      PROVE  CodesTellTheKeys' /\ LightsAgree'
  <2>1. UNCHANGED <<key_modstate, key_state, led>>
    BY <1>1 DEF Move, thread
  <2>2. LightsAgree'
    BY <2>1 DEF LightsAgree
  <2>3. CASE active = Ours
    <3> DEFINE c == [key |-> k, pressed |-> pressed]
    <3>1. c \in Code /\ tty' = Append(tty, c) /\ elsewhere' = elsewhere \ {k}
      BY <1>1, <2>3 DEF Move, Code
    <3>2. ASSUME NEW bits \in SUBSET Bits, Says(bits)
          PROVE  Says(After(bits, c))'
      <4>1. \A m \in Modifiers \ elsewhere' : m \in After(bits, c) <=> m \in held'
        <5> SUFFICES ASSUME NEW m \in Modifiers \ elsewhere'
                     PROVE  m \in After(bits, c) <=> m \in held'
          OBVIOUS
        <5>1. CASE m = k
          BY <1>1, <3>1, <5>1, AfterFacts DEF With
        <5>2. CASE m # k
          BY <1>1, <3>1, <3>2, <5>2, AfterFacts DEF With, Says, Bits
        <5> QED
          BY <5>1, <5>2
      <4>2. After(bits, c) \cap LockKeys = toggled'
        <5>1. CASE k \in LockKeys
          BY <1>1, <2>3, <3>1, <3>2, <5>1, AfterFacts DEF Says, Toggle
        <5>2. CASE k \notin LockKeys
          BY <1>1, <2>3, <3>1, <3>2, <5>2, AfterFacts DEF Says, Bits
        <5> QED
          BY <5>1, <5>2
      <4> QED
        BY <4>1, <4>2 DEF Says
    <3> HIDE DEF c
    <3> QED
      BY <2>1, <2>2, <3>1, <3>2, MoveKeeps DEF KbdTypeOK
  <2>4. CASE active # Ours
    <3>1. UNCHANGED <<tty, toggled>> /\ elsewhere' = elsewhere \cup {k}
      BY <1>1, <2>4 DEF Move
    <3>2. \A bits : Says(bits) => Says(bits)'
      BY <1>1, <3>1 DEF Says, With
    <3> QED
      BY <2>1, <2>2, <3>1, <3>2, RestKeeps
  <2> QED
    BY <2>3, <2>4
<1>2. ASSUME NEW k \in Keys, Press(k) \/ Repeat(k) PROVE CodesTellTheKeys' /\ LightsAgree'
  <2>1. Move(k, TRUE) /\ UNCHANGED toggled
    BY <1>2 DEF Press, Repeat
  <2>2. held' = With(held, {k}, TRUE)
    <3>1. Repeat(k) => k \in held
      BY KeyboardAssumption DEF Repeat, KbdTypeOK
    <3> QED
      BY <1>2, <3>1 DEF Press, Repeat, With
  <2> QED
    BY <1>1, <2>1, <2>2
<1>3. ASSUME NEW k \in Keys, Release(k) PROVE CodesTellTheKeys' /\ LightsAgree'
  <2>1. Move(k, FALSE) /\ held' = With(held, {k}, FALSE)
    BY <1>3 DEF Release, With
  <2>2. active # Ours => UNCHANGED toggled
    BY <1>3 DEF Release
  <2>3. active = Ours => toggled' = IF k \in LockKeys THEN Toggle(toggled, k) ELSE toggled
    BY <1>3 DEF Release, Toggle
  <2> QED
    BY <1>1, <2>1, <2>2, <2>3
<1>4. CASE AskForConsole \/ SwitchConsole
  <2>1. UNCHANGED <<tty, key_modstate, key_state, led, hands>>
    BY <1>4 DEF AskForConsole, SwitchConsole, thread
  <2>2. \A bits : Says(bits) => Says(bits)'
    BY <2>1 DEF Says, hands
  <2> QED
    BY <2>1, <2>2, RestKeeps DEF LightsAgree
<1> QED
  BY <1>2, <1>3, <1>4 DEF Outside

LEMMA ReadTells ==
  ASSUME KInv, NEW k \in Keys, NEW pressed \in BOOLEAN,
         \/ ReadKey(k, pressed) \/ ReadFn(k, pressed) \/ ReadSwitch(k, pressed)
         \/ ReadSpace(pressed)
  PROVE  CodesTellTheKeys' /\ LightsAgree'
<1> USE DEF KInv
<1>1. key_modstate \in SUBSET Bits
  BY DEF KbdTypeOK, Bits
<1>2. ASSUME NEW j, ReadCode(j, pressed),
             key_modstate' = After(key_modstate, [key |-> j, pressed |-> pressed])
      PROVE  CodesTellTheKeys'
  <2>1. /\ tty # <<>> /\ tty' = Tail(tty) /\ Head(tty) = [key |-> j, pressed |-> pressed]
        /\ UNCHANGED hands
    BY <1>2, ReadCodeTypes
  <2> QED
    BY <1>1, <1>2, <2>1, ReadKeeps DEF KbdTypeOK
<1>3. CASE ReadKey(k, pressed)
  <2>1. UpdateKeyState(k, pressed) /\ ReadCode(k, pressed)
    BY <1>3 DEF ReadKey
  <2>2. key_modstate' = After(key_modstate, [key |-> k, pressed |-> pressed])
    BY <2>1 DEF UpdateKeyState, ToggleLock, SetKey, After
  <2>3. LightsAgree'
    <3>1. CASE k \in LockKeys
      BY <2>1, <3>1 DEF UpdateKeyState, ToggleLock, Toggle, LightsAgree
    <3>2. CASE k \notin LockKeys
      <4>1. \A m \in Modifiers : m \notin LockKeys
        BY KeyboardAssumption
      <4> QED
        BY <2>1, <3>2, <4>1 DEF UpdateKeyState, SetKey, With, LightsAgree
    <3> QED
      BY <3>1, <3>2
  <2> QED
    BY <1>2, <2>1, <2>2, <2>3
<1>4. ASSUME NEW j, ReadCode(j, pressed), j \notin Modifiers, j \notin LockKeys,
             UNCHANGED <<key_modstate, key_state, led>>
      PROVE  CodesTellTheKeys' /\ LightsAgree'
  <2>1. key_modstate' = After(key_modstate, [key |-> j, pressed |-> pressed])
    BY <1>4 DEF After, With
  <2> QED
    BY <1>2, <1>4, <2>1 DEF LightsAgree
<1>5. CASE ReadFn(k, pressed) \/ ReadSwitch(k, pressed)
  <2>1. k \notin Modifiers /\ k \notin LockKeys
    BY <1>5, KeyboardAssumption DEF ReadFn, ReadSwitch
  <2> QED
    BY <1>4, <1>5, <2>1 DEF ReadFn, ReadSwitch
<1>6. CASE ReadSpace(pressed)
  <2>1. Space \notin Modifiers /\ Space \notin LockKeys
    BY KeyboardAssumption
  <2> QED
    BY <1>4, <1>6, <2>1 DEF ReadSpace
<1> QED
  BY <1>3, <1>5, <1>6

LEMMA RestTells ==
  ASSUME KInv,
         \/ Activate \/ WaitActive \/ WaitFails \/ RestoreGraphics \/ WriteEvent
         \/ ProcessKbdEvent \/ UNCHANGED kbdVars
  PROVE  CodesTellTheKeys' /\ LightsAgree'
<1>1. UNCHANGED <<tty, hands, key_modstate, key_state, led>>
  BY DEF Activate, WaitActive, WaitFails, WaitDone, RestoreGraphics, WriteEvent,
         ProcessKbdEvent, kbdVars, thread
<1>2. \A bits : Says(bits) => Says(bits)'
  BY <1>1 DEF Says, hands
<1> QED
  BY <1>1, <1>2, RestKeeps DEF KInv, LightsAgree

-----------------------------------------------------------------------------
(* The theorems.                                                           *)

\* Types, what the unread codes tell, and the lights: in every state.
THEOREM KeyboardInvariant == KbdSpec => []KInv
<1>1. KbdInit => KInv
  BY InitInvariant
<1>2. KInv /\ [KbdNext]_kbdVars => KInv'
  <2> SUFFICES ASSUME KInv, [KbdNext]_kbdVars PROVE KInv'
    OBVIOUS
  <2>1. CASE Outside
    BY <2>1, OutsideTypes, OutsideTells DEF KInv
  <2>2. ASSUME NEW k \in Keys, NEW pressed \in BOOLEAN,
               \/ ReadKey(k, pressed) \/ ReadFn(k, pressed) \/ ReadSwitch(k, pressed)
               \/ ReadSpace(pressed)
        PROVE  KInv'
    BY <2>2, ReadTypes, ReadTells DEF KInv
  <2>3. CASE \E pressed \in BOOLEAN : ReadSpace(pressed)
    <3>1. Space \in Keys
      BY DEF Keys
    <3> QED
      BY <2>2, <2>3, <3>1
  <2>4. CASE \/ Activate \/ WaitActive \/ WaitFails \/ RestoreGraphics \/ WriteEvent
             \/ ProcessKbdEvent
    BY <2>4, ThreadTypes, RestTells DEF KInv
  <2>5. CASE UNCHANGED kbdVars
    <3>1. KbdTypeOK'
      BY <2>5 DEF KInv, KbdTypeOK, kbdVars, hands, consoles, thread
    <3> QED
      BY <2>5, <3>1, RestTells DEF KInv
  <2> QED
    BY <2>1, <2>2, <2>3, <2>4, <2>5 DEF KbdNext, Driver
<1> QED
  BY <1>1, <1>2, PTL DEF KbdSpec

\* Every variable keeps its type, and our console is in graphics mode whenever
\* the thread is not in switch_vt.
THEOREM KeyboardTypes == KbdSpec => []KbdTypeOK
<1>1. KInv => KbdTypeOK
  BY DEF KInv
<1> QED
  BY <1>1, KeyboardInvariant, PTL

LEMMA NothingUnread ==
  ASSUME KInv, tty = <<>>
  PROVE  Says(key_modstate)
<1>1. Len(tty) = 0
  OBVIOUS
<1> QED
  BY <1>1 DEF KInv, CodesTellTheKeys, Course

\* With nothing unread, the driver knows which modifiers are held, but for those
\* that moved last while another console was active.
THEOREM ModifiersAreKnown == KbdSpec => []ModifiersAreHeld
<1>1. KInv => ModifiersAreHeld
  BY NothingUnread DEF ModifiersAreHeld, Says
<1> QED
  BY <1>1, KeyboardInvariant, PTL

\* key_modstate, key_state and the lights agree on the locks, and with nothing
\* unread each lock has changed once for each stroke.
THEOREM LocksAreCounted == KbdSpec => []LocksFollowStrokes
<1>1. KInv => LocksFollowStrokes
  BY NothingUnread DEF KInv, LightsAgree, LocksFollowStrokes, Says
<1> QED
  BY <1>1, KeyboardInvariant, PTL

=============================================================================
