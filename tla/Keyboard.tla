------------------------------ MODULE Keyboard ------------------------------
(***************************************************************************)
(* The keyboard driver (kbd/kwgssrv_kbd.c): a thread of the server that    *)
(* reads one key code after the other from its terminal, keeps the         *)
(* modifiers, the locks and their lights, switches consoles on Alt-Fn, and *)
(* sends an event for the code to the main thread (process_kbd_event).     *)
(*                                                                         *)
(* Outside are the user's hands, the keyboard, and the kernel's consoles:  *)
(* a key code goes to the console that is active when the key moves.  With *)
(* the terminal in K_MEDIUMRAW the kernel keeps no modifiers, locks or     *)
(* lights for it.  VT_ACTIVATE only asks for a console; the kernel         *)
(* switches later.                                                         *)
(*                                                                         *)
(* Which character translate_keycode finds for a key is left out: it reads *)
(* the modifiers and changes nothing.                                      *)
(***************************************************************************)
EXTENDS Integers, Sequences

CONSTANTS
  AltKeys, CtrlKeys,  \* KWKEY_MODSTATE_ALT and KWKEY_MODSTATE_CTRL: left and right
  LockKeys,           \* KWKEY_CAPSLOCK, KWKEY_NUMLOCK
  FnKeys,             \* KWKEY_F1 .. KWKEY_F12 ...
  ConsoleOf(_),       \* ... and the console each of them stands for
  Space, OtherKeys,   \* the key ' ', and keys without a part in this
  Consoles, Ours,     \* the consoles, and the one the server was started on
  SocketSize,         \* events the socket to the main thread holds
  MaxCodes,           \* bound: moves of keys
  MaxSwitches         \* bound: switches that the server does not ask for

Modifiers == AltKeys \cup CtrlKeys
Keys == Modifiers \cup LockKeys \cup FnKeys \cup {Space} \cup OtherKeys

ASSUME KeyboardAssumption ==
  /\ Modifiers \cap (LockKeys \cup FnKeys \cup {Space} \cup OtherKeys) = {}
  /\ LockKeys \cap (FnKeys \cup {Space} \cup OtherKeys) = {}
  /\ FnKeys \cap ({Space} \cup OtherKeys) = {}
  /\ Ours \in Consoles
  /\ \A f \in FnKeys : ConsoleOf(f) \in Consoles
  /\ "redraw" \notin Keys /\ "ime" \notin Keys /\ "none" \notin Keys \cup Consoles
  /\ SocketSize \in Nat \ {0} /\ MaxCodes \in Nat /\ MaxSwitches \in Nat

VARIABLES
  \* the user, the keyboard and the kernel
  held,          \* keys that are held down
  typematic,     \* the key that repeats: the last one pressed, while it is held
  active, want,  \* the active console, and the one that was asked for
  graphics,      \* KDSETMODE of our console: KD_GRAPHICS, or KD_TEXT
  led,           \* the lights of our console
  tty,           \* key codes at our console that nobody has read yet
  \* the driver's thread
  at,            \* "read", or where it is in switch_vt and kbd_process
  which, console,         \* of switch_vt; console is its current
  event,                  \* of kbd_process
  key_modstate, key_state,
  socket,        \* events the main thread has not read yet
  \* history and bounds
  elsewhere,     \* keys whose last move went to another console
  toggled,       \* locks that are on, going by the strokes at our console
  codes, switches

hands == <<held, typematic, elsewhere, toggled, codes>>
consoles == <<active, want, switches>>
thread == <<at, which, console, event, key_modstate, key_state, led, graphics>>
kbdVars == <<hands, consoles, thread, tty, socket>>

Code == [key : Keys, pressed : BOOLEAN]
KeyEvent == [ch : Keys \cup {"redraw", "ime"}, type : {"KEY_DOWN", "KEY_UP"}]

NoEvent == [ch |-> "redraw", type |-> "KEY_UP"]

\* kbd_init: the locks start as the lights say.  Keys may be held by then.
KbdInit ==
  /\ held \in {{}} \cup {{k} : k \in Keys}
  /\ typematic = "none"
  /\ active = Ours /\ want = "none"
  /\ graphics = TRUE
  /\ led \in SUBSET LockKeys
  /\ tty = <<>>
  /\ at = "read" /\ which = Ours /\ console = Ours /\ event = NoEvent
  /\ key_modstate = led
  /\ key_state = led
  /\ socket = <<>>
  /\ elsewhere = held
  /\ toggled = led
  /\ codes = 0 /\ switches = 0

-----------------------------------------------------------------------------
(* The keyboard and the consoles.                                          *)

\* A key moves; its code goes to the active console.
Move(k, pressed) ==
  /\ codes < MaxCodes
  /\ codes' = codes + 1
  /\ IF active = Ours
     THEN /\ tty' = Append(tty, [key |-> k, pressed |-> pressed])
          /\ elsewhere' = elsewhere \ {k}
     ELSE /\ elsewhere' = elsewhere \cup {k}
          /\ UNCHANGED tty
  /\ UNCHANGED <<consoles, thread, socket>>

Press(k) ==
  /\ k \notin held
  /\ held' = held \cup {k}
  /\ typematic' = k
  /\ Move(k, TRUE)
  /\ UNCHANGED toggled

\* Auto-repeat: a key that is held down is pressed again and again.
Repeat(k) ==
  /\ typematic = k
  /\ Move(k, TRUE)
  /\ UNCHANGED <<held, typematic, toggled>>

Release(k) ==
  /\ k \in held
  /\ held' = held \ {k}
  /\ typematic' = IF typematic = k THEN "none" ELSE typematic
  /\ toggled' = IF k \notin LockKeys \/ active # Ours THEN toggled
                ELSE IF k \in toggled THEN toggled \ {k} ELSE toggled \cup {k}
  /\ Move(k, FALSE)

\* The user at another console, or a program, asks for a console.
AskForConsole ==
  /\ switches < MaxSwitches
  /\ switches' = switches + 1
  /\ \E c \in Consoles \ {active} : want' = c
  /\ UNCHANGED <<active, hands, thread, tty, socket>>

SwitchConsole ==
  /\ want # "none"
  /\ active' = want
  /\ want' = "none"
  /\ UNCHANGED <<switches, hands, thread, tty, socket>>

-----------------------------------------------------------------------------
(* update_key_state, for a key that is neither Fn nor the space bar.       *)

Toggle(set, k) == IF k \in set THEN set \ {k} ELSE set \cup {k}

ToggleLock(k) ==
  /\ key_modstate' = Toggle(key_modstate, k)
  /\ key_state' = Toggle(key_state, k)
  /\ led' = key_modstate' \cap LockKeys

With(set, keys, pressed) == IF pressed THEN set \cup keys ELSE set \ keys

\* bits is what the key stands for in key_modstate.
SetKey(k, bits, pressed) ==
  /\ key_modstate' = With(key_modstate, bits, pressed)
  /\ key_state' = With(key_state, {k}, pressed)
  /\ UNCHANGED led

\* Slips: the locks change on the press, which auto-repeat repeats; the left
\* and the right key share a bit.
UpdateOnPress(k, pressed) ==
  IF k \in LockKeys
  THEN IF pressed THEN ToggleLock(k) ELSE UNCHANGED <<key_modstate, key_state, led>>
  ELSE SetKey(k, {k} \cap Modifiers, pressed)

UpdateBothSides(k, pressed) ==
  IF k \in LockKeys
  THEN IF pressed THEN UNCHANGED <<key_modstate, key_state, led>> ELSE ToggleLock(k)
  ELSE SetKey(k, IF k \in AltKeys THEN AltKeys ELSE {k} \cap CtrlKeys, pressed)

\* The press of a lock changes nothing, and update_key_state returns false.
UpdateKeyState(k, pressed) ==
  IF k \in LockKeys
  THEN IF pressed THEN UNCHANGED <<key_modstate, key_state, led>> ELSE ToggleLock(k)
  ELSE SetKey(k, {k} \cap Modifiers, pressed)

-----------------------------------------------------------------------------
(* kbd_read, switch_vt and kbd_process.                                    *)

ReadCode(k, pressed) ==
  /\ at = "read"
  /\ tty # <<>> /\ Head(tty) = [key |-> k, pressed |-> pressed]
  /\ tty' = Tail(tty)
  /\ UNCHANGED <<hands, consoles, socket>>

\* The event of the code that was read, for kbd_process to send.
Report(ch, pressed) ==
  event' = [ch |-> ch, type |-> IF pressed THEN "KEY_DOWN" ELSE "KEY_UP"]

ReadKey(k, pressed) ==
  /\ k \in Keys \ (FnKeys \cup {Space})
  /\ ReadCode(k, pressed)
  /\ UpdateKeyState(k, pressed)
  /\ IF k \in LockKeys /\ pressed
     THEN UNCHANGED <<at, event>>
     ELSE at' = "write" /\ Report(k, pressed)
  /\ UNCHANGED <<which, console, graphics>>

ReadSpace(pressed) ==
  /\ ReadCode(Space, pressed)
  /\ at' = "write"
  /\ Report(IF key_modstate \cap CtrlKeys # {} THEN "ime" ELSE Space, pressed)
  /\ UNCHANGED <<which, console, key_modstate, key_state, led, graphics>>

AltIsOn == key_modstate \cap AltKeys # {}

\* switch_vt returns at once when VT_GETSTATE fails, or tells that the console
\* is active already.
ReadFn(k, pressed) ==
  /\ k \in FnKeys
  /\ ReadCode(k, pressed)
  /\ at' = "write"
  /\ Report(k, pressed)
  /\ UNCHANGED <<which, console, key_modstate, key_state, led, graphics>>

\* A press or a release: kbd_read does not ask which.
ReadSwitch(k, pressed) ==
  /\ k \in FnKeys /\ AltIsOn /\ ConsoleOf(k) # active
  /\ ReadCode(k, pressed)
  /\ at' = "activate"
  /\ which' = ConsoleOf(k) /\ console' = active
  /\ graphics' = FALSE
  /\ Report("redraw", pressed)
  /\ UNCHANGED <<key_modstate, key_state, led>>

\* Slip: a VT_ACTIVATE that fails returns at once, in text mode.
ActivateOrReturn ==
  /\ at = "activate"
  /\ \/ want' = which /\ at' = "wait"
     \/ UNCHANGED want /\ at' = "write"
  /\ UNCHANGED <<active, switches, hands, which, console, event, key_modstate, key_state, led,
                 graphics, tty, socket>>

\* VT_ACTIVATE, which may fail: then nothing is waited for.
Activate ==
  /\ at = "activate"
  /\ \/ want' = which /\ at' = "wait"
     \/ UNCHANGED want /\ at' = "restore"
  /\ UNCHANGED <<active, switches, hands, which, console, event, key_modstate, key_state, led,
                 graphics, tty, socket>>

\* VT_WAITACTIVE returns when the console is active, also when it still is; an
\* error other than EINTR and EAGAIN ends the waiting too.
WaitDone ==
  /\ at = "wait"
  /\ at' = "restore"
  /\ UNCHANGED <<consoles, hands, which, console, event, key_modstate, key_state, led,
                 graphics, tty, socket>>

WaitActive == active = console /\ WaitDone

WaitFails == active # console /\ WaitDone

RestoreGraphics ==
  /\ at = "restore"
  /\ graphics' = TRUE
  /\ at' = "write"
  /\ which' = Ours /\ console' = Ours
  /\ UNCHANGED <<consoles, hands, event, key_modstate, key_state, led, tty, socket>>

\* write waits while the socket is full.
WriteEvent ==
  /\ at = "write"
  /\ Len(socket) < SocketSize
  /\ socket' = Append(socket, event)
  /\ at' = "read" /\ event' = NoEvent
  /\ UNCHANGED <<consoles, hands, which, console, key_modstate, key_state, led, graphics, tty>>

\* process_kbd_event reads the event, and does nothing with it.
ProcessKbdEvent ==
  /\ socket # <<>>
  /\ socket' = Tail(socket)
  /\ UNCHANGED <<consoles, hands, thread, tty>>

-----------------------------------------------------------------------------
Outside ==
  \/ \E k \in Keys : Press(k) \/ Repeat(k) \/ Release(k)
  \/ AskForConsole \/ SwitchConsole

Driver ==
  \/ \E pressed \in BOOLEAN :
       \/ \E k \in Keys : ReadKey(k, pressed) \/ ReadFn(k, pressed) \/ ReadSwitch(k, pressed)
       \/ ReadSpace(pressed)
  \/ Activate \/ WaitActive \/ WaitFails \/ RestoreGraphics
  \/ WriteEvent

KbdNext == Outside \/ Driver \/ ProcessKbdEvent

KbdSpec == KbdInit /\ [][KbdNext]_kbdVars

-----------------------------------------------------------------------------
(* Properties.                                                             *)

\* Type invariant
KbdTypeOK ==
  /\ held \subseteq Keys /\ elsewhere \subseteq Keys /\ toggled \subseteq LockKeys
  /\ typematic \in held \cup {"none"}
  /\ active \in Consoles /\ want \in Consoles \cup {"none"}
  /\ graphics \in BOOLEAN /\ (at \in {"read", "write"} => graphics)
  /\ tty \in Seq(Code)
  /\ at \in {"read", "activate", "wait", "restore", "write"}
  /\ which \in Consoles /\ console \in Consoles /\ event \in KeyEvent
  /\ key_modstate \subseteq Modifiers \cup LockKeys
  /\ key_state \subseteq Modifiers \cup LockKeys \cup OtherKeys
  /\ led \subseteq LockKeys
  /\ socket \in Seq(KeyEvent) /\ Len(socket) <= SocketSize
  /\ codes \in 0..MaxCodes /\ switches \in 0..MaxSwitches

\* When all codes are read, the driver knows of every modifier whether it is
\* held, however the keys were struck and repeated and whatever the consoles
\* did, unless the key moved last while another console was active.
ModifiersAreHeld ==
  tty = <<>> => \A m \in Modifiers \ elsewhere : m \in key_modstate <=> m \in held

\* When all codes are read, key_modstate, key_state and the lights agree on the
\* locks, and each lock has changed once for each stroke, however long the key
\* was held.
LocksFollowStrokes ==
  /\ key_modstate \cap LockKeys = led
  /\ key_state \cap LockKeys = led
  /\ tty = <<>> => led = toggled

=============================================================================
