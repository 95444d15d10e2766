---------------------------- MODULE ServerStart ----------------------------
(***************************************************************************)
(* The start of the server and its main loop (kwgssrv_main.c), with what   *)
(* main calls for a connection: accept_window and accept_wmanager for the  *)
(* first client, process_mouse_event and process_kbd_event for a driver.   *)
(*                                                                         *)
(* The drivers are threads of the server that talk to it through the same  *)
(* named socket as the clients do.  kw_init connects them one after the    *)
(* other, as the main thread, before that thread accepts anything; the     *)
(* main loop takes the first connection for the mouse and the second for   *)
(* the keyboard.  Other programs may connect as soon as gs_init listens.   *)
(*                                                                         *)
(* A message is an event of a driver or the first request of a program, of *)
(* which only the type matters: main reads the header, and the type of an  *)
(* event is read as the type of a request when a driver is taken for a     *)
(* client.  An event is read as a whole, a request that is read as events  *)
(* is not (28 or 4 bytes against events of 12 and of 8): the whole events  *)
(* that a request of 28 bytes fills are read in one step here.             *)
(***************************************************************************)
EXTENDS Integers, Sequences, FiniteSets

CONSTANTS Programs,   \* programs that may run before the server does
          Root,       \* the program of the root window, started by rootWnd_init
          Backlog,    \* connections that listen lets wait, less one
          MaxEvents   \* bound: events of each driver

Drivers == {"mouse", "keyboard"}
Clients == Programs \cup {Root}
Parties == Drivers \cup Clients

ASSUME StartAssumption ==
  /\ "none" \notin Parties /\ Drivers \cap Clients = {}
  /\ Backlog \in Nat /\ MaxEvents \in Nat

\* The steps of kw_init, in their order.
Steps == <<"screen", "gs", "mouse", "keyboard", "regfile", "cursor", "prework", "rootwnd">>

VARIABLES
  at,          \* where the main thread is
  step,        \* in kw_init: how many steps are done
  ready,       \* what select found: "mouse", "keyboard", "server"
  cur,         \* whose connection main is reading
  listening, queue,   \* srv_socket_fd and the connections to be accepted
  fd,          \* mouse_socket_fd_receive, kbd_socket_fd_receive: whose they are
  threads,     \* driver threads that run
  inbox,       \* what each party has sent and main has not read
  closed,      \* parties that have closed their connection
  events,      \* events sent by each driver
  failed,      \* a step of kw_init failed
  early        \* a program connected before both drivers had

main == <<at, step, ready, cur>>
vars == <<main, listening, queue, fd, threads, inbox, closed, events, failed, early>>

Init ==
  /\ at = "init" /\ step = 0 /\ ready = {} /\ cur = "none"
  /\ listening = FALSE /\ queue = <<>>
  /\ fd = [d \in Drivers |-> "none"]
  /\ threads = {}
  /\ inbox = [p \in Parties |-> <<>>] /\ closed = {}
  /\ events = [d \in Drivers |-> 0]
  /\ failed = FALSE /\ early = FALSE

Queued(p) == \E k \in DOMAIN queue : queue[k] = p

\* A connection waits to be accepted, or the caller of connect waits.
HasRoom == Len(queue) <= Backlog

-----------------------------------------------------------------------------
(* kw_init                                                                 *)

Starting(name) == at = "init" /\ Steps[step + 1] = name

Advance ==
  /\ step' = step + 1
  /\ at' = IF step' = Len(Steps) THEN "loop" ELSE "init"
  /\ UNCHANGED <<ready, cur>>

\* Steps without a share in the protocol.
StepDone ==
  /\ \E s \in {"screen", "regfile", "cursor", "prework", "rootwnd"} : Starting(s)
  /\ Advance
  /\ UNCHANGED <<listening, queue, fd, threads, inbox, closed, events, failed, early>>

\* gs_init
Listen ==
  /\ Starting("gs")
  /\ listening' = TRUE
  /\ Advance
  /\ UNCHANGED <<queue, fd, threads, inbox, closed, events, failed, early>>

\* Slip: the drivers connect in the other order.
ConnectOtherDriver ==
  /\ \E d \in Drivers :
       /\ Starting(d) /\ HasRoom
       /\ LET other == CHOOSE o \in Drivers : o # d IN
            /\ queue' = Append(queue, other)
            /\ threads' = threads \cup {other}
  /\ Advance
  /\ UNCHANGED <<listening, fd, inbox, closed, events, failed, early>>

\* mouse_init and kbd_init connect and start their thread.  connect waits for
\* room in the queue, which only this same thread makes.
ConnectDriver ==
  /\ \E d \in Drivers :
       /\ Starting(d) /\ HasRoom
       /\ queue' = Append(queue, d)
       /\ threads' = threads \cup {d}
  /\ Advance
  /\ UNCHANGED <<listening, fd, inbox, closed, events, failed, early>>

\* A step fails: everything is finalised, also what never was initialised.
\* The thread of the mouse is cancelled before it exists (undefined), and what
\* cursor_init freed when it failed is freed again (undefined).  The thread of
\* the keyboard goes on, without a terminal.  main does not ask whether kw_init
\* failed, and loops over the closed socket.
StepFails ==
  /\ at = "init"
  /\ failed' = TRUE
  /\ \/ at' = "loop"
     \/ /\ "mouse" \notin threads \/ Starting("cursor")
        /\ at' = "crashed"
  /\ listening' = FALSE /\ queue' = <<>>
  /\ threads' = threads \ {"mouse"}
  /\ UNCHANGED <<step, ready, cur, fd, inbox, closed, events, early>>

-----------------------------------------------------------------------------
(* main_select                                                             *)

Readable(p) == p \in Parties /\ (inbox[p] # <<>> \/ p \in closed)

\* What select waits for: a driver's descriptor only once it is accepted, and
\* srv_socket_fd; with that one closed select fails at once, again and again.
Ready ==
  {d \in Drivers : fd[d] # "none" /\ Readable(fd[d])}
    \cup (IF queue # <<>> THEN {"server"} ELSE {})

Select ==
  /\ at = "loop" /\ listening /\ Ready # {}
  /\ ready' = Ready
  /\ at' = "mouse"
  /\ UNCHANGED <<step, cur, listening, queue, fd, threads, inbox, closed, events, failed, early>>

After(d) == IF d = "mouse" THEN "keyboard" ELSE "accept"

\* process_mouse_event and process_kbd_event: one event, or the end of a
\* connection that was closed.
ServeDriver ==
  /\ \E d \in Drivers :
       /\ at = d
       /\ IF d \in ready /\ fd[d] \in Drivers /\ inbox[fd[d]] # <<>>
          THEN inbox' = [inbox EXCEPT ![fd[d]] = Tail(@)]
          ELSE /\ ~ (d \in ready /\ fd[d] \in Clients /\ inbox[fd[d]] # <<>>)
               /\ UNCHANGED inbox
       /\ at' = After(d)
  /\ UNCHANGED <<step, ready, cur, listening, queue, fd, threads, closed, events, failed, early>>

\* The request of a program that was taken for a driver is read as events; the
\* last of them is not complete, and main waits for the rest.
ReadRequestAsEvents ==
  /\ \E d \in Drivers :
       /\ at = d /\ d \in ready /\ fd[d] \in Clients /\ inbox[fd[d]] # <<>>
       /\ inbox' = [inbox EXCEPT ![fd[d]] = Tail(@)]
       /\ cur' = fd[d]
  /\ at' = "reading"
  /\ UNCHANGED <<step, ready, listening, queue, fd, threads, closed, events, failed, early>>

\* The program closes its connection: main goes on.
RestIsGone ==
  /\ at = "reading" /\ cur \in closed
  /\ at' = IF fd["mouse"] = cur THEN After("mouse") ELSE After("keyboard")
  /\ cur' = "none"
  /\ UNCHANGED <<step, ready, listening, queue, fd, threads, inbox, closed, events, failed, early>>

\* The first two connections are taken for the drivers.  For the second one
\* accept is called whatever select found, and waits.
AcceptDriver ==
  /\ at = "accept" /\ queue # <<>>
  /\ \/ /\ fd["mouse"] = "none"
        /\ fd' = [fd EXCEPT !["mouse"] = Head(queue)]
     \/ /\ fd["mouse"] # "none" /\ fd["keyboard"] = "none"
        /\ fd' = [fd EXCEPT !["keyboard"] = Head(queue)]
  /\ queue' = Tail(queue)
  /\ at' = "loop"
  /\ UNCHANGED <<step, ready, cur, listening, threads, inbox, closed, events, failed, early>>

DriversAccepted == \A d \in Drivers : fd[d] # "none"

\* Slip: accept is called for a client although none is there, and waits.
AcceptUnasked ==
  /\ at = "accept" /\ DriversAccepted /\ "server" \notin ready /\ queue # <<>>
  /\ cur' = Head(queue) /\ queue' = Tail(queue)
  /\ at' = "first"
  /\ UNCHANGED <<step, ready, listening, fd, threads, inbox, closed, events, failed, early>>

AcceptNobody ==
  /\ at = "accept" /\ DriversAccepted /\ "server" \notin ready
  /\ at' = "loop"
  /\ UNCHANGED <<step, ready, cur, listening, queue, fd, threads, inbox, closed, events, failed,
                 early>>

AcceptClient ==
  /\ at = "accept" /\ DriversAccepted /\ "server" \in ready
  /\ cur' = Head(queue)
  /\ queue' = Tail(queue)
  /\ at' = "first"
  /\ UNCHANGED <<step, ready, listening, fd, threads, inbox, closed, events, failed, early>>

\* main waits for the first request of the connection it accepted, and for
\* nothing else.  A request for a window: the root window has no parent, and
\* accept_window reads the children of that parent.  A request to be the window
\* manager: wmp_sync was never initialised, get_write_permit waits for ever.
FirstRequest(type) ==
  /\ at = "first" /\ inbox[cur] # <<>> /\ Head(inbox[cur]) = type
  /\ inbox' = [inbox EXCEPT ![cur] = Tail(@)]
  /\ cur' = "none"
  /\ UNCHANGED <<step, ready, listening, queue, fd, threads, closed, events, failed, early>>

AcceptWindow == FirstRequest("window") /\ at' = "crashed"

AcceptWManager == FirstRequest("manager") /\ at' = "blocked"

\* No other type is answered, and the connection stays open.
IgnoreRequest == FirstRequest("other") /\ at' = "loop"

\* The connection was closed before anything came: main writes the bad news to
\* it, which is SIGPIPE, and nobody handles that.
TellBadNews ==
  /\ at = "first" /\ inbox[cur] = <<>> /\ cur \in closed
  /\ at' = "crashed"
  /\ UNCHANGED <<step, ready, cur, listening, queue, fd, threads, inbox, closed, events, failed,
                 early>>

-----------------------------------------------------------------------------
(* The threads of the drivers, and the programs.                           *)

\* An event; its type is the one of a request when it is read as one:
\* MOUSE_MOVE and KEY_DOWN are 0 as KWNewWndReqNum is, RIGHT_BUTTON_DRAG is 8
\* as KWNewWManagerReqNum is.
Types(d) == IF d = "mouse" THEN {"window", "manager", "other"} ELSE {"window", "other"}

SendEvent ==
  /\ at # "crashed" /\ ~ failed
  /\ \E d \in threads :
       /\ events[d] < MaxEvents
       /\ events' = [events EXCEPT ![d] = @ + 1]
       /\ \E type \in Types(d) : inbox' = [inbox EXCEPT ![d] = Append(@, type)]
  /\ UNCHANGED <<main, listening, queue, fd, threads, closed, failed, early>>

BothConnected == step >= 4

\* KCreateWindow or KRegisterWManager connects.
Connect ==
  /\ listening /\ at # "crashed" /\ HasRoom
  /\ \E p \in Clients :
       /\ ~ Queued(p) /\ p \notin closed /\ inbox[p] = <<>>
       /\ cur # p /\ \A d \in Drivers : fd[d] # p
       /\ p = Root => step = Len(Steps)
       /\ queue' = Append(queue, p)
  /\ early' = (early \/ ~ BothConnected)
  /\ UNCHANGED <<main, listening, fd, threads, inbox, closed, events, failed>>

Connected(p) == Queued(p) \/ cur = p \/ \E d \in Drivers : fd[d] = p

\* It sends its request and waits for the answer.
SendRequest ==
  /\ at # "crashed"
  /\ \E p \in Clients, type \in {"window", "manager"} :
       /\ Connected(p) /\ inbox[p] = <<>> /\ p \notin closed
       /\ ~ (at = "reading" /\ cur = p)
       /\ inbox' = [inbox EXCEPT ![p] = <<type>>]
  /\ UNCHANGED <<main, listening, queue, fd, threads, closed, events, failed, early>>

\* A program ends.
Close ==
  /\ at # "crashed"
  /\ \E p \in Clients \ closed : Connected(p) /\ closed' = closed \cup {p}
  /\ UNCHANGED <<main, listening, queue, fd, threads, inbox, events, failed, early>>

KwInit == StepDone \/ Listen \/ ConnectDriver \/ StepFails

Accept == AcceptDriver \/ AcceptNobody \/ AcceptClient

First == AcceptWindow \/ AcceptWManager \/ IgnoreRequest \/ TellBadNews

Main == KwInit \/ Select \/ ServeDriver \/ ReadRequestAsEvents \/ RestIsGone \/ Accept \/ First

Others == SendEvent \/ Connect \/ SendRequest \/ Close

Next == Main \/ Others

Spec == Init /\ [][Next]_vars

\* The main thread is scheduled; nobody has to press a key or run a program.
FairSpec == Spec /\ WF_vars(Main)

-----------------------------------------------------------------------------
(* Properties.                                                             *)

TypeOK ==
  /\ at \in {"init", "loop", "mouse", "keyboard", "reading", "accept", "first", "blocked",
             "crashed"}
  /\ step \in 0..Len(Steps) /\ ready \subseteq Drivers \cup {"server"}
  /\ cur \in Parties \cup {"none"}
  /\ queue \in Seq(Parties) /\ Len(queue) <= Backlog + 1
  /\ \A k, l \in DOMAIN queue : k # l => queue[k] # queue[l]
  /\ fd \in [Drivers -> Parties \cup {"none"}]
  /\ threads \subseteq Drivers /\ closed \subseteq Clients
  /\ inbox \in [Parties -> Seq({"window", "manager", "other"})]
  /\ events \in [Drivers -> 0..MaxEvents]
  /\ listening \in BOOLEAN /\ failed \in BOOLEAN /\ early \in BOOLEAN

\* The connections of the drivers are taken for what they are, and no driver
\* for a client, unless a program connected before the drivers had (kw_init
\* initialises the mouse before the keyboard, main.c:182-187; nothing keeps
\* programs away until then).
ConnectionsAreTakenRightly ==
  /\ TypeOK
  /\ ~ early => /\ \A d \in Drivers : fd[d] \in {"none", d}
                /\ cur \notin Drivers

\* What a driver sends is read, unless main waits for the first request of a
\* client, or has met its end there: select asks for the drivers, and accept is
\* not called for a client before one is there.
InputIsServed ==
  \A d \in Drivers :
    inbox[d] # <<>> ~> \/ inbox[d] = <<>>
                       \/ at \in {"first", "blocked", "crashed"}
                       \/ early \/ failed

=============================================================================
