---------------------------- MODULE EventDelivery ----------------------------
(***************************************************************************)
(* How an event gets from a window's queue to the application: the client  *)
(* library's request buffers and KGetNextEvent (kwgscli_event.c,           *)
(* kwgscli_req.c, kwgscli_io.c) on one side, the thread the server runs    *)
(* for each window (wnd_thread_func and its request handlers,              *)
(* kwgssrv_wnd.c) on the other, and one stream socket a window between     *)
(* them.                                                                   *)
(*                                                                         *)
(* The client has one thread.  A window's thread looks at                  *)
(* waiting_for_event only at the top of its loop, and then sleeps in       *)
(* select() until the client sends something or a signal comes.  An event  *)
(* is a number here, in the order in which the window got them; how the    *)
(* queue holds them is EventQueue.  The windows of the model are siblings  *)
(* that do not overlap: what other windows expose is Expose.  The client   *)
(* creates them one after the other, and none is ever destroyed.           *)
(***************************************************************************)
EXTENDS Naturals, Sequences, FiniteSets

CONSTANTS Windows,       \* the windows of one client thread
          ReqbufSize,    \* requests that fit into a window's reqbuf
          RequestsOf,    \* bound: what the application requests for a window
          MaxRequests,   \* bound: requests the application makes
          MaxExposures   \* bound: exposures of a window by other windows

Requests == {"selectExposure", "selectNothing", "map", "draw"}

ASSUME DeliveryAssumption ==
  /\ IsFiniteSet(Windows) /\ Windows # {}
  /\ ReqbufSize \in Nat \ {0}
  /\ RequestsOf \in [Windows -> SUBSET Requests]
  /\ MaxRequests \in Nat /\ MaxExposures \in Nat

VARIABLES
  client,              \* where the client thread is, the windows it has left to visit
  wndlist,             \* the windows the client has created
  ep,                  \* *ep: the event KGetNextEvent read last and its window
  getevent_active,     \* per window: the client has asked for an event
  reqbuf,              \* per window: requests the client has not written yet
  c2s, s2c,            \* per window: requests and events in the socket
  srv,                 \* per window: where its thread is
  waiting_for_event, eventmask, mapped,
  queue,               \* per window: the pending events
  requests, exposures, \* bounds: what the application and other windows did
  produced,            \* history, per window: number of its last event
  returned             \* history, per window: its events KGetNextEvent returned

clientVars == <<client, wndlist, ep, getevent_active, returned, requests>>
serverVars == <<srv, waiting_for_event, eventmask, mapped, queue, produced>>
vars == <<clientVars, reqbuf, c2s, s2c, serverVars, exposures>>

NoEvent == [wid |-> CHOOSE w \in Windows : TRUE, number |-> 0]

-----------------------------------------------------------------------------
Init ==
  /\ client = [at |-> "app", todo |-> {}]
  /\ wndlist = {}
  /\ ep = NoEvent
  /\ getevent_active = [w \in Windows |-> FALSE]
  /\ reqbuf = [w \in Windows |-> <<>>]
  /\ c2s = [w \in Windows |-> <<>>]
  /\ s2c = [w \in Windows |-> <<>>]
  /\ srv = [w \in Windows |-> "none"]
  /\ waiting_for_event = [w \in Windows |-> FALSE]
  /\ eventmask = [w \in Windows |-> FALSE]
  /\ mapped = [w \in Windows |-> FALSE]
  /\ queue = [w \in Windows |-> <<>>]
  /\ requests = 0
  /\ exposures = 0
  /\ produced = [w \in Windows |-> 0]
  /\ returned = [w \in Windows |-> <<>>]

\* alloc_req: flush the buffer first if the request does not fit.
AllocReq(w, r) ==
  IF Len(reqbuf[w]) < ReqbufSize
  THEN /\ reqbuf' = [reqbuf EXCEPT ![w] = Append(@, r)]
       /\ UNCHANGED c2s
  ELSE /\ reqbuf' = [reqbuf EXCEPT ![w] = <<r>>]
       /\ c2s' = [c2s EXCEPT ![w] = @ \o reqbuf[w]]

\* flush_reqbuf after alloc_req
AllocReqAndFlush(w, r) ==
  /\ reqbuf' = [reqbuf EXCEPT ![w] = <<>>]
  /\ c2s' = [c2s EXCEPT ![w] = Append(@ \o reqbuf[w], r)]

\* deliver_exposure_event
DeliverExposure(w, isMapped) ==
  IF isMapped /\ eventmask[w]
  THEN /\ produced' = [produced EXCEPT ![w] = @ + 1]
       /\ queue' = [queue EXCEPT ![w] = Append(@, produced[w] + 1)]
  ELSE UNCHANGED <<produced, queue>>

ClientGoes(from, to, todo) ==
  /\ client.at = from
  /\ client' = [at |-> to, todo |-> todo]

ThreadGoes(w, from, to) ==
  /\ srv[w] = from
  /\ srv' = [srv EXCEPT ![w] = to]

-----------------------------------------------------------------------------
(* Slips: the steps below with a mistake; Next does not use them.          *)

AskAgain(w) ==
  /\ client.at = "ask" /\ w \in client.todo
  /\ client' = [client EXCEPT !.todo = @ \ {w}]
  /\ AllocReqAndFlush(w, "next")
  /\ getevent_active' = [getevent_active EXCEPT ![w] = TRUE]
  /\ UNCHANGED <<wndlist, ep, returned, requests, s2c, serverVars, exposures>>

AskWithoutFlush(w) ==
  /\ client.at = "ask" /\ w \in client.todo
  /\ client' = [client EXCEPT !.todo = @ \ {w}]
  /\ AllocReq(w, "next")
  /\ getevent_active' = [getevent_active EXCEPT ![w] = TRUE]
  /\ UNCHANGED <<wndlist, ep, returned, requests, s2c, serverVars, exposures>>

SendWithoutTaking(w) ==
  /\ ThreadGoes(w, "loop", "select")
  /\ waiting_for_event[w] /\ queue[w] # <<>>
  /\ s2c' = [s2c EXCEPT ![w] = Append(@, Head(queue[w]))]
  /\ waiting_for_event' = [waiting_for_event EXCEPT ![w] = FALSE]
  /\ UNCHANGED <<clientVars, reqbuf, c2s, queue, eventmask, mapped, produced, exposures>>

DropUnwanted(w) ==
  /\ ThreadGoes(w, "loop", "select")
  /\ ~ (waiting_for_event[w] /\ queue[w] # <<>>)
  /\ queue' = [queue EXCEPT ![w] = <<>>]
  /\ UNCHANGED <<clientVars, reqbuf, c2s, s2c, waiting_for_event, eventmask, mapped,
                 produced, exposures>>

SleepAfterNext(w) ==
  /\ srv[w] = "select" /\ c2s[w] # <<>> /\ Head(c2s[w]) = "next"
  /\ c2s' = [c2s EXCEPT ![w] = Tail(@)]
  /\ waiting_for_event' = [waiting_for_event EXCEPT ![w] = TRUE]
  /\ UNCHANGED <<clientVars, reqbuf, s2c, srv, eventmask, mapped, queue, produced, exposures>>

-----------------------------------------------------------------------------
(* The client thread                                                       *)

\* KCreateWindow, and accept_window, which it waits for: main answers and starts
\* the window's thread.
CreateWindow(w) ==
  /\ client.at = "app"
  /\ w \notin wndlist
  /\ wndlist' = wndlist \cup {w}
  /\ srv' = [srv EXCEPT ![w] = "loop"]
  /\ UNCHANGED <<client, ep, getevent_active, returned, requests, reqbuf, c2s, s2c,
                 waiting_for_event, eventmask, mapped, queue, produced, exposures>>

\* KSelectEvents, KMapWindow, KDraw...: only buffered.
BufferRequest(w, r) ==
  /\ client.at = "app"
  /\ w \in wndlist
  /\ requests < MaxRequests
  /\ requests' = requests + 1
  /\ AllocReq(w, r)
  /\ UNCHANGED <<client, wndlist, ep, getevent_active, returned, s2c, serverVars, exposures>>

CallGetNextEvent ==
  /\ ClientGoes("app", "ask", wndlist)
  /\ UNCHANGED <<wndlist, ep, getevent_active, returned, requests, reqbuf, c2s, s2c, serverVars, exposures>>

\* The first loop of KGetNextEvent; the model leaves the order of the list open.
AskWindow(w) ==
  /\ client.at = "ask" /\ w \in client.todo
  /\ client' = [client EXCEPT !.todo = @ \ {w}]
  /\ IF getevent_active[w]
     THEN UNCHANGED <<reqbuf, c2s, getevent_active>>
     ELSE /\ AllocReqAndFlush(w, "next")
          /\ getevent_active' = [getevent_active EXCEPT ![w] = TRUE]
  /\ UNCHANGED <<wndlist, ep, returned, requests, s2c, serverVars, exposures>>

AllAsked ==
  /\ client.todo = {}
  /\ ClientGoes("ask", "select", {})
  /\ UNCHANGED <<wndlist, ep, getevent_active, returned, requests, reqbuf, c2s, s2c, serverVars, exposures>>

ClientSelect ==
  LET ready == {w \in wndlist : s2c[w] # <<>>} IN
  /\ ready # {}
  /\ ClientGoes("select", "read", ready)
  /\ UNCHANGED <<wndlist, ep, getevent_active, returned, requests, reqbuf, c2s, s2c, serverVars, exposures>>

\* A signal ends select() before an event has come: KGetNextEvent returns
\* EVENT_TYPE_NONE, and the windows it has asked stay asked.
SelectInterrupted ==
  /\ \A w \in wndlist : s2c[w] = <<>>
  /\ ClientGoes("select", "app", {})
  /\ UNCHANGED <<wndlist, ep, getevent_active, returned, requests, reqbuf, c2s, s2c, serverVars, exposures>>

\* The second loop: the event overwrites the one another window had put in *ep;
\* read_data_from_srv flushes the window's requests first.
ReadWindow(w) ==
  /\ client.at = "read" /\ w \in client.todo
  /\ client' = [client EXCEPT !.todo = @ \ {w}]
  /\ getevent_active' = [getevent_active EXCEPT ![w] = FALSE]
  /\ reqbuf' = [reqbuf EXCEPT ![w] = <<>>]
  /\ c2s' = [c2s EXCEPT ![w] = @ \o reqbuf[w]]
  /\ ep' = [wid |-> w, number |-> Head(s2c[w])]
  /\ s2c' = [s2c EXCEPT ![w] = Tail(@)]
  /\ UNCHANGED <<wndlist, returned, requests, serverVars, exposures>>

ReturnEvent ==
  /\ client.todo = {}
  /\ ClientGoes("read", "app", {})
  /\ returned' = [returned EXCEPT ![ep.wid] = Append(@, ep.number)]
  /\ ep' = NoEvent
  /\ UNCHANGED <<wndlist, getevent_active, requests, reqbuf, c2s, s2c, serverVars, exposures>>

-----------------------------------------------------------------------------
(* The server's thread of window w                                         *)

\* The top of the loop, with get_next_event.
SendEvent(w) ==
  /\ ThreadGoes(w, "loop", "select")
  /\ waiting_for_event[w] /\ queue[w] # <<>>
  /\ s2c' = [s2c EXCEPT ![w] = Append(@, Head(queue[w]))]
  /\ queue' = [queue EXCEPT ![w] = Tail(@)]
  /\ waiting_for_event' = [waiting_for_event EXCEPT ![w] = FALSE]
  /\ UNCHANGED <<clientVars, reqbuf, c2s, eventmask, mapped, produced, exposures>>

NothingToSend(w) ==
  /\ ThreadGoes(w, "loop", "select")
  /\ ~ (waiting_for_event[w] /\ queue[w] # <<>>)
  /\ UNCHANGED <<clientVars, reqbuf, c2s, s2c, waiting_for_event, eventmask, mapped, queue,
                 produced, exposures>>

\* A signal ends select() before a request has come: the loop starts again.
ThreadInterrupted(w) ==
  /\ ThreadGoes(w, "select", "loop")
  /\ c2s[w] = <<>>
  /\ UNCHANGED <<clientVars, reqbuf, c2s, s2c, waiting_for_event, eventmask, mapped, queue,
                 produced, exposures>>

\* select() returns and handle_client_window_req reads a request of type r.
ReadRequest(w, r) ==
  /\ ThreadGoes(w, "select", "loop")
  /\ c2s[w] # <<>> /\ Head(c2s[w]) = r
  /\ c2s' = [c2s EXCEPT ![w] = Tail(@)]
  /\ UNCHANGED <<clientVars, reqbuf, s2c, exposures>>

HandleNext(w) ==
  /\ ReadRequest(w, "next")
  /\ waiting_for_event' = [waiting_for_event EXCEPT ![w] = TRUE]
  /\ UNCHANGED <<eventmask, mapped, queue, produced>>

HandleSelectEvents(w) ==
  \E r \in {"selectExposure", "selectNothing"} :
    /\ ReadRequest(w, r)
    /\ eventmask' = [eventmask EXCEPT ![w] = (r = "selectExposure")]
    /\ UNCHANGED <<waiting_for_event, mapped, queue, produced>>

\* map_window, under the write permit: a window that is mapped stays as it is.
HandleMap(w) ==
  /\ ReadRequest(w, "map")
  /\ mapped' = [mapped EXCEPT ![w] = TRUE]
  /\ DeliverExposure(w, ~ mapped[w])
  /\ UNCHANGED <<waiting_for_event, eventmask>>

HandleDraw(w) ==
  /\ ReadRequest(w, "draw")
  /\ UNCHANGED <<waiting_for_event, eventmask, mapped, queue, produced>>

Thread(w) ==
  \/ SendEvent(w) \/ NothingToSend(w)
  \/ HandleNext(w) \/ HandleSelectEvents(w) \/ HandleMap(w) \/ HandleDraw(w)

\* Another window is mapped or moved and exposes w.
Expose(w) ==
  /\ exposures < MaxExposures
  /\ exposures' = exposures + 1
  /\ mapped[w] /\ eventmask[w]
  /\ DeliverExposure(w, mapped[w])
  /\ UNCHANGED <<clientVars, reqbuf, c2s, s2c, srv, waiting_for_event, eventmask, mapped>>

-----------------------------------------------------------------------------
\* What the client does when it does not make another request.
ClientLoop ==
  \/ CallGetNextEvent
  \/ \E w \in Windows : AskWindow(w)
  \/ AllAsked
  \/ ClientSelect
  \/ \E w \in Windows : ReadWindow(w)
  \/ ReturnEvent

Next ==
  \/ ClientLoop \/ SelectInterrupted
  \/ \E w \in Windows :
       \/ CreateWindow(w)
       \/ \E r \in RequestsOf[w] : BufferRequest(w, r)
       \/ Thread(w) \/ ThreadInterrupted(w)
       \/ Expose(w)

Spec == Init /\ [][Next]_vars

\* Applications call the library in a loop without end (kwRootWnd.c, demo2.c),
\* and the server's threads run.  Nothing obliges an application to make a
\* request, another window to move, or a signal to interrupt a select().
FairSpec ==
  /\ Spec
  /\ WF_vars(ClientLoop)
  /\ \A w \in Windows : WF_vars(Thread(w))

-----------------------------------------------------------------------------
(* Properties *)

\* Type invariant
TypeOK ==
  /\ client \in [at : {"app", "ask", "select", "read"}, todo : SUBSET Windows]
  /\ ep \in [wid : Windows, number : Nat]
  /\ getevent_active \in [Windows -> BOOLEAN]
  /\ reqbuf \in [Windows -> Seq(Requests)]
  /\ \A w \in Windows : Len(reqbuf[w]) <= ReqbufSize
  /\ c2s \in [Windows -> Seq(Requests \cup {"next"})]
  /\ s2c \in [Windows -> Seq(Nat \ {0})]
  /\ queue \in [Windows -> Seq(Nat \ {0})]
  /\ returned \in [Windows -> Seq(Nat \ {0})]
  /\ wndlist \subseteq Windows
  /\ srv \in [Windows -> {"none", "loop", "select"}]
  /\ waiting_for_event \in [Windows -> BOOLEAN]
  /\ eventmask \in [Windows -> BOOLEAN]
  /\ mapped \in [Windows -> BOOLEAN]
  /\ produced \in [Windows -> Nat]
  /\ requests \in 0..MaxRequests
  /\ exposures \in 0..MaxExposures

\* Where the requests for an event are among requests.
Nexts(s) == {i \in DOMAIN s : s[i] = "next"}

\* One request is under way, or the thread waits for an event, or one event is
\* under way, and only one of these, if the client waits for an event; none of
\* them otherwise.
OneRequest(w) ==
  /\ \A i, j \in Nexts(c2s[w]) : i = j
  /\ Len(s2c[w]) <= 1
  /\ Nexts(c2s[w]) # {} => ~ waiting_for_event[w]
  /\ s2c[w] # <<>> => ~ waiting_for_event[w] /\ Nexts(c2s[w]) = {}
  /\ getevent_active[w] <=>
       Nexts(c2s[w]) # {} \/ waiting_for_event[w] \/ s2c[w] # <<>>

\* The client's getevent_active and the server's waiting_for_event agree across
\* the socket of every window.
OneRequestOutstanding == TypeOK /\ \A w \in Windows : OneRequest(w)

\* The application sees the events of a window in the order the window got
\* them and none of them twice.
ReturnedInOrder ==
  \A w \in Windows : \A i, j \in DOMAIN returned[w] :
    i < j => returned[w][i] < returned[w][j]

\* The events of w that the application has seen, will see when KGetNextEvent
\* returns, or that are still on their way to it.
Journey(w) ==
  returned[w]
  \o (IF client.at = "read" /\ ep.wid = w /\ ep.number # 0 THEN <<ep.number>> ELSE <<>>)
  \o s2c[w] \o queue[w]

\* A client misses no event and sees none twice, until it creates a second
\* window: then the event of one overwrites that of another in *ep.
EveryEventReturned ==
  Cardinality(wndlist) <= 1 =>
    \A w \in Windows : Journey(w) = [i \in 1..produced[w] |-> i]

\* What is buffered for a window is written in the end, although no library call
\* but KGetNextEvent flushes: once the window has not been asked for an event, or
\* has one to read.  A window that was asked before, by a call that a signal
\* interrupted or that another window's event ended, is not flushed by the next
\* call: its requests wait until an event of its own comes.
BufferedRequestsAreSent ==
  \A w \in Windows :
    reqbuf[w] # <<>> /\ (~ getevent_active[w] \/ s2c[w] # <<>>) ~> reqbuf[w] = <<>>

\* An event that is pending when the client's request is under way is sent.
PendingBeforeRequestIsSent ==
  \A w \in Windows : queue[w] # <<>> /\ Nexts(c2s[w]) # {} ~> s2c[w] # <<>>

\* "We have at least one pending event, and the client window indeed requires
\* one event.  Thus we pass the pending event to that client window", says
\* wnd_thread_func.  The code does not do so for an event that comes after the
\* request: the thread is asleep in select().
PendingEventIsPassed ==
  \A w \in Windows : queue[w] # <<>> /\ waiting_for_event[w] ~> ~ waiting_for_event[w]

=============================================================================
