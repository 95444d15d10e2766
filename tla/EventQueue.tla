----------------------------- MODULE EventQueue -----------------------------
(***************************************************************************)
(* The event queue and the free list of one window (kwgssrv_event.c): two  *)
(* linked lists over the same nodes, each under its own semaphore.         *)
(*                                                                         *)
(* The producer is whoever delivers an event to the window: it holds       *)
(* wnd_stack_sync for writing (map_window, move_window), so there is one   *)
(* at a time (RWSync).  The consumer is the window's own thread, which     *)
(* takes no permit in get_next_event.  What a semaphore encloses is one    *)
(* step; every statement outside is a step of its own, because the other   *)
(* thread may run in between.                                              *)
(***************************************************************************)
EXTENDS Integers, FiniteSets, Sequences

CONSTANTS Nodes,      \* the list nodes malloc can return
          NULL,       \* the null pointer
          MaxEvents   \* bound: events delivered in a behaviour

ASSUME EventQueueAssumption ==
  /\ IsFiniteSet(Nodes)
  /\ NULL \notin Nodes
  /\ MaxEvents \in Nat

VARIABLES
  next,               \* elp->next of every node
  event,              \* elp->event of every node: its type and whose data it has
  eventhead, eventtail, free_event_list,
  allocated,          \* nodes obtained from malloc (none is ever freed)
  producer,           \* where alloc_event and its caller are, and their elp
  consumer,           \* where the window thread is, and its elp and evt
  waiting_for_event,
  delivered,          \* events put into the queue so far
  number,             \* history: the number of the event a node was queued for
  taken,              \* history: events taken out of the queue so far
  filled              \* history: the node taken last had its event by then

lists == <<eventhead, eventtail, free_event_list>>
history == <<delivered, number, taken, filled>>
vars == <<next, event, lists, allocated, producer, consumer, waiting_for_event, history>>

Pointers == Nodes \cup {NULL}

\* The content of an event: its type, and the event its data belongs to (0 for
\* what malloc left there).
EventData == [type : {"garbage", "none", "exposure"}, data : 0..MaxEvents]

Garbage == [type |-> "garbage", data |-> 0]

\* The nodes reachable from start along the links, in order; one more than there
\* are nodes when the links form a cycle.
ListFrom(links, start) ==
  LET N == Cardinality(Nodes)
      at[i \in 1..(N + 1)] ==
        IF i = 1 THEN start
        ELSE IF at[i - 1] = NULL THEN NULL ELSE links[at[i - 1]]
  IN  [i \in 1..Cardinality({j \in 1..(N + 1) : at[j] # NULL}) |-> at[i]]

Queue == ListFrom(next, eventhead)
FreeList == ListFrom(next, free_event_list)

NodesOf(list) == {list[i] : i \in DOMAIN list}

-----------------------------------------------------------------------------
Init ==
  /\ next = [n \in Nodes |-> NULL]
  /\ event = [n \in Nodes |-> Garbage]
  /\ eventhead = NULL
  /\ eventtail = NULL
  /\ free_event_list = NULL
  /\ allocated = {}
  /\ producer = [at |-> "idle", elp |-> NULL]
  /\ consumer = [at |-> "select", elp |-> NULL, evt |-> Garbage]
  /\ waiting_for_event = FALSE
  /\ delivered = 0
  /\ number = [n \in Nodes |-> 0]
  /\ taken = 0
  /\ filled = TRUE

ProducerGoes(from, to) ==
  /\ producer.at = from
  /\ producer' = [producer EXCEPT !.at = to]

ConsumerGoes(from, to) ==
  /\ consumer.at = from
  /\ consumer' = [consumer EXCEPT !.at = to]

-----------------------------------------------------------------------------
(* Slips: the steps below with a mistake; Next does not use them.          *)

AppendWithoutEnd ==
  /\ ProducerGoes("append", "clear")
  /\ LET elp == producer.elp IN
     /\ IF eventhead # NULL
        THEN /\ next' = [next EXCEPT ![eventtail] = elp]
             /\ UNCHANGED eventhead
        ELSE /\ eventhead' = elp
             /\ UNCHANGED next
     /\ eventtail' = elp
     /\ number' = [number EXCEPT ![elp] = delivered + 1]
  /\ delivered' = delivered + 1
  /\ UNCHANGED <<event, free_event_list, allocated, consumer, waiting_for_event, taken,
                 filled>>

AppendInFront ==
  /\ ProducerGoes("append", "clear")
  /\ LET elp == producer.elp IN
     /\ next' = [next EXCEPT ![elp] = eventhead]
     /\ eventhead' = elp
     /\ eventtail' = IF eventhead = NULL THEN elp ELSE eventtail
     /\ number' = [number EXCEPT ![elp] = delivered + 1]
  /\ delivered' = delivered + 1
  /\ UNCHANGED <<event, free_event_list, allocated, consumer, waiting_for_event, taken,
                 filled>>

TakeKeepsTail ==
  /\ consumer.at = "take" /\ eventhead # NULL
  /\ consumer' = [consumer EXCEPT !.at = "copyType", !.elp = eventhead]
  /\ eventhead' = next[eventhead]
  /\ taken' = taken + 1
  /\ filled' = (eventhead # producer.elp)
  /\ UNCHANGED <<next, event, eventtail, free_event_list, allocated, producer,
                 waiting_for_event, delivered, number>>

RecycleBeforeCopy ==
  /\ consumer.at = "take" /\ eventhead # NULL
  /\ consumer' = [consumer EXCEPT !.at = "copyType", !.elp = eventhead]
  /\ eventhead' = next[eventhead]
  /\ eventtail' = IF eventtail = eventhead THEN NULL ELSE eventtail
  /\ next' = [next EXCEPT ![eventhead] = free_event_list]
  /\ free_event_list' = eventhead
  /\ taken' = taken + 1
  /\ filled' = (eventhead # producer.elp)
  /\ UNCHANGED <<event, allocated, producer, waiting_for_event, delivered, number>>

-----------------------------------------------------------------------------
(* alloc_event and the deliver_*_event function that called it.            *)

\* A deliver_*_event whose mask lets the event through calls alloc_event.
StartDelivery ==
  /\ delivered < MaxEvents
  /\ ProducerGoes("idle", "alloc")
  /\ UNCHANGED <<next, event, lists, allocated, consumer, waiting_for_event, history>>

TakeFreeNode ==
  /\ producer.at = "alloc"
  /\ free_event_list # NULL
  /\ producer' = [at |-> "append", elp |-> free_event_list]
  /\ free_event_list' = next[free_event_list]
  /\ UNCHANGED <<next, event, eventhead, eventtail, allocated, consumer, waiting_for_event,
                 history>>

NoFreeNode ==
  /\ free_event_list = NULL
  /\ ProducerGoes("alloc", "malloc")
  /\ UNCHANGED <<next, event, lists, allocated, consumer, waiting_for_event, history>>

MallocNode ==
  /\ producer.at = "malloc"
  /\ \E n \in Nodes \ allocated :
       /\ producer' = [at |-> "append", elp |-> n]
       /\ allocated' = allocated \cup {n}
  /\ UNCHANGED <<next, event, lists, consumer, waiting_for_event, history>>

\* alloc_event returns NULL and the event is dropped.
MallocFails ==
  /\ ProducerGoes("malloc", "idle")
  /\ UNCHANGED <<next, event, lists, allocated, consumer, waiting_for_event, history>>

\* Under eventqueue_sem: add the node to the end of the queue.
AppendNode ==
  /\ ProducerGoes("append", "clear")
  /\ LET elp == producer.elp IN
     /\ IF eventhead # NULL
        THEN /\ next' = [next EXCEPT ![eventtail] = elp, ![elp] = NULL]
             /\ UNCHANGED eventhead
        ELSE /\ eventhead' = elp
             /\ next' = [next EXCEPT ![elp] = NULL]
     /\ eventtail' = elp
     /\ number' = [number EXCEPT ![elp] = delivered + 1]
  /\ delivered' = delivered + 1
  /\ UNCHANGED <<event, free_event_list, allocated, consumer, waiting_for_event, taken,
                 filled>>

\* elp->event.type = EVENT_TYPE_NONE, after sem_post(&(wp->eventqueue_sem))
ClearType ==
  /\ ProducerGoes("clear", "setType")
  /\ event' = [event EXCEPT ![producer.elp].type = "none"]
  /\ UNCHANGED <<next, lists, allocated, consumer, waiting_for_event, history>>

\* ep->type = EVENT_TYPE_..., in the caller
SetType ==
  /\ ProducerGoes("setType", "setData")
  /\ event' = [event EXCEPT ![producer.elp].type = "exposure"]
  /\ UNCHANGED <<next, lists, allocated, consumer, waiting_for_event, history>>

\* ep->wid, ep->x and so on, in the caller
SetData ==
  /\ producer.at = "setData"
  /\ event' = [event EXCEPT ![producer.elp].data = delivered]
  /\ producer' = [at |-> "idle", elp |-> NULL]
  /\ UNCHANGED <<next, lists, allocated, consumer, waiting_for_event, history>>

Deliver ==
  \/ StartDelivery
  \/ TakeFreeNode \/ NoFreeNode \/ MallocNode \/ MallocFails
  \/ AppendNode
  \/ ClearType \/ SetType \/ SetData

-----------------------------------------------------------------------------
(* wnd_thread_func and get_next_event.                                     *)

\* A request of the client was handled: a GetNextEvent request or another one.
\* Only then does the loop come to its first statement again.
HandleRequest ==
  /\ ConsumerGoes("select", "loop")
  /\ waiting_for_event' \in {waiting_for_event, TRUE}
  /\ UNCHANGED <<next, event, lists, allocated, producer, history>>

NothingWanted ==
  /\ waiting_for_event = FALSE
  /\ ConsumerGoes("loop", "select")
  /\ UNCHANGED <<next, event, lists, allocated, producer, waiting_for_event, history>>

EventWanted ==
  /\ waiting_for_event = TRUE
  /\ ConsumerGoes("loop", "take")
  /\ UNCHANGED <<next, event, lists, allocated, producer, waiting_for_event, history>>

QueueIsEmpty ==
  /\ eventhead = NULL
  /\ ConsumerGoes("take", "select")
  /\ UNCHANGED <<next, event, lists, allocated, producer, waiting_for_event, history>>

\* Under eventqueue_sem: take the node at the head.
TakeNode ==
  /\ consumer.at = "take" /\ eventhead # NULL
  /\ consumer' = [consumer EXCEPT !.at = "copyType", !.elp = eventhead]
  /\ eventhead' = next[eventhead]
  /\ eventtail' = IF eventtail = eventhead THEN NULL ELSE eventtail
  /\ taken' = taken + 1
  /\ filled' = (eventhead # producer.elp)
  /\ UNCHANGED <<next, event, free_event_list, allocated, producer, waiting_for_event,
                 delivered, number>>

\* evt = elp->event, a copy of several words
CopyType ==
  /\ consumer.at = "copyType"
  /\ consumer' = [consumer EXCEPT !.at = "copyData", !.evt.type = event[consumer.elp].type]
  /\ UNCHANGED <<next, event, lists, allocated, producer, waiting_for_event, history>>

CopyData ==
  /\ consumer.at = "copyData"
  /\ consumer' = [consumer EXCEPT !.at = "send", !.evt.data = event[consumer.elp].data]
  /\ UNCHANGED <<next, event, lists, allocated, producer, waiting_for_event, history>>

Send ==
  /\ ConsumerGoes("send", "recycle")
  /\ waiting_for_event' = FALSE
  /\ UNCHANGED <<next, event, lists, allocated, producer, history>>

\* Under free_event_list_sem: put the node at the head of the free list.
Recycle ==
  /\ consumer.at = "recycle"
  /\ next' = [next EXCEPT ![consumer.elp] = free_event_list]
  /\ free_event_list' = consumer.elp
  /\ consumer' = [at |-> "select", elp |-> NULL, evt |-> Garbage]
  /\ UNCHANGED <<event, eventhead, eventtail, allocated, producer, waiting_for_event,
                 history>>

GetNextEvent ==
  \/ HandleRequest
  \/ NothingWanted \/ EventWanted
  \/ QueueIsEmpty \/ TakeNode
  \/ CopyType \/ CopyData \/ Send
  \/ Recycle

Next == Deliver \/ GetNextEvent

Spec == Init /\ [][Next]_vars

-----------------------------------------------------------------------------
(* Properties *)

\* Type invariant: what the pointers of the code may point to, and where the two
\* threads are.
TypeOK ==
  /\ next \in [Nodes -> Pointers]
  /\ event \in [Nodes -> EventData]
  /\ eventhead \in Pointers
  /\ eventtail \in Pointers
  /\ free_event_list \in Pointers
  /\ allocated \subseteq Nodes
  /\ producer \in [at : {"idle", "alloc", "malloc", "append", "clear", "setType", "setData"},
                   elp : Pointers]
  /\ consumer \in [at : {"select", "loop", "take", "copyType", "copyData", "send", "recycle"},
                   elp : Pointers, evt : EventData]
  /\ waiting_for_event \in BOOLEAN
  /\ delivered \in 0..MaxEvents
  /\ number \in [Nodes -> 0..MaxEvents]
  /\ taken \in 0..MaxEvents
  /\ filled \in BOOLEAN

\* The queue ends at eventtail, whatever order the two threads ran in: the next
\* alloc_event links its node behind the last one.
TailEndsQueue ==
  IF eventhead = NULL
  THEN eventtail = NULL
  ELSE /\ Len(Queue) <= Cardinality(Nodes)
       /\ eventtail = Queue[Len(Queue)]
       /\ next[eventtail] = NULL

\* A node that alloc_event has and has not queued yet, or that get_next_event
\* has taken and not recycled yet.
InHand ==
  {n \in Nodes : \/ producer.at = "append" /\ n = producer.elp
                 \/ n = consumer.elp}

\* Every node malloc returned is in the queue, or in the free list, or in the
\* hand of one thread, and in only one of them: none is lost or linked twice.
NodesAccounted ==
  /\ TypeOK
  /\ NodesOf(Queue) \cup NodesOf(FreeList) \cup InHand = allocated
  /\ Len(Queue) + Len(FreeList) + Cardinality(InHand) = Cardinality(allocated)

\* The queue hands over every event once and in order of delivery, whichever
\* nodes the events travel in.
FIFO == INSTANCE EventFIFO WITH
          delivered <- delivered,
          pending <- [i \in DOMAIN Queue |-> number[Queue[i]]],
          handed <- taken

ImplementsFIFO == FIFO!Spec

\* An event keeps the type and the data its producer gave it while it waits in
\* the queue and until get_next_event writes it: its node is not filled for
\* another event meanwhile.  The exception is the event that is being filled:
\* alloc_event links its node into the queue before its caller fills it
\* (kwgssrv_event.c:69), and a thread that takes it meanwhile writes what the
\* node held before, although wnd_thread_func says "we pass the pending event to
\* that client window".
EventsKeepTheirContent ==
  /\ \A n \in NodesOf(Queue) \ {producer.elp} :
       event[n] = [type |-> "exposure", data |-> number[n]]
  /\ consumer.at \in {"copyType", "copyData"} /\ consumer.elp # producer.elp =>
       event[consumer.elp] = [type |-> "exposure", data |-> taken]
  /\ consumer.at = "send" /\ filled => consumer.evt = [type |-> "exposure", data |-> taken]

=============================================================================
