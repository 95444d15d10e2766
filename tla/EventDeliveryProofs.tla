------------------------ MODULE EventDeliveryProofs ------------------------
(***************************************************************************)
(* Proofs about EventDelivery, for any number of windows, any size of the  *)
(* request buffers and any number of requests and exposures: client and    *)
(* server agree on which windows were asked for an event, and the          *)
(* application sees no event of a window twice or out of order, and misses *)
(* none as long as it has one window.                                      *)
(*                                                                         *)
(* The events of a window are in order along their whole way: those that   *)
(* were returned, the one in *ep, the one in the socket, those that are    *)
(* pending (Ordered).  That the client never reads an empty socket, nor    *)
(* returns without an event, is WillRead.  That none is missing is counted *)
(* (CInv): numbers in order, as many as there are events and none greater  *)
(* than their number, are all of them (NoneMissing).                       *)
(***************************************************************************)
EXTENDS EventDelivery, FiniteSetTheorems, SequenceTheorems, WellFoundedInduction, TLAPS

Numbers == Nat \ {0}

\* Every number in s is less than every number in t.
Before(s, t) == \A i \in DOMAIN s, j \in DOMAIN t : s[i] < t[j]

Increasing(s) == \A i, j \in DOMAIN s : i < j => s[i] < s[j]

\* What KGetNextEvent has of w to return.
Held(w) == IF ep.wid = w /\ ep.number # 0 THEN <<ep.number>> ELSE <<>>

\* The number the window's next event will have.
Coming(w) == <<produced[w] + 1>>

Ordered(w) ==
  /\ Increasing(returned[w]) /\ Increasing(queue[w])
  /\ Before(returned[w], Held(w)) /\ Before(returned[w], s2c[w])
  /\ Before(returned[w], queue[w]) /\ Before(returned[w], Coming(w))
  /\ Before(Held(w), s2c[w]) /\ Before(Held(w), queue[w]) /\ Before(Held(w), Coming(w))
  /\ Before(s2c[w], queue[w]) /\ Before(s2c[w], Coming(w))
  /\ Before(queue[w], Coming(w))

\* Every window that the client is about to read has an event for it, and it
\* comes to the end of this with an event.
WillRead ==
  client.at = "read" =>
    /\ \A w \in client.todo : s2c[w] # <<>>
    /\ client.todo # {} \/ ep.number # 0

DInv ==
  /\ TypeOK
  /\ WillRead
  /\ \A w \in Windows : OneRequest(w) /\ Ordered(w)

-----------------------------------------------------------------------------
(* Sequences of numbers and of requests                                    *)

LEMMA EmptyIsBefore == \A t : Before(<<>>, t) /\ Before(t, <<>>)
BY DEF Before

LEMMA LastFacts ==
  ASSUME NEW s \in Seq(Numbers), NEW n \in Numbers
  PROVE  /\ Append(s, n) \in Seq(Numbers)
         /\ DOMAIN Append(s, n) = DOMAIN s \cup {Len(s) + 1}
         /\ \A i \in DOMAIN s : Append(s, n)[i] = s[i] /\ i < Len(s) + 1 /\ i \in Nat
         /\ Append(s, n)[Len(s) + 1] = n
OBVIOUS

LEMMA AppendFacts ==
  ASSUME NEW s \in Seq(Numbers), NEW n \in Numbers, NEW t \in Seq(Numbers)
  PROVE  /\ Before(s, t) /\ Before(<<n>>, t) => Before(Append(s, n), t)
         /\ Before(t, s) /\ Before(t, <<n>>) => Before(t, Append(s, n))
         /\ Increasing(s) /\ Before(s, <<n>>) => Increasing(Append(s, n))
<1>1. DOMAIN <<n>> = {1} /\ <<n>>[1] = n
  OBVIOUS
<1>2. Before(s, t) /\ Before(<<n>>, t) => Before(Append(s, n), t)
  BY <1>1, LastFacts DEF Before
<1>3. Before(t, s) /\ Before(t, <<n>>) => Before(t, Append(s, n))
  BY <1>1, LastFacts DEF Before
<1>4. ASSUME Increasing(s), Before(s, <<n>>)
      PROVE  Increasing(Append(s, n))
  <2> SUFFICES ASSUME NEW i \in DOMAIN Append(s, n), NEW j \in DOMAIN Append(s, n), i < j
               PROVE  Append(s, n)[i] < Append(s, n)[j]
    BY DEF Increasing
  <2>1. CASE i \in DOMAIN s /\ j \in DOMAIN s
    BY <1>4, <2>1, LastFacts DEF Increasing
  <2>2. CASE i \in DOMAIN s /\ j = Len(s) + 1
    BY <1>1, <1>4, <2>2, LastFacts DEF Before
  <2>3. Len(s) + 1 \in Nat
    OBVIOUS
  <2>4. i # Len(s) + 1
    BY <2>3, LastFacts
  <2> QED
    BY <2>1, <2>2, <2>4, LastFacts
<1> QED
  BY <1>2, <1>3, <1>4

LEMMA TailFacts ==
  ASSUME NEW s \in Seq(Numbers), s # <<>>
  PROVE  /\ Head(s) \in Numbers /\ Tail(s) \in Seq(Numbers)
         /\ \A t : Before(s, t) => Before(Tail(s), t) /\ Before(<<Head(s)>>, t)
         /\ \A t : Before(t, s) => Before(t, Tail(s)) /\ Before(t, <<Head(s)>>)
         /\ Increasing(s) => Increasing(Tail(s)) /\ Before(<<Head(s)>>, Tail(s))
<1>1. /\ Head(s) \in Numbers /\ Tail(s) \in Seq(Numbers)
      /\ 1 \in DOMAIN s /\ s[1] = Head(s)
      /\ DOMAIN <<Head(s)>> = {1} /\ <<Head(s)>>[1] = Head(s)
  OBVIOUS
<1>2. \A i \in DOMAIN Tail(s) :
        i \in Int /\ i + 1 \in DOMAIN s /\ Tail(s)[i] = s[i + 1] /\ 1 < i + 1
  OBVIOUS
<1>3. \A t : Before(s, t) => Before(Tail(s), t) /\ Before(<<Head(s)>>, t)
  BY <1>1, <1>2 DEF Before
<1>4. \A t : Before(t, s) => Before(t, Tail(s)) /\ Before(t, <<Head(s)>>)
  BY <1>1, <1>2 DEF Before
<1>5. \A i, j \in Int : i < j => i + 1 < j + 1
  OBVIOUS
<1>6. Increasing(s) => Increasing(Tail(s)) /\ Before(<<Head(s)>>, Tail(s))
  BY <1>1, <1>2, <1>5 DEF Before, Increasing
<1> QED
  BY <1>1, <1>3, <1>4, <1>6

\* Numbers that are before the next event's are before those of later ones.
LEMMA LaterComes ==
  ASSUME NEW s \in Seq(Numbers), NEW n \in Nat
  PROVE  /\ Before(s, <<n>>) => Before(s, <<n + 1>>)
         /\ Before(<<n>>, <<n + 1>>)
<1>1. /\ DOMAIN <<n>> = {1} /\ <<n>>[1] = n
      /\ DOMAIN <<n + 1>> = {1} /\ <<n + 1>>[1] = n + 1
      /\ \A i \in DOMAIN s : s[i] \in Nat
  BY DEF Numbers
<1> QED
  BY <1>1 DEF Before

Wired == Requests \cup {"next"}

Once(s) == \A i, j \in Nexts(s) : i = j

LEMMA BufferHasNoNext ==
  ASSUME NEW s \in Seq(Wired), NEW b \in Seq(Requests)
  PROVE  s \o b \in Seq(Wired) /\ Nexts(s \o b) = Nexts(s)
<1>1. b \in Seq(Wired)
  BY DEF Wired
<1>2. \A k \in 1..Len(b) : b[k] # "next"
  BY ElementOfSeq DEF Requests
<1>3. /\ s \o b \in Seq(Wired)
      /\ DOMAIN (s \o b) = 1..(Len(s) + Len(b)) /\ DOMAIN s = 1..Len(s)
      /\ Len(s) \in Nat /\ Len(b) \in Nat
      /\ \A k \in 1..(Len(s) + Len(b)) :
           (s \o b)[k] = IF k <= Len(s) THEN s[k] ELSE b[k - Len(s)]
  BY <1>1, ConcatProperties
<1>4. \A k \in 1..(Len(s) + Len(b)) : k <= Len(s) \/ k - Len(s) \in 1..Len(b)
  BY <1>3
<1>5. 1..Len(s) \subseteq 1..(Len(s) + Len(b)) /\ \A k \in 1..Len(s) : k <= Len(s)
  BY <1>3
<1>6. \A k \in 1..(Len(s) + Len(b)) : k <= Len(s) => k \in 1..Len(s)
  BY <1>3
<1> QED
  BY <1>2, <1>3, <1>4, <1>5, <1>6 DEF Nexts

LEMMA NextIsAppended ==
  ASSUME NEW s \in Seq(Wired), Nexts(s) = {}
  PROVE  /\ Append(s, "next") \in Seq(Wired)
         /\ Nexts(Append(s, "next")) # {} /\ Once(Append(s, "next"))
<1>1. /\ Append(s, "next") \in Seq(Wired)
      /\ DOMAIN Append(s, "next") = DOMAIN s \cup {Len(s) + 1}
      /\ \A i \in DOMAIN s : Append(s, "next")[i] = s[i]
      /\ Append(s, "next")[Len(s) + 1] = "next"
  BY DEF Wired
<1>2. Nexts(Append(s, "next")) = {Len(s) + 1}
  BY <1>1 DEF Nexts
<1> QED
  BY <1>1, <1>2 DEF Once

LEMMA NextIsTaken ==
  ASSUME NEW s \in Seq(Wired), s # <<>>, Once(s)
  PROVE  /\ Tail(s) \in Seq(Wired) /\ Once(Tail(s))
         /\ Head(s) = "next" => Nexts(s) # {} /\ Nexts(Tail(s)) = {}
         /\ Head(s) # "next" => (Nexts(Tail(s)) # {} <=> Nexts(s) # {})
<1>1. /\ Tail(s) \in Seq(Wired)
      /\ 1 \in DOMAIN s /\ s[1] = Head(s)
  OBVIOUS
<1>2. \A i \in DOMAIN Tail(s) :
        i \in Int /\ i + 1 \in DOMAIN s /\ Tail(s)[i] = s[i + 1] /\ 1 # i + 1
  OBVIOUS
<1>3. \A j \in DOMAIN s : j = 1 \/ (j - 1 \in DOMAIN Tail(s) /\ Tail(s)[j - 1] = s[j])
  OBVIOUS
<1>4. \A i \in Nexts(Tail(s)) : i \in Int /\ i + 1 \in Nexts(s) /\ 1 # i + 1
  BY <1>2 DEF Nexts
<1>5. \A j \in Nexts(s) : j = 1 \/ j - 1 \in Nexts(Tail(s))
  BY <1>3 DEF Nexts
<1>6. 1 \in Nexts(s) <=> Head(s) = "next"
  BY <1>1 DEF Nexts
<1>7. Once(Tail(s))
  <2> SUFFICES ASSUME NEW i \in Nexts(Tail(s)), NEW j \in Nexts(Tail(s)) PROVE i = j
    BY DEF Once
  <2>1. i + 1 = j + 1
    BY <1>4 DEF Once
  <2> QED
    BY <1>4, <2>1
<1> QED
  BY <1>1, <1>4, <1>5, <1>6, <1>7 DEF Once

-----------------------------------------------------------------------------
(* The invariant                                                           *)

LEMMA InitDInv ==
  ASSUME Init
  PROVE  DInv
<1>1. NoEvent \in [wid : Windows, number : Nat] /\ NoEvent.number = 0
  BY DeliveryAssumption DEF NoEvent
<1>2. <<>> \in Seq(Requests) /\ <<>> \in Seq(Requests \cup {"next"}) /\ <<>> \in Seq(Nat \ {0})
      /\ Len(<<>>) = 0 /\ DOMAIN <<>> = {}
  OBVIOUS
<1>3. TypeOK
  BY <1>1, <1>2, DeliveryAssumption DEF Init, TypeOK
<1>4. WillRead
  BY DEF Init, WillRead
<1>5. ASSUME NEW w \in Windows
      PROVE  OneRequest(w) /\ Ordered(w)
  <2>1. OneRequest(w)
    BY <1>2 DEF Init, OneRequest, Nexts
  <2>2. returned[w] = <<>> /\ s2c[w] = <<>> /\ queue[w] = <<>> /\ Held(w) = <<>>
    BY <1>1 DEF Init, Held
  <2> QED
    BY <1>2, <2>1, <2>2, EmptyIsBefore DEF Ordered, Increasing
<1> QED
  BY <1>3, <1>4, <1>5 DEF DInv

\* A window whose requests for events, thread and events stay as they are.
LEMMA OneRequestKept ==
  ASSUME NEW v \in Windows, OneRequest(v), Once(c2s[v])',
         (Nexts(c2s[v]) # {})' <=> Nexts(c2s[v]) # {},
         s2c'[v] = s2c[v], waiting_for_event'[v] = waiting_for_event[v],
         getevent_active'[v] = getevent_active[v]
  PROVE  OneRequest(v)'
BY DEF OneRequest, Once

LEMMA OrderedKept ==
  ASSUME NEW v \in Windows, Ordered(v), returned'[v] = returned[v], queue'[v] = queue[v],
         s2c'[v] = s2c[v], produced'[v] = produced[v], ep' = ep
  PROVE  Ordered(v)'
<1>1. Held(v)' = Held(v) /\ Coming(v)' = Coming(v)
  BY DEF Held, Coming
<1> QED
  BY <1>1 DEF Ordered

\* No socket changes, or whose turn it is.
LEMMA WindowsKept ==
  ASSUME DInv, UNCHANGED <<ep, getevent_active, returned, c2s, s2c, waiting_for_event,
                           queue, produced>>
  PROVE  \A v \in Windows : OneRequest(v)' /\ Ordered(v)'
<1> SUFFICES ASSUME NEW v \in Windows PROVE OneRequest(v)' /\ Ordered(v)'
  OBVIOUS
<1>1. Once(c2s[v])
  BY DEF DInv, OneRequest, Once
<1>2. OneRequest(v)'
  BY <1>1, OneRequestKept DEF DInv
<1>3. Ordered(v)'
  BY OrderedKept DEF DInv
<1> QED
  BY <1>2, <1>3

LEMMA HeldIsNumbers ==
  ASSUME TypeOK
  PROVE  \A v \in Windows : Held(v) \in Seq(Numbers)
<1> SUFFICES ASSUME NEW v \in Windows PROVE Held(v) \in Seq(Numbers)
  OBVIOUS
<1>1. CASE ep.wid = v /\ ep.number # 0
  <2>1. ep.number \in Numbers
    BY <1>1 DEF TypeOK, Numbers
  <2>2. <<ep.number>> \in Seq(Numbers)
    BY <2>1
  <2> QED
    BY <1>1, <2>2 DEF Held
<1>2. CASE ~ (ep.wid = v /\ ep.number # 0)
  BY <1>2 DEF Held
<1> QED
  BY <1>1, <1>2

\* deliver_exposure_event puts a number into the queue that is behind all others.
LEMMA DeliverStep ==
  ASSUME DInv, NEW w \in Windows, NEW isMapped \in BOOLEAN, DeliverExposure(w, isMapped),
         UNCHANGED <<ep, returned, s2c>>
  PROVE  /\ produced' \in [Windows -> Nat]
         /\ queue' \in [Windows -> Seq(Nat \ {0})]
         /\ \A v \in Windows : Ordered(v)'
<1>1. CASE isMapped /\ eventmask[w]
  <2>1. /\ produced' = [produced EXCEPT ![w] = @ + 1]
        /\ queue' = [queue EXCEPT ![w] = Append(@, produced[w] + 1)]
    BY <1>1 DEF DeliverExposure
  <2>2. /\ produced[w] \in Nat /\ queue[w] \in Seq(Numbers)
        /\ produced \in [Windows -> Nat] /\ queue \in [Windows -> Seq(Numbers)]
    BY DEF DInv, TypeOK, Numbers
  <2>3. produced[w] + 1 \in Numbers
    BY <2>2 DEF Numbers
  <2>4. Append(queue[w], produced[w] + 1) \in Seq(Numbers)
    BY <2>2, <2>3
  <2>5. produced' \in [Windows -> Nat] /\ queue' \in [Windows -> Seq(Numbers)]
    BY <2>1, <2>2, <2>4
  <2>6. ASSUME NEW v \in Windows
        PROVE  Ordered(v)'
    <3>1. CASE v # w
      BY <2>1, <2>2, <3>1, OrderedKept DEF DInv
    <3>2. CASE v = w
      <4>1. /\ queue'[v] = Append(queue[v], produced[v] + 1)
            /\ produced'[v] = produced[v] + 1
        BY <2>1, <2>2, <3>2
      <4>2. /\ returned[v] \in Seq(Numbers) /\ s2c[v] \in Seq(Numbers)
            /\ queue[v] \in Seq(Numbers) /\ ep.number \in Nat
        BY DEF DInv, TypeOK, Numbers
      <4>3. Held(v) \in Seq(Numbers)
        BY HeldIsNumbers DEF DInv
      <4>4. Held(v)' = Held(v) /\ Coming(v)' = <<produced[v] + 1 + 1>>
        BY <4>1 DEF Held, Coming
      <4>5. Ordered(v)
        BY DEF DInv
      <4>6. produced[v] + 1 \in Nat
        BY <2>3, <3>2 DEF Numbers
      <4>7. \A s \in {returned[v], s2c[v], Held(v), queue[v]} :
              s \in Seq(Numbers) /\ Before(s, <<produced[v] + 1>>)
        BY <4>2, <4>3, <4>5 DEF Ordered, Coming
      <4>8. \A s \in {returned[v], s2c[v], Held(v), queue[v]} :
              Before(s, <<produced[v] + 1 + 1>>)
        BY <4>6, <4>7, LaterComes
      <4>9. \A s \in {returned[v], s2c[v], Held(v)} :
              s \in Seq(Numbers) /\ Before(s, queue[v]) /\ Before(s, <<produced[v] + 1>>)
        BY <4>5, <4>7 DEF Ordered
      <4>10. \A s \in {returned[v], s2c[v], Held(v)} :
               Before(s, Append(queue[v], produced[v] + 1))
        BY <2>3, <3>2, <4>2, <4>9, AppendFacts
      <4>11. Before(<<produced[v] + 1>>, <<produced[v] + 1 + 1>>)
        BY <4>2, <4>6, LaterComes
      <4>12. <<produced[v] + 1 + 1>> \in Seq(Numbers)
        BY <4>6 DEF Numbers
      <4>13. Before(Append(queue[v], produced[v] + 1), <<produced[v] + 1 + 1>>)
        BY <2>3, <3>2, <4>2, <4>8, <4>11, <4>12, AppendFacts
      <4>14. Increasing(Append(queue[v], produced[v] + 1))
        BY <2>3, <3>2, <4>2, <4>5, <4>7, <4>12, AppendFacts DEF Ordered
      <4> QED
        BY <4>1, <4>4, <4>5, <4>8, <4>10, <4>13, <4>14 DEF Ordered
    <3> QED
      BY <3>1, <3>2
  <2> QED
    BY <2>5, <2>6 DEF Numbers
<1>2. CASE ~ (isMapped /\ eventmask[w])
  <2>1. UNCHANGED <<produced, queue>>
    BY <1>2 DEF DeliverExposure
  <2> QED
    BY <2>1, OrderedKept DEF DInv, TypeOK
<1> QED
  BY <1>1, <1>2

-----------------------------------------------------------------------------
(* The client                                                              *)

LEMMA CreateWindowStep ==
  ASSUME DInv, NEW w \in Windows, CreateWindow(w)
  PROVE  DInv'
<1>1. TypeOK'
  BY DEF CreateWindow, DInv, TypeOK
<1>2. WillRead'
  BY DEF CreateWindow, DInv, WillRead
<1>3. \A v \in Windows : OneRequest(v)' /\ Ordered(v)'
  BY WindowsKept DEF CreateWindow
<1> QED
  BY <1>1, <1>2, <1>3 DEF DInv

\* What alloc_req leaves in the buffer and writes to the socket.
LEMMA AllocReqFacts ==
  ASSUME TypeOK, NEW w \in Windows, NEW r \in Requests, AllocReq(w, r)
  PROVE  /\ reqbuf' \in [Windows -> Seq(Requests)]
         /\ \A v \in Windows : Len(reqbuf'[v]) <= ReqbufSize
         /\ c2s' \in [Windows -> Seq(Wired)]
         /\ \A v \in Windows : Nexts(c2s'[v]) = Nexts(c2s[v])
<1>0. /\ reqbuf \in [Windows -> Seq(Requests)] /\ c2s \in [Windows -> Seq(Wired)]
      /\ ReqbufSize \in Nat \ {0}
      /\ \A v \in Windows : Len(reqbuf[v]) <= ReqbufSize
  BY DeliveryAssumption DEF TypeOK, Wired
<1>1. CASE Len(reqbuf[w]) < ReqbufSize
  <2>1. reqbuf' = [reqbuf EXCEPT ![w] = Append(@, r)] /\ c2s' = c2s
    BY <1>1 DEF AllocReq
  <2>2. Append(reqbuf[w], r) \in Seq(Requests) /\ Len(Append(reqbuf[w], r)) = Len(reqbuf[w]) + 1
    BY <1>0
  <2> QED
    BY <1>0, <1>1, <2>1, <2>2
<1>2. CASE ~ (Len(reqbuf[w]) < ReqbufSize)
  <2>1. /\ reqbuf' = [reqbuf EXCEPT ![w] = <<r>>]
        /\ c2s' = [c2s EXCEPT ![w] = @ \o reqbuf[w]]
    BY <1>2 DEF AllocReq
  <2>2. <<r>> \in Seq(Requests) /\ Len(<<r>>) = 1
    OBVIOUS
  <2>3. c2s[w] \o reqbuf[w] \in Seq(Wired) /\ Nexts(c2s[w] \o reqbuf[w]) = Nexts(c2s[w])
    BY <1>0, BufferHasNoNext
  <2> QED
    BY <1>0, <2>1, <2>2, <2>3
<1> QED
  BY <1>1, <1>2

LEMMA BufferRequestStep ==
  ASSUME DInv, NEW w \in Windows, NEW r \in Requests, BufferRequest(w, r)
  PROVE  DInv'
<1>1. /\ reqbuf' \in [Windows -> Seq(Requests)]
      /\ \A v \in Windows : Len(reqbuf'[v]) <= ReqbufSize
      /\ c2s' \in [Windows -> Seq(Wired)]
      /\ \A v \in Windows : Nexts(c2s'[v]) = Nexts(c2s[v])
  BY AllocReqFacts DEF BufferRequest, DInv
<1>2. requests' \in 0..MaxRequests
  BY DeliveryAssumption DEF BufferRequest, DInv, TypeOK
<1>3. TypeOK'
  BY <1>1, <1>2 DEF BufferRequest, DInv, TypeOK, Wired, serverVars
<1>4. WillRead'
  BY DEF BufferRequest, DInv, WillRead
<1>5. ASSUME NEW v \in Windows
      PROVE  OneRequest(v)' /\ Ordered(v)'
  <2>1. Once(c2s[v])' /\ (Nexts(c2s[v]))' = Nexts(c2s[v])
    BY <1>1 DEF DInv, OneRequest, Once, Nexts
  <2>2. OneRequest(v)'
    BY <2>1, OneRequestKept DEF BufferRequest, DInv, serverVars
  <2>3. Ordered(v)'
    BY OrderedKept DEF BufferRequest, DInv, serverVars
  <2> QED
    BY <2>2, <2>3
<1> QED
  BY <1>3, <1>4, <1>5 DEF DInv

LEMMA CallGetNextEventStep ==
  ASSUME DInv, CallGetNextEvent
  PROVE  DInv'
<1>1. TypeOK'
  BY DEF CallGetNextEvent, ClientGoes, DInv, TypeOK, serverVars
<1>2. WillRead'
  BY DEF CallGetNextEvent, ClientGoes, WillRead
<1>3. \A v \in Windows : OneRequest(v)' /\ Ordered(v)'
  BY WindowsKept DEF CallGetNextEvent, serverVars
<1> QED
  BY <1>1, <1>2, <1>3 DEF DInv

LEMMA AskWindowStep ==
  ASSUME DInv, NEW w \in Windows, AskWindow(w)
  PROVE  DInv'
<1>1. /\ reqbuf \in [Windows -> Seq(Requests)] /\ c2s \in [Windows -> Seq(Wired)]
      /\ getevent_active \in [Windows -> BOOLEAN]
  BY DEF DInv, TypeOK, Wired
<1>2. WillRead'
  BY DEF AskWindow, DInv, WillRead
<1>3. \A v \in Windows : Ordered(v)'
  BY OrderedKept DEF AskWindow, DInv, serverVars
<1>4. CASE getevent_active[w]
  <2>1. UNCHANGED <<reqbuf, c2s, getevent_active>>
    BY <1>4 DEF AskWindow
  <2>2. TypeOK'
    BY <2>1 DEF AskWindow, DInv, TypeOK, serverVars
  <2>3. \A v \in Windows : OneRequest(v)'
    BY <2>1, WindowsKept DEF AskWindow, serverVars
  <2> QED
    BY <1>2, <1>3, <2>2, <2>3 DEF DInv
<1>5. CASE ~ getevent_active[w]
  <2>1. /\ reqbuf' = [reqbuf EXCEPT ![w] = <<>>]
        /\ c2s' = [c2s EXCEPT ![w] = Append(@ \o reqbuf[w], "next")]
        /\ getevent_active' = [getevent_active EXCEPT ![w] = TRUE]
    BY <1>5 DEF AskWindow, AllocReqAndFlush
  <2>2. OneRequest(w) /\ Nexts(c2s[w]) = {} /\ ~ waiting_for_event[w] /\ s2c[w] = <<>>
    BY <1>5 DEF DInv, OneRequest
  <2>3. c2s[w] \o reqbuf[w] \in Seq(Wired) /\ Nexts(c2s[w] \o reqbuf[w]) = {}
    BY <1>1, <2>2, BufferHasNoNext
  <2>4. /\ Append(c2s[w] \o reqbuf[w], "next") \in Seq(Wired)
        /\ Nexts(Append(c2s[w] \o reqbuf[w], "next")) # {}
        /\ Once(Append(c2s[w] \o reqbuf[w], "next"))
    BY <2>3, NextIsAppended
  <2>5. /\ reqbuf' \in [Windows -> Seq(Requests)]
        /\ c2s' \in [Windows -> Seq(Wired)]
        /\ getevent_active' \in [Windows -> BOOLEAN]
    BY <1>1, <2>1, <2>4
  <2>6. \A v \in Windows : Len(reqbuf'[v]) <= ReqbufSize
    <3>1. Len(<<>>) = 0 /\ 0 <= ReqbufSize
      BY DeliveryAssumption
    <3> QED
      BY <1>1, <2>1, <3>1 DEF DInv, TypeOK
  <2>7. TypeOK'
    BY <2>5, <2>6 DEF AskWindow, DInv, TypeOK, Wired, serverVars
  <2>8. ASSUME NEW v \in Windows
        PROVE  OneRequest(v)'
    <3>1. CASE v = w
      <4>1. /\ c2s'[v] = Append(c2s[w] \o reqbuf[w], "next") /\ getevent_active'[v]
            /\ s2c'[v] = <<>> /\ ~ waiting_for_event'[v]
        BY <1>1, <2>1, <2>2, <3>1 DEF AskWindow, serverVars
      <4>2. Once(c2s'[v]) /\ Nexts(c2s'[v]) # {}
        BY <2>4, <4>1
      <4>3. (Nexts(c2s[v]))' = Nexts(c2s'[v])
        BY DEF Nexts
      <4>4. Len(s2c'[v]) = 0
        BY <4>1
      <4> QED
        BY <4>1, <4>2, <4>3, <4>4 DEF OneRequest, Once
    <3>2. CASE v # w
      <4>1. /\ c2s'[v] = c2s[v] /\ getevent_active'[v] = getevent_active[v]
            /\ s2c'[v] = s2c[v] /\ waiting_for_event'[v] = waiting_for_event[v]
        BY <1>1, <2>1, <3>2 DEF AskWindow, serverVars
      <4> QED
        BY <4>1 DEF DInv, OneRequest, Nexts
    <3> QED
      BY <3>1, <3>2
  <2> QED
    BY <1>2, <1>3, <2>7, <2>8 DEF DInv
<1> QED
  BY <1>4, <1>5

LEMMA AllAskedStep ==
  ASSUME DInv, AllAsked
  PROVE  DInv'
<1>1. TypeOK'
  BY DEF AllAsked, ClientGoes, DInv, TypeOK, serverVars
<1>2. WillRead'
  BY DEF AllAsked, ClientGoes, WillRead
<1>3. \A v \in Windows : OneRequest(v)' /\ Ordered(v)'
  BY WindowsKept DEF AllAsked, serverVars
<1> QED
  BY <1>1, <1>2, <1>3 DEF DInv

LEMMA ClientSelectStep ==
  ASSUME DInv, ClientSelect
  PROVE  DInv'
<1>1. TypeOK'
  BY DEF ClientSelect, ClientGoes, DInv, TypeOK, serverVars
<1>2. WillRead'
  BY DEF ClientSelect, ClientGoes, WillRead
<1>3. \A v \in Windows : OneRequest(v)' /\ Ordered(v)'
  BY WindowsKept DEF ClientSelect, serverVars
<1> QED
  BY <1>1, <1>2, <1>3 DEF DInv

LEMMA SelectInterruptedStep ==
  ASSUME DInv, SelectInterrupted
  PROVE  DInv'
<1>1. TypeOK'
  BY DEF SelectInterrupted, ClientGoes, DInv, TypeOK, serverVars
<1>2. WillRead'
  BY DEF SelectInterrupted, ClientGoes, WillRead
<1>3. \A v \in Windows : OneRequest(v)' /\ Ordered(v)'
  BY WindowsKept DEF SelectInterrupted, serverVars
<1> QED
  BY <1>1, <1>2, <1>3 DEF DInv

LEMMA ReadWindowStep ==
  ASSUME DInv, NEW w \in Windows, ReadWindow(w)
  PROVE  DInv'
<1>1. /\ reqbuf \in [Windows -> Seq(Requests)] /\ c2s \in [Windows -> Seq(Wired)]
      /\ s2c \in [Windows -> Seq(Numbers)] /\ s2c[w] \in Seq(Numbers)
      /\ getevent_active \in [Windows -> BOOLEAN]
  BY DEF DInv, TypeOK, Wired, Numbers
<1>2. /\ client.at = "read" /\ w \in client.todo
      /\ client' = [client EXCEPT !.todo = @ \ {w}]
      /\ getevent_active' = [getevent_active EXCEPT ![w] = FALSE]
      /\ reqbuf' = [reqbuf EXCEPT ![w] = <<>>]
      /\ c2s' = [c2s EXCEPT ![w] = @ \o reqbuf[w]]
      /\ ep' = [wid |-> w, number |-> Head(s2c[w])]
      /\ s2c' = [s2c EXCEPT ![w] = Tail(@)]
      /\ UNCHANGED <<wndlist, returned, requests, serverVars, exposures>>
  BY DEF ReadWindow
<1>3. s2c[w] # <<>>
  BY <1>2 DEF DInv, WillRead
<1>4. /\ Len(s2c[w]) <= 1 /\ ~ waiting_for_event[w] /\ Nexts(c2s[w]) = {}
      /\ Once(c2s[w])
  BY <1>3 DEF DInv, OneRequest, Once
<1>5. Tail(s2c[w]) = <<>>
  BY <1>1, <1>3, <1>4
<1>6. Head(s2c[w]) \in Numbers
  BY <1>1, <1>3, TailFacts
<1>7. c2s[w] \o reqbuf[w] \in Seq(Wired) /\ Nexts(c2s[w] \o reqbuf[w]) = {}
  BY <1>1, <1>4, BufferHasNoNext
<1>8. TypeOK'
  <2>1. <<>> \in Seq(Numbers) /\ <<>> \in Seq(Requests) /\ Len(<<>>) = 0
    OBVIOUS
  <2>2. /\ reqbuf' \in [Windows -> Seq(Requests)] /\ c2s' \in [Windows -> Seq(Wired)]
        /\ s2c' \in [Windows -> Seq(Numbers)] /\ getevent_active' \in [Windows -> BOOLEAN]
    BY <1>1, <1>2, <1>5, <1>7, <2>1
  <2>3. \A v \in Windows : Len(reqbuf'[v]) <= ReqbufSize
    <3>1. 0 <= ReqbufSize
      BY DeliveryAssumption
    <3> QED
      BY <1>1, <1>2, <2>1, <3>1 DEF DInv, TypeOK
  <2>4. /\ client' \in [at : {"app", "ask", "select", "read"}, todo : SUBSET Windows]
        /\ ep' \in [wid : Windows, number : Nat]
    BY <1>2, <1>6 DEF DInv, TypeOK, Numbers
  <2> QED
    BY <1>2, <2>2, <2>3, <2>4 DEF DInv, TypeOK, Wired, Numbers, serverVars
<1>9. WillRead'
  <2>1. ep'.number # 0 /\ client'.todo = client.todo \ {w}
    BY <1>2, <1>6 DEF Numbers, DInv, TypeOK
  <2>2. \A v \in client'.todo : s2c'[v] = s2c[v]
    BY <1>1, <1>2, <2>1 DEF DInv, TypeOK
  <2> QED
    BY <1>2, <2>1, <2>2 DEF DInv, WillRead
<1>10. ASSUME NEW v \in Windows
       PROVE  OneRequest(v)'
  <2>1. CASE v = w
    <3>1. /\ c2s'[v] = c2s[w] \o reqbuf[w] /\ ~ getevent_active'[v]
          /\ s2c'[v] = <<>> /\ ~ waiting_for_event'[v] /\ Len(<<>>) = 0
      BY <1>1, <1>2, <1>4, <1>5, <2>1 DEF serverVars
    <3>2. Nexts(c2s'[v]) = {}
      BY <1>7, <3>1
    <3>3. (Nexts(c2s[v]))' = Nexts(c2s'[v])
      BY DEF Nexts
    <3> QED
      BY <3>1, <3>2, <3>3 DEF OneRequest
  <2>2. CASE v # w
    <3>1. /\ c2s'[v] = c2s[v] /\ getevent_active'[v] = getevent_active[v]
          /\ s2c'[v] = s2c[v] /\ waiting_for_event'[v] = waiting_for_event[v]
      BY <1>1, <1>2, <2>2 DEF serverVars
    <3> QED
      BY <3>1 DEF DInv, OneRequest, Nexts
  <2> QED
    BY <2>1, <2>2
<1>11. ASSUME NEW v \in Windows
       PROVE  Ordered(v)'
  <2>1. /\ returned'[v] = returned[v] /\ queue'[v] = queue[v] /\ produced'[v] = produced[v]
        /\ Ordered(v) /\ Coming(v)' = Coming(v)
    BY <1>2 DEF DInv, serverVars, Coming
  <2>2. CASE v = w
    <3>1. Held(v)' = <<Head(s2c[w])>> /\ s2c'[v] = <<>>
      BY <1>1, <1>2, <1>5, <1>6, <2>2 DEF Held, Numbers
    <3>2. /\ \A t : Before(s2c[w], t) => Before(<<Head(s2c[w])>>, t)
          /\ \A t : Before(t, s2c[w]) => Before(t, <<Head(s2c[w])>>)
      BY <1>1, <1>3, TailFacts
    <3> QED
      BY <2>1, <2>2, <3>1, <3>2, EmptyIsBefore DEF Ordered
  <2>3. CASE v # w
    <3>1. Held(v)' = <<>> /\ s2c'[v] = s2c[v]
      BY <1>1, <1>2, <2>3 DEF Held
    <3> QED
      BY <2>1, <3>1, EmptyIsBefore DEF Ordered
  <2> QED
    BY <2>2, <2>3
<1> QED
  BY <1>8, <1>9, <1>10, <1>11 DEF DInv

LEMMA ReturnEventStep ==
  ASSUME DInv, ReturnEvent
  PROVE  DInv'
<1>1. /\ client.at = "read" /\ client.todo = {} /\ client' = [at |-> "app", todo |-> {}]
      /\ returned' = [returned EXCEPT ![ep.wid] = Append(@, ep.number)]
      /\ ep' = NoEvent
      /\ UNCHANGED <<wndlist, getevent_active, requests, reqbuf, c2s, s2c, serverVars, exposures>>
  BY DEF ReturnEvent, ClientGoes
<1>2. ep.number # 0
  BY <1>1 DEF DInv, WillRead
<1>3. ep.wid \in Windows /\ ep.number \in Numbers
  BY <1>2 DEF DInv, TypeOK, Numbers
<1>4. returned \in [Windows -> Seq(Numbers)]
  BY DEF DInv, TypeOK, Numbers
<1>5. Append(returned[ep.wid], ep.number) \in Seq(Numbers)
  BY <1>3, <1>4
<1>6. NoEvent \in [wid : Windows, number : Nat] /\ NoEvent.number = 0
  BY DeliveryAssumption DEF NoEvent
<1>7. TypeOK'
  <2>1. returned' \in [Windows -> Seq(Numbers)]
    BY <1>1, <1>4, <1>5
  <2> QED
    BY <1>1, <1>6, <2>1 DEF DInv, TypeOK, Numbers, serverVars
<1>8. WillRead'
  BY <1>1 DEF WillRead
<1>9. ASSUME NEW v \in Windows
      PROVE  OneRequest(v)'
  BY <1>1 DEF DInv, OneRequest, Nexts, serverVars
<1>10. ASSUME NEW v \in Windows
       PROVE  Ordered(v)'
  <2>1. /\ queue'[v] = queue[v] /\ s2c'[v] = s2c[v] /\ Coming(v)' = Coming(v)
        /\ Held(v)' = <<>> /\ Ordered(v)
    BY <1>1, <1>6 DEF DInv, serverVars, Coming, Held
  <2>2. CASE v = ep.wid
    <3>1. Held(v) = <<ep.number>> /\ returned'[v] = Append(returned[v], ep.number)
      BY <1>1, <1>2, <1>4, <2>2 DEF Held
    <3>2. /\ returned[v] \in Seq(Numbers) /\ queue[v] \in Seq(Numbers)
          /\ s2c[v] \in Seq(Numbers) /\ Coming(v) \in Seq(Numbers)
      <4>1. produced[v] + 1 \in Numbers
        BY DEF DInv, TypeOK, Numbers
      <4> QED
        BY <4>1 DEF DInv, TypeOK, Numbers, Coming
    <3>3. \A t \in {queue[v], s2c[v], Coming(v)} :
            /\ t \in Seq(Numbers)
            /\ Before(returned[v], t) /\ Before(<<ep.number>>, t)
      BY <2>1, <3>1, <3>2 DEF Ordered
    <3>4. \A t \in {queue[v], s2c[v], Coming(v)} : Before(returned'[v], t)
      BY <1>3, <3>1, <3>2, <3>3, AppendFacts
    <3>5. Increasing(returned'[v])
      BY <1>3, <2>1, <3>1, <3>2, AppendFacts DEF Ordered
    <3> QED
      BY <2>1, <3>4, <3>5, EmptyIsBefore DEF Ordered
  <2>3. CASE v # ep.wid
    <3>1. returned'[v] = returned[v]
      BY <1>1, <1>4, <2>3
    <3> QED
      BY <2>1, <3>1, EmptyIsBefore DEF Ordered
  <2> QED
    BY <2>2, <2>3
<1> QED
  BY <1>7, <1>8, <1>9, <1>10 DEF DInv

-----------------------------------------------------------------------------
(* The server's threads                                                    *)

LEMMA SendEventStep ==
  ASSUME DInv, NEW w \in Windows, SendEvent(w)
  PROVE  DInv'
<1>1. /\ srv' = [srv EXCEPT ![w] = "select"]
      /\ waiting_for_event[w] /\ queue[w] # <<>>
      /\ s2c' = [s2c EXCEPT ![w] = Append(@, Head(queue[w]))]
      /\ queue' = [queue EXCEPT ![w] = Tail(@)]
      /\ waiting_for_event' = [waiting_for_event EXCEPT ![w] = FALSE]
      /\ UNCHANGED <<clientVars, reqbuf, c2s, eventmask, mapped, produced, exposures>>
  BY DEF SendEvent, ThreadGoes
<1>2. /\ s2c \in [Windows -> Seq(Numbers)] /\ queue \in [Windows -> Seq(Numbers)]
      /\ waiting_for_event \in [Windows -> BOOLEAN] /\ queue[w] \in Seq(Numbers)
      /\ srv \in [Windows -> {"none", "loop", "select"}]
  BY DEF DInv, TypeOK, Numbers
<1>3. /\ s2c[w] = <<>> /\ Nexts(c2s[w]) = {} /\ getevent_active[w]
      /\ Once(c2s[w])
  BY <1>1 DEF DInv, OneRequest, Once
<1>4. Head(queue[w]) \in Numbers /\ Tail(queue[w]) \in Seq(Numbers)
  BY <1>1, <1>2, TailFacts
<1>5. /\ Append(s2c[w], Head(queue[w])) = <<Head(queue[w])>>
      /\ <<Head(queue[w])>> \in Seq(Numbers) /\ Len(<<Head(queue[w])>>) = 1
      /\ <<Head(queue[w])>> # <<>>
  BY <1>3, <1>4
<1>6. TypeOK'
  <2>1. /\ s2c' \in [Windows -> Seq(Numbers)] /\ queue' \in [Windows -> Seq(Numbers)]
        /\ waiting_for_event' \in [Windows -> BOOLEAN]
        /\ srv' \in [Windows -> {"none", "loop", "select"}]
    BY <1>1, <1>2, <1>4, <1>5
  <2> QED
    BY <1>1, <2>1 DEF DInv, TypeOK, Numbers, clientVars
<1>7. WillRead'
  BY <1>1, <1>2, <1>5 DEF DInv, TypeOK, WillRead, clientVars
<1>8. ASSUME NEW v \in Windows
      PROVE  OneRequest(v)'
  <2>0. (Nexts(c2s[v]))' = Nexts(c2s[v]) /\ c2s'[v] = c2s[v]
    BY <1>1 DEF Nexts
  <2>1. CASE v = w
    <3>1. /\ getevent_active'[v] /\ s2c'[v] = <<Head(queue[w])>>
          /\ ~ waiting_for_event'[v]
      BY <1>1, <1>2, <1>3, <1>5, <2>1 DEF clientVars
    <3> QED
      BY <1>3, <1>5, <2>0, <2>1, <3>1 DEF OneRequest, Once
  <2>2. CASE v # w
    <3>1. /\ getevent_active'[v] = getevent_active[v]
          /\ s2c'[v] = s2c[v] /\ waiting_for_event'[v] = waiting_for_event[v]
      BY <1>1, <1>2, <2>2 DEF clientVars
    <3> QED
      BY <2>0, <3>1 DEF DInv, OneRequest
  <2> QED
    BY <2>1, <2>2
<1>9. ASSUME NEW v \in Windows
      PROVE  Ordered(v)'
  <2>1. /\ returned'[v] = returned[v] /\ Held(v)' = Held(v) /\ Coming(v)' = Coming(v)
        /\ Ordered(v)
    BY <1>1 DEF DInv, clientVars, Held, Coming
  <2>2. CASE v = w
    <3>1. queue'[v] = Tail(queue[v]) /\ s2c'[v] = <<Head(queue[v])>>
      BY <1>1, <1>2, <1>5, <2>2
    <3>2. /\ \A t : Before(queue[v], t) => Before(Tail(queue[v]), t) /\ Before(<<Head(queue[v])>>, t)
          /\ \A t : Before(t, queue[v]) => Before(t, Tail(queue[v])) /\ Before(t, <<Head(queue[v])>>)
          /\ Increasing(queue[v]) =>
               Increasing(Tail(queue[v])) /\ Before(<<Head(queue[v])>>, Tail(queue[v]))
      BY <1>1, <1>2, <2>2, TailFacts
    <3> QED
      BY <2>1, <3>1, <3>2 DEF Ordered
  <2>3. CASE v # w
    <3>1. queue'[v] = queue[v] /\ s2c'[v] = s2c[v]
      BY <1>1, <1>2, <2>3
    <3> QED
      BY <2>1, <3>1 DEF Ordered
  <2> QED
    BY <2>2, <2>3
<1> QED
  BY <1>6, <1>7, <1>8, <1>9 DEF DInv

LEMMA NothingToSendStep ==
  ASSUME DInv, NEW w \in Windows, NothingToSend(w)
  PROVE  DInv'
<1>1. TypeOK'
  BY DEF NothingToSend, ThreadGoes, DInv, TypeOK, clientVars
<1>2. WillRead'
  BY DEF NothingToSend, DInv, WillRead, clientVars
<1>3. \A v \in Windows : OneRequest(v)' /\ Ordered(v)'
  BY WindowsKept DEF NothingToSend, clientVars
<1> QED
  BY <1>1, <1>2, <1>3 DEF DInv

LEMMA ThreadInterruptedStep ==
  ASSUME DInv, NEW w \in Windows, ThreadInterrupted(w)
  PROVE  DInv'
<1>1. TypeOK'
  BY DEF ThreadInterrupted, ThreadGoes, DInv, TypeOK, clientVars
<1>2. WillRead'
  BY DEF ThreadInterrupted, DInv, WillRead, clientVars
<1>3. \A v \in Windows : OneRequest(v)' /\ Ordered(v)'
  BY WindowsKept DEF ThreadInterrupted, clientVars
<1> QED
  BY <1>1, <1>2, <1>3 DEF DInv

\* A request that is read leaves the others where they were.
LEMMA ReadRequestFacts ==
  ASSUME DInv, NEW w \in Windows, NEW r, ReadRequest(w, r)
  PROVE  /\ srv' \in [Windows -> {"none", "loop", "select"}]
         /\ c2s' \in [Windows -> Seq(Wired)]
         /\ \A v \in Windows : Once(c2s'[v])
         /\ \A v \in Windows : v # w => c2s'[v] = c2s[v]
         /\ r = "next" => Nexts(c2s[w]) # {} /\ Nexts(c2s'[w]) = {}
         /\ r # "next" => (Nexts(c2s'[w]) # {} <=> Nexts(c2s[w]) # {})
         /\ WillRead'
         /\ UNCHANGED <<clientVars, reqbuf, s2c, exposures>>
<1>1. /\ c2s[w] # <<>> /\ Head(c2s[w]) = r
      /\ c2s' = [c2s EXCEPT ![w] = Tail(@)]
      /\ srv' = [srv EXCEPT ![w] = "loop"]
      /\ UNCHANGED <<clientVars, reqbuf, s2c, exposures>>
  BY DEF ReadRequest, ThreadGoes
<1>2. /\ c2s \in [Windows -> Seq(Wired)] /\ srv \in [Windows -> {"none", "loop", "select"}]
  BY DEF DInv, TypeOK, Wired
<1>3. \A v \in Windows : Once(c2s[v])
  BY DEF DInv, OneRequest, Once
<1>4. /\ Tail(c2s[w]) \in Seq(Wired) /\ Once(Tail(c2s[w]))
      /\ r = "next" => Nexts(c2s[w]) # {} /\ Nexts(Tail(c2s[w])) = {}
      /\ r # "next" => (Nexts(Tail(c2s[w])) # {} <=> Nexts(c2s[w]) # {})
  BY <1>1, <1>2, <1>3, NextIsTaken
<1>5. WillRead'
  BY <1>1 DEF DInv, WillRead, clientVars
<1> QED
  BY <1>1, <1>2, <1>3, <1>4, <1>5

LEMMA HandleNextStep ==
  ASSUME DInv, NEW w \in Windows, HandleNext(w)
  PROVE  DInv'
<1>1. /\ srv' \in [Windows -> {"none", "loop", "select"}]
      /\ c2s' \in [Windows -> Seq(Wired)]
      /\ \A v \in Windows : Once(c2s'[v])
      /\ \A v \in Windows : v # w => c2s'[v] = c2s[v]
      /\ Nexts(c2s[w]) # {} /\ Nexts(c2s'[w]) = {}
      /\ WillRead'
      /\ UNCHANGED <<clientVars, reqbuf, s2c, exposures>>
  BY ReadRequestFacts DEF HandleNext
<1>2. /\ waiting_for_event' = [waiting_for_event EXCEPT ![w] = TRUE]
      /\ UNCHANGED <<eventmask, mapped, queue, produced>>
  BY DEF HandleNext
<1>3. waiting_for_event \in [Windows -> BOOLEAN]
  BY DEF DInv, TypeOK
<1>4. TypeOK'
  <2>1. waiting_for_event' \in [Windows -> BOOLEAN]
    BY <1>2, <1>3
  <2> QED
    BY <1>1, <1>2, <2>1 DEF DInv, TypeOK, Wired, clientVars
<1>5. ASSUME NEW v \in Windows
      PROVE  OneRequest(v)'
  <2>0. (Nexts(c2s[v]))' = Nexts(c2s'[v])
    BY DEF Nexts
  <2>1. CASE v = w
    <3>1. /\ s2c[w] = <<>> /\ getevent_active[w] /\ Len(s2c[w]) <= 1
      BY <1>1 DEF DInv, OneRequest
    <3>2. /\ s2c'[v] = <<>> /\ getevent_active'[v] /\ waiting_for_event'[v]
          /\ Len(s2c'[v]) <= 1
      BY <1>1, <1>2, <1>3, <2>1, <3>1 DEF clientVars
    <3> QED
      BY <1>1, <2>0, <2>1, <3>2 DEF OneRequest, Once
  <2>2. CASE v # w
    <3>1. /\ getevent_active'[v] = getevent_active[v] /\ c2s'[v] = c2s[v]
          /\ s2c'[v] = s2c[v] /\ waiting_for_event'[v] = waiting_for_event[v]
      BY <1>1, <1>2, <1>3, <2>2 DEF clientVars
    <3> QED
      BY <3>1 DEF DInv, OneRequest, Nexts
  <2> QED
    BY <2>1, <2>2
<1>6. \A v \in Windows : Ordered(v)'
  BY <1>1, <1>2, OrderedKept DEF DInv, clientVars
<1> QED
  BY <1>1, <1>4, <1>5, <1>6 DEF DInv

\* Handlers of other requests leave it open whether an event is asked for.
LEMMA OtherRequest ==
  ASSUME DInv, NEW w \in Windows, NEW r, r # "next", ReadRequest(w, r),
         waiting_for_event' = waiting_for_event
  PROVE  \A v \in Windows : OneRequest(v)'
<1>1. /\ \A v \in Windows : Once(c2s'[v])
      /\ \A v \in Windows : v # w => c2s'[v] = c2s[v]
      /\ Nexts(c2s'[w]) # {} <=> Nexts(c2s[w]) # {}
      /\ UNCHANGED <<clientVars, reqbuf, s2c, exposures>>
  BY ReadRequestFacts
<1> SUFFICES ASSUME NEW v \in Windows PROVE OneRequest(v)'
  OBVIOUS
<1>2. Once(c2s[v])' /\ (Nexts(c2s[v]) # {})' <=> Nexts(c2s[v]) # {}
  BY <1>1 DEF Once, Nexts
<1>3. OneRequest(v)
  BY DEF DInv
<1> QED
  BY <1>1, <1>2, <1>3, OneRequestKept DEF clientVars

LEMMA HandleSelectEventsStep ==
  ASSUME DInv, NEW w \in Windows, HandleSelectEvents(w)
  PROVE  DInv'
<1>1. PICK r \in {"selectExposure", "selectNothing"} :
        /\ ReadRequest(w, r)
        /\ eventmask' = [eventmask EXCEPT ![w] = (r = "selectExposure")]
        /\ UNCHANGED <<waiting_for_event, mapped, queue, produced>>
  BY DEF HandleSelectEvents
<1>2. /\ srv' \in [Windows -> {"none", "loop", "select"}]
      /\ c2s' \in [Windows -> Seq(Wired)]
      /\ WillRead'
      /\ UNCHANGED <<clientVars, reqbuf, s2c, exposures>>
  BY <1>1, ReadRequestFacts
<1>3. TypeOK'
  BY <1>1, <1>2 DEF DInv, TypeOK, Wired, clientVars
<1>4. \A v \in Windows : OneRequest(v)'
  BY <1>1, OtherRequest
<1>5. \A v \in Windows : Ordered(v)'
  BY <1>1, <1>2, OrderedKept DEF DInv, clientVars
<1> QED
  BY <1>2, <1>3, <1>4, <1>5 DEF DInv

LEMMA HandleMapStep ==
  ASSUME DInv, NEW w \in Windows, HandleMap(w)
  PROVE  DInv'
<1>1. /\ ReadRequest(w, "map")
      /\ mapped' = [mapped EXCEPT ![w] = TRUE]
      /\ DeliverExposure(w, ~ mapped[w])
      /\ UNCHANGED <<waiting_for_event, eventmask>>
  BY DEF HandleMap
<1>2. /\ srv' \in [Windows -> {"none", "loop", "select"}]
      /\ c2s' \in [Windows -> Seq(Wired)]
      /\ WillRead'
      /\ UNCHANGED <<clientVars, reqbuf, s2c, exposures>>
  BY <1>1, ReadRequestFacts
<1>3. mapped \in [Windows -> BOOLEAN] /\ (~ mapped[w]) \in BOOLEAN
  BY DEF DInv, TypeOK
<1>4. /\ produced' \in [Windows -> Nat]
      /\ queue' \in [Windows -> Seq(Nat \ {0})]
      /\ \A v \in Windows : Ordered(v)'
  BY <1>1, <1>2, <1>3, DeliverStep DEF clientVars
<1>5. TypeOK'
  <2>1. mapped' \in [Windows -> BOOLEAN]
    BY <1>1, <1>3
  <2> QED
    BY <1>1, <1>2, <1>4, <2>1 DEF DInv, TypeOK, Wired, clientVars
<1>6. \A v \in Windows : OneRequest(v)'
  BY <1>1, OtherRequest
<1> QED
  BY <1>2, <1>4, <1>5, <1>6 DEF DInv

LEMMA HandleDrawStep ==
  ASSUME DInv, NEW w \in Windows, HandleDraw(w)
  PROVE  DInv'
<1>1. ReadRequest(w, "draw")
      /\ UNCHANGED <<waiting_for_event, eventmask, mapped, queue, produced>>
  BY DEF HandleDraw
<1>2. /\ srv' \in [Windows -> {"none", "loop", "select"}]
      /\ c2s' \in [Windows -> Seq(Wired)]
      /\ WillRead'
      /\ UNCHANGED <<clientVars, reqbuf, s2c, exposures>>
  BY <1>1, ReadRequestFacts
<1>3. TypeOK'
  BY <1>1, <1>2 DEF DInv, TypeOK, Wired, clientVars
<1>4. \A v \in Windows : OneRequest(v)'
  BY <1>1, OtherRequest
<1>5. \A v \in Windows : Ordered(v)'
  BY <1>1, <1>2, OrderedKept DEF DInv, clientVars
<1> QED
  BY <1>2, <1>3, <1>4, <1>5 DEF DInv

LEMMA ExposeStep ==
  ASSUME DInv, NEW w \in Windows, Expose(w)
  PROVE  DInv'
<1>1. /\ exposures < MaxExposures /\ exposures' = exposures + 1
      /\ DeliverExposure(w, mapped[w])
      /\ UNCHANGED <<clientVars, reqbuf, c2s, s2c, srv, waiting_for_event, eventmask, mapped>>
  BY DEF Expose
<1>2. mapped[w] \in BOOLEAN /\ exposures' \in 0..MaxExposures
  BY <1>1, DeliveryAssumption DEF DInv, TypeOK
<1>3. /\ produced' \in [Windows -> Nat]
      /\ queue' \in [Windows -> Seq(Nat \ {0})]
      /\ \A v \in Windows : Ordered(v)'
  BY <1>1, <1>2, DeliverStep DEF clientVars
<1>4. TypeOK'
  BY <1>1, <1>2, <1>3 DEF DInv, TypeOK, clientVars
<1>5. WillRead'
  BY <1>1 DEF DInv, WillRead, clientVars
<1>6. ASSUME NEW v \in Windows
      PROVE  OneRequest(v)'
  BY <1>1 DEF DInv, OneRequest, Nexts, clientVars
<1> QED
  BY <1>3, <1>4, <1>5, <1>6 DEF DInv

LEMMA NextDInv ==
  ASSUME DInv, [Next]_vars
  PROVE  DInv'
<1>1. CASE ClientLoop
  BY <1>1, CallGetNextEventStep, AskWindowStep, AllAskedStep, ClientSelectStep, ReadWindowStep,
     ReturnEventStep DEF ClientLoop
<1>2. ASSUME NEW w \in Windows, CreateWindow(w) \/ \E r \in RequestsOf[w] : BufferRequest(w, r)
      PROVE  DInv'
  <2>1. RequestsOf[w] \subseteq Requests
    BY DeliveryAssumption
  <2> QED
    BY <1>2, <2>1, CreateWindowStep, BufferRequestStep
<1>3. ASSUME NEW w \in Windows, Thread(w) \/ ThreadInterrupted(w)
      PROVE  DInv'
  BY <1>3, SendEventStep, NothingToSendStep, HandleNextStep, HandleSelectEventsStep,
     HandleMapStep, HandleDrawStep, ThreadInterruptedStep DEF Thread
<1>4. ASSUME NEW w \in Windows, Expose(w)
      PROVE  DInv'
  BY <1>4, ExposeStep
<1>5. CASE UNCHANGED vars
  <2>1. TypeOK' /\ WillRead'
    BY <1>5 DEF DInv, TypeOK, WillRead, vars, clientVars, serverVars
  <2>2. \A v \in Windows : OneRequest(v)' /\ Ordered(v)'
    BY <1>5, WindowsKept DEF vars, clientVars, serverVars
  <2> QED
    BY <2>1, <2>2 DEF DInv
<1> QED
  BY <1>1, <1>2, <1>3, <1>4, <1>5, SelectInterruptedStep DEF Next

-----------------------------------------------------------------------------
(* Theorems                                                                *)

\* Requests for events and the events along their way are accounted for, at
\* every moment of the client's and the threads' work (kwgscli_event.c:102-160,
\* kwgssrv_wnd.c:259-295).
THEOREM DeliveryInvariant == Spec => []DInv
<1>1. Init => DInv
  BY InitDInv
<1>2. DInv /\ [Next]_vars => DInv'
  BY NextDInv
<1> QED
  BY <1>1, <1>2, PTL DEF Spec

\* Client and server agree on which windows were asked for an event: there is one
\* request, one thread that waits or one event for each of them, and none for the
\* others.
THEOREM AskedOnce == Spec => []OneRequestOutstanding
<1>1. DInv => OneRequestOutstanding
  BY DEF DInv, OneRequestOutstanding
<1> QED
  BY <1>1, DeliveryInvariant, PTL

\* KGetNextEvent returns the events of a window in their order and none twice,
\* with any number of windows.
THEOREM EventsInOrder == Spec => []ReturnedInOrder
<1>1. DInv => ReturnedInOrder
  BY DEF DInv, Ordered, Increasing, ReturnedInOrder
<1> QED
  BY <1>1, DeliveryInvariant, PTL

-----------------------------------------------------------------------------
(* Every event is on its way: the numbers on a window's way are in order,  *)
(* and there are as many of them as events, as long as the client has one  *)
(* window.                                                                 *)

HeldCount(w) == IF ep.wid = w /\ ep.number # 0 THEN 1 ELSE 0

Single == \A v, w \in wndlist : v = w

\* No number on the way of w is missing.
Counted(w) ==
  Len(returned[w]) + HeldCount(w) + Len(s2c[w]) + Len(queue[w]) = produced[w]

\* Nothing happens to a window before it is created.
Unborn(w) ==
  /\ srv[w] = "none" /\ ~ mapped[w] /\ produced[w] = 0
  /\ s2c[w] = <<>> /\ queue[w] = <<>> /\ returned[w] = <<>>

\* The client's own variables: it holds an event only between the two ends of
\* the second loop, and of a window it created.
ClientOK ==
  /\ client.at # "read" => ep.number = 0
  /\ client.todo \subseteq wndlist
  /\ ep.number # 0 => ep.wid \in wndlist

\* With one window there is one event to read, and *ep is free for it.
Kept ==
  Single =>
    /\ client.at = "read" /\ client.todo # {} => ep.number = 0
    /\ \A w \in Windows : Counted(w)

CInv == ClientOK /\ (\A w \in Windows \ wndlist : Unborn(w)) /\ Kept

-----------------------------------------------------------------------------
(* Sequences that are in order and miss no number                          *)

LEMMA LeastNumber ==
  ASSUME NEW T, T \subseteq Nat, T # {}
  PROVE  \E n \in T : \A k \in T : n <= k
<1> DEFINE R == {p \in Nat \X Nat : p[1] < p[2]}
<1>1. IsWellFoundedOn(R, Nat)
  BY NatLessThanWellFounded DEF OpToRel
<1> HIDE DEF R
<1>2. PICK n \in T : \A k \in T : ~(<<k, n>> \in R)
  BY <1>1, WFMin
<1>3. ASSUME NEW k \in T, k < n PROVE FALSE
  BY <1>2, <1>3, T \subseteq Nat DEF R
<1>4. QED
  BY <1>3, T \subseteq Nat

\* n numbers in increasing order, none of them above n, are 1, 2, ... n.
LEMMA NoneMissing ==
  ASSUME NEW n \in Nat, NEW s \in Seq(Numbers), Len(s) = n, Increasing(s),
         \A i \in 1..n : s[i] <= n
  PROVE  s = [i \in 1..n |-> i]
<1>1. DOMAIN s = 1..n /\ \A i \in 1..n : s[i] \in Nat /\ 1 <= s[i] /\ s[i] <= n
  BY DEF Numbers
<1>2. \A i, j \in 1..n : i < j => s[i] < s[j]
  BY <1>1 DEF Increasing
<1>3. ASSUME NEW i \in 1..n, s[i] < i PROVE FALSE
  <2> DEFINE Low == {k \in 1..n : s[k] < k}
  <2>1. Low \subseteq Nat /\ Low # {}
    BY <1>3
  <2>2. PICK k \in Low : \A m \in Low : k <= m
    BY <2>1, LeastNumber
  <2>3. k \in 1..n /\ s[k] < k /\ k \in Nat
    BY <2>2
  <2>4. k # 1
    BY <1>1, <2>3
  <2>5. k - 1 \in 1..n /\ k - 1 < k
    BY <2>3, <2>4
  <2>6. s[k - 1] < s[k]
    BY <1>2, <2>3, <2>5
  <2>7. k - 1 \notin Low
    BY <2>2, <2>3, <2>5
  <2>8. ~ (s[k - 1] < k - 1)
    BY <2>5, <2>7
  <2> QED
    BY <1>1, <2>3, <2>5, <2>6, <2>8
<1>4. ASSUME NEW i \in 1..n, s[i] > i PROVE FALSE
  <2> DEFINE High == {k \in 0..(n - 1) : s[n - k] > n - k}
  <2>1. n - i \in 0..(n - 1) /\ n - (n - i) = i
    OBVIOUS
  <2>2. n - i \in High /\ High \subseteq Nat
    BY <1>4, <2>1
  <2>3. PICK k \in High : \A m \in High : k <= m
    BY <2>2, LeastNumber
  <2>4. k \in 0..(n - 1) /\ s[n - k] > n - k /\ n - k \in 1..n
    BY <2>3
  <2>5. k # 0
    <3>1. ASSUME k = 0 PROVE FALSE
      <4>1. n - k = n
        BY <3>1
      <4>2. n \in 1..n /\ s[n] <= n /\ s[n] > n /\ s[n] \in Nat
        BY <1>1, <2>4, <4>1
      <4> QED
        BY <4>2
    <3> QED
      BY <3>1
  <2>6. /\ k - 1 \in 0..(n - 1) /\ k - 1 < k /\ n - (k - 1) = n - k + 1
        /\ n - k + 1 \in 1..n /\ n - k < n - k + 1
    BY <2>4, <2>5
  <2>7. s[n - k] < s[n - k + 1]
    BY <1>2, <2>4, <2>6
  <2>8. k - 1 \notin High
    <3>1. ASSUME k - 1 \in High PROVE FALSE
      <4>1. k <= k - 1
        BY <2>3, <3>1
      <4> QED
        BY <2>4, <4>1
    <3> QED
      BY <3>1
  <2>9. ~ (s[n - k + 1] > n - k + 1)
    <3>1. ~ (s[n - (k - 1)] > n - (k - 1))
      BY <2>6, <2>8
    <3> QED
      BY <2>6, <3>1
  <2>10. s[n - k] \in Nat /\ s[n - k + 1] \in Nat /\ n - k \in Nat
    BY <1>1, <2>4, <2>6
  <2> QED
    BY <2>4, <2>7, <2>9, <2>10
<1>5. \A i \in 1..n : s[i] = i
  BY <1>1, <1>3, <1>4
<1> QED
  BY <1>1, <1>5

LEMMA ConcatOrdered ==
  ASSUME NEW s \in Seq(Numbers), NEW t \in Seq(Numbers), Increasing(s), Increasing(t),
         Before(s, t)
  PROVE  /\ s \o t \in Seq(Numbers) /\ Len(s \o t) = Len(s) + Len(t)
         /\ Increasing(s \o t)
<1>1. /\ s \o t \in Seq(Numbers) /\ Len(s \o t) = Len(s) + Len(t)
      /\ DOMAIN (s \o t) = 1..(Len(s) + Len(t))
      /\ DOMAIN s = 1..Len(s) /\ DOMAIN t = 1..Len(t)
      /\ Len(s) \in Nat /\ Len(t) \in Nat
      /\ \A i \in 1..(Len(s) + Len(t)) :
           (s \o t)[i] = IF i <= Len(s) THEN s[i] ELSE t[i - Len(s)]
  BY ConcatProperties
<1>2. ASSUME NEW i \in 1..(Len(s) + Len(t)), NEW j \in 1..(Len(s) + Len(t)), i < j
      PROVE  (s \o t)[i] < (s \o t)[j]
  <2>1. CASE j <= Len(s)
    <3>1. i \in DOMAIN s /\ j \in DOMAIN s /\ i <= Len(s)
      BY <1>1, <1>2, <2>1
    <3>2. s[i] < s[j]
      BY <1>2, <3>1 DEF Increasing
    <3> QED
      BY <1>1, <2>1, <3>1, <3>2
  <2>2. CASE i <= Len(s) /\ ~ (j <= Len(s))
    <3>1. i \in DOMAIN s /\ j - Len(s) \in DOMAIN t
      BY <1>1, <1>2, <2>2
    <3>2. s[i] < t[j - Len(s)]
      BY <3>1 DEF Before
    <3> QED
      BY <1>1, <2>2, <3>2
  <2>3. CASE ~ (i <= Len(s))
    <3>1. ~ (j <= Len(s)) /\ i - Len(s) \in DOMAIN t /\ j - Len(s) \in DOMAIN t
          /\ i - Len(s) < j - Len(s)
      BY <1>1, <1>2, <2>3
    <3>2. t[i - Len(s)] < t[j - Len(s)]
      BY <3>1 DEF Increasing
    <3> QED
      BY <1>1, <2>3, <3>1, <3>2
  <2> QED
    BY <2>1, <2>2, <2>3
<1>3. Increasing(s \o t)
  BY <1>1, <1>2 DEF Increasing
<1> QED
  BY <1>1, <1>3

LEMMA ConcatBefore ==
  ASSUME NEW s \in Seq(Numbers), NEW t \in Seq(Numbers), NEW u \in Seq(Numbers),
         Before(s, u), Before(t, u)
  PROVE  Before(s \o t, u)
<1>1. /\ DOMAIN (s \o t) = 1..(Len(s) + Len(t))
      /\ DOMAIN s = 1..Len(s) /\ DOMAIN t = 1..Len(t)
      /\ Len(s) \in Nat /\ Len(t) \in Nat
      /\ \A i \in 1..(Len(s) + Len(t)) :
           (s \o t)[i] = IF i <= Len(s) THEN s[i] ELSE t[i - Len(s)]
  BY ConcatProperties
<1>2. ASSUME NEW i \in 1..(Len(s) + Len(t)), NEW j \in DOMAIN u
      PROVE  (s \o t)[i] < u[j]
  <2>1. CASE i <= Len(s)
    <3>1. i \in DOMAIN s
      BY <1>1, <2>1
    <3> QED
      BY <1>1, <2>1, <3>1 DEF Before
  <2>2. CASE ~ (i <= Len(s))
    <3>1. i - Len(s) \in DOMAIN t
      BY <1>1, <2>2
    <3> QED
      BY <1>1, <2>2, <3>1 DEF Before
  <2> QED
    BY <2>1, <2>2
<1> QED
  BY <1>1, <1>2 DEF Before

\* The way of w as a whole.
LEMMA WayIsOrdered ==
  ASSUME NEW a \in Seq(Numbers), NEW b \in Seq(Numbers), NEW c \in Seq(Numbers),
         NEW d \in Seq(Numbers), NEW n \in Nat,
         Increasing(a), Increasing(b), Increasing(c), Increasing(d),
         Before(a, b), Before(a, c), Before(a, d), Before(b, c), Before(b, d), Before(c, d),
         Before(a, <<n + 1>>), Before(b, <<n + 1>>), Before(c, <<n + 1>>),
         Before(d, <<n + 1>>),
         Len(a) + Len(b) + Len(c) + Len(d) = n
  PROVE  a \o b \o c \o d = [i \in 1..n |-> i]
<1>1. a \o b \in Seq(Numbers) /\ Len(a \o b) = Len(a) + Len(b) /\ Increasing(a \o b)
  BY ConcatOrdered
<1>2. Before(a \o b, c) /\ Before(a \o b, d)
  BY ConcatBefore
<1>3. <<n + 1>> \in Seq(Numbers)
  <2>1. n + 1 \in Numbers
    BY DEF Numbers
  <2> QED
    BY <2>1
<1>4. Before(a \o b, <<n + 1>>)
  BY <1>3, ConcatBefore
<1>5. PICK e \in Seq(Numbers) : e = a \o b
  BY <1>1
<1>6. e \o c \in Seq(Numbers) /\ Len(e \o c) = Len(e) + Len(c) /\ Increasing(e \o c)
  BY <1>1, <1>2, <1>5, ConcatOrdered
<1>7. Before(e \o c, d)
  BY <1>2, <1>5, ConcatBefore
<1>8. Before(e \o c, <<n + 1>>)
  BY <1>3, <1>4, <1>5, ConcatBefore
<1>9. PICK f \in Seq(Numbers) : f = e \o c
  BY <1>6
<1>10. f \o d \in Seq(Numbers) /\ Len(f \o d) = Len(f) + Len(d) /\ Increasing(f \o d)
  BY <1>6, <1>7, <1>9, ConcatOrdered
<1>11. Before(f \o d, <<n + 1>>)
  BY <1>3, <1>8, <1>9, ConcatBefore
<1>12. Len(f \o d) = n
  <2>1. Len(f) = Len(a) + Len(b) + Len(c)
    BY <1>1, <1>5, <1>6, <1>9
  <2> QED
    BY <1>10, <2>1
<1>13. PICK g \in Seq(Numbers) : g = f \o d
  BY <1>10
<1>14. \A i \in 1..n : g[i] <= n
  <2>1. DOMAIN g = 1..n /\ DOMAIN <<n + 1>> = {1} /\ <<n + 1>>[1] = n + 1
    BY <1>12, <1>13
  <2>2. \A i \in 1..n : g[i] < n + 1 /\ g[i] \in Nat
    <3>1. \A i \in 1..n : g[i] < n + 1
      BY <1>11, <1>13, <2>1 DEF Before
    <3> QED
      BY <2>1, <3>1 DEF Numbers
  <2> QED
    BY <2>2
<1>15. g = [i \in 1..n |-> i]
  BY <1>10, <1>12, <1>13, <1>14, NoneMissing
<1> QED
  BY <1>5, <1>9, <1>13, <1>15

-----------------------------------------------------------------------------
(* The steps                                                               *)

LEMMA CountTypes ==
  ASSUME TypeOK
  PROVE  \A v \in Windows : /\ Len(returned[v]) \in Nat /\ Len(s2c[v]) \in Nat
                            /\ Len(queue[v]) \in Nat /\ produced[v] \in Nat
                            /\ HeldCount(v) \in {0, 1}
BY DEF TypeOK, HeldCount

LEMMA InitCInv ==
  ASSUME Init
  PROVE  CInv
<1>1. ep.number = 0
  BY DEF Init, NoEvent
<1>2. ClientOK
  BY <1>1 DEF Init, ClientOK
<1>3. \A w \in Windows : Unborn(w)
  BY DEF Init, Unborn
<1>4. \A w \in Windows : Counted(w)
  <2> SUFFICES ASSUME NEW w \in Windows PROVE Counted(w)
    OBVIOUS
  <2>1. HeldCount(w) = 0
    BY <1>1 DEF HeldCount
  <2>2. returned[w] = <<>> /\ s2c[w] = <<>> /\ queue[w] = <<>> /\ produced[w] = 0
    BY DEF Init
  <2> QED
    BY <2>1, <2>2 DEF Counted
<1> QED
  BY <1>1, <1>2, <1>3, <1>4 DEF CInv, Kept

\* What concerns neither events nor the client's windows.
LEMMA CountKept ==
  ASSUME CInv, UNCHANGED <<client, wndlist, ep, returned, s2c, queue, produced, mapped>>,
         \A w \in Windows \ wndlist : srv'[w] = srv[w]
  PROVE  CInv'
<1>1. ClientOK'
  BY DEF CInv, ClientOK
<1>2. \A w \in Windows \ wndlist : Unborn(w)'
  BY DEF CInv, Unborn
<1>3. Kept'
  BY DEF CInv, Kept, Single, Counted, HeldCount
<1> QED
  BY <1>1, <1>2, <1>3 DEF CInv

\* Steps of the client that move no event.
LEMMA ClientWalks ==
  ASSUME CInv, UNCHANGED <<wndlist, ep, returned, s2c, serverVars>>,
         ep.number = 0, client'.todo \subseteq wndlist
  PROVE  CInv'
<1>1. ClientOK'
  BY DEF CInv, ClientOK
<1>2. \A w \in Windows \ wndlist : Unborn(w)'
  BY DEF CInv, Unborn, serverVars
<1>3. Kept'
  BY DEF CInv, Kept, Single, Counted, HeldCount, serverVars
<1> QED
  BY <1>1, <1>2, <1>3 DEF CInv

LEMMA CreateWindowCounts ==
  ASSUME DInv, CInv, NEW w \in Windows, CreateWindow(w)
  PROVE  CInv'
<1>1. /\ client.at = "app" /\ w \notin wndlist /\ wndlist' = wndlist \cup {w}
      /\ srv' = [srv EXCEPT ![w] = "loop"]
      /\ UNCHANGED <<client, ep, returned, s2c, queue, produced, mapped>>
  BY DEF CreateWindow
<1>2. srv \in [Windows -> {"none", "loop", "select"}]
  BY DEF DInv, TypeOK
<1>3. ClientOK'
  BY <1>1 DEF CInv, ClientOK
<1>4. \A v \in Windows \ wndlist' : Unborn(v)'
  BY <1>1, <1>2 DEF CInv, Unborn
<1>5. Kept'
  <2>1. Single' => Single
    BY <1>1 DEF Single
  <2>2. \A v \in Windows : Counted(v) => Counted(v)'
    BY <1>1 DEF Counted, HeldCount
  <2> QED
    BY <1>1, <2>1, <2>2 DEF CInv, Kept
<1> QED
  BY <1>3, <1>4, <1>5 DEF CInv

LEMMA ReadWindowCounts ==
  ASSUME DInv, CInv, NEW w \in Windows, ReadWindow(w)
  PROVE  CInv'
<1>1. /\ client.at = "read" /\ w \in client.todo
      /\ client' = [client EXCEPT !.todo = @ \ {w}]
      /\ ep' = [wid |-> w, number |-> Head(s2c[w])]
      /\ s2c' = [s2c EXCEPT ![w] = Tail(@)]
      /\ UNCHANGED <<wndlist, returned, srv, mapped, queue, produced>>
  BY DEF ReadWindow, serverVars
<1>2. /\ s2c \in [Windows -> Seq(Numbers)] /\ s2c[w] \in Seq(Numbers) /\ s2c[w] # <<>>
      /\ client \in [at : {"app", "ask", "select", "read"}, todo : SUBSET Windows]
  BY <1>1 DEF DInv, TypeOK, WillRead, Numbers
<1>3. Head(s2c[w]) \in Numbers /\ Len(Tail(s2c[w])) = Len(s2c[w]) - 1
  BY <1>2, TailFacts
<1>4. /\ client'.at = "read" /\ client'.todo = client.todo \ {w}
      /\ ep'.wid = w /\ ep'.number = Head(s2c[w]) /\ ep'.number # 0
      /\ w \in wndlist
  BY <1>1, <1>2, <1>3 DEF CInv, ClientOK, Numbers
<1>5. ClientOK'
  BY <1>1, <1>4 DEF CInv, ClientOK
<1>6. \A v \in Windows \ wndlist' : Unborn(v)'
  BY <1>1, <1>2, <1>4 DEF CInv, Unborn
<1>7. ASSUME Single PROVE client'.todo = {} /\ \A v \in Windows : Counted(v)'
  <2>1. client'.todo = {}
    BY <1>4, <1>7 DEF CInv, ClientOK, Single
  <2>2. ep.number = 0 /\ \A v \in Windows : Counted(v)
    BY <1>1, <1>7 DEF CInv, Kept
  <2>3. ASSUME NEW v \in Windows PROVE Counted(v)'
    <3>0. /\ Len(returned[v]) \in Nat /\ Len(s2c[v]) \in Nat
          /\ Len(queue[v]) \in Nat /\ produced[v] \in Nat
      BY CountTypes DEF DInv
    <3>1. /\ HeldCount(v) = 0 /\ returned'[v] = returned[v] /\ queue'[v] = queue[v]
          /\ produced'[v] = produced[v]
      BY <1>1, <2>2 DEF HeldCount
    <3>2. CASE v = w
      <4>1. HeldCount(v)' = 1 /\ Len(s2c'[v]) = Len(s2c[v]) - 1
        BY <1>1, <1>2, <1>3, <1>4, <3>2 DEF HeldCount
      <4>2. PICK a, c, d, n \in Nat : /\ a = Len(returned[v]) /\ c = Len(s2c[v])
                                      /\ d = Len(queue[v]) /\ n = produced[v]
        BY <3>0
      <4>3. a + 0 + c + d = n
        BY <2>2, <3>1, <4>2 DEF Counted
      <4>4. Counted(v)' <=> a + 1 + (c - 1) + d = n
        BY <3>1, <4>1, <4>2 DEF Counted
      <4> QED
        BY <4>3, <4>4
    <3>3. CASE v # w
      <4>1. HeldCount(v)' = 0 /\ s2c'[v] = s2c[v]
        BY <1>1, <1>2, <1>4, <3>3 DEF HeldCount
      <4> QED
        BY <2>2, <3>1, <4>1 DEF Counted
    <3> QED
      BY <3>2, <3>3
  <2> QED
    BY <2>1, <2>3
<1>8. Kept'
  <2>1. Single' <=> Single
    BY <1>1 DEF Single
  <2> QED
    BY <1>7, <2>1 DEF Kept
<1> QED
  BY <1>5, <1>6, <1>8 DEF CInv

LEMMA ReturnEventCounts ==
  ASSUME DInv, CInv, ReturnEvent
  PROVE  CInv'
<1>1. /\ client.at = "read" /\ client.todo = {}
      /\ client' = [at |-> "app", todo |-> {}]
      /\ returned' = [returned EXCEPT ![ep.wid] = Append(@, ep.number)]
      /\ ep' = NoEvent
      /\ UNCHANGED <<wndlist, s2c, srv, mapped, queue, produced>>
  BY DEF ReturnEvent, ClientGoes, serverVars
<1>2. /\ returned \in [Windows -> Seq(Numbers)] /\ ep.wid \in Windows
      /\ ep.number \in Numbers
  BY <1>1 DEF DInv, TypeOK, WillRead, Numbers
<1>3. ep'.number = 0 /\ client'.at = "app" /\ client'.todo = {}
  BY <1>1 DEF NoEvent
<1>4. ep.wid \in wndlist
  BY <1>2 DEF CInv, ClientOK, Numbers
<1>5. ClientOK'
  BY <1>3 DEF ClientOK
<1>6. \A v \in Windows \ wndlist' : Unborn(v)'
  BY <1>1, <1>2, <1>4 DEF CInv, Unborn
<1>7. ASSUME NEW v \in Windows, Counted(v) PROVE Counted(v)'
  <2>0. /\ Len(returned[v]) \in Nat /\ Len(s2c[v]) \in Nat
        /\ Len(queue[v]) \in Nat /\ produced[v] \in Nat
    BY CountTypes DEF DInv
  <2>1. /\ HeldCount(v)' = 0 /\ s2c'[v] = s2c[v] /\ queue'[v] = queue[v]
        /\ produced'[v] = produced[v]
    BY <1>1, <1>3 DEF HeldCount
  <2>2. CASE v = ep.wid
    <3>1. returned[v] \in Seq(Numbers) /\ returned'[v] = Append(returned[v], ep.number)
      BY <1>1, <1>2, <2>2
    <3>2. Len(returned'[v]) = Len(returned[v]) + 1
      BY <1>2, <3>1
    <3>3. HeldCount(v) = 1
      BY <1>2, <2>2 DEF HeldCount, Numbers
    <3>4. PICK a, c, d, n \in Nat : /\ a = Len(returned[v]) /\ c = Len(s2c[v])
                                    /\ d = Len(queue[v]) /\ n = produced[v]
      BY <2>0
    <3>5. a + 1 + c + d = n
      BY <1>7, <3>3, <3>4 DEF Counted
    <3>6. Counted(v)' <=> (a + 1) + 0 + c + d = n
      BY <2>1, <3>2, <3>4 DEF Counted
    <3> QED
      BY <3>5, <3>6
  <2>3. CASE v # ep.wid
    <3>1. returned'[v] = returned[v] /\ HeldCount(v) = 0
      BY <1>1, <1>2, <2>3 DEF HeldCount
    <3> QED
      BY <1>7, <2>1, <3>1 DEF Counted
  <2> QED
    BY <2>2, <2>3
<1>8. Kept'
  <2>1. Single' <=> Single
    BY <1>1 DEF Single
  <2> QED
    BY <1>3, <1>7, <2>1 DEF CInv, Kept
<1> QED
  BY <1>5, <1>6, <1>8 DEF CInv

\* What a thread does leaves the client alone, and concerns a window that exists.
LEMMA ThreadCounts ==
  ASSUME CInv, NEW w \in wndlist, UNCHANGED <<client, wndlist, ep, returned>>,
         \A v \in Windows : v # w =>
           /\ srv'[v] = srv[v] /\ mapped'[v] = mapped[v] /\ produced'[v] = produced[v]
           /\ s2c'[v] = s2c[v] /\ queue'[v] = queue[v],
         Counted(w) => Counted(w)'
  PROVE  CInv'
<1>1. ClientOK'
  BY DEF CInv, ClientOK
<1>2. \A v \in Windows \ wndlist' : Unborn(v)'
  BY DEF CInv, Unborn
<1>3. \A v \in Windows : v # w /\ Counted(v) => Counted(v)'
  BY DEF Counted, HeldCount
<1>4. Kept'
  BY <1>3 DEF CInv, Kept, Single
<1> QED
  BY <1>1, <1>2, <1>4 DEF CInv

LEMMA SendEventCounts ==
  ASSUME DInv, CInv, NEW w \in Windows, SendEvent(w)
  PROVE  CInv'
<1>1. /\ srv[w] = "loop" /\ srv' = [srv EXCEPT ![w] = "select"]
      /\ queue[w] # <<>>
      /\ s2c' = [s2c EXCEPT ![w] = Append(@, Head(queue[w]))]
      /\ queue' = [queue EXCEPT ![w] = Tail(@)]
      /\ UNCHANGED <<client, wndlist, ep, returned, mapped, produced>>
  BY DEF SendEvent, ThreadGoes, clientVars
<1>2. /\ s2c \in [Windows -> Seq(Numbers)] /\ queue \in [Windows -> Seq(Numbers)]
      /\ srv \in [Windows -> {"none", "loop", "select"}]
      /\ s2c[w] \in Seq(Numbers) /\ queue[w] \in Seq(Numbers)
  BY DEF DInv, TypeOK, Numbers
<1>3. w \in wndlist
  BY <1>1 DEF CInv, Unborn
<1>4. Len(s2c'[w]) = Len(s2c[w]) + 1 /\ Len(queue'[w]) = Len(queue[w]) - 1
  <2>1. s2c'[w] = Append(s2c[w], Head(queue[w])) /\ queue'[w] = Tail(queue[w])
    BY <1>1, <1>2
  <2>2. Head(queue[w]) \in Numbers
    BY <1>1, <1>2, TailFacts
  <2> QED
    BY <1>1, <1>2, <2>1, <2>2
<1>5. Counted(w) => Counted(w)'
  <2>1. HeldCount(w)' = HeldCount(w) /\ returned'[w] = returned[w] /\ produced'[w] = produced[w]
    BY <1>1 DEF HeldCount
  <2>2. /\ Len(returned[w]) \in Nat /\ Len(s2c[w]) \in Nat
        /\ Len(queue[w]) \in Nat /\ produced[w] \in Nat /\ HeldCount(w) \in {0, 1}
    BY CountTypes DEF DInv
  <2>3. PICK a, c, d, n \in Nat, h \in {0, 1} :
          /\ a = Len(returned[w]) /\ h = HeldCount(w) /\ c = Len(s2c[w])
          /\ d = Len(queue[w]) /\ n = produced[w]
    BY <2>2
  <2>4. Counted(w) <=> a + h + c + d = n
    BY <2>3 DEF Counted
  <2>5. Counted(w)' <=> a + h + (c + 1) + (d - 1) = n
    BY <1>4, <2>1, <2>3 DEF Counted
  <2> QED
    BY <2>4, <2>5
<1> QED
  BY <1>1, <1>2, <1>3, <1>5, ThreadCounts

\* An event that is delivered is counted where it is put.
LEMMA DeliverCounts ==
  ASSUME DInv, CInv, NEW w \in wndlist, NEW isMapped, DeliverExposure(w, isMapped),
         UNCHANGED <<client, wndlist, ep, returned, s2c>>,
         \A v \in Windows : v # w => srv'[v] = srv[v] /\ mapped'[v] = mapped[v]
  PROVE  CInv'
<1>0. w \in Windows /\ queue \in [Windows -> Seq(Numbers)] /\ produced \in [Windows -> Nat]
  BY DEF DInv, TypeOK, Numbers
<1>1. CASE isMapped /\ eventmask[w]
  <2>1. /\ produced' = [produced EXCEPT ![w] = @ + 1]
        /\ queue' = [queue EXCEPT ![w] = Append(@, produced[w] + 1)]
    BY <1>1 DEF DeliverExposure
  <2>2. /\ produced'[w] = produced[w] + 1 /\ queue'[w] = Append(queue[w], produced[w] + 1)
        /\ produced[w] + 1 \in Numbers /\ queue[w] \in Seq(Numbers)
    BY <1>0, <2>1 DEF Numbers
  <2>3. Len(queue'[w]) = Len(queue[w]) + 1
    BY <2>2
  <2>4. HeldCount(w)' = HeldCount(w) /\ returned'[w] = returned[w] /\ s2c'[w] = s2c[w]
    BY DEF HeldCount
  <2>5. /\ Len(returned[w]) \in Nat /\ Len(s2c[w]) \in Nat
        /\ Len(queue[w]) \in Nat /\ produced[w] \in Nat /\ HeldCount(w) \in {0, 1}
    BY <1>0, CountTypes DEF DInv
  <2>6. Counted(w) => Counted(w)'
    <3>1. PICK a, c, d, n \in Nat, h \in {0, 1} :
            /\ a = Len(returned[w]) /\ h = HeldCount(w) /\ c = Len(s2c[w])
            /\ d = Len(queue[w]) /\ n = produced[w]
      BY <2>5
    <3>2. Counted(w) <=> a + h + c + d = n
      BY <3>1 DEF Counted
    <3>3. Counted(w)' <=> a + h + c + (d + 1) = n + 1
      BY <2>2, <2>3, <2>4, <3>1 DEF Counted
    <3> QED
      BY <3>2, <3>3
  <2>7. \A v \in Windows : v # w => produced'[v] = produced[v] /\ queue'[v] = queue[v]
    BY <1>0, <2>1
  <2> QED
    BY <2>6, <2>7, ThreadCounts
<1>2. CASE ~ (isMapped /\ eventmask[w])
  <2>1. UNCHANGED <<produced, queue>>
    BY <1>2 DEF DeliverExposure
  <2>2. Counted(w) => Counted(w)'
    BY <2>1 DEF Counted, HeldCount
  <2> QED
    BY <2>1, <2>2, ThreadCounts
<1> QED
  BY <1>1, <1>2

LEMMA HandleMapCounts ==
  ASSUME DInv, CInv, NEW w \in Windows, HandleMap(w)
  PROVE  CInv'
<1>1. /\ srv[w] = "select" /\ srv' = [srv EXCEPT ![w] = "loop"]
      /\ mapped' = [mapped EXCEPT ![w] = TRUE]
      /\ DeliverExposure(w, ~ mapped[w])
      /\ UNCHANGED <<client, wndlist, ep, returned, s2c>>
  BY DEF HandleMap, ReadRequest, ThreadGoes, clientVars
<1>2. /\ srv \in [Windows -> {"none", "loop", "select"}]
      /\ mapped \in [Windows -> BOOLEAN]
  BY DEF DInv, TypeOK
<1>3. w \in wndlist
  BY <1>1 DEF CInv, Unborn
<1> QED
  BY <1>1, <1>2, <1>3, DeliverCounts

LEMMA ExposeCounts ==
  ASSUME DInv, CInv, NEW w \in Windows, Expose(w)
  PROVE  CInv'
<1>1. /\ mapped[w] /\ DeliverExposure(w, mapped[w])
      /\ UNCHANGED <<client, wndlist, ep, returned, s2c, srv, mapped>>
  BY DEF Expose, clientVars
<1>2. w \in wndlist
  BY <1>1 DEF CInv, Unborn
<1> QED
  BY <1>1, <1>2, DeliverCounts

\* The thread's other steps.
LEMMA QuietThreadCounts ==
  ASSUME DInv, CInv, NEW w \in Windows,
         \/ NothingToSend(w) \/ ThreadInterrupted(w)
         \/ HandleNext(w) \/ HandleSelectEvents(w) \/ HandleDraw(w)
  PROVE  CInv'
<1>1. /\ UNCHANGED <<client, wndlist, ep, returned, s2c, queue, produced, mapped>>
      /\ srv[w] # "none" /\ \A v \in Windows : v # w => srv'[v] = srv[v]
  <2>1. srv \in [Windows -> {"none", "loop", "select"}]
    BY DEF DInv, TypeOK
  <2> QED
    BY <2>1 DEF NothingToSend, ThreadInterrupted, HandleNext, HandleSelectEvents, HandleDraw, ReadRequest,
       ThreadGoes, clientVars
<1>2. w \in wndlist
  BY <1>1 DEF CInv, Unborn
<1> QED
  BY <1>1, <1>2, CountKept

LEMMA NextCInv ==
  ASSUME DInv, CInv, [Next]_vars
  PROVE  CInv'
<1>1. client \in [at : {"app", "ask", "select", "read"}, todo : SUBSET Windows]
  BY DEF DInv, TypeOK
<1>2. CASE CallGetNextEvent \/ AllAsked \/ ClientSelect \/ SelectInterrupted
  <2>1. /\ UNCHANGED <<wndlist, ep, returned, s2c, serverVars>>
        /\ ep.number = 0 /\ client'.todo \subseteq wndlist
    BY <1>2 DEF CallGetNextEvent, AllAsked, ClientSelect, SelectInterrupted, ClientGoes, CInv,
       ClientOK
  <2> QED
    BY <2>1, ClientWalks
<1>3. ASSUME NEW w \in Windows, AskWindow(w) PROVE CInv'
  <2>1. /\ UNCHANGED <<wndlist, ep, returned, s2c, serverVars>>
        /\ ep.number = 0 /\ client'.todo \subseteq wndlist
    BY <1>1, <1>3 DEF AskWindow, CInv, ClientOK
  <2> QED
    BY <2>1, ClientWalks
<1>4. CASE ClientLoop
  BY <1>2, <1>3, <1>4, ReadWindowCounts, ReturnEventCounts DEF ClientLoop
<1>5. ASSUME NEW w \in Windows, NEW r \in RequestsOf[w], BufferRequest(w, r) PROVE CInv'
  <2>1. UNCHANGED <<client, wndlist, ep, returned, s2c, queue, produced, mapped, srv>>
    BY <1>5 DEF BufferRequest, serverVars
  <2> QED
    BY <2>1, CountKept
<1>6. ASSUME NEW w \in Windows, Thread(w) \/ ThreadInterrupted(w) PROVE CInv'
  BY <1>6, SendEventCounts, QuietThreadCounts, HandleMapCounts DEF Thread
<1>7. CASE UNCHANGED vars
  <2>1. UNCHANGED <<client, wndlist, ep, returned, s2c, queue, produced, mapped, srv>>
    BY <1>7 DEF vars, clientVars, serverVars
  <2> QED
    BY <2>1, CountKept
<1> QED
  BY <1>2, <1>4, <1>5, <1>6, <1>7, CreateWindowCounts, ExposeCounts DEF Next

LEMMA SingleIsOne ==
  ASSUME TypeOK, Cardinality(wndlist) <= 1
  PROVE  Single
<1>1. IsFiniteSet(wndlist)
  BY DeliveryAssumption, FS_Subset DEF TypeOK
<1>2. CASE wndlist = {}
  BY <1>2 DEF Single
<1>3. CASE wndlist # {}
  <2>1. PICK v \in wndlist : TRUE
    BY <1>3
  <2>2. /\ IsFiniteSet(wndlist \ {v}) /\ Cardinality(wndlist \ {v}) = Cardinality(wndlist) - 1
        /\ Cardinality(wndlist) \in Nat
    BY <1>1, FS_RemoveElement, FS_CardinalityType
  <2>3. Cardinality(wndlist \ {v}) = 0
    <3>1. Cardinality(wndlist \ {v}) \in Nat
      BY <2>2, FS_CardinalityType
    <3> QED
      BY <2>2, <3>1
  <2>4. wndlist \ {v} = {}
    BY <2>2, <2>3, FS_EmptySet
  <2> QED
    BY <2>4 DEF Single
<1> QED
  BY <1>2, <1>3

LEMMA AllAreOnTheirWay ==
  ASSUME DInv, CInv
  PROVE  EveryEventReturned
<1> SUFFICES ASSUME Cardinality(wndlist) <= 1, NEW w \in Windows
             PROVE  Journey(w) = [i \in 1..produced[w] |-> i]
  BY DEF EveryEventReturned
<1>1. Single
  BY SingleIsOne DEF DInv
<1>2. PICK a, b, c, d, n :
        a = returned[w] /\ b = Held(w) /\ c = s2c[w] /\ d = queue[w] /\ n = produced[w]
  OBVIOUS
<1>3. /\ a \in Seq(Numbers) /\ b \in Seq(Numbers) /\ c \in Seq(Numbers)
      /\ d \in Seq(Numbers) /\ n \in Nat
  BY <1>2, HeldIsNumbers DEF DInv, TypeOK, Numbers
<1>4. Len(b) = HeldCount(w) /\ Increasing(b)
  <2>1. CASE ep.wid = w /\ ep.number # 0
    <3>1. b = <<ep.number>> /\ HeldCount(w) = 1
      BY <1>2, <2>1 DEF Held, HeldCount
    <3> QED
      BY <3>1 DEF Increasing
  <2>2. CASE ~ (ep.wid = w /\ ep.number # 0)
    <3>1. b = <<>> /\ HeldCount(w) = 0
      BY <1>2, <2>2 DEF Held, HeldCount
    <3> QED
      BY <3>1 DEF Increasing
  <2> QED
    BY <2>1, <2>2
<1>5. Len(c) <= 1
  BY <1>2 DEF DInv, OneRequest
<1>6. Increasing(c)
  <2>1. DOMAIN c \subseteq {1}
    BY <1>3, <1>5
  <2> QED
    BY <2>1 DEF Increasing
<1>7. Len(a) + Len(b) + Len(c) + Len(d) = n
  BY <1>1, <1>2, <1>4 DEF CInv, Kept, Counted
<1>8. Increasing(a) /\ Increasing(d)
      /\ Before(a, b) /\ Before(a, c) /\ Before(a, d)
      /\ Before(b, c) /\ Before(b, d) /\ Before(c, d)
      /\ Before(a, <<n + 1>>) /\ Before(b, <<n + 1>>) /\ Before(c, <<n + 1>>)
      /\ Before(d, <<n + 1>>)
  BY <1>2 DEF DInv, Ordered, Coming
<1>9. a \o b \o c \o d = [i \in 1..n |-> i]
  BY <1>3, <1>4, <1>6, <1>7, <1>8, WayIsOrdered
<1>10. Held(w) = IF client.at = "read" /\ ep.wid = w /\ ep.number # 0
                 THEN <<ep.number>> ELSE <<>>
  BY DEF Held, CInv, ClientOK
<1> QED
  BY <1>2, <1>9, <1>10 DEF Journey

\* A client with one window gets every event that was delivered to it, each once
\* and in order: what it has not seen yet is on its way, in *ep, in the socket or
\* in the queue (kwgscli_event.c:102-160, kwgssrv_wnd.c:259-295).
THEOREM NoEventIsLost == Spec => []EveryEventReturned
<1>1. Init => CInv
  BY InitCInv
<1>2. DInv /\ CInv /\ [Next]_vars => CInv'
  BY NextCInv
<1>3. DInv /\ CInv => EveryEventReturned
  BY AllAreOnTheirWay
<1> QED
  BY <1>1, <1>2, <1>3, DeliveryInvariant, PTL DEF Spec

=============================================================================
