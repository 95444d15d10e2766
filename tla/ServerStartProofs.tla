------------------------- MODULE ServerStartProofs -------------------------
(***************************************************************************)
(* Proofs about ServerStart, for any programs and any length of the queue  *)
(* of connections: types, and that the connections are taken for what they *)
(* are.                                                                    *)
(*                                                                         *)
(* Whom a connection is taken for depends on its place in the queue alone. *)
(* The invariant follows the queue through kw_init and the main loop: as   *)
(* long as no program has come before the drivers, it begins with the      *)
(* drivers that are not accepted yet, in the order in which they will be,  *)
(* and goes on with programs (Line).                                       *)
(***************************************************************************)
EXTENDS ServerStart, SequenceTheorems, TLAPS

\* The drivers that are to be accepted.
ToCome ==
  IF fd["mouse"] = "none" THEN <<"mouse", "keyboard">>
  ELSE IF fd["keyboard"] = "none" THEN <<"keyboard">>
  ELSE <<>>

\* How far the main thread is, and what there is by then.
Course ==
  /\ at = "init" => /\ step < Len(Steps) /\ (listening <=> step >= 2)
                    /\ fd["mouse"] = "none" /\ fd["keyboard"] = "none" /\ cur = "none"
  /\ at \in {"mouse", "keyboard", "reading", "accept", "first"} => listening
  /\ listening /\ at # "init" => step = Len(Steps)
  /\ ~ listening => queue = <<>>
  /\ Queued("mouse") => step >= 3
  /\ Queued("keyboard") => step >= 4
  /\ at = "first" => cur # "none"
  /\ at \in {"mouse", "keyboard", "reading", "accept"} /\ "server" \in ready => queue # <<>>

\* The queue, if no program came before the drivers.
Line ==
  ~ early =>
    /\ fd["mouse"] \in {"none", "mouse"} /\ fd["keyboard"] \in {"none", "keyboard"}
    /\ fd["mouse"] = "none" => fd["keyboard"] = "none"
    /\ cur \notin Drivers
    /\ step < 3 => queue = <<>>
    /\ step = 3 /\ listening => queue = <<"mouse">>
    /\ step >= 4 /\ listening =>
         /\ Len(queue) >= Len(ToCome)
         /\ \A k \in DOMAIN queue :
              IF k <= Len(ToCome) THEN queue[k] = ToCome[k] ELSE queue[k] \in Clients

SInv == TypeOK /\ Course /\ Line

-----------------------------------------------------------------------------
(* The queue                                                               *)

\* The conjuncts of TypeOK about the queue.
QueueOK ==
  /\ queue \in Seq(Parties) /\ Len(queue) <= Backlog + 1
  /\ \A k, l \in DOMAIN queue : k # l => queue[k] # queue[l]

LEMMA StepsHaveNames ==
  /\ Len(Steps) = 8
  /\ \A n \in Nat : n < 8 => /\ Steps[n + 1] = "mouse" <=> n = 2
                             /\ Steps[n + 1] = "keyboard" <=> n = 3
                             /\ Steps[n + 1] = "gs" <=> n = 1
<1>1. Len(Steps) = 8
  BY DEF Steps
<1>2. \A n \in Nat : n < 8 => n = 0 \/ n = 1 \/ n = 2 \/ n = 3 \/ n = 4 \/ n = 5 \/ n = 6 \/ n = 7
  OBVIOUS
<1>3. /\ Steps[1] = "screen" /\ Steps[2] = "gs" /\ Steps[3] = "mouse" /\ Steps[4] = "keyboard"
      /\ Steps[5] = "regfile" /\ Steps[6] = "cursor" /\ Steps[7] = "prework"
      /\ Steps[8] = "rootwnd"
  BY DEF Steps
<1> QED
  BY <1>1, <1>2, <1>3

LEMMA Enqueue ==
  ASSUME TypeOK, HasRoom, NEW p \in Parties, ~ Queued(p), queue' = Append(queue, p)
  PROVE  /\ QueueOK'
         /\ Len(queue') = Len(queue) + 1 /\ queue' # <<>>
         /\ \A k \in DOMAIN queue : queue'[k] = queue[k]
         /\ queue'[Len(queue) + 1] = p
         /\ DOMAIN queue' = DOMAIN queue \cup {Len(queue) + 1}
         /\ \A r : Queued(r)' <=> Queued(r) \/ r = p
<1>1. /\ queue \in Seq(Parties) /\ Len(queue) <= Backlog /\ Backlog \in Nat /\ Len(queue) \in Nat
      /\ \A k, l \in DOMAIN queue : k # l => queue[k] # queue[l]
  BY StartAssumption DEF TypeOK, HasRoom
<1>2. /\ queue' \in Seq(Parties)
      /\ Len(queue') = Len(queue) + 1 /\ queue' # <<>>
      /\ \A k \in DOMAIN queue : queue'[k] = queue[k]
      /\ queue'[Len(queue) + 1] = p
      /\ DOMAIN queue' = DOMAIN queue \cup {Len(queue) + 1}
  BY <1>1
<1>3. \A k \in DOMAIN queue : queue[k] # p
  BY DEF Queued
<1>4. \A k, l \in DOMAIN queue' : k # l => queue'[k] # queue'[l]
  BY <1>1, <1>2, <1>3
<1>5. Len(queue') <= Backlog + 1
  BY <1>1, <1>2
<1> QED
  BY <1>2, <1>4, <1>5 DEF QueueOK, Queued

LEMMA Dequeue ==
  ASSUME TypeOK, queue # <<>>, queue' = Tail(queue)
  PROVE  /\ QueueOK'
         /\ Len(queue') = Len(queue) - 1
         /\ \A k \in DOMAIN queue' : k \in Nat /\ k + 1 \in DOMAIN queue /\ queue'[k] = queue[k + 1]
                                     /\ 1 # k + 1
         /\ Head(queue) = queue[1] /\ 1 \in DOMAIN queue /\ queue[1] \in Parties
         /\ \A r : Queued(r)' => Queued(r)
<1>1. /\ queue \in Seq(Parties) /\ Len(queue) <= Backlog + 1 /\ Backlog \in Nat /\ Len(queue) \in Nat
      /\ \A k, l \in DOMAIN queue : k # l => queue[k] # queue[l]
  BY StartAssumption DEF TypeOK
<1>2. /\ queue' \in Seq(Parties)
      /\ Len(queue') = Len(queue) - 1
      /\ \A k \in DOMAIN queue' : k \in Nat /\ k + 1 \in DOMAIN queue /\ queue'[k] = queue[k + 1]
                                  /\ 1 # k + 1
  BY <1>1
<1>3. Head(queue) = queue[1] /\ 1 \in DOMAIN queue /\ queue[1] \in Parties
  BY <1>1
<1>4. \A k, l \in DOMAIN queue' : k # l => queue'[k] # queue'[l]
  <2>1. \A k, l \in Nat : k # l => k + 1 # l + 1
    OBVIOUS
  <2> QED
    BY <1>1, <1>2, <2>1
<1>5. Len(queue') <= Backlog + 1
  BY <1>1, <1>2
<1> QED
  BY <1>2, <1>3, <1>4, <1>5 DEF QueueOK, Queued

LEMMA EmptyQueue ==
  /\ queue = <<>> => QueueOK
  /\ queue' = <<>> => QueueOK'
<1>1. <<>> \in Seq(Parties) /\ Len(<<>>) = 0 /\ DOMAIN <<>> = {}
  OBVIOUS
<1>2. 0 <= Backlog + 1
  BY StartAssumption
<1> QED
  BY <1>1, <1>2 DEF QueueOK

\* Nobody connects, and nobody is accepted.
LEMMA QueueKept ==
  ASSUME UNCHANGED <<queue, fd>>
  PROVE  /\ TypeOK => QueueOK'
         /\ ToCome' = ToCome
         /\ \A r : Queued(r)' = Queued(r)
BY DEF TypeOK, QueueOK, ToCome, Queued

-----------------------------------------------------------------------------
(* kw_init                                                                 *)

LEMMA PartiesAreApart ==
  /\ "mouse" \in Parties /\ "keyboard" \in Parties
  /\ "none" \notin Parties
  /\ "mouse" \notin Clients /\ "keyboard" \notin Clients
  /\ \A p \in Parties : p \in Clients \/ p = "mouse" \/ p = "keyboard"
  /\ Clients \subseteq Parties
  /\ Drivers = {"mouse", "keyboard"}
BY StartAssumption DEF Parties, Drivers

LEMMA InitSInv ==
  ASSUME Init
  PROVE  SInv
<1>1. <<>> \in Seq(Parties) /\ Len(<<>>) = 0 /\ DOMAIN <<>> = {}
      /\ <<>> \in Seq({"window", "manager", "other"})
  OBVIOUS
<1>2. TypeOK
  <2>1. QueueOK
    BY EmptyQueue DEF Init
  <2>2. 0 \in 0..MaxEvents /\ 0 \in 0..Len(Steps)
    BY StepsHaveNames, StartAssumption
  <2> QED
    BY <1>1, <2>1, <2>2 DEF Init, TypeOK, QueueOK
<1>3. Course
  BY <1>1, StepsHaveNames DEF Init, Course, Queued, Drivers
<1>4. Line
  BY PartiesAreApart DEF Init, Line
<1> QED
  BY <1>2, <1>3, <1>4 DEF SInv

\* A step of kw_init that leaves queue and descriptors as they are.
LEMMA AdvanceFacts ==
  ASSUME TypeOK, Course, at = "init", Advance
  PROVE  /\ step' = step + 1 /\ step < 8 /\ step \in Nat /\ step' \in 0..8
         /\ at' = IF step' = 8 THEN "loop" ELSE "init"
         /\ UNCHANGED <<ready, cur>>
BY StepsHaveNames DEF TypeOK, Course, Advance

LEMMA StepDoneStep ==
  ASSUME SInv, StepDone
  PROVE  SInv'
<1>1. /\ at = "init" /\ Advance
      /\ UNCHANGED <<listening, queue, fd, threads, inbox, closed, events, failed, early>>
      /\ Steps[step + 1] \notin {"gs", "mouse", "keyboard"}
  BY DEF StepDone, Starting
<1>2. /\ step' = step + 1 /\ step < 8 /\ step \in Nat /\ step' \in 0..8
      /\ at' = IF step' = 8 THEN "loop" ELSE "init"
      /\ UNCHANGED <<ready, cur>>
  BY <1>1, AdvanceFacts DEF SInv
<1>3. step # 1 /\ step # 2 /\ step # 3
  BY <1>1, <1>2, StepsHaveNames
<1>4. QueueOK' /\ ToCome' = ToCome /\ \A r : Queued(r)' = Queued(r)
  BY <1>1, QueueKept DEF SInv
<1>5. TypeOK'
  BY <1>1, <1>2, <1>4, StepsHaveNames DEF SInv, TypeOK, QueueOK
<1>6. Course'
  BY <1>1, <1>2, <1>3, <1>4, StepsHaveNames DEF SInv, Course
<1>7. Line'
  BY <1>1, <1>2, <1>3, <1>4 DEF SInv, Line
<1> QED
  BY <1>5, <1>6, <1>7 DEF SInv

LEMMA ListenStep ==
  ASSUME SInv, Listen
  PROVE  SInv'
<1>1. /\ at = "init" /\ Advance /\ listening' = TRUE /\ Steps[step + 1] = "gs"
      /\ UNCHANGED <<queue, fd, threads, inbox, closed, events, failed, early>>
  BY DEF Listen, Starting
<1>2. /\ step' = step + 1 /\ step < 8 /\ step \in Nat /\ step' \in 0..8
      /\ at' = IF step' = 8 THEN "loop" ELSE "init"
      /\ UNCHANGED <<ready, cur>>
  BY <1>1, AdvanceFacts DEF SInv
<1>3. step = 1 /\ step' = 2
  BY <1>1, <1>2, StepsHaveNames
<1>4. QueueOK' /\ ToCome' = ToCome /\ \A r : Queued(r)' = Queued(r)
  BY <1>1, QueueKept DEF SInv
<1>5. TypeOK'
  BY <1>1, <1>2, <1>4, StepsHaveNames DEF SInv, TypeOK, QueueOK
<1>6. Course'
  BY <1>1, <1>2, <1>3, <1>4, StepsHaveNames DEF SInv, Course
<1>7. Line'
  BY <1>1, <1>2, <1>3, <1>4 DEF SInv, Line
<1> QED
  BY <1>5, <1>6, <1>7 DEF SInv

LEMMA ConnectDriverStep ==
  ASSUME SInv, ConnectDriver
  PROVE  SInv'
<1>1. PICK d \in Drivers :
        /\ at = "init" /\ Steps[step + 1] = d /\ HasRoom
        /\ queue' = Append(queue, d)
        /\ threads' = threads \cup {d}
  BY DEF ConnectDriver, Starting
<1>2. /\ Advance
      /\ UNCHANGED <<listening, fd, inbox, closed, events, failed, early>>
  BY DEF ConnectDriver
<1>3. /\ step' = step + 1 /\ step < 8 /\ step \in Nat /\ step' \in 0..8
      /\ at' = IF step' = 8 THEN "loop" ELSE "init"
      /\ UNCHANGED <<ready, cur>>
  BY <1>1, <1>2, AdvanceFacts DEF SInv
<1>4. (d = "mouse" /\ step = 2) \/ (d = "keyboard" /\ step = 3)
  BY <1>1, <1>3, StepsHaveNames, PartiesAreApart
<1>5. ~ Queued(d)
  BY <1>4 DEF SInv, Course
<1>6. /\ QueueOK'
      /\ Len(queue') = Len(queue) + 1
      /\ \A k \in DOMAIN queue : queue'[k] = queue[k]
      /\ queue'[Len(queue) + 1] = d
      /\ DOMAIN queue' = DOMAIN queue \cup {Len(queue) + 1}
      /\ \A r : Queued(r)' <=> Queued(r) \/ r = d
  BY <1>1, <1>4, <1>5, Enqueue, PartiesAreApart DEF SInv
<1>7. TypeOK'
  <2>1. threads' \subseteq Drivers
    BY <1>1 DEF SInv, TypeOK
  <2> QED
    BY <1>2, <1>3, <1>6, <2>1, StepsHaveNames DEF SInv, TypeOK, QueueOK
<1>8. Course'
  <2>1. listening
    BY <1>1, <1>4 DEF SInv, Course
  <2>2. step' < 8 /\ at' = "init"
    BY <1>3, <1>4
  <2>3. Queued("mouse")' => step' >= 3
    BY <1>3, <1>4, <1>6 DEF SInv, Course
  <2>4. Queued("keyboard")' => step' >= 4
    BY <1>3, <1>4, <1>6 DEF SInv, Course
  <2> QED
    BY <1>1, <1>2, <1>3, <1>4, <2>1, <2>2, <2>3, <2>4, StepsHaveNames DEF SInv, Course
<1>9. Line'
  <2> SUFFICES ASSUME ~ early PROVE Line'
    BY <1>2 DEF Line
  <2>1. /\ fd["mouse"] = "none" /\ fd["keyboard"] = "none" /\ listening
        /\ ToCome' = <<"mouse", "keyboard">> /\ Len(ToCome') = 2
    BY <1>1, <1>2, <1>4 DEF SInv, Course, ToCome
  <2>2. cur' \notin Drivers
    BY <1>3 DEF SInv, Line
  <2>3. CASE step = 2
    <3>1. queue = <<>> /\ d = "mouse"
      BY <1>4, <2>3 DEF SInv, Line
    <3>2. queue' = <<"mouse">> /\ step' = 3
      BY <1>1, <1>3, <2>3, <3>1
    <3> QED
      BY <1>2, <2>1, <2>2, <3>2 DEF Line
  <2>4. CASE step = 3
    <3>1. queue = <<"mouse">> /\ d = "keyboard"
      BY <1>4, <2>1, <2>4 DEF SInv, Line
    <3>2. Len(queue) = 1 /\ DOMAIN queue = {1} /\ queue[1] = "mouse"
      BY <3>1
    <3>3. step' = 4 /\ Len(queue') = 2 /\ DOMAIN queue' = {1, 2}
          /\ queue'[1] = "mouse" /\ queue'[2] = "keyboard"
      BY <1>3, <1>6, <2>4, <3>1, <3>2
    <3>4. (ToCome')[1] = "mouse" /\ (ToCome')[2] = "keyboard"
      BY <2>1
    <3> QED
      BY <1>2, <2>1, <2>2, <3>3, <3>4 DEF Line
  <2> QED
    BY <1>4, <2>3, <2>4
<1> QED
  BY <1>7, <1>8, <1>9 DEF SInv

LEMMA StepFailsStep ==
  ASSUME SInv, StepFails
  PROVE  SInv'
<1>1. /\ at = "init" /\ at' \in {"loop", "crashed"}
      /\ failed' = TRUE /\ listening' = FALSE /\ queue' = <<>>
      /\ threads' = threads \ {"mouse"}
      /\ UNCHANGED <<step, ready, cur, fd, inbox, closed, events, early>>
  BY DEF StepFails
<1>2. <<>> \in Seq(Parties) /\ Len(<<>>) = 0 /\ DOMAIN <<>> = {}
  OBVIOUS
<1>3. TypeOK'
  <2>1. QueueOK'
    BY <1>1, EmptyQueue
  <2> QED
    BY <1>1, <2>1 DEF SInv, TypeOK, QueueOK
<1>4. Course'
  BY <1>1, <1>2 DEF SInv, Course, Queued
<1>5. Line'
  BY <1>1 DEF SInv, Line, Course
<1> QED
  BY <1>3, <1>4, <1>5 DEF SInv

-----------------------------------------------------------------------------
(* The main loop                                                           *)

\* Steps of the main loop that accept nobody.
LEMMA LoopStep ==
  ASSUME SInv, at # "init", at' # "init",
         at' \in {"mouse", "keyboard", "reading", "accept", "first"} => listening,
         at' = "first" => cur' # "none",
         at' \in {"mouse", "keyboard", "reading", "accept"} /\ "server" \in ready' => queue # <<>>,
         ~ early => cur' \notin Drivers,
         UNCHANGED <<step, listening, queue, fd, early>>
  PROVE  QueueOK' /\ Course' /\ Line'
<1>1. QueueOK' /\ ToCome' = ToCome /\ \A r : Queued(r)' = Queued(r)
  BY QueueKept DEF SInv
<1>2. Course'
  BY <1>1 DEF SInv, Course
<1>3. Line'
  BY <1>1 DEF SInv, Line
<1> QED
  BY <1>1, <1>2, <1>3

LEMMA InboxTaken ==
  ASSUME TypeOK, NEW p, p \in Parties => inbox[p] # <<>>,
         inbox' = [inbox EXCEPT ![p] = Tail(@)]
  PROVE  inbox' \in [Parties -> Seq({"window", "manager", "other"})]
<1>1. inbox \in [Parties -> Seq({"window", "manager", "other"})]
  BY DEF TypeOK
<1>2. CASE p \in Parties
  <2>1. inbox[p] \in Seq({"window", "manager", "other"}) /\ inbox[p] # <<>>
    BY <1>1, <1>2
  <2>2. Tail(inbox[p]) \in Seq({"window", "manager", "other"})
    BY <2>1
  <2> QED
    BY <1>1, <2>2
<1>3. CASE p \notin Parties
  BY <1>1, <1>3
<1> QED
  BY <1>2, <1>3

LEMMA SelectStep ==
  ASSUME SInv, Select
  PROVE  SInv'
<1>1. /\ at = "loop" /\ listening /\ at' = "mouse" /\ ready' \subseteq Drivers \cup {"server"}
      /\ "server" \in ready' => queue # <<>>
      /\ UNCHANGED <<step, cur, listening, queue, fd, threads, inbox, closed, events, failed, early>>
  BY PartiesAreApart DEF Select, Ready
<1>2. ~ early => cur' \notin Drivers
  BY <1>1 DEF SInv, Line
<1>3. QueueOK' /\ Course' /\ Line'
  BY <1>1, <1>2, LoopStep
<1>4. TypeOK'
  BY <1>1, <1>3 DEF SInv, TypeOK, QueueOK
<1> QED
  BY <1>3, <1>4 DEF SInv

LEMMA ServeDriverStep ==
  ASSUME SInv, ServeDriver
  PROVE  SInv'
<1>1. PICK d \in Drivers :
        /\ at = d
        /\ IF d \in ready /\ fd[d] \in Drivers /\ inbox[fd[d]] # <<>>
           THEN inbox' = [inbox EXCEPT ![fd[d]] = Tail(@)]
           ELSE UNCHANGED inbox
        /\ at' = After(d)
        /\ UNCHANGED <<step, ready, cur, listening, queue, fd, threads, closed, events, failed,
                       early>>
  BY DEF ServeDriver
<1>2. at \in {"mouse", "keyboard"} /\ at' \in {"keyboard", "accept"}
  BY <1>1, PartiesAreApart DEF After
<1>3. ~ early => cur' \notin Drivers
  BY <1>1 DEF SInv, Line
<1>4. listening /\ ("server" \in ready => queue # <<>>)
  BY <1>2 DEF SInv, Course
<1>5. QueueOK' /\ Course' /\ Line'
  BY <1>1, <1>2, <1>3, <1>4, LoopStep
<1>6. inbox' \in [Parties -> Seq({"window", "manager", "other"})]
  BY <1>1, InboxTaken DEF SInv, TypeOK
<1>7. TypeOK'
  BY <1>1, <1>2, <1>5, <1>6 DEF SInv, TypeOK, QueueOK
<1> QED
  BY <1>5, <1>7 DEF SInv

LEMMA ReadRequestAsEventsStep ==
  ASSUME SInv, ReadRequestAsEvents
  PROVE  SInv'
<1>1. PICK d \in Drivers :
        /\ at = d /\ fd[d] \in Clients /\ inbox[fd[d]] # <<>>
        /\ inbox' = [inbox EXCEPT ![fd[d]] = Tail(@)]
        /\ cur' = fd[d]
        /\ at' = "reading"
        /\ UNCHANGED <<step, ready, listening, queue, fd, threads, closed, events, failed, early>>
  BY DEF ReadRequestAsEvents
<1>2. at \in {"mouse", "keyboard"} /\ cur' \in Clients
  BY <1>1, PartiesAreApart
<1>3. cur' \notin Drivers /\ cur' \in Parties
  BY <1>2, PartiesAreApart
<1>4. listening /\ ("server" \in ready => queue # <<>>)
  BY <1>2 DEF SInv, Course
<1>5. QueueOK' /\ Course' /\ Line'
  BY <1>1, <1>2, <1>3, <1>4, LoopStep
<1>6. inbox' \in [Parties -> Seq({"window", "manager", "other"})]
  BY <1>1, InboxTaken DEF SInv
<1>7. TypeOK'
  BY <1>1, <1>3, <1>5, <1>6 DEF SInv, TypeOK, QueueOK
<1> QED
  BY <1>5, <1>7 DEF SInv

LEMMA RestIsGoneStep ==
  ASSUME SInv, RestIsGone
  PROVE  SInv'
<1>1. /\ at = "reading" /\ at' \in {"keyboard", "accept"} /\ cur' = "none"
      /\ UNCHANGED <<step, ready, listening, queue, fd, threads, inbox, closed, events, failed, early>>
  BY DEF RestIsGone, After
<1>2. listening /\ ("server" \in ready => queue # <<>>) /\ cur' \notin Drivers
  BY <1>1, PartiesAreApart DEF SInv, Course
<1>3. QueueOK' /\ Course' /\ Line'
  BY <1>1, <1>2, LoopStep
<1>4. TypeOK'
  BY <1>1, <1>3 DEF SInv, TypeOK, QueueOK
<1> QED
  BY <1>3, <1>4 DEF SInv

LEMMA AcceptDriverStep ==
  ASSUME SInv, AcceptDriver
  PROVE  SInv'
<1>1. /\ at = "accept" /\ queue # <<>> /\ queue' = Tail(queue) /\ at' = "loop"
      /\ UNCHANGED <<step, ready, cur, listening, threads, inbox, closed, events, failed, early>>
  BY DEF AcceptDriver
<1>2. \/ /\ fd["mouse"] = "none"
         /\ fd' = [fd EXCEPT !["mouse"] = Head(queue)]
      \/ /\ fd["mouse"] # "none" /\ fd["keyboard"] = "none"
         /\ fd' = [fd EXCEPT !["keyboard"] = Head(queue)]
  BY DEF AcceptDriver
<1>3. /\ QueueOK'
      /\ Len(queue') = Len(queue) - 1
      /\ \A k \in DOMAIN queue' : k \in Nat /\ k + 1 \in DOMAIN queue /\ queue'[k] = queue[k + 1]
                                  /\ 1 # k + 1
      /\ Head(queue) = queue[1] /\ 1 \in DOMAIN queue /\ queue[1] \in Parties
      /\ \A r : Queued(r)' => Queued(r)
  BY <1>1, Dequeue DEF SInv
<1>4. fd \in [Drivers -> Parties \cup {"none"}] /\ fd' \in [Drivers -> Parties \cup {"none"}]
  BY <1>2, <1>3 DEF SInv, TypeOK
<1>5. listening /\ step = 8
  BY <1>1, StepsHaveNames DEF SInv, Course
<1>6. TypeOK'
  BY <1>1, <1>3, <1>4 DEF SInv, TypeOK, QueueOK
<1>7. Course'
  BY <1>1, <1>3, <1>5 DEF SInv, Course
<1>8. Line'
  <2> SUFFICES ASSUME ~ early PROVE Line'
    BY <1>1 DEF Line
  <2>1. /\ fd["mouse"] \in {"none", "mouse"} /\ fd["keyboard"] \in {"none", "keyboard"}
        /\ fd["mouse"] = "none" => fd["keyboard"] = "none"
        /\ cur' \notin Drivers
        /\ Len(queue) >= Len(ToCome)
        /\ \A k \in DOMAIN queue :
             IF k <= Len(ToCome) THEN queue[k] = ToCome[k] ELSE queue[k] \in Clients
    BY <1>1, <1>5 DEF SInv, Line
  <2>2. CASE fd["mouse"] = "none"
    <3>1. ToCome = <<"mouse", "keyboard">> /\ Len(ToCome) = 2
      BY <2>2 DEF ToCome
    <3>2. queue[1] = "mouse"
      BY <1>3, <2>1, <3>1
    <3>3. fd' = [fd EXCEPT !["mouse"] = "mouse"]
      BY <1>2, <1>3, <2>2, <3>2
    <3>4. fd'["mouse"] = "mouse" /\ fd'["keyboard"] = "none"
      BY <1>4, <2>1, <2>2, <3>3, PartiesAreApart
    <3>5. (ToCome)' = <<"keyboard">> /\ Len(ToCome') = 1
      BY <3>4 DEF ToCome
    <3>6. ASSUME NEW k \in DOMAIN queue'
          PROVE  IF k <= 1 THEN queue'[k] = "keyboard" ELSE queue'[k] \in Clients
      <4>1. k \in Nat /\ k + 1 \in DOMAIN queue /\ queue'[k] = queue[k + 1] /\ 1 # k + 1
        BY <1>3
      <4>2. CASE k <= 1
        <5>1. k + 1 = 2
          BY <4>1, <4>2
        <5> QED
          BY <2>1, <3>1, <4>1, <4>2, <5>1
      <4>3. CASE ~ (k <= 1)
        BY <2>1, <3>1, <4>1, <4>3
      <4> QED
        BY <4>2, <4>3
    <3>7. \A k \in DOMAIN queue' :
            IF k <= Len(ToCome') THEN queue'[k] = (ToCome')[k] ELSE queue'[k] \in Clients
      <4>1. \A k \in DOMAIN queue' : k \in Nat /\ (k <= 1 => k = 1)
        BY <1>3
      <4> QED
        BY <3>5, <3>6, <4>1
    <3>8. Len(queue') >= Len(ToCome')
      <4>1. Len(queue) \in Nat
        BY DEF SInv, TypeOK
      <4> QED
        BY <1>3, <2>1, <3>1, <3>5, <4>1
    <3> QED
      BY <1>1, <1>5, <2>1, <3>4, <3>7, <3>8 DEF Line
  <2>3. CASE fd["mouse"] # "none"
    <3>1. fd["keyboard"] = "none" /\ fd["mouse"] = "mouse"
      BY <1>2, <2>1, <2>3
    <3>2. ToCome = <<"keyboard">> /\ Len(ToCome) = 1
      BY <3>1 DEF ToCome
    <3>3. queue[1] = "keyboard"
      BY <1>3, <2>1, <3>2
    <3>4. fd' = [fd EXCEPT !["keyboard"] = "keyboard"]
      BY <1>2, <1>3, <2>3, <3>3
    <3>5. fd'["mouse"] = "mouse" /\ fd'["keyboard"] = "keyboard"
      BY <1>4, <3>1, <3>4, PartiesAreApart
    <3>6. (ToCome)' = <<>> /\ Len(ToCome') = 0
      BY <3>5 DEF ToCome
    <3>7. \A k \in DOMAIN queue' : ~ (k <= 0) /\ queue'[k] \in Clients
      <4> SUFFICES ASSUME NEW k \in DOMAIN queue'
                   PROVE  ~ (k <= 0) /\ queue'[k] \in Clients
        OBVIOUS
      <4>1. k \in Nat /\ k + 1 \in DOMAIN queue /\ queue'[k] = queue[k + 1] /\ 1 # k + 1
        BY <1>3
      <4>2. ~ (k <= 0) /\ ~ (k + 1 <= 1)
        BY <4>1
      <4> QED
        BY <2>1, <3>2, <4>1, <4>2
    <3>8. Len(queue') >= 0
      BY <1>3 DEF QueueOK
    <3> QED
      BY <1>1, <1>5, <2>1, <3>5, <3>6, <3>7, <3>8 DEF Line
  <2> QED
    BY <2>2, <2>3
<1> QED
  BY <1>6, <1>7, <1>8 DEF SInv

LEMMA AcceptNobodyStep ==
  ASSUME SInv, AcceptNobody
  PROVE  SInv'
<1>1. /\ at = "accept" /\ at' = "loop"
      /\ UNCHANGED <<step, ready, cur, listening, queue, fd, threads, inbox, closed, events, failed,
                     early>>
  BY DEF AcceptNobody
<1>2. ~ early => cur' \notin Drivers
  BY <1>1 DEF SInv, Line
<1>3. QueueOK' /\ Course' /\ Line'
  BY <1>1, <1>2, LoopStep
<1>4. TypeOK'
  BY <1>1, <1>3 DEF SInv, TypeOK, QueueOK
<1> QED
  BY <1>3, <1>4 DEF SInv

LEMMA AcceptClientStep ==
  ASSUME SInv, AcceptClient
  PROVE  SInv'
<1>1. /\ at = "accept" /\ queue # <<>> /\ DriversAccepted /\ queue' = Tail(queue) /\ cur' = Head(queue)
      /\ at' = "first"
      /\ UNCHANGED <<step, ready, listening, fd, threads, inbox, closed, events, failed, early>>
  BY DEF AcceptClient, SInv, Course
<1>2. /\ QueueOK'
      /\ \A k \in DOMAIN queue' : k \in Nat /\ k + 1 \in DOMAIN queue /\ queue'[k] = queue[k + 1]
                                  /\ 1 # k + 1
      /\ Head(queue) = queue[1] /\ 1 \in DOMAIN queue /\ queue[1] \in Parties
      /\ \A r : Queued(r)' => Queued(r)
  BY <1>1, Dequeue DEF SInv
<1>3. listening /\ step = 8 /\ cur' # "none"
  BY <1>1, <1>2, StepsHaveNames, PartiesAreApart DEF SInv, Course
<1>4. fd["mouse"] # "none" /\ fd["keyboard"] # "none" /\ ToCome = <<>> /\ ToCome' = <<>>
  BY <1>1, PartiesAreApart DEF DriversAccepted, ToCome
<1>5. TypeOK'
  BY <1>1, <1>2 DEF SInv, TypeOK, QueueOK
<1>6. Course'
  BY <1>1, <1>2, <1>3, StepsHaveNames DEF SInv, Course
<1>7. Line'
  <2> SUFFICES ASSUME ~ early PROVE Line'
    BY <1>1 DEF Line
  <2>1. \A k \in DOMAIN queue : k \in Nat /\ k >= 1
    BY DEF SInv, TypeOK
  <2>2. Len(ToCome) = 0 /\ Len(ToCome') = 0
    BY <1>4
  <2>3. \A k \in DOMAIN queue : queue[k] \in Clients
    BY <1>3, <2>1, <2>2 DEF SInv, Line
  <2>4. cur' \notin Drivers
    BY <1>1, <1>2, <2>3, PartiesAreApart
  <2>5. \A k \in DOMAIN queue' : queue'[k] \in Clients /\ ~ (k <= 0)
    <3>1. \A k \in DOMAIN queue' : k \in Nat /\ k >= 1
      BY <1>2 DEF QueueOK
    <3> QED
      BY <1>2, <2>3, <3>1
  <2>6. Len(queue') >= 0
    BY <1>2 DEF QueueOK
  <2> QED
    BY <1>1, <1>3, <2>2, <2>4, <2>5, <2>6 DEF SInv, Line
<1> QED
  BY <1>5, <1>6, <1>7 DEF SInv

LEMMA FirstStep ==
  ASSUME SInv, First
  PROVE  SInv'
<1>1. CASE TellBadNews
  <2>1. /\ at = "first" /\ at' = "crashed"
        /\ UNCHANGED <<step, ready, cur, listening, queue, fd, threads, inbox, closed, events,
                       failed, early>>
    BY <1>1 DEF TellBadNews
  <2>2. ~ early => cur' \notin Drivers
    BY <2>1 DEF SInv, Line
  <2>3. QueueOK' /\ Course' /\ Line'
    BY <2>1, <2>2, LoopStep
  <2>4. TypeOK'
    BY <2>1, <2>3 DEF SInv, TypeOK, QueueOK
  <2> QED
    BY <2>3, <2>4 DEF SInv
<1>2. CASE AcceptWindow \/ AcceptWManager \/ IgnoreRequest
  <2>1. /\ at = "first" /\ inbox[cur] # <<>> /\ at' \in {"crashed", "blocked", "loop"}
        /\ inbox' = [inbox EXCEPT ![cur] = Tail(@)]
        /\ cur' = "none"
        /\ UNCHANGED <<step, ready, listening, queue, fd, threads, closed, events, failed, early>>
    BY <1>2 DEF AcceptWindow, AcceptWManager, IgnoreRequest, FirstRequest
  <2>2. cur' \notin Drivers
    BY <2>1, PartiesAreApart
  <2>3. QueueOK' /\ Course' /\ Line'
    BY <2>1, <2>2, LoopStep
  <2>4. inbox' \in [Parties -> Seq({"window", "manager", "other"})]
    BY <2>1, InboxTaken DEF SInv
  <2>5. TypeOK'
    BY <2>1, <2>3, <2>4 DEF SInv, TypeOK, QueueOK
  <2> QED
    BY <2>3, <2>5 DEF SInv
<1> QED
  BY <1>1, <1>2 DEF First

-----------------------------------------------------------------------------
(* The drivers' threads, and the programs                                  *)

\* Steps that leave the main thread and the connections alone.
LEMMA OthersKeep ==
  ASSUME SInv, UNCHANGED <<main, listening, queue, fd, early>>
  PROVE  QueueOK' /\ Course' /\ Line'
<1>1. QueueOK' /\ ToCome' = ToCome /\ \A r : Queued(r)' = Queued(r)
  BY QueueKept DEF SInv
<1> QED
  BY <1>1 DEF SInv, Course, Line, main

LEMMA SendEventStep ==
  ASSUME SInv, SendEvent
  PROVE  SInv'
<1>1. PICK d \in threads :
        /\ events[d] < MaxEvents
        /\ events' = [events EXCEPT ![d] = @ + 1]
        /\ \E type \in Types(d) : inbox' = [inbox EXCEPT ![d] = Append(@, type)]
        /\ UNCHANGED <<main, listening, queue, fd, threads, closed, failed, early>>
  BY DEF SendEvent
<1>2. QueueOK' /\ Course' /\ Line'
  BY <1>1, OthersKeep
<1>3. PICK type \in {"window", "manager", "other"} : inbox' = [inbox EXCEPT ![d] = Append(@, type)]
  BY <1>1 DEF Types
<1>4. inbox' \in [Parties -> Seq({"window", "manager", "other"})]
  <2>1. inbox \in [Parties -> Seq({"window", "manager", "other"})] /\ d \in Parties
    BY PartiesAreApart DEF SInv, TypeOK
  <2>2. Append(inbox[d], type) \in Seq({"window", "manager", "other"})
    BY <2>1
  <2> QED
    BY <1>3, <2>1, <2>2
<1>5. events' \in [Drivers -> 0..MaxEvents]
  <2>1. d \in Drivers /\ events \in [Drivers -> 0..MaxEvents] /\ MaxEvents \in Nat
    BY StartAssumption DEF SInv, TypeOK
  <2>2. events[d] + 1 \in 0..MaxEvents
    BY <1>1, <2>1
  <2> QED
    BY <1>1, <2>1, <2>2
<1>6. TypeOK'
  BY <1>1, <1>2, <1>4, <1>5 DEF SInv, TypeOK, QueueOK, main
<1> QED
  BY <1>2, <1>6 DEF SInv

LEMMA ConnectStep ==
  ASSUME SInv, Connect
  PROVE  SInv'
<1>1. /\ listening /\ HasRoom
      /\ early' = (early \/ ~ BothConnected)
      /\ UNCHANGED <<main, listening, fd, threads, inbox, closed, events, failed>>
  BY DEF Connect
<1>2. PICK p \in Clients : ~ Queued(p) /\ queue' = Append(queue, p)
  BY DEF Connect
<1>3. p \in Parties /\ p # "mouse" /\ p # "keyboard"
  BY PartiesAreApart
<1>4. /\ QueueOK'
      /\ Len(queue') = Len(queue) + 1 /\ queue' # <<>>
      /\ \A k \in DOMAIN queue : queue'[k] = queue[k]
      /\ queue'[Len(queue) + 1] = p
      /\ DOMAIN queue' = DOMAIN queue \cup {Len(queue) + 1}
      /\ \A r : Queued(r)' <=> Queued(r) \/ r = p
  BY <1>1, <1>2, <1>3, Enqueue DEF SInv
<1>5. TypeOK'
  BY <1>1, <1>4 DEF SInv, TypeOK, QueueOK, main
<1>6. Course'
  BY <1>1, <1>3, <1>4 DEF SInv, Course, main
<1>7. Line'
  <2> SUFFICES ASSUME ~ early' PROVE Line'
    BY DEF Line
  <2>0. ~ early /\ BothConnected
    BY <1>1, Zenon
  <2>1. ~ early /\ step >= 4 /\ step \in Nat
    BY <2>0 DEF BothConnected, SInv, TypeOK
  <2>2. ToCome' = ToCome
    BY <1>1 DEF ToCome
  <2>3. /\ Len(queue) >= Len(ToCome)
        /\ \A k \in DOMAIN queue :
             IF k <= Len(ToCome) THEN queue[k] = ToCome[k] ELSE queue[k] \in Clients
    BY <1>1, <2>1 DEF SInv, Line
  <2>4. Len(queue) \in Nat /\ Len(ToCome) \in Nat
    BY DEF SInv, TypeOK, ToCome
  <2>5. Len(queue') >= Len(ToCome) /\ ~ (Len(queue) + 1 <= Len(ToCome))
    BY <1>4, <2>3, <2>4
  <2>6. \A k \in DOMAIN queue' :
          IF k <= Len(ToCome) THEN queue'[k] = ToCome[k] ELSE queue'[k] \in Clients
    BY <1>4, <2>3, <2>5
  <2>7. ~ (step < 3) /\ step # 3
    BY <2>1
  <2> QED
    BY <1>1, <2>1, <2>2, <2>5, <2>6, <2>7 DEF SInv, Line, main
<1> QED
  BY <1>5, <1>6, <1>7 DEF SInv

LEMMA SendRequestStep ==
  ASSUME SInv, SendRequest
  PROVE  SInv'
<1>1. PICK p \in Clients, type \in {"window", "manager"} : inbox' = [inbox EXCEPT ![p] = <<type>>]
  BY DEF SendRequest
<1>2. UNCHANGED <<main, listening, queue, fd, threads, closed, events, failed, early>>
  BY DEF SendRequest
<1>3. QueueOK' /\ Course' /\ Line'
  BY <1>2, OthersKeep
<1>4. inbox' \in [Parties -> Seq({"window", "manager", "other"})]
  <2>1. <<type>> \in Seq({"window", "manager", "other"})
    OBVIOUS
  <2> QED
    BY <1>1, <2>1 DEF SInv, TypeOK
<1>5. TypeOK'
  BY <1>2, <1>3, <1>4 DEF SInv, TypeOK, QueueOK, main
<1> QED
  BY <1>3, <1>5 DEF SInv

LEMMA CloseStep ==
  ASSUME SInv, Close
  PROVE  SInv'
<1>1. /\ closed' \subseteq Clients
      /\ UNCHANGED <<main, listening, queue, fd, threads, inbox, events, failed, early>>
  BY DEF Close, SInv, TypeOK
<1>2. QueueOK' /\ Course' /\ Line'
  BY <1>1, OthersKeep
<1>3. TypeOK'
  BY <1>1, <1>2 DEF SInv, TypeOK, QueueOK, main
<1> QED
  BY <1>2, <1>3 DEF SInv

LEMMA NextSInv ==
  ASSUME SInv, [Next]_vars
  PROVE  SInv'
<1>1. CASE KwInit
  BY <1>1, StepDoneStep, ListenStep, ConnectDriverStep, StepFailsStep DEF KwInit
<1>2. CASE Select \/ ServeDriver \/ ReadRequestAsEvents \/ RestIsGone
  BY <1>2, SelectStep, ServeDriverStep, ReadRequestAsEventsStep, RestIsGoneStep
<1>3. CASE Accept
  BY <1>3, AcceptDriverStep, AcceptNobodyStep, AcceptClientStep DEF Accept
<1>4. CASE First
  BY <1>4, FirstStep
<1>5. CASE Others
  BY <1>5, SendEventStep, ConnectStep, SendRequestStep, CloseStep DEF Others
<1>6. CASE UNCHANGED vars
  <2>1. QueueOK' /\ Course' /\ Line'
    BY <1>6, OthersKeep DEF vars
  <2> QED
    BY <1>6, <2>1 DEF SInv, TypeOK, QueueOK, vars, main
<1> QED
  BY <1>1, <1>2, <1>3, <1>4, <1>5, <1>6 DEF Next, Main

-----------------------------------------------------------------------------
(* Theorems                                                                *)

\* As long as no program came before the drivers, the queue of connections
\* begins with the drivers that main has not accepted, in the order of main.c.
THEOREM StartInvariant == Spec => []SInv
<1>1. Init => SInv
  BY InitSInv
<1>2. SInv /\ [Next]_vars => SInv'
  BY NextSInv
<1> QED
  BY <1>1, <1>2, PTL DEF Spec

\* main takes no program for a driver and no driver for a program, whatever
\* programs connect after the drivers have, whatever fails in kw_init, and
\* whoever ends.
THEOREM DriversAreKnown == Spec => []ConnectionsAreTakenRightly
<1>1. SInv => ConnectionsAreTakenRightly
  BY PartiesAreApart DEF SInv, Line, ConnectionsAreTakenRightly
<1> QED
  BY <1>1, StartInvariant, PTL

=============================================================================
