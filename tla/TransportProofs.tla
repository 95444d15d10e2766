---------------------------- MODULE TransportProofs ----------------------------
(***************************************************************************)
(* Proofs about what a window and its client pass to each other: the       *)
(* events of a window (EventQueue) and the bytes of requests (Wire).       *)
(*                                                                         *)
(* EventQueue, for any heap and number of events: the two linked lists and *)
(* the hands of the two threads share the nodes, events keep what they     *)
(* were filled with, and the queue is a FIFO queue.  ListFrom follows the  *)
(* links by a recursive function.  What it computes is proved from the     *)
(* least number (ListFromIsTheList): a sequence that the links join from   *)
(* start to NULL is the list, since at the first place where they differed *)
(* the places before would be the same.                                    *)
(*                                                                         *)
(* Wire, for every size of headers, requests, buffers and sockets, and any *)
(* number of requests: types, and that client and server keep in step.     *)
(* The property speaks of neighbouring bytes.  To know that the bytes the  *)
(* thread has counted off are those of one request, the invariant speaks   *)
(* of any two bytes of the stream (InOrder): the later one is of the same  *)
(* request, as far on in it as in the stream, or of a later request and    *)
(* behind the end of the earlier one.  A step adds a request at the end,   *)
(* takes one away at the start, or moves a border within the stream.       *)
(***************************************************************************)
EXTENDS EventQueue, Wire, FiniteSetTheorems, FunctionTheorems, SequenceTheorems,
        WellFoundedInduction, TLAPS

-----------------------------------------------------------------------------
(* Lists                                                                   *)

\* A set of natural numbers that is not empty has a least element.
LEMMA LeastNumber ==
  ASSUME NEW T, T \subseteq Nat, T # {}
  PROVE  \E n \in T : \A k \in T : n <= k
<1> DEFINE R == {p \in Nat \X Nat : p[1] < p[2]}
<1>1. IsWellFoundedOn(R, Nat)
  BY NatLessThanWellFounded DEF OpToRel
<1> HIDE DEF R
<1>2. PICK n \in T : \A k \in T : ~(<<k, n>> \in R)
  BY <1>1, WFMin
<1>3. ASSUME NEW k \in T, k < n PROVE FALSE
  BY <1>2, <1>3, T \subseteq Nat DEF R
<1>4. QED
  BY <1>3, T \subseteq Nat

\* The i-th pointer of the list q: NULL behind its end.
At(q, i) == IF i \in 1..Len(q) THEN q[i] ELSE NULL

\* The links lead from start through the nodes of q, each once, to NULL.
IsList(links, start, q) ==
  /\ q \in Seq(Nodes)
  /\ start = At(q, 1)
  /\ \A i \in 1..Len(q) : links[q[i]] = At(q, i + 1)
  /\ \A i, j \in 1..Len(q) : q[i] = q[j] => i = j

\* A list in which no node is twice is no longer than there are nodes.
LEMMA ListLength ==
  ASSUME NEW q \in Seq(Nodes), \A i, j \in 1..Len(q) : q[i] = q[j] => i = j
  PROVE  /\ Len(q) <= Cardinality(Nodes)
         /\ Cardinality(Nodes) \in Nat
         /\ IsFiniteSet(NodesOf(q))
         /\ Cardinality(NodesOf(q)) = Len(q)
<1>1. q \in [1..Len(q) -> NodesOf(q)] /\ Len(q) \in Nat /\ DOMAIN q = 1..Len(q)
  BY DEF NodesOf
<1>2. q \in Bijection(1..Len(q), NodesOf(q))
  BY <1>1 DEF Bijection, Injection, Surjection, IsInjective, NodesOf
<1>3. ExistsBijection(1..Len(q), NodesOf(q))
  BY <1>2 DEF ExistsBijection
<1>4. IsFiniteSet(NodesOf(q)) /\ Cardinality(NodesOf(q)) = Len(q)
  BY <1>1, <1>3, FS_CountingElements, FS_NatBijection
<1>5. NodesOf(q) \in SUBSET Nodes
  BY <1>1 DEF NodesOf
<1>6. QED
  BY <1>4, <1>5, FS_Subset, FS_CardinalityType, EventQueueAssumption

\* What ListFrom computes when the links form a list.
LEMMA ListFromIsTheList ==
  ASSUME NEW links, NEW start, NEW q, IsList(links, start, q)
  PROVE  ListFrom(links, start) = q
<1> DEFINE N == Cardinality(Nodes)
           Step(g) == [i \in 1..(N + 1) |->
                         IF i = 1 THEN start
                         ELSE IF g[i - 1] = NULL THEN NULL ELSE links[g[i - 1]]]
           at == CHOOSE g : g = Step(g)
           walk == [i \in 1..(N + 1) |-> At(q, i)]
<1>1. q \in Seq(Nodes) /\ Len(q) \in Nat /\ Len(q) <= N /\ N \in Nat
  BY ListLength DEF IsList
<1>2. ASSUME NEW i \in 1..(N + 1)
      PROVE  At(q, i) = IF i = 1 THEN start
                        ELSE IF walk[i - 1] = NULL THEN NULL ELSE links[walk[i - 1]]
  <2>1. CASE i = 1
    BY <2>1 DEF IsList
  <2>2. CASE i # 1
    <3>1. i - 1 \in 1..(N + 1) /\ walk[i - 1] = At(q, i - 1)
      BY <2>2, <1>1
    <3>2. CASE i - 1 \in 1..Len(q)
      <4>1. At(q, i - 1) = q[i - 1] /\ q[i - 1] # NULL
        BY <3>2, <1>1, EventQueueAssumption DEF At
      <4>2. links[q[i - 1]] = At(q, (i - 1) + 1)
        BY <3>2 DEF IsList
      <4>3. (i - 1) + 1 = i
        BY <1>1
      <4>4. QED
        BY <4>1, <4>2, <4>3, <3>1, <2>2
    <3>3. CASE ~(i - 1 \in 1..Len(q))
      <4>1. At(q, i - 1) = NULL /\ At(q, i) = NULL
        BY <3>3, <2>2, <1>1 DEF At
      <4>2. QED
        BY <4>1, <3>1, <2>2
    <3>4. QED
      BY <3>2, <3>3
  <2>3. QED
    BY <2>1, <2>2
<1>3. walk = Step(walk)
  BY <1>2
<1>4. at = Step(at)
  BY <1>3
<1> HIDE DEF at
<1>5. ASSUME NEW i \in 1..(N + 1)
      PROVE  at[i] = At(q, i)
  <2> DEFINE Wrong == {k \in 1..(N + 1) : at[k] # At(q, k)}
  <2>1. SUFFICES ASSUME Wrong # {} PROVE FALSE
    OBVIOUS
  <2>2. Wrong \subseteq Nat
    BY <1>1
  <2>3. PICK k \in Wrong : \A j \in Wrong : k <= j
    BY <2>1, <2>2, LeastNumber
  <2>4. k \in 1..(N + 1) /\ at[k] # At(q, k)
    OBVIOUS
  <2>5. at[k] = IF k = 1 THEN start
                ELSE IF at[k - 1] = NULL THEN NULL ELSE links[at[k - 1]]
    BY <1>4, <2>4
  <2>6. CASE k = 1
    BY <2>6, <2>5, <2>4, <1>2
  <2>7. CASE k # 1
    <3>1. k - 1 \in 1..(N + 1) /\ ~(k <= k - 1)
      BY <2>7, <2>4, <1>1
    <3>2. at[k - 1] = At(q, k - 1)
      BY <3>1, <2>3
    <3>3. walk[k - 1] = At(q, k - 1)
      BY <3>1
    <3>4. QED
      BY <3>2, <3>3, <2>7, <2>5, <2>4, <1>2
  <2>8. QED
    BY <2>6, <2>7
<1>6. {j \in 1..(N + 1) : at[j] # NULL} = 1..Len(q)
  BY <1>5, <1>1, EventQueueAssumption DEF At
<1>7. Cardinality(1..Len(q)) = Len(q)
  <2>1. Len(q) \in Int /\ 1 \in Int
    BY <1>1
  <2>2. Cardinality(1..Len(q)) = IF 1 > Len(q) THEN 0 ELSE Len(q) - 1 + 1
    BY <2>1, FS_Interval
  <2>3. QED
    BY <2>2, <1>1
<1>8. ListFrom(links, start)
        = [i \in 1..Cardinality({j \in 1..(N + 1) : at[j] # NULL}) |-> at[i]]
  BY DEF ListFrom, at
<1>9. ListFrom(links, start) = [i \in 1..Len(q) |-> q[i]]
  BY <1>8, <1>7, <1>6, <1>5, <1>1 DEF At
<1>10. QED
  BY <1>9, <1>1

-----------------------------------------------------------------------------
(* Lists that grow and shrink. *)

\* The node n is in the list q.
Has(q, n) == \E i \in 1..Len(q) : q[i] = n

\* A list stays a list when links of other nodes change.
LEMMA SameLinks ==
  ASSUME NEW links, NEW links2, NEW start, NEW q, IsList(links, start, q),
         \A i \in 1..Len(q) : links2[q[i]] = links[q[i]]
  PROVE  IsList(links2, start, q)
BY DEF IsList

\* NULL starts the empty list.
LEMMA EmptyList ==
  ASSUME NEW links
  PROVE  IsList(links, NULL, <<>>)
BY DEF IsList, At

\* The first and the last node of a list, if it has any.
LEMMA ListAtEnd ==
  ASSUME NEW links, NEW start, NEW q, IsList(links, start, q)
  PROVE  /\ start = NULL <=> q = <<>>
         /\ At(q, Len(q)) = NULL <=> q = <<>>
         /\ q # <<>> => At(q, Len(q)) = q[Len(q)] /\ Len(q) \in 1..Len(q)
                        /\ At(q, 1) = q[1] /\ links[q[Len(q)]] = NULL
<1>1. q \in Seq(Nodes) /\ Len(q) \in Nat /\ (q = <<>> <=> Len(q) = 0)
  BY DEF IsList
<1>2. \A i \in 1..Len(q) : q[i] \in Nodes
  BY <1>1
<1>3. CASE Len(q) = 0
  BY <1>3, <1>1 DEF IsList, At
<1>4. CASE Len(q) # 0
  <2>1. Len(q) \in 1..Len(q) /\ 1 \in 1..Len(q) /\ ~(Len(q) + 1 \in 1..Len(q))
    BY <1>4, <1>1
  <2>2. QED
    BY <2>1, <1>1, <1>2, EventQueueAssumption DEF IsList, At
<1>5. QED
  BY <1>3, <1>4

\* The list r is q with n behind it.
Longer(r, q, n) ==
  /\ r \in Seq(Nodes)
  /\ Len(r) = Len(q) + 1
  /\ \A i \in 1..Len(q) : r[i] = q[i]
  /\ r[Len(q) + 1] = n

\* What AppendNode does to the links of a list, and to its start.
LinksBehind(links, start, tail, n) ==
  IF start # NULL THEN [links EXCEPT ![tail] = n, ![n] = NULL] ELSE [links EXCEPT ![n] = NULL]

StartBehind(start, n) == IF start # NULL THEN start ELSE n

\* A node that is put behind a list is its last.
LEMMA ListAppend ==
  ASSUME NEW links \in [Nodes -> Pointers], NEW start, NEW q, IsList(links, start, q),
         NEW n \in Nodes, ~Has(q, n),
         NEW tail, tail = At(q, Len(q)),
         NEW links2,
         links2 = LinksBehind(links, start, tail, n),
         NEW r, Longer(r, q, n)
  PROVE  IsList(links2, StartBehind(start, n), r)
<1>0. links2 = IF start # NULL THEN [links EXCEPT ![tail] = n, ![n] = NULL]
                              ELSE [links EXCEPT ![n] = NULL]
  BY DEF LinksBehind
<1>1. q \in Seq(Nodes) /\ Len(q) \in Nat /\ \A i \in 1..Len(q) : q[i] \in Nodes
  BY DEF IsList
<1>2. /\ r \in Seq(Nodes) /\ Len(r) = Len(q) + 1
      /\ \A i \in 1..Len(q) : r[i] = q[i]
      /\ r[Len(q) + 1] = n
  BY DEF Longer
<1>3. \A i \in 1..Len(q) : q[i] # n
  BY DEF Has
<1>4. ASSUME NEW i \in 1..Len(r), NEW j \in 1..Len(r), r[i] = r[j]
      PROVE  i = j
  BY <1>1, <1>2, <1>3, <1>4 DEF IsList
<1>5. At(r, 1) = IF start # NULL THEN start ELSE n
  <2>0. start = NULL <=> q = <<>>
    BY ListAtEnd
  <2>1. start = At(q, 1) /\ (start = NULL <=> q = <<>>) /\ (q = <<>> <=> Len(q) = 0)
    BY <1>1, <2>0 DEF IsList
  <2>2. At(r, 1) = r[1]
    BY <1>1, <1>2 DEF At
  <2>3. CASE start = NULL
    BY <2>1, <2>2, <2>3, <1>2
  <2>4. CASE start # NULL
    <3>1. 1 \in 1..Len(q)
      BY <2>1, <2>4, <1>1
    <3>2. QED
      BY <3>1, <2>1, <2>2, <2>4, <1>2 DEF At
  <2>5. QED
    BY <2>3, <2>4
<1>6. links2[n] = NULL
  BY <1>0, <1>3 DEF Pointers
<1>7. ASSUME NEW i \in 1..Len(r)
      PROVE  links2[r[i]] = At(r, i + 1)
  <2>1. CASE i = Len(q) + 1
    BY <2>1, <1>1, <1>2, <1>6 DEF At
  <2>2. CASE i \in 1..Len(q)
    <3>1. start # NULL /\ At(q, Len(q)) = q[Len(q)] /\ Len(q) \in 1..Len(q)
      BY <2>2, <1>1, ListAtEnd
    <3>2. links2 = [links EXCEPT ![q[Len(q)]] = n, ![n] = NULL]
      BY <1>0, <3>1
    <3>3. CASE i = Len(q)
      <4>1. links2[q[i]] = n
        BY <3>1, <3>2, <3>3, <1>1, <1>3
      <4>2. At(r, i + 1) = n
        BY <3>3, <1>1, <1>2 DEF At
      <4>3. QED
        BY <4>1, <4>2, <2>2, <1>2
    <3>4. CASE i # Len(q)
      <4>1. q[i] # q[Len(q)] /\ q[i] # n
        BY <3>1, <3>4, <2>2, <1>3 DEF IsList
      <4>2. links2[q[i]] = links[q[i]]
        BY <4>1, <3>2, <2>2, <1>1
      <4>3. links[q[i]] = At(q, i + 1)
        BY <2>2 DEF IsList
      <4>4. i + 1 \in 1..Len(q)
        BY <3>4, <2>2, <1>1
      <4>5. At(q, i + 1) = At(r, i + 1)
        BY <4>4, <1>1, <1>2 DEF At
      <4>6. QED
        BY <4>2, <4>3, <4>5, <2>2, <1>2
    <3>5. QED
      BY <3>3, <3>4
  <2>3. QED
    BY <2>1, <2>2, <1>1, <1>2
<1>8. QED
  BY <1>2, <1>4, <1>5, <1>7 DEF IsList, StartBehind

\* What TakeNode and TakeFreeNode do to a list.
LEMMA ListTail ==
  ASSUME NEW links, NEW start, NEW q, IsList(links, start, q), start # NULL
  PROVE  /\ q \in Seq(Nodes) /\ q # <<>> /\ 1 \in 1..Len(q) /\ start = q[1] /\ start \in Nodes
         /\ IsList(links, links[start], Tail(q))
         /\ Len(Tail(q)) = Len(q) - 1
         /\ \A i \in 1..(Len(q) - 1) : Tail(q)[i] = q[i + 1]
         /\ ~Has(Tail(q), start)
         /\ \A n : Has(q, n) <=> Has(Tail(q), n) \/ n = start
<1> DEFINE r == Tail(q)
<1>0. q # <<>>
  BY ListAtEnd
<1>1. q \in Seq(Nodes) /\ Len(q) \in Nat /\ q # <<>> /\ \A i \in 1..Len(q) : q[i] \in Nodes
  BY <1>0 DEF IsList
<1>2. Len(q) # 0 /\ 1 \in 1..Len(q)
  BY <1>1
<1>3. start = q[1] /\ start \in Nodes
  BY <1>1, <1>2 DEF IsList, At
<1>4. r \in Seq(Nodes) /\ Len(r) = Len(q) - 1 /\ \A i \in 1..(Len(q) - 1) : r[i] = q[i + 1]
  BY <1>1, <1>2
<1> HIDE DEF r
<1>5. links[start] = At(r, 1)
  BY <1>1, <1>2, <1>3, <1>4 DEF IsList, At
<1>6. ASSUME NEW i \in 1..Len(r)
      PROVE  links[r[i]] = At(r, i + 1)
  <2>1. i + 1 \in 1..Len(q) /\ r[i] = q[i + 1]
    BY <1>1, <1>4
  <2>2. links[q[i + 1]] = At(q, (i + 1) + 1)
    BY <2>1 DEF IsList
  <2>3. At(q, (i + 1) + 1) = At(r, i + 1)
    BY <1>1, <1>4 DEF At
  <2>4. QED
    BY <2>1, <2>2, <2>3
<1>7. ASSUME NEW i \in 1..Len(r), NEW j \in 1..Len(r), r[i] = r[j]
      PROVE  i = j
  <2>1. i + 1 \in 1..Len(q) /\ j + 1 \in 1..Len(q) /\ q[i + 1] = q[j + 1]
    BY <1>1, <1>4, <1>7
  <2>2. i + 1 = j + 1
    BY <2>1 DEF IsList
  <2>3. QED
    BY <2>2
<1>8. IsList(links, links[start], r)
  BY <1>4, <1>5, <1>6, <1>7 DEF IsList
<1>9. ~Has(r, start)
  <2>1. SUFFICES ASSUME NEW i \in 1..Len(r), r[i] = start PROVE FALSE
    BY DEF Has
  <2>2. i + 1 \in 1..Len(q) /\ q[i + 1] = q[1]
    BY <2>1, <1>1, <1>3, <1>4
  <2>3. i + 1 = 1
    BY <2>2, <1>2 DEF IsList
  <2>4. QED
    BY <2>3, <1>4
<1>10. ASSUME NEW n
       PROVE  Has(q, n) <=> Has(r, n) \/ n = start
  <2>1. ASSUME Has(q, n) PROVE Has(r, n) \/ n = start
    <3>1. PICK i \in 1..Len(q) : q[i] = n
      BY <2>1 DEF Has
    <3>2. CASE i = 1
      BY <3>1, <3>2, <1>3
    <3>3. CASE i # 1
      <4>1. i - 1 \in 1..Len(r) /\ i - 1 \in 1..(Len(q) - 1) /\ (i - 1) + 1 = i
        BY <3>3, <1>1, <1>4
      <4>2. r[i - 1] = n
        BY <4>1, <3>1, <1>4
      <4>3. QED
        BY <4>1, <4>2 DEF Has
    <3>4. QED
      BY <3>2, <3>3
  <2>2. ASSUME Has(r, n) PROVE Has(q, n)
    <3>1. PICK i \in 1..Len(r) : r[i] = n
      BY <2>2 DEF Has
    <3>2. i + 1 \in 1..Len(q) /\ q[i + 1] = n
      BY <3>1, <1>1, <1>4
    <3>3. QED
      BY <3>2 DEF Has
  <2>3. ASSUME n = start PROVE Has(q, n)
    BY <2>3, <1>2, <1>3 DEF Has
  <2>4. QED
    BY <2>1, <2>2, <2>3
<1>11. QED
  BY <1>1, <1>2, <1>3, <1>4, <1>8, <1>9, <1>10 DEF r

\* What Recycle does to a list.
LEMMA ListPush ==
  ASSUME NEW links \in [Nodes -> Pointers], NEW start, NEW q, IsList(links, start, q),
         NEW n \in Nodes, ~Has(q, n)
  PROVE  /\ IsList([links EXCEPT ![n] = start], n, <<n>> \o q)
         /\ \A m : Has(<<n>> \o q, m) <=> Has(q, m) \/ m = n
<1> DEFINE r == <<n>> \o q
           links2 == [links EXCEPT ![n] = start]
<1>1. q \in Seq(Nodes) /\ Len(q) \in Nat /\ \A i \in 1..Len(q) : q[i] \in Nodes
  BY DEF IsList
<1>2. /\ r \in Seq(Nodes) /\ Len(r) = Len(q) + 1 /\ r[1] = n
      /\ \A i \in 2..Len(r) : r[i] = q[i - 1]
  BY <1>1
<1>3. links2[n] = start /\ \A m \in Nodes : m # n => links2[m] = links[m]
  OBVIOUS
<1> HIDE DEF r, links2
<1>4. \A i \in 1..Len(q) : q[i] # n
  BY DEF Has
<1>5. At(r, 1) = n
  BY <1>1, <1>2 DEF At
<1>6. ASSUME NEW i \in 1..Len(r)
      PROVE  links2[r[i]] = At(r, i + 1)
  <2>1. CASE i = 1
    BY <2>1, <1>1, <1>2, <1>3 DEF At, IsList
  <2>2. CASE i # 1
    <3>1. i \in 2..Len(r) /\ i - 1 \in 1..Len(q) /\ (i - 1) + 1 = i
      BY <2>2, <1>1, <1>2
    <3>2. r[i] = q[i - 1] /\ links2[q[i - 1]] = links[q[i - 1]]
      BY <3>1, <1>1, <1>2, <1>3, <1>4
    <3>3. links[q[i - 1]] = At(q, i)
      BY <3>1 DEF IsList
    <3>4. At(q, i) = At(r, i + 1)
      BY <3>1, <1>1, <1>2 DEF At
    <3>5. QED
      BY <3>2, <3>3, <3>4
  <2>3. QED
    BY <2>1, <2>2
<1>7. ASSUME NEW i \in 1..Len(r), NEW j \in 1..Len(r), r[i] = r[j]
      PROVE  i = j
  <2>1. CASE i = 1 \/ j = 1
    BY <2>1, <1>1, <1>2, <1>4, <1>7
  <2>2. CASE i # 1 /\ j # 1
    <3>1. i - 1 \in 1..Len(q) /\ j - 1 \in 1..Len(q) /\ q[i - 1] = q[j - 1]
      BY <2>2, <1>1, <1>2, <1>7
    <3>2. i - 1 = j - 1
      BY <3>1 DEF IsList
    <3>3. QED
      BY <3>2
  <2>3. QED
    BY <2>1, <2>2
<1>8. IsList(links2, n, r)
  BY <1>2, <1>5, <1>6, <1>7 DEF IsList
<1>9. ASSUME NEW m
      PROVE  Has(r, m) <=> Has(q, m) \/ m = n
  <2>1. ASSUME Has(q, m) PROVE Has(r, m)
    <3>1. PICK i \in 1..Len(q) : q[i] = m
      BY <2>1 DEF Has
    <3>2. i + 1 \in 2..Len(r) /\ (i + 1) - 1 = i
      BY <1>1, <1>2
    <3>3. r[i + 1] = m
      BY <3>1, <3>2, <1>2
    <3>4. QED
      BY <3>2, <3>3 DEF Has
  <2>2. ASSUME Has(r, m) PROVE Has(q, m) \/ m = n
    <3>1. PICK i \in 1..Len(r) : r[i] = m
      BY <2>2 DEF Has
    <3>2. CASE i = 1
      BY <3>1, <3>2, <1>2
    <3>3. CASE i # 1
      <4>1. i - 1 \in 1..Len(q) /\ q[i - 1] = m
        BY <3>1, <3>3, <1>1, <1>2
      <4>2. QED
        BY <4>1 DEF Has
    <3>4. QED
      BY <3>2, <3>3
  <2>3. ASSUME m = n PROVE Has(r, m)
    <3>1. 1 \in 1..Len(r) /\ r[1] = m
      BY <2>3, <1>1, <1>2
    <3>2. QED
      BY <3>1 DEF Has
  <2>4. QED
    BY <2>1, <2>2, <2>3
<1>10. QED
  BY <1>8, <1>9 DEF r, links2

-----------------------------------------------------------------------------
(* The inductive invariant: q is what the queue holds and f what the free  *)
(* list holds.                                                             *)

\* alloc_event has the node n and has not queued it yet.
HeldByProducer(n) == producer.at = "append" /\ n = producer.elp

\* Who has a node in hand.
Hands ==
  /\ producer.elp = NULL <=> producer.at \in {"idle", "alloc", "malloc"}
  /\ consumer.elp = NULL <=> consumer.at \in {"select", "loop", "take"}
  /\ consumer.elp # NULL => ~HeldByProducer(consumer.elp)

\* The two lists, and what is in hand, share no node and are all malloc gave.
Linked(q, f) ==
  /\ IsList(next, eventhead, q)
  /\ IsList(next, free_event_list, f)
  /\ eventtail = At(q, Len(q))
  /\ \A n \in Nodes : Has(q, n) => ~Has(f, n)
  /\ \A n \in Nodes : Has(q, n) \/ Has(f, n) => ~HeldByProducer(n) /\ n # consumer.elp
  /\ \A n \in Nodes :
       n \in allocated <=> Has(q, n) \/ Has(f, n) \/ HeldByProducer(n) \/ n = consumer.elp

\* The queue holds the events delivered and not taken, in order.
Numbered(q) ==
  /\ Len(q) = delivered - taken
  /\ \A i \in 1..Len(q) : number[q[i]] = taken + i
  /\ producer.at \in {"alloc", "malloc", "append"} => delivered < MaxEvents

\* What a node is filled with for the n-th event.
Full(n) == [type |-> "exposure", data |-> n]

\* The node being filled is that of the last event; all others are filled.
Content(q) ==
  /\ producer.at \in {"clear", "setType", "setData"} => number[producer.elp] = delivered
  /\ producer.at = "setData" => event[producer.elp].type = "exposure"
  /\ \A i \in 1..Len(q) : q[i] # producer.elp => event[q[i]] = Full(number[q[i]])
  /\ consumer.at \in {"copyType", "copyData"} =>
       /\ number[consumer.elp] = taken
       /\ consumer.elp # producer.elp => event[consumer.elp] = Full(taken)
       /\ filled => consumer.elp # producer.elp
  /\ consumer.at = "copyData" /\ filled => consumer.evt.type = "exposure"
  /\ consumer.at = "send" /\ filled => consumer.evt = Full(taken)

\* All of it; and the same of what the code's links form.
InvFor(q, f) == TypeOK /\ Hands /\ Linked(q, f) /\ Numbered(q) /\ Content(q)

Inv == InvFor(Queue, FreeList)

\* StartDelivery keeps the invariant.
LEMMA StartDeliveryStep ==
  ASSUME NEW q, NEW f, InvFor(q, f), StartDelivery
  PROVE  InvFor(q, f)'
<1>1. TypeOK /\ Hands /\ Linked(q, f) /\ Numbered(q) /\ Content(q)
  BY DEF InvFor
<1>2. TypeOK'
  BY <1>1, EventQueueAssumption DEF TypeOK, Pointers, EventData, Numbered, ProducerGoes, lists,
     history, StartDelivery
<1>3. Hands'
  BY <1>1, EventQueueAssumption DEF TypeOK, Hands, HeldByProducer, Linked, Pointers,
     ProducerGoes, lists, history, StartDelivery
<1>4. Linked(q, f)'
  BY <1>1, EventQueueAssumption DEF TypeOK, Hands, HeldByProducer, Linked, Pointers,
     ProducerGoes, lists, history, StartDelivery
<1>5. Numbered(q)'
  BY <1>1, EventQueueAssumption DEF TypeOK, Numbered, ProducerGoes, lists, history,
     StartDelivery
<1>6. Content(q)'
  BY <1>1, EventQueueAssumption DEF TypeOK, Hands, Content, Full, EventData, Pointers,
     ProducerGoes, lists, history, StartDelivery
<1>7. QED
  BY <1>2, <1>3, <1>4, <1>5, <1>6 DEF InvFor

\* NoFreeNode keeps the invariant.
LEMMA NoFreeNodeStep ==
  ASSUME NEW q, NEW f, InvFor(q, f), NoFreeNode
  PROVE  InvFor(q, f)'
<1>1. TypeOK /\ Hands /\ Linked(q, f) /\ Numbered(q) /\ Content(q)
  BY DEF InvFor
<1>2. TypeOK'
  BY <1>1, EventQueueAssumption DEF TypeOK, Pointers, EventData, Numbered, ProducerGoes, lists,
     history, NoFreeNode
<1>3. Hands'
  BY <1>1, EventQueueAssumption DEF TypeOK, Hands, HeldByProducer, Linked, Pointers,
     ProducerGoes, lists, history, NoFreeNode
<1>4. Linked(q, f)'
  BY <1>1, EventQueueAssumption DEF TypeOK, Hands, HeldByProducer, Linked, Pointers,
     ProducerGoes, lists, history, NoFreeNode
<1>5. Numbered(q)'
  BY <1>1, EventQueueAssumption DEF TypeOK, Numbered, ProducerGoes, lists, history, NoFreeNode
<1>6. Content(q)'
  BY <1>1, EventQueueAssumption DEF TypeOK, Hands, Content, Full, EventData, Pointers,
     ProducerGoes, lists, history, NoFreeNode
<1>7. QED
  BY <1>2, <1>3, <1>4, <1>5, <1>6 DEF InvFor

\* MallocNode keeps the invariant.
LEMMA MallocNodeStep ==
  ASSUME NEW q, NEW f, InvFor(q, f), MallocNode
  PROVE  InvFor(q, f)'
<1>1. TypeOK /\ Hands /\ Linked(q, f) /\ Numbered(q) /\ Content(q)
  BY DEF InvFor
<1>2. TypeOK'
  <2>1. PICK n \in Nodes \ allocated : producer' = [at |-> "append", elp |-> n]
                                      /\ allocated' = allocated \cup {n}
    BY DEF MallocNode
  <2>2. UNCHANGED <<next, event, eventhead, eventtail, free_event_list, consumer,
                    waiting_for_event, delivered, number, taken, filled>>
    BY DEF MallocNode, lists, history
  <2>3. /\ producer' \in [at : {"idle", "alloc", "malloc", "append", "clear", "setType", "setData"},
                           elp : Pointers]
        /\ allocated' \subseteq Nodes
    BY <1>1, <2>1 DEF TypeOK, Pointers
  <2>4. QED
    BY <1>1, <2>2, <2>3 DEF TypeOK
<1>3. Hands'
  BY <1>1, EventQueueAssumption DEF TypeOK, Hands, HeldByProducer, Linked, Pointers, lists,
     history, MallocNode
<1>4. Linked(q, f)'
  BY <1>1, EventQueueAssumption DEF TypeOK, Hands, HeldByProducer, Linked, Pointers, lists,
     history, MallocNode
<1>5. Numbered(q)'
  BY <1>1, EventQueueAssumption DEF TypeOK, Numbered, lists, history, MallocNode
<1>6. Content(q)'
  <2>1. PICK n \in Nodes \ allocated : producer' = [at |-> "append", elp |-> n]
    BY DEF MallocNode
  <2>2. consumer.elp # n
    BY <1>1, <2>1 DEF Linked
  <2>3. \A i \in 1..Len(q) : q[i] \in Nodes
    BY <1>1 DEF Linked, IsList
  <2>4. producer.elp \notin Nodes
    BY <1>1, EventQueueAssumption DEF Hands, MallocNode
  <2>5. UNCHANGED <<event, consumer, number, taken, filled, delivered>>
    BY DEF MallocNode, history
  <2>6. producer'.at = "append" /\ producer'.elp = n
    BY <2>1
  <2>7. consumer.at \in {"copyType", "copyData"} => consumer.elp # producer.elp
    BY <1>1, <2>4 DEF Hands, TypeOK, Pointers
  <2>8. QED
    BY <1>1, <2>2, <2>3, <2>4, <2>5, <2>6, <2>7 DEF Content
<1>7. QED
  BY <1>2, <1>3, <1>4, <1>5, <1>6 DEF InvFor

\* MallocFails keeps the invariant.
LEMMA MallocFailsStep ==
  ASSUME NEW q, NEW f, InvFor(q, f), MallocFails
  PROVE  InvFor(q, f)'
<1>1. TypeOK /\ Hands /\ Linked(q, f) /\ Numbered(q) /\ Content(q)
  BY DEF InvFor
<1>2. TypeOK'
  BY <1>1, EventQueueAssumption DEF TypeOK, Pointers, EventData, Numbered, ProducerGoes, lists,
     history, MallocFails
<1>3. Hands'
  BY <1>1, EventQueueAssumption DEF TypeOK, Hands, HeldByProducer, Linked, Pointers,
     ProducerGoes, lists, history, MallocFails
<1>4. Linked(q, f)'
  BY <1>1, EventQueueAssumption DEF TypeOK, Hands, HeldByProducer, Linked, Pointers,
     ProducerGoes, lists, history, MallocFails
<1>5. Numbered(q)'
  BY <1>1, EventQueueAssumption DEF TypeOK, Numbered, ProducerGoes, lists, history, MallocFails
<1>6. Content(q)'
  BY <1>1, EventQueueAssumption DEF TypeOK, Hands, Content, Full, EventData, Pointers,
     ProducerGoes, lists, history, MallocFails
<1>7. QED
  BY <1>2, <1>3, <1>4, <1>5, <1>6 DEF InvFor

\* ClearType keeps the invariant.
LEMMA ClearTypeStep ==
  ASSUME NEW q, NEW f, InvFor(q, f), ClearType
  PROVE  InvFor(q, f)'
<1>1. TypeOK /\ Hands /\ Linked(q, f) /\ Numbered(q) /\ Content(q)
  BY DEF InvFor
<1>2. TypeOK'
  BY <1>1, EventQueueAssumption DEF TypeOK, Pointers, EventData, Numbered, ProducerGoes, lists,
     history, ClearType
<1>3. Hands'
  BY <1>1, EventQueueAssumption DEF TypeOK, Hands, HeldByProducer, Linked, Pointers,
     ProducerGoes, lists, history, ClearType
<1>4. Linked(q, f)'
  BY <1>1, EventQueueAssumption DEF TypeOK, Hands, HeldByProducer, Linked, Pointers,
     ProducerGoes, lists, history, ClearType
<1>5. Numbered(q)'
  BY <1>1, EventQueueAssumption DEF TypeOK, Numbered, ProducerGoes, lists, history, ClearType
<1>6. Content(q)'
  BY <1>1, EventQueueAssumption DEF TypeOK, Hands, Content, Full, EventData, Pointers,
     ProducerGoes, lists, history, ClearType
<1>7. QED
  BY <1>2, <1>3, <1>4, <1>5, <1>6 DEF InvFor

\* SetType keeps the invariant.
LEMMA SetTypeStep ==
  ASSUME NEW q, NEW f, InvFor(q, f), SetType
  PROVE  InvFor(q, f)'
<1>1. TypeOK /\ Hands /\ Linked(q, f) /\ Numbered(q) /\ Content(q)
  BY DEF InvFor
<1>2. TypeOK'
  BY <1>1, EventQueueAssumption DEF TypeOK, Pointers, EventData, Numbered, ProducerGoes, lists,
     history, SetType
<1>3. Hands'
  BY <1>1, EventQueueAssumption DEF TypeOK, Hands, HeldByProducer, Linked, Pointers,
     ProducerGoes, lists, history, SetType
<1>4. Linked(q, f)'
  BY <1>1, EventQueueAssumption DEF TypeOK, Hands, HeldByProducer, Linked, Pointers,
     ProducerGoes, lists, history, SetType
<1>5. Numbered(q)'
  BY <1>1, EventQueueAssumption DEF TypeOK, Numbered, ProducerGoes, lists, history, SetType
<1>6. Content(q)'
  BY <1>1, EventQueueAssumption DEF TypeOK, Hands, Content, Full, EventData, Pointers,
     ProducerGoes, lists, history, SetType
<1>7. QED
  BY <1>2, <1>3, <1>4, <1>5, <1>6 DEF InvFor

\* SetData keeps the invariant.
LEMMA SetDataStep ==
  ASSUME NEW q, NEW f, InvFor(q, f), SetData
  PROVE  InvFor(q, f)'
<1>1. TypeOK /\ Hands /\ Linked(q, f) /\ Numbered(q) /\ Content(q)
  BY DEF InvFor
<1>2. TypeOK'
  BY <1>1, EventQueueAssumption DEF TypeOK, Pointers, EventData, Numbered, lists, history,
     SetData
<1>3. Hands'
  BY <1>1, EventQueueAssumption DEF TypeOK, Hands, HeldByProducer, Linked, Pointers, lists,
     history, SetData
<1>4. Linked(q, f)'
  BY <1>1, EventQueueAssumption DEF TypeOK, Hands, HeldByProducer, Linked, Pointers, lists,
     history, SetData
<1>5. Numbered(q)'
  BY <1>1, EventQueueAssumption DEF TypeOK, Numbered, lists, history, SetData
<1>6. Content(q)'
  <2>1. /\ producer.at = "setData" /\ producer.elp \in Nodes
        /\ producer'.at = "idle" /\ producer'.elp = NULL
        /\ UNCHANGED <<consumer, number, taken, filled, delivered>>
    BY <1>1 DEF TypeOK, Hands, Pointers, SetData, history
  <2>2. event' = [event EXCEPT ![producer.elp].data = delivered]
    BY DEF SetData
  <2>3. event'[producer.elp] = Full(delivered)
    <3>1. event[producer.elp] \in EventData /\ event[producer.elp].type = "exposure"
      BY <1>1, <2>1 DEF TypeOK, Content
    <3>2. event'[producer.elp] = [event[producer.elp] EXCEPT !.data = delivered]
      BY <1>1, <2>1, <2>2 DEF TypeOK
    <3>3. QED
      BY <3>1, <3>2 DEF Full, EventData
  <2>4. \A n \in Nodes : n # producer.elp => event'[n] = event[n]
    BY <1>1, <2>2 DEF TypeOK
  <2>5. number[producer.elp] = delivered
    BY <1>1, <2>1 DEF Content
  <2>6. \A i \in 1..Len(q) : q[i] \in Nodes /\ event'[q[i]] = Full(number[q[i]])
    BY <1>1, <2>3, <2>4, <2>5 DEF Content, Linked, IsList
  <2>7. consumer.at \in {"copyType", "copyData"} =>
          consumer.elp \in Nodes /\ event'[consumer.elp] = Full(taken) /\ consumer.elp # NULL
    BY <1>1, <2>3, <2>4, <2>5 DEF Content, Hands, TypeOK, Pointers
  <2>8. QED
    BY <1>1, <2>1, <2>6, <2>7 DEF Content
<1>7. QED
  BY <1>2, <1>3, <1>4, <1>5, <1>6 DEF InvFor

\* HandleRequest keeps the invariant.
LEMMA HandleRequestStep ==
  ASSUME NEW q, NEW f, InvFor(q, f), HandleRequest
  PROVE  InvFor(q, f)'
<1>1. TypeOK /\ Hands /\ Linked(q, f) /\ Numbered(q) /\ Content(q)
  BY DEF InvFor
<1>2. TypeOK'
  BY <1>1, EventQueueAssumption DEF TypeOK, Pointers, EventData, Numbered, ConsumerGoes, lists,
     history, HandleRequest
<1>3. Hands'
  BY <1>1, EventQueueAssumption DEF TypeOK, Hands, HeldByProducer, Linked, Pointers,
     ConsumerGoes, lists, history, HandleRequest
<1>4. Linked(q, f)'
  BY <1>1, EventQueueAssumption DEF TypeOK, Hands, HeldByProducer, Linked, Pointers,
     ConsumerGoes, lists, history, HandleRequest
<1>5. Numbered(q)'
  BY <1>1, EventQueueAssumption DEF TypeOK, Numbered, ConsumerGoes, lists, history,
     HandleRequest
<1>6. Content(q)'
  BY <1>1, EventQueueAssumption DEF TypeOK, Hands, Content, Full, EventData, Pointers,
     ConsumerGoes, lists, history, HandleRequest
<1>7. QED
  BY <1>2, <1>3, <1>4, <1>5, <1>6 DEF InvFor

\* NothingWanted keeps the invariant.
LEMMA NothingWantedStep ==
  ASSUME NEW q, NEW f, InvFor(q, f), NothingWanted
  PROVE  InvFor(q, f)'
<1>1. TypeOK /\ Hands /\ Linked(q, f) /\ Numbered(q) /\ Content(q)
  BY DEF InvFor
<1>2. TypeOK'
  BY <1>1, EventQueueAssumption DEF TypeOK, Pointers, EventData, Numbered, ConsumerGoes, lists,
     history, NothingWanted
<1>3. Hands'
  BY <1>1, EventQueueAssumption DEF TypeOK, Hands, HeldByProducer, Linked, Pointers,
     ConsumerGoes, lists, history, NothingWanted
<1>4. Linked(q, f)'
  BY <1>1, EventQueueAssumption DEF TypeOK, Hands, HeldByProducer, Linked, Pointers,
     ConsumerGoes, lists, history, NothingWanted
<1>5. Numbered(q)'
  BY <1>1, EventQueueAssumption DEF TypeOK, Numbered, ConsumerGoes, lists, history,
     NothingWanted
<1>6. Content(q)'
  BY <1>1, EventQueueAssumption DEF TypeOK, Hands, Content, Full, EventData, Pointers,
     ConsumerGoes, lists, history, NothingWanted
<1>7. QED
  BY <1>2, <1>3, <1>4, <1>5, <1>6 DEF InvFor

\* EventWanted keeps the invariant.
LEMMA EventWantedStep ==
  ASSUME NEW q, NEW f, InvFor(q, f), EventWanted
  PROVE  InvFor(q, f)'
<1>1. TypeOK /\ Hands /\ Linked(q, f) /\ Numbered(q) /\ Content(q)
  BY DEF InvFor
<1>2. TypeOK'
  BY <1>1, EventQueueAssumption DEF TypeOK, Pointers, EventData, Numbered, ConsumerGoes, lists,
     history, EventWanted
<1>3. Hands'
  BY <1>1, EventQueueAssumption DEF TypeOK, Hands, HeldByProducer, Linked, Pointers,
     ConsumerGoes, lists, history, EventWanted
<1>4. Linked(q, f)'
  BY <1>1, EventQueueAssumption DEF TypeOK, Hands, HeldByProducer, Linked, Pointers,
     ConsumerGoes, lists, history, EventWanted
<1>5. Numbered(q)'
  BY <1>1, EventQueueAssumption DEF TypeOK, Numbered, ConsumerGoes, lists, history, EventWanted
<1>6. Content(q)'
  BY <1>1, EventQueueAssumption DEF TypeOK, Hands, Content, Full, EventData, Pointers,
     ConsumerGoes, lists, history, EventWanted
<1>7. QED
  BY <1>2, <1>3, <1>4, <1>5, <1>6 DEF InvFor

\* QueueIsEmpty keeps the invariant.
LEMMA QueueIsEmptyStep ==
  ASSUME NEW q, NEW f, InvFor(q, f), QueueIsEmpty
  PROVE  InvFor(q, f)'
<1>1. TypeOK /\ Hands /\ Linked(q, f) /\ Numbered(q) /\ Content(q)
  BY DEF InvFor
<1>2. TypeOK'
  BY <1>1, EventQueueAssumption DEF TypeOK, Pointers, EventData, Numbered, ConsumerGoes, lists,
     history, QueueIsEmpty
<1>3. Hands'
  BY <1>1, EventQueueAssumption DEF TypeOK, Hands, HeldByProducer, Linked, Pointers,
     ConsumerGoes, lists, history, QueueIsEmpty
<1>4. Linked(q, f)'
  BY <1>1, EventQueueAssumption DEF TypeOK, Hands, HeldByProducer, Linked, Pointers,
     ConsumerGoes, lists, history, QueueIsEmpty
<1>5. Numbered(q)'
  BY <1>1, EventQueueAssumption DEF TypeOK, Numbered, ConsumerGoes, lists, history,
     QueueIsEmpty
<1>6. Content(q)'
  BY <1>1, EventQueueAssumption DEF TypeOK, Hands, Content, Full, EventData, Pointers,
     ConsumerGoes, lists, history, QueueIsEmpty
<1>7. QED
  BY <1>2, <1>3, <1>4, <1>5, <1>6 DEF InvFor

\* CopyType keeps the invariant.
LEMMA CopyTypeStep ==
  ASSUME NEW q, NEW f, InvFor(q, f), CopyType
  PROVE  InvFor(q, f)'
<1>1. TypeOK /\ Hands /\ Linked(q, f) /\ Numbered(q) /\ Content(q)
  BY DEF InvFor
<1>2. TypeOK'
  <2>1. consumer.elp \in Nodes
    BY <1>1 DEF TypeOK, Hands, Pointers, CopyType
  <2>2. event[consumer.elp] \in EventData
    BY <1>1, <2>1 DEF TypeOK
  <2>3. [consumer.evt EXCEPT !.type = event[consumer.elp].type] \in EventData
    BY <1>1, <2>2 DEF TypeOK, EventData
  <2>4. consumer' = [consumer EXCEPT !.at = "copyData",
                                     !.evt = [consumer.evt EXCEPT !.type = event[consumer.elp].type]]
    BY <1>1 DEF TypeOK, CopyType
  <2> DEFINE e == [consumer.evt EXCEPT !.type = event[consumer.elp].type]
  <2> HIDE DEF e
  <2>5. e \in EventData /\ consumer' = [consumer EXCEPT !.at = "copyData", !.evt = e]
    BY <2>3, <2>4 DEF e
  <2>6. QED
    BY <1>1, <2>5 DEF TypeOK, lists, history, CopyType
<1>3. Hands'
  BY <1>1, EventQueueAssumption DEF TypeOK, Hands, HeldByProducer, Linked, Pointers, lists,
     history, CopyType
<1>4. Linked(q, f)'
  BY <1>1, EventQueueAssumption DEF TypeOK, Hands, HeldByProducer, Linked, Pointers, lists,
     history, CopyType
<1>5. Numbered(q)'
  BY <1>1, EventQueueAssumption DEF TypeOK, Numbered, lists, history, CopyType
<1>6. Content(q)'
  BY <1>1, EventQueueAssumption DEF TypeOK, Hands, Content, Full, EventData, Pointers, lists,
     history, CopyType
<1>7. QED
  BY <1>2, <1>3, <1>4, <1>5, <1>6 DEF InvFor

\* CopyData keeps the invariant.
LEMMA CopyDataStep ==
  ASSUME NEW q, NEW f, InvFor(q, f), CopyData
  PROVE  InvFor(q, f)'
<1>1. TypeOK /\ Hands /\ Linked(q, f) /\ Numbered(q) /\ Content(q)
  BY DEF InvFor
<1>2. TypeOK'
  <2>1. consumer.elp \in Nodes
    BY <1>1 DEF TypeOK, Hands, Pointers, CopyData
  <2>2. event[consumer.elp] \in EventData
    BY <1>1, <2>1 DEF TypeOK
  <2>3. [consumer.evt EXCEPT !.data = event[consumer.elp].data] \in EventData
    BY <1>1, <2>2 DEF TypeOK, EventData
  <2>4. consumer' = [consumer EXCEPT !.at = "send",
                                     !.evt = [consumer.evt EXCEPT !.data = event[consumer.elp].data]]
    BY <1>1 DEF TypeOK, CopyData
  <2> DEFINE e == [consumer.evt EXCEPT !.data = event[consumer.elp].data]
  <2> HIDE DEF e
  <2>5. e \in EventData /\ consumer' = [consumer EXCEPT !.at = "send", !.evt = e]
    BY <2>3, <2>4 DEF e
  <2>6. QED
    BY <1>1, <2>5 DEF TypeOK, lists, history, CopyData
<1>3. Hands'
  BY <1>1, EventQueueAssumption DEF TypeOK, Hands, HeldByProducer, Linked, Pointers, lists,
     history, CopyData
<1>4. Linked(q, f)'
  BY <1>1, EventQueueAssumption DEF TypeOK, Hands, HeldByProducer, Linked, Pointers, lists,
     history, CopyData
<1>5. Numbered(q)'
  BY <1>1, EventQueueAssumption DEF TypeOK, Numbered, lists, history, CopyData
<1>6. Content(q)'
  BY <1>1, EventQueueAssumption DEF TypeOK, Hands, Content, Full, EventData, Pointers, lists,
     history, CopyData
<1>7. QED
  BY <1>2, <1>3, <1>4, <1>5, <1>6 DEF InvFor

\* Send keeps the invariant.
LEMMA SendStep ==
  ASSUME NEW q, NEW f, InvFor(q, f), Send
  PROVE  InvFor(q, f)'
<1>1. TypeOK /\ Hands /\ Linked(q, f) /\ Numbered(q) /\ Content(q)
  BY DEF InvFor
<1>2. TypeOK'
  BY <1>1, EventQueueAssumption DEF TypeOK, Pointers, EventData, Numbered, ConsumerGoes, lists,
     history, Send
<1>3. Hands'
  BY <1>1, EventQueueAssumption DEF TypeOK, Hands, HeldByProducer, Linked, Pointers,
     ConsumerGoes, lists, history, Send
<1>4. Linked(q, f)'
  BY <1>1, EventQueueAssumption DEF TypeOK, Hands, HeldByProducer, Linked, Pointers,
     ConsumerGoes, lists, history, Send
<1>5. Numbered(q)'
  BY <1>1, EventQueueAssumption DEF TypeOK, Numbered, ConsumerGoes, lists, history, Send
<1>6. Content(q)'
  BY <1>1, EventQueueAssumption DEF TypeOK, Hands, Content, Full, EventData, Pointers,
     ConsumerGoes, lists, history, Send
<1>7. QED
  BY <1>2, <1>3, <1>4, <1>5, <1>6 DEF InvFor

\* TakeFreeNode keeps the invariant.
LEMMA TakeFreeNodeStep ==
  ASSUME NEW q, NEW f, InvFor(q, f), TakeFreeNode
  PROVE  InvFor(q, Tail(f))'
<1>1. TypeOK /\ Hands /\ Linked(q, f) /\ Numbered(q) /\ Content(q)
  BY DEF InvFor
<1> DEFINE n == free_event_list
           g == Tail(f)
<1>2. /\ producer.at = "alloc" /\ n # NULL
      /\ producer' = [at |-> "append", elp |-> n]
      /\ free_event_list' = next[n]
      /\ UNCHANGED <<next, event, eventhead, eventtail, allocated, consumer, waiting_for_event,
                     delivered, number, taken, filled>>
  BY DEF TakeFreeNode, history
<1>3. IsList(next, n, f) /\ IsList(next, eventhead, q) /\ next \in [Nodes -> Pointers]
  BY <1>1 DEF Linked, TypeOK
<1>4. /\ n \in Nodes
      /\ IsList(next, next[n], g)
      /\ ~Has(g, n)
      /\ \A m : Has(f, m) <=> Has(g, m) \/ m = n
  BY <1>2, <1>3, ListTail
<1> HIDE DEF g
<1>5. producer.elp = NULL /\ ~Has(q, n) /\ consumer.elp # n
  BY <1>1, <1>2, <1>4 DEF Hands, Linked
<1>6. TypeOK'
  BY <1>1, <1>2, <1>4 DEF TypeOK, Pointers
<1>7. Hands'
  BY <1>1, <1>2, <1>4, <1>5, EventQueueAssumption DEF Hands, HeldByProducer
<1>8. Linked(q, g)'
  <2>1. /\ IsList(next', eventhead', q) /\ IsList(next', free_event_list', g)
        /\ eventtail' = At(q, Len(q))
    BY <1>1, <1>2, <1>4 DEF Linked
  <2>2. \A m : HeldByProducer(m)' <=> m = n
    BY <1>2 DEF HeldByProducer
  <2>3. \A m : ~HeldByProducer(m)
    BY <1>2 DEF HeldByProducer
  <2>4. \A m \in Nodes : Has(q, m) => ~Has(g, m)
    BY <1>1, <1>4 DEF Linked
  <2>5. \A m \in Nodes : Has(q, m) \/ Has(g, m) => m # n /\ m # consumer.elp
    BY <1>1, <1>4, <1>5 DEF Linked
  <2>6. \A m \in Nodes :
          m \in allocated <=> Has(q, m) \/ Has(g, m) \/ m = n \/ m = consumer.elp
    BY <1>1, <1>4, <2>3 DEF Linked
  <2>7. QED
    BY <1>2, <2>1, <2>2, <2>4, <2>5, <2>6 DEF Linked
<1>9. Numbered(q)'
  BY <1>1, <1>2 DEF Numbered
<1>10. Content(q)'
  <2>1. \A i \in 1..Len(q) : q[i] \in Nodes
    BY <1>3 DEF IsList
  <2>2. consumer.at \in {"copyType", "copyData"} => consumer.elp # NULL
    BY <1>1 DEF Hands
  <2>3. producer'.at = "append" /\ producer'.elp = n
    BY <1>2
  <2>4. QED
    BY <1>1, <1>2, <1>5, <2>1, <2>2, <2>3, EventQueueAssumption DEF Content
<1>11. QED
  BY <1>6, <1>7, <1>8, <1>9, <1>10 DEF InvFor, g

\* AppendNode keeps the invariant.
LEMMA AppendNodeStep ==
  ASSUME NEW q, NEW f, InvFor(q, f), AppendNode,
         NEW n, n = producer.elp
  PROVE  InvFor(Append(q, n), f)'
<1>1. TypeOK /\ Hands /\ Linked(q, f) /\ Numbered(q) /\ Content(q)
  BY DEF InvFor
<1> DEFINE r == Append(q, n)
<1>2. /\ producer.at = "append"
      /\ producer' = [producer EXCEPT !.at = "clear"]
      /\ next' = IF eventhead # NULL THEN [next EXCEPT ![eventtail] = n, ![n] = NULL]
                                     ELSE [next EXCEPT ![n] = NULL]
      /\ eventhead' = IF eventhead # NULL THEN eventhead ELSE n
      /\ eventtail' = n
      /\ number' = [number EXCEPT ![n] = delivered + 1]
      /\ delivered' = delivered + 1
      /\ UNCHANGED <<event, free_event_list, allocated, consumer, waiting_for_event, taken,
                     filled>>
  BY DEF AppendNode, ProducerGoes
<1>3. /\ IsList(next, free_event_list, f) /\ IsList(next, eventhead, q)
      /\ next \in [Nodes -> Pointers] /\ eventtail = At(q, Len(q))
  BY <1>1 DEF Linked, TypeOK
<1>4. n \in Nodes /\ HeldByProducer(n) /\ ~Has(q, n) /\ ~Has(f, n) /\ consumer.elp # n
  <2>1. n \in Nodes /\ HeldByProducer(n)
    BY <1>1, <1>2 DEF TypeOK, Hands, Pointers, HeldByProducer
  <2>2. consumer.elp # n
    BY <1>1, <2>1, EventQueueAssumption DEF Hands
  <2>3. QED
    BY <1>1, <2>1, <2>2 DEF Linked
<1>5. /\ IsList(next', eventhead', r)
      /\ Len(r) = Len(q) + 1
      /\ \A i \in 1..Len(q) : r[i] = q[i]
      /\ r[Len(q) + 1] = n
  <2>1. q \in Seq(Nodes) /\ Len(q) \in Nat
    BY <1>3 DEF IsList
  <2>2. Longer(r, q, n)
    BY <2>1, <1>4 DEF Longer
  <2>3. /\ next' = LinksBehind(next, eventhead, eventtail, n)
        /\ eventhead' = StartBehind(eventhead, n)
    BY <1>2 DEF LinksBehind, StartBehind
  <2> HIDE DEF r
  <2>4. IsList(next', StartBehind(eventhead, n), r)
    BY <2>2, <2>3, <1>3, <1>4, ListAppend
  <2>5. QED
    BY <2>2, <2>3, <2>4 DEF Longer
<1> HIDE DEF r
<1>6. q \in Seq(Nodes) /\ Len(q) \in Nat /\ \A i \in 1..Len(q) : q[i] \in Nodes /\ q[i] # n
  BY <1>3, <1>4 DEF IsList, Has
<1>8. delivered < MaxEvents /\ delivered \in Nat /\ delivered + 1 \in 0..MaxEvents
  BY <1>1, <1>2, EventQueueAssumption DEF Numbered, TypeOK
<1>9. TypeOK'
  <2>1. next' \in [Nodes -> Pointers] /\ eventhead' \in Pointers /\ eventtail' \in Pointers
    BY <1>1, <1>2, <1>4 DEF TypeOK, Pointers
  <2>2. number' \in [Nodes -> 0..MaxEvents] /\ delivered' \in 0..MaxEvents
    BY <1>1, <1>2, <1>8 DEF TypeOK
  <2>3. QED
    BY <1>1, <1>2, <2>1, <2>2 DEF TypeOK
<1>10. producer'.at = "clear" /\ producer'.elp = n
  BY <1>1, <1>2 DEF TypeOK
<1>11. Hands'
  BY <1>1, <1>2, <1>4, <1>10, EventQueueAssumption DEF Hands, HeldByProducer
<1>12. \A m : Has(r, m) <=> Has(q, m) \/ m = n
  <2>1. ASSUME NEW m, Has(q, m) PROVE Has(r, m)
    BY <2>1, <1>5, <1>6 DEF Has
  <2>2. Has(r, n)
    BY <1>5, <1>6 DEF Has
  <2>3. ASSUME NEW m, Has(r, m) PROVE Has(q, m) \/ m = n
    BY <2>3, <1>5, <1>6 DEF Has
  <2>4. QED
    BY <2>1, <2>2, <2>3
<1>13. IsList(next', free_event_list', f)
  <2>1. ASSUME NEW i \in 1..Len(f) PROVE next'[f[i]] = next[f[i]]
    <3>1. f[i] \in Nodes /\ f[i] # n /\ Has(f, f[i])
      BY <1>3, <1>4 DEF IsList, Has
    <3>2. CASE eventhead = NULL
      BY <3>1, <3>2, <1>2, <1>3
    <3>3. CASE eventhead # NULL
      <4>1. eventtail = q[Len(q)] /\ Len(q) \in 1..Len(q)
        BY <3>3, <1>3, ListAtEnd
      <4>2. Has(q, eventtail) /\ eventtail \in Nodes
        BY <4>1, <1>6 DEF Has
      <4>3. eventtail # f[i]
        BY <4>2, <3>1, <1>1 DEF Linked
      <4>4. QED
        BY <4>2, <4>3, <3>1, <3>3, <1>2, <1>3
    <3>4. QED
      BY <3>2, <3>3
  <2>2. IsList(next', free_event_list, f)
    BY <2>1, <1>3, SameLinks
  <2>3. QED
    BY <2>2, <1>2
<1>14. Linked(r, f)'
  <2>1. eventtail' = At(r, Len(r))
    BY <1>2, <1>5, <1>6 DEF At
  <2>2. \A m : ~HeldByProducer(m)'
    BY <1>10 DEF HeldByProducer
  <2>3. \A m : HeldByProducer(m) <=> m = n
    BY <1>2 DEF HeldByProducer
  <2>4. \A m \in Nodes : Has(r, m) => ~Has(f, m)
    BY <1>1, <1>4, <1>12 DEF Linked
  <2>5. \A m \in Nodes : Has(r, m) \/ Has(f, m) => m # consumer.elp
    BY <1>1, <1>4, <1>12 DEF Linked
  <2>6. \A m \in Nodes :
          m \in allocated <=> Has(r, m) \/ Has(f, m) \/ m = consumer.elp
    BY <1>1, <1>12, <2>3 DEF Linked
  <2>7. QED
    BY <1>2, <1>5, <1>13, <2>1, <2>2, <2>4, <2>5, <2>6 DEF Linked
<1>15. number'[n] = delivered + 1 /\ \A m \in Nodes : m # n => number'[m] = number[m]
  BY <1>1, <1>2, <1>4 DEF TypeOK
<1>16. Numbered(r)'
  <2>1. Len(r) = delivered' - taken' /\ taken \in Nat /\ delivered = taken + Len(q)
    BY <1>1, <1>2, <1>5, <1>6, <1>8 DEF Numbered, TypeOK
  <2>2. ASSUME NEW i \in 1..Len(r) PROVE number'[r[i]] = taken' + i
    <3>1. CASE i = Len(q) + 1
      BY <3>1, <2>1, <1>2, <1>5, <1>15
    <3>2. CASE i \in 1..Len(q)
      BY <3>2, <1>1, <1>2, <1>5, <1>6, <1>15 DEF Numbered
    <3>3. QED
      BY <3>1, <3>2, <1>5, <1>6
  <2>3. QED
    BY <2>1, <2>2, <1>10 DEF Numbered
<1>17. Content(r)'
  <2>1. \A i \in 1..Len(r) : r[i] # n => event'[r[i]] = Full(number'[r[i]])
    <3>1. ASSUME NEW i \in 1..Len(q) PROVE event'[q[i]] = Full(number'[q[i]])
      <4>1. q[i] # n /\ q[i] \in Nodes
        BY <1>6
      <4>2. event[q[i]] = Full(number[q[i]])
        BY <4>1, <1>1 DEF Content
      <4>3. QED
        BY <4>1, <4>2, <1>2, <1>15
    <3>2. ASSUME NEW i \in 1..Len(r), r[i] # n PROVE i \in 1..Len(q) /\ r[i] = q[i]
      BY <3>2, <1>5, <1>6
    <3>3. QED
      BY <3>1, <3>2
  <2>2. consumer.at \in {"copyType", "copyData"} => number'[consumer.elp] = number[consumer.elp]
    BY <1>1, <1>4, <1>15 DEF Hands, TypeOK, Pointers
  <2>3. QED
    BY <1>1, <1>2, <1>10, <1>15, <2>1, <2>2 DEF Content
<1>18. QED
  BY <1>9, <1>11, <1>14, <1>16, <1>17 DEF InvFor, r

\* TakeNode keeps the invariant.
LEMMA TakeNodeStep ==
  ASSUME NEW q, NEW f, InvFor(q, f), TakeNode
  PROVE  InvFor(Tail(q), f)' /\ Len(q) # 0
<1>1. TypeOK /\ Hands /\ Linked(q, f) /\ Numbered(q) /\ Content(q)
  BY DEF InvFor
<1> DEFINE n == eventhead
           r == Tail(q)
<1>2. /\ consumer.at = "take" /\ n # NULL
      /\ consumer' = [consumer EXCEPT !.at = "copyType", !.elp = n]
      /\ eventhead' = next[n]
      /\ eventtail' = IF eventtail = n THEN NULL ELSE eventtail
      /\ taken' = taken + 1
      /\ filled' = (n # producer.elp)
      /\ UNCHANGED <<next, event, free_event_list, allocated, producer, waiting_for_event,
                     delivered, number>>
  BY DEF TakeNode
<1>3. IsList(next, free_event_list, f) /\ IsList(next, n, q) /\ next \in [Nodes -> Pointers]
  BY <1>1 DEF Linked, TypeOK
<1>4. /\ q \in Seq(Nodes) /\ q # <<>> /\ 1 \in 1..Len(q) /\ n = q[1] /\ n \in Nodes
      /\ IsList(next, next[n], r)
      /\ Len(r) = Len(q) - 1
      /\ \A i \in 1..(Len(q) - 1) : r[i] = q[i + 1]
      /\ ~Has(r, n)
      /\ \A m : Has(q, m) <=> Has(r, m) \/ m = n
  BY <1>2, <1>3, ListTail
<1> HIDE DEF r
<1>5. Len(q) \in Nat /\ r \in Seq(Nodes)
  BY <1>4 DEF IsList
<1>6. consumer'.at = "copyType" /\ consumer'.elp = n /\ consumer'.evt = consumer.evt
  BY <1>1, <1>2 DEF TypeOK
<1>7. Has(q, n)
  BY <1>4
<1>8. ~HeldByProducer(n) /\ consumer.elp = NULL /\ ~Has(f, n)
  BY <1>1, <1>2, <1>4, <1>7 DEF Linked, Hands
<1>9. number[n] = taken + 1 /\ taken + 1 \in 0..MaxEvents
  <2>1. number[n] = taken + 1
    BY <1>1, <1>4 DEF Numbered
  <2>2. QED
    BY <2>1, <1>1, <1>4 DEF TypeOK
<1>10. TypeOK'
  <2>1. eventhead' \in Pointers /\ eventtail' \in Pointers /\ taken' \in 0..MaxEvents
    BY <1>1, <1>2, <1>4, <1>9 DEF TypeOK, Pointers
  <2>2. consumer' \in [at : {"select", "loop", "take", "copyType", "copyData", "send", "recycle"},
                       elp : Pointers, evt : EventData]
    BY <1>1, <1>2, <1>4 DEF TypeOK, Pointers
  <2>3. filled' \in BOOLEAN
    BY <1>2
  <2>4. QED
    BY <1>1, <1>2, <2>1, <2>2, <2>3 DEF TypeOK
<1>11. Hands'
  BY <1>1, <1>2, <1>4, <1>6, <1>8, EventQueueAssumption DEF Hands, HeldByProducer
<1>12. Linked(r, f)'
  <2>1. eventtail' = At(r, Len(r))
    <3>1. eventtail = q[Len(q)] /\ Len(q) \in 1..Len(q)
      BY <1>1, <1>3, <1>4, ListAtEnd DEF Linked
    <3>2. CASE Len(q) = 1
      <4>1. eventtail' = NULL
        BY <3>1, <3>2, <1>2, <1>4
      <4>2. ~(Len(r) \in 1..Len(r))
        BY <3>2, <1>4
      <4>3. QED
        BY <4>1, <4>2 DEF At
    <3>3. CASE Len(q) # 1
      <4>1. Len(r) \in 1..Len(r) /\ r[Len(r)] = q[Len(q)]
        BY <3>1, <3>3, <1>4, <1>5
      <4>2. q[Len(q)] # n
        BY <4>1, <1>4 DEF Has
      <4>3. QED
        BY <3>1, <4>1, <4>2, <1>2 DEF At
    <3>4. QED
      BY <3>2, <3>3
  <2>2. \A m : HeldByProducer(m)' <=> HeldByProducer(m)
    BY <1>2 DEF HeldByProducer
  <2>3. \A m \in Nodes : Has(r, m) => ~Has(f, m)
    BY <1>1, <1>4 DEF Linked
  <2>4. \A m \in Nodes : Has(r, m) \/ Has(f, m) => ~HeldByProducer(m) /\ m # n
    BY <1>1, <1>4, <1>8 DEF Linked
  <2>5. \A m \in Nodes :
          m \in allocated <=> Has(r, m) \/ Has(f, m) \/ HeldByProducer(m) \/ m = n
    BY <1>1, <1>4, <1>8, EventQueueAssumption DEF Linked
  <2>6. QED
    BY <1>2, <1>3, <1>4, <1>6, <2>1, <2>2, <2>3, <2>4, <2>5 DEF Linked
<1>13. Numbered(r)'
  <2>1. taken \in Nat /\ delivered \in Nat /\ Len(r) = delivered' - taken'
    BY <1>1, <1>2, <1>4, <1>5, EventQueueAssumption DEF Numbered, TypeOK
  <2>2. ASSUME NEW i \in 1..Len(r) PROVE number'[r[i]] = taken' + i
    <3>1. i \in 1..(Len(q) - 1) /\ i + 1 \in 1..Len(q) /\ r[i] = q[i + 1]
      BY <1>4, <1>5
    <3>2. number[q[i + 1]] = taken + (i + 1)
      BY <3>1, <1>1 DEF Numbered
    <3>3. QED
      BY <3>1, <3>2, <2>1, <1>2
  <2>3. QED
    BY <1>1, <1>2, <2>1, <2>2 DEF Numbered
<1>14. Content(r)'
  <2>1. \A i \in 1..Len(r) : r[i] # producer.elp => event[r[i]] = Full(number[r[i]])
    BY <1>1, <1>4, <1>5 DEF Content
  <2>2. n # producer.elp => event[n] = Full(taken + 1)
    BY <1>1, <1>4, <1>9 DEF Content
  <2>3. QED
    BY <1>1, <1>2, <1>6, <1>9, <2>1, <2>2 DEF Content
<1>15. QED
  BY <1>4, <1>5, <1>10, <1>11, <1>12, <1>13, <1>14 DEF InvFor, r

\* Recycle keeps the invariant.
LEMMA RecycleStep ==
  ASSUME NEW q, NEW f, InvFor(q, f), Recycle,
         NEW n, n = consumer.elp
  PROVE  InvFor(q, <<n>> \o f)'
<1>1. TypeOK /\ Hands /\ Linked(q, f) /\ Numbered(q) /\ Content(q)
  BY DEF InvFor
<1> DEFINE g == <<n>> \o f
<1>2. /\ consumer.at = "recycle"
      /\ next' = [next EXCEPT ![n] = free_event_list]
      /\ free_event_list' = n
      /\ consumer' = [at |-> "select", elp |-> NULL, evt |-> Garbage]
      /\ UNCHANGED <<event, eventhead, eventtail, allocated, producer, waiting_for_event,
                     delivered, number, taken, filled>>
  BY DEF Recycle, history
<1>3. IsList(next, free_event_list, f) /\ IsList(next, eventhead, q) /\ next \in [Nodes -> Pointers]
  BY <1>1 DEF Linked, TypeOK
<1>4. n \in Nodes /\ ~Has(q, n) /\ ~Has(f, n) /\ ~HeldByProducer(n)
  BY <1>1, <1>2 DEF TypeOK, Hands, Linked, Pointers
<1>5. /\ IsList(next', free_event_list', g)
      /\ \A m : Has(g, m) <=> Has(f, m) \/ m = n
  BY <1>2, <1>3, <1>4, ListPush
<1> HIDE DEF g
<1>6. IsList(next', eventhead', q)
  <2>1. ASSUME NEW i \in 1..Len(q) PROVE next'[q[i]] = next[q[i]]
    <3>1. q[i] \in Nodes /\ q[i] # n
      BY <1>3, <1>4 DEF IsList, Has
    <3>2. QED
      BY <3>1, <1>2, <1>3
  <2>2. QED
    BY <2>1, <1>2, <1>3, SameLinks
<1>7. TypeOK'
  <2>1. next' \in [Nodes -> Pointers] /\ free_event_list' \in Pointers
    BY <1>1, <1>2, <1>4 DEF TypeOK, Pointers
  <2>2. Garbage \in EventData
    BY EventQueueAssumption DEF Garbage, EventData
  <2>3. QED
    BY <1>1, <1>2, <2>1, <2>2 DEF TypeOK, Pointers
<1>8. Hands'
  BY <1>1, <1>2, EventQueueAssumption DEF Hands, HeldByProducer
<1>9. Linked(q, g)'
  <2>1. \A m : HeldByProducer(m)' <=> HeldByProducer(m)
    BY <1>2 DEF HeldByProducer
  <2>2. \A m \in Nodes : Has(q, m) => ~Has(g, m)
    BY <1>1, <1>4, <1>5 DEF Linked
  <2>3. \A m \in Nodes : Has(q, m) \/ Has(g, m) => ~HeldByProducer(m) /\ m # NULL
    BY <1>1, <1>4, <1>5, EventQueueAssumption DEF Linked
  <2>4. \A m \in Nodes :
          m \in allocated <=> Has(q, m) \/ Has(g, m) \/ HeldByProducer(m) \/ m = NULL
    BY <1>1, <1>5, EventQueueAssumption DEF Linked
  <2>5. eventtail' = At(q, Len(q)) /\ consumer'.elp = NULL
    BY <1>1, <1>2 DEF Linked
  <2>6. QED
    BY <1>2, <1>5, <1>6, <2>1, <2>2, <2>3, <2>4, <2>5 DEF Linked
<1>10. Numbered(q)'
  BY <1>1, <1>2 DEF Numbered
<1>11. Content(q)'
  BY <1>1, <1>2 DEF Content
<1>12. QED
  BY <1>7, <1>8, <1>9, <1>10, <1>11 DEF InvFor, g

-----------------------------------------------------------------------------
(* The invariant holds, of the lists that the code's links form.           *)

\* The lists of which the invariant holds are the queue and the free list.
LEMMA TheLists ==
  ASSUME NEW q, NEW f, InvFor(q, f)
  PROVE  Queue = q /\ FreeList = f
BY ListFromIsTheList DEF InvFor, Linked, Queue, FreeList

\* So are they after a step.
LEMMA TheListsThen ==
  ASSUME NEW q, NEW f, InvFor(q, f)'
  PROVE  Queue' = q /\ FreeList' = f
BY ListFromIsTheList DEF InvFor, Linked, Queue, FreeList

\* Nothing happens.
LEMMA QuietStep ==
  ASSUME NEW q, NEW f, InvFor(q, f), UNCHANGED vars
  PROVE  InvFor(q, f)'
<1>1. TypeOK /\ Hands /\ Linked(q, f) /\ Numbered(q) /\ Content(q)
  BY DEF InvFor
<1>2. UNCHANGED <<next, event, eventhead, eventtail, free_event_list, allocated, producer,
                  consumer, waiting_for_event, delivered, number, taken, filled>>
  BY DEF vars, lists, history
<1>3. TypeOK'
  BY <1>1, <1>2 DEF TypeOK
<1>4. Hands'
  BY <1>1, <1>2 DEF Hands, HeldByProducer
<1>5. Linked(q, f)'
  BY <1>1, <1>2 DEF Linked, HeldByProducer
<1>6. Numbered(q)'
  BY <1>1, <1>2 DEF Numbered
<1>7. Content(q)'
  BY <1>1, <1>2 DEF Content
<1>8. QED
  BY <1>3, <1>4, <1>5, <1>6, <1>7 DEF InvFor

\* What a step does to the counts: nothing, or it delivers one event, or it takes
\* one of those that wait.
CountStep(q) ==
  \/ delivered' = delivered /\ taken' = taken
  \/ delivered' = delivered + 1 /\ taken' = taken
  \/ Len(q) # 0 /\ delivered' = delivered /\ taken' = taken + 1

\* Every step keeps the invariant, of lists that it may have changed.
LEMMA AnyStep ==
  ASSUME NEW q, NEW f, InvFor(q, f), [Next]_vars
  PROVE  \E r, g : InvFor(r, g)' /\ CountStep(q)
<1>1. ASSUME InvFor(q, f)', delivered' = delivered, taken' = taken
      PROVE  \E r, g : InvFor(r, g)' /\ CountStep(q)
  BY <1>1 DEF CountStep
<1>2. CASE UNCHANGED vars
  BY <1>1, <1>2, QuietStep DEF vars, history
<1>3. CASE StartDelivery
  BY <1>1, <1>3, StartDeliveryStep DEF StartDelivery, history
<1>4. CASE TakeFreeNode
  <2>1. InvFor(q, Tail(f))' /\ CountStep(q)
    BY <1>4, TakeFreeNodeStep DEF TakeFreeNode, history, CountStep
  <2>2. QED
    BY <2>1
<1>5. CASE NoFreeNode
  BY <1>1, <1>5, NoFreeNodeStep DEF NoFreeNode, history
<1>6. CASE MallocNode
  BY <1>1, <1>6, MallocNodeStep DEF MallocNode, history
<1>7. CASE MallocFails
  BY <1>1, <1>7, MallocFailsStep DEF MallocFails, history
<1>8. CASE AppendNode
  <2>1. PICK n : n = producer.elp
    OBVIOUS
  <2>2. InvFor(Append(q, n), f)'
    BY <1>8, <2>1, AppendNodeStep
  <2>3. delivered' = delivered + 1 /\ taken' = taken
    BY <1>8 DEF AppendNode
  <2>4. CountStep(q)
    BY <2>3 DEF CountStep
  <2>5. QED
    BY <2>2, <2>4
<1>9. CASE ClearType
  BY <1>1, <1>9, ClearTypeStep DEF ClearType, history
<1>10. CASE SetType
  BY <1>1, <1>10, SetTypeStep DEF SetType, history
<1>11. CASE SetData
  BY <1>1, <1>11, SetDataStep DEF SetData, history
<1>12. CASE HandleRequest
  BY <1>1, <1>12, HandleRequestStep DEF HandleRequest, history
<1>13. CASE NothingWanted
  BY <1>1, <1>13, NothingWantedStep DEF NothingWanted, history
<1>14. CASE EventWanted
  BY <1>1, <1>14, EventWantedStep DEF EventWanted, history
<1>15. CASE QueueIsEmpty
  BY <1>1, <1>15, QueueIsEmptyStep DEF QueueIsEmpty, history
<1>16. CASE TakeNode
  <2>1. InvFor(Tail(q), f)' /\ Len(q) # 0
    BY <1>16, TakeNodeStep
  <2>2. delivered' = delivered /\ taken' = taken + 1
    BY <1>16 DEF TakeNode
  <2>3. CountStep(q)
    BY <2>1, <2>2 DEF CountStep
  <2>4. QED
    BY <2>1, <2>3
<1>17. CASE CopyType
  BY <1>1, <1>17, CopyTypeStep DEF CopyType, history
<1>18. CASE CopyData
  BY <1>1, <1>18, CopyDataStep DEF CopyData, history
<1>19. CASE Send
  BY <1>1, <1>19, SendStep DEF Send, history
<1>20. CASE Recycle
  <2>1. PICK n : n = consumer.elp
    OBVIOUS
  <2>2. InvFor(q, <<n>> \o f)'
    BY <1>20, <2>1, RecycleStep
  <2>3. CountStep(q)
    BY <1>20 DEF Recycle, history, CountStep
  <2>4. QED
    BY <2>2, <2>3
<1>21. QED
  BY <1>2, <1>3, <1>4, <1>5, <1>6, <1>7, <1>8, <1>9, <1>10, <1>11, <1>12, <1>13, <1>14,
     <1>15, <1>16, <1>17, <1>18, <1>19, <1>20 DEF Next, Deliver, GetNextEvent

\* Both lists are empty at first.
LEMMA InvInitially ==
  ASSUME Init
  PROVE  InvFor(<<>>, <<>>)
<1>1. /\ next = [n \in Nodes |-> NULL] /\ eventhead = NULL /\ eventtail = NULL
      /\ free_event_list = NULL /\ allocated = {} /\ delivered = 0 /\ taken = 0
      /\ producer.at = "idle" /\ producer.elp = NULL
      /\ consumer.at = "select" /\ consumer.elp = NULL
  BY DEF Init
<1>2. TypeOK
  <2>1. Garbage \in EventData /\ 0 \in 0..MaxEvents
    BY EventQueueAssumption DEF EventData, Garbage
  <2>2. QED
    BY <2>1 DEF Init, TypeOK, Pointers
<1>3. Hands
  BY <1>1 DEF Hands
<1>4. \A m : ~Has(<<>>, m)
  BY DEF Has
<1>5. Linked(<<>>, <<>>)
  BY <1>1, <1>4, EmptyList, EventQueueAssumption DEF Linked, At, HeldByProducer
<1>6. Numbered(<<>>)
  BY <1>1 DEF Numbered
<1>7. Content(<<>>)
  BY <1>1 DEF Content
<1>8. QED
  BY <1>2, <1>3, <1>5, <1>6, <1>7 DEF InvFor

\* The invariant is inductive.
LEMMA InvKept ==
  ASSUME Inv, [Next]_vars
  PROVE  Inv'
<1>1. PICK q, f : q = Queue /\ f = FreeList
  OBVIOUS
<1>2. PICK r, g : InvFor(r, g)'
  BY <1>1, AnyStep DEF Inv
<1>3. Queue' = r /\ FreeList' = g
  BY <1>2, TheListsThen
<1>4. QED
  BY <1>2, <1>3 DEF Inv

\* The invariant holds in every state.
LEMMA InvHolds == Spec => []Inv
<1>1. Init => Inv
  BY InvInitially, TheLists DEF Inv
<1>2. Inv /\ [Next]_vars => Inv'
  BY InvKept
<1>3. QED
  BY <1>1, <1>2, PTL DEF Spec

-----------------------------------------------------------------------------
\* eventtail points to the last node of the queue, whatever order alloc_event and
\* get_next_event ran in, so that the next event is linked behind the others.
THEOREM QueueTailIsRight == Spec => []TailEndsQueue
<1>1. Inv => TailEndsQueue
  <2>1. SUFFICES ASSUME Inv, eventhead # NULL
                 PROVE  /\ Len(Queue) <= Cardinality(Nodes)
                        /\ eventtail = Queue[Len(Queue)]
                        /\ next[eventtail] = NULL
    <3>1. ASSUME Inv, eventhead = NULL PROVE eventtail = NULL
      BY <3>1, ListAtEnd DEF Inv, InvFor, Linked
    <3>2. QED
      BY <3>1 DEF TailEndsQueue
  <2>2. IsList(next, eventhead, Queue) /\ eventtail = At(Queue, Len(Queue))
    BY <2>1 DEF Inv, InvFor, Linked
  <2>3. Len(Queue) <= Cardinality(Nodes)
    BY <2>2, ListLength DEF IsList
  <2>4. QED
    BY <2>1, <2>2, <2>3, ListAtEnd
<1>2. QED
  BY <1>1, InvHolds, PTL

\* Every node that malloc returned is in the queue, in the free list or in the hand
\* of one thread, and in one of them only.
THEOREM QueueNodesAreAccounted == Spec => []NodesAccounted
<1>1. ASSUME Inv PROVE NodesAccounted
  <2> DEFINE Q == NodesOf(Queue)
             F == NodesOf(FreeList)
  <2>1. TypeOK /\ Hands /\ Linked(Queue, FreeList)
    BY <1>1 DEF Inv, InvFor
  <2>2. IsList(next, eventhead, Queue) /\ IsList(next, free_event_list, FreeList)
    BY <2>1 DEF Linked
  <2>3. /\ Queue \in Seq(Nodes) /\ FreeList \in Seq(Nodes)
        /\ Len(Queue) \in Nat /\ Len(FreeList) \in Nat
    BY <2>2 DEF IsList
  <2>4. /\ IsFiniteSet(Q) /\ Cardinality(Q) = Len(Queue)
        /\ IsFiniteSet(F) /\ Cardinality(F) = Len(FreeList)
    BY <2>2, <2>3, ListLength DEF IsList
  <2>5. \A n : (n \in Q <=> Has(Queue, n)) /\ (n \in F <=> Has(FreeList, n))
    BY <2>3 DEF Has, NodesOf
  <2>6. Q \subseteq Nodes /\ F \subseteq Nodes /\ InHand \subseteq Nodes /\ allocated \subseteq Nodes
    BY <2>1, <2>3 DEF NodesOf, InHand, TypeOK
  <2>7. \A n \in Nodes : n \in InHand <=> HeldByProducer(n) \/ n = consumer.elp
    BY DEF InHand, HeldByProducer
  <2> HIDE DEF Q, F
  <2>8. Q \cup F \cup InHand = allocated
    BY <2>1, <2>5, <2>6, <2>7 DEF Linked
  <2>9. Q \cap F = {} /\ (Q \cup F) \cap InHand = {}
    BY <2>1, <2>5, <2>6, <2>7 DEF Linked
  <2>10. IsFiniteSet(Q \cup F) /\ Cardinality(Q \cup F) = Len(Queue) + Len(FreeList)
    <3>1. Cardinality(Q \cap F) = 0
      BY <2>9, FS_EmptySet
    <3>2. /\ IsFiniteSet(Q \cup F)
          /\ Cardinality(Q \cup F) = Cardinality(Q) + Cardinality(F) - Cardinality(Q \cap F)
      BY <2>4, FS_Union
    <3>3. QED
      BY <3>1, <3>2, <2>3, <2>4
  <2>11. IsFiniteSet(InHand) /\ Cardinality(InHand) \in Nat
    BY <2>6, FS_Subset, FS_CardinalityType, EventQueueAssumption
  <2>12. Cardinality(Q \cup F \cup InHand) = Len(Queue) + Len(FreeList) + Cardinality(InHand)
    <3>1. Cardinality((Q \cup F) \cap InHand) = 0
      BY <2>9, FS_EmptySet
    <3>2. Cardinality((Q \cup F) \cup InHand)
            = Cardinality(Q \cup F) + Cardinality(InHand) - Cardinality((Q \cup F) \cap InHand)
      BY <2>10, <2>11, FS_Union
    <3>3. QED
      BY <3>1, <3>2, <2>3, <2>10, <2>11
  <2>13. QED
    BY <2>1, <2>8, <2>12 DEF NodesAccounted, Q, F
<1>2. QED
  BY <1>1, InvHolds, PTL

\* The event in a node is that of its delivery until it is written to the client:
\* no node is filled for another event before, except that of an event that is taken
\* while its producer still fills it.
THEOREM QueuedEventsKeepTheirContent == Spec => []EventsKeepTheirContent
<1>1. ASSUME Inv PROVE EventsKeepTheirContent
  <2>1. Content(Queue) /\ Linked(Queue, FreeList)
    BY <1>1 DEF Inv, InvFor
  <2>2. Queue \in Seq(Nodes)
    BY <2>1 DEF Linked, IsList
  <2>3. \A n \in NodesOf(Queue) \ {producer.elp} :
          event[n] = [type |-> "exposure", data |-> number[n]]
    BY <2>1, <2>2 DEF NodesOf, Content, Full
  <2>4. QED
    BY <2>1, <2>3 DEF EventsKeepTheirContent, Content, Full
<1>2. QED
  BY <1>1, InvHolds, PTL

\* The events waiting are numbered from the one taken last on.
Waiting(d, t) == [i \in 1..(d - t) |-> t + i]

\* In every state the queue holds these events.
LEMMA WaitingEvents ==
  Inv => /\ taken \in Nat /\ delivered \in Nat /\ delivered - taken \in Nat
         /\ Len(Queue) = delivered - taken
         /\ [i \in DOMAIN Queue |-> number[Queue[i]]] = Waiting(delivered, taken)
<1> SUFFICES ASSUME Inv
             PROVE  /\ taken \in Nat /\ delivered \in Nat /\ delivered - taken \in Nat
                    /\ Len(Queue) = delivered - taken
                    /\ [i \in DOMAIN Queue |-> number[Queue[i]]] = Waiting(delivered, taken)
  OBVIOUS
<1>1. Queue \in Seq(Nodes)
  BY DEF Inv, InvFor, Linked, IsList
<1>2. /\ taken \in Nat /\ delivered \in Nat /\ Len(Queue) = delivered - taken
      /\ \A i \in 1..Len(Queue) : number[Queue[i]] = taken + i
  BY EventQueueAssumption DEF Inv, InvFor, TypeOK, Numbered
<1>3. DOMAIN Queue = 1..Len(Queue) /\ Len(Queue) \in Nat
  BY <1>1
<1>4. QED
  BY <1>1, <1>2, <1>3 DEF Waiting

\* What WaitingEvents says of the queue, as a predicate.
PendingIsWaiting ==
  [i \in DOMAIN Queue |-> number[Queue[i]]] = Waiting(delivered, taken)

\* So it does after a step.
LEMMA WaitingEventsThen == Inv' => PendingIsWaiting'
<1>1. Inv => PendingIsWaiting
  BY WaitingEvents DEF PendingIsWaiting
<1>2. QED
  BY <1>1, PTL

\* A delivery puts the next number behind them.
LEMMA WaitingGrows ==
  ASSUME NEW d \in Nat, NEW t \in Nat, d - t \in Nat
  PROVE  Waiting(d + 1, t) = Append(Waiting(d, t), d + 1)
<1>1. Waiting(d, t) \in Seq(Nat) /\ Len(Waiting(d, t)) = d - t
  BY DEF Waiting
<1>2. \A i \in 1..(d - t) : Waiting(d, t)[i] = t + i
  BY DEF Waiting
<1>3. QED
  BY <1>1, <1>2 DEF Waiting

\* Taking an event takes the first number away.
LEMMA WaitingShrinks ==
  ASSUME NEW d \in Nat, NEW t \in Nat, d - t \in Nat, d - t # 0
  PROVE  /\ Waiting(d, t) # <<>>
         /\ Head(Waiting(d, t)) = t + 1
         /\ Waiting(d, t + 1) = Tail(Waiting(d, t))
<1> DEFINE w == Waiting(d, t)
<1>1. w \in Seq(Nat) /\ Len(w) = d - t /\ \A i \in 1..(d - t) : w[i] = t + i
  BY DEF Waiting
<1> HIDE DEF w
<1>2. w # <<>> /\ Head(w) = t + 1
  BY <1>1
<1>3. Tail(w) \in Seq(Nat) /\ Len(Tail(w)) = d - (t + 1)
  BY <1>1
<1>4. \A i \in 1..(d - (t + 1)) : Tail(w)[i] = (t + 1) + i
  BY <1>1
<1>5. Waiting(d, t + 1) = Tail(w)
  <2> DEFINE v == Waiting(d, t + 1)
             u == Tail(w)
  <2>1. v \in Seq(Nat) /\ Len(v) = d - (t + 1) /\ \A i \in 1..Len(v) : v[i] = (t + 1) + i
    BY DEF Waiting
  <2>2. u \in Seq(Nat) /\ Len(u) = d - (t + 1) /\ \A i \in 1..Len(u) : u[i] = (t + 1) + i
    BY <1>3, <1>4
  <2> HIDE DEF v, u
  <2>3. v = u
    BY <2>1, <2>2
  <2>4. QED
    BY <2>3 DEF v, u
<1>6. QED
  BY <1>2, <1>5 DEF w

\* The two linked lists implement the queue that EventFIFO promises: each event is
\* handed over once, in the order of delivery.
THEOREM QueueIsFIFO == Spec => ImplementsFIFO
<1>1. Init => FIFO!Init
  <2>1. ASSUME Init PROVE FIFO!Init
    <3>1. Queue = <<>>
      BY <2>1, InvInitially, TheLists
    <3>2. [i \in DOMAIN Queue |-> number[Queue[i]]] = <<>>
      BY <3>1
    <3>3. delivered = 0 /\ taken = 0
      BY <2>1 DEF Init
    <3>4. QED
      BY <3>2, <3>3 DEF FIFO!Init
  <2>2. QED
    BY <2>1
<1>2. Inv /\ [Next]_vars => [FIFO!Next]_(FIFO!vars)
  <2>1. SUFFICES ASSUME Inv, [Next]_vars
                 PROVE  [FIFO!Next]_(FIFO!vars)
    OBVIOUS
  <2>2. PICK q, f : q = Queue /\ f = FreeList
    OBVIOUS
  <2>3. CountStep(Queue)
    BY <2>1, <2>2, AnyStep DEF Inv
  <2>4. Inv'
    BY <2>1, InvKept
  <2> DEFINE pending == [i \in DOMAIN Queue |-> number[Queue[i]]]
  <2>5. /\ taken \in Nat /\ delivered \in Nat /\ delivered - taken \in Nat
        /\ Len(Queue) = delivered - taken
        /\ pending = Waiting(delivered, taken)
        /\ pending' = Waiting(delivered', taken')
    BY <2>1, <2>4, WaitingEvents, WaitingEventsThen DEF PendingIsWaiting
  <2>6. [FIFO!Next]_(FIFO!vars) <=>
          \/ /\ delivered' = delivered + 1
             /\ pending' = Append(pending, delivered')
             /\ taken' = taken
          \/ /\ pending # <<>>
             /\ Head(pending) = taken + 1
             /\ pending' = Tail(pending)
             /\ taken' = taken + 1
             /\ delivered' = delivered
          \/ <<delivered, pending, taken>>' = <<delivered, pending, taken>>
    BY DEF FIFO!Next, FIFO!Deliver, FIFO!HandOver, FIFO!vars
  <2> HIDE DEF pending
  <2>7. CASE delivered' = delivered /\ taken' = taken
    BY <2>5, <2>6, <2>7
  <2>8. CASE delivered' = delivered + 1 /\ taken' = taken
    <3>1. pending' = Append(pending, delivered + 1)
      BY <2>5, <2>8, WaitingGrows
    <3>2. QED
      BY <3>1, <2>6, <2>8
  <2>9. CASE Len(Queue) # 0 /\ delivered' = delivered /\ taken' = taken + 1
    <3>1. pending # <<>> /\ Head(pending) = taken + 1 /\ pending' = Tail(pending)
      BY <2>5, <2>9, WaitingShrinks
    <3>2. QED
      BY <3>1, <2>6, <2>9
  <2>10. QED
    BY <2>3, <2>7, <2>8, <2>9 DEF CountStep
<1>3. QED
  BY <1>1, <1>2, InvHolds, PTL DEF Spec, ImplementsFIFO, FIFO!Spec

-----------------------------------------------------------------------------
(***************************************************************************)
(* The bytes of requests.                                                  *)
(***************************************************************************)

\* SizeOf, of the requests with sizes sz.
Size(sz, n) == IF n = 0 THEN NewWndSize ELSE sz[n]

\* The bytes of the requests up to n.
Known(n) == (0..n) \X (1..(MaxRequestSize + NewWndSize))

InOrder(s, sz) ==
  \A i, j \in DOMAIN s : i < j =>
    IF s[i][2] + (j - i) <= Size(sz, s[i][1])
    THEN s[j] = <<s[i][1], s[i][2] + (j - i)>>
    ELSE s[j][1] > s[i][1] /\ (j = i + 1 => s[j] = <<s[i][1] + 1, 1>>)

\* The stream starts where a request does, or a word of the first one.
Begins(s, h) ==
  s # <<>> => \/ s[1] = <<h + 1, 1>>
              \/ h = 0 /\ \E w \in 1..NewWndWords : s[1] = <<0, w * HeaderSize + 1>>

\* It ends with the request made last.
Ends(s, sz, h) ==
  IF s = <<>> THEN h = Len(sz)
  ELSE s[Len(s)][1] = Len(sz) /\ s[Len(s)][2] = Size(sz, Len(sz))

\* Bytes are of requests that were made; there is room for the one that
\* waits for flush_reqbuf; a client that has ended has nothing to write.
Local ==
  /\ got \in Seq(Known(Len(sizes))) /\ socket \in Seq(Known(Len(sizes)))
  /\ out \in Seq(Known(Len(sizes))) /\ buf \in Seq(Known(Len(sizes)))
  /\ client.size # 0 => Len(sizes) < MaxRequests
  /\ closed => client = Idle /\ buf = <<>>

\* The request of which the thread reads the body is the next one.
Body == thread = "body" => got # <<>> /\ got[1] = <<handled + 1, 1>> /\ len = SizeOf(handled + 1)

Stream ==
  ~ broken =>
    /\ InOrder(Underway, sizes)
    /\ Begins(Underway, handled)
    /\ ~ closed => Ends(Underway, sizes, handled)
    /\ Body

WInv == WireTypeOK /\ Local /\ Stream

-----------------------------------------------------------------------------
(* Numbers and sequences.                                                  *)

LEMMA Numbers ==
  /\ HeaderSize \in Nat \ {0} /\ NewWndWords \in Nat
  /\ MaxRequestSize \in Nat /\ ReqbufInitSize \in Nat /\ SocketSize \in Nat /\ MaxRequests \in Nat
  /\ NewWndSize \in Nat /\ NewWndSize = NewWndWords * HeaderSize + HeaderSize
  /\ NewWndWords * HeaderSize \in Nat
  /\ \A size \in Sizes : size \in Nat /\ HeaderSize <= size /\ size <= MaxRequestSize
<1>1. HeaderSize \in Nat \ {0} /\ NewWndWords \in Nat
  BY WireAssumption
<1>2. NewWndWords * HeaderSize \in Nat
  BY <1>1
<1>3. (NewWndWords + 1) * HeaderSize = NewWndWords * HeaderSize + HeaderSize
  BY <1>1
<1> QED
  BY <1>1, <1>2, <1>3, WireAssumption DEF NewWndSize

\* A word of the first request that is not its header ends with it or before.
LEMMA WordFits ==
  ASSUME NEW w \in 1..NewWndWords
  PROVE  /\ w * HeaderSize \in Nat /\ w * HeaderSize >= HeaderSize
         /\ w * HeaderSize + HeaderSize <= NewWndSize
         /\ w < NewWndWords => (w + 1) * HeaderSize = w * HeaderSize + HeaderSize
         /\ w = NewWndWords => w * HeaderSize + HeaderSize = NewWndSize
<1>1. w \in Nat /\ w >= 1 /\ NewWndWords \in Nat /\ NewWndWords - w \in Nat /\ HeaderSize \in Nat
  BY Numbers
<1>2. w * HeaderSize \in Nat /\ (w - 1) * HeaderSize \in Nat /\ (NewWndWords - w) * HeaderSize \in Nat
  BY <1>1
<1>3. w * HeaderSize = (w - 1) * HeaderSize + HeaderSize
  BY <1>1
<1>4. NewWndWords * HeaderSize = (NewWndWords - w) * HeaderSize + w * HeaderSize
  <2>1. \A a, b, c \in Int : (a + b) * c = a * c + b * c
    OBVIOUS
  <2>2. (NewWndWords - w) + w = NewWndWords
    BY <1>1
  <2> QED
    BY <1>1, <2>1, <2>2
<1>5. (w + 1) * HeaderSize = w * HeaderSize + HeaderSize
  BY <1>1
<1>6. w * HeaderSize + HeaderSize <= NewWndSize
  BY <1>1, <1>2, <1>4, Numbers
<1>7. w = NewWndWords => w * HeaderSize + HeaderSize = NewWndSize
  BY Numbers
<1> QED
  BY <1>1, <1>2, <1>3, <1>5, <1>6, <1>7

\* A piece taken from the front, and the rest.
LEMMA Pieces ==
  ASSUME NEW S, NEW s \in Seq(S), NEW k \in 0..Len(s)
  PROVE  /\ SubSeq(s, 1, k) \in Seq(S) /\ Len(SubSeq(s, 1, k)) = k
         /\ SubSeq(s, k + 1, Len(s)) \in Seq(S) /\ Len(SubSeq(s, k + 1, Len(s))) = Len(s) - k
         /\ \A i \in 1..k : SubSeq(s, 1, k)[i] = s[i]
         /\ \A i \in 1..(Len(s) - k) : SubSeq(s, k + 1, Len(s))[i] = s[i + k]
         /\ SubSeq(s, 1, k) \o SubSeq(s, k + 1, Len(s)) = s
<1>1. Len(s) \in Nat /\ k \in Nat /\ k <= Len(s) /\ \A i \in 1..Len(s) : s[i] \in S
  BY ElementOfSeq, LenProperties
<1>2. /\ SubSeq(s, 1, k) \in Seq(S) /\ Len(SubSeq(s, 1, k)) = k
      /\ \A i \in 1..k : SubSeq(s, 1, k)[i] = s[i]
  <2>1. \A i \in 1..k : s[i] \in S
    BY <1>1
  <2>2. /\ SubSeq(s, 1, k) \in Seq(S) /\ Len(SubSeq(s, 1, k)) = (IF 1 <= k THEN k - 1 + 1 ELSE 0)
        /\ \A i \in 1..(k - 1 + 1) : SubSeq(s, 1, k)[i] = s[1 + i - 1]
    BY <1>1, <2>1, SubSeqProperties
  <2> QED
    BY <1>1, <2>2
<1>3. /\ SubSeq(s, k + 1, Len(s)) \in Seq(S) /\ Len(SubSeq(s, k + 1, Len(s))) = Len(s) - k
      /\ \A i \in 1..(Len(s) - k) : SubSeq(s, k + 1, Len(s))[i] = s[i + k]
  BY <1>1, SubSeqProperties
<1>4. SubSeq(s, 1, k) \o SubSeq(s, k + 1, Len(s)) = SubSeq(s, 1, Len(s))
  <2>1. 1 \in 1..(Len(s) + 1) /\ k \in (1 - 1)..Len(s) /\ Len(s) \in k..Len(s)
    BY <1>1
  <2> QED
    BY <2>1, ConcatAdjacentSubSeq
<1> QED
  BY <1>2, <1>3, <1>4, SubSeqFull

-----------------------------------------------------------------------------
(* What happens to a stream of bytes of n requests.                        *)

LEMMA Elements ==
  ASSUME NEW n \in Nat, NEW s \in Seq(Known(n))
  PROVE  /\ Len(s) \in Nat /\ DOMAIN s = 1..Len(s)
         /\ \A i \in 1..Len(s) : s[i] = <<s[i][1], s[i][2]>> /\ s[i][1] \in 0..n /\ s[i][2] \in Nat \ {0}
         /\ s = <<>> <=> Len(s) = 0
<1>1. \A i \in 1..Len(s) : s[i] \in Known(n)
  BY ElementOfSeq
<1>2. Len(s) \in Nat /\ DOMAIN s = 1..Len(s)
  BY LenProperties
<1>3. s = <<>> <=> Len(s) = 0
  BY EmptySeq
<1>4. \A b \in Known(n) : b = <<b[1], b[2]>> /\ b[1] \in 0..n /\ b[2] \in Nat \ {0}
  BY Numbers DEF Known
<1> QED
  BY <1>1, <1>2, <1>3, <1>4

LEMMA SizesAreNumbers ==
  ASSUME NEW sz \in Seq(Sizes)
  PROVE  /\ Len(sz) \in Nat
         /\ \A n \in 0..Len(sz) : Size(sz, n) \in Nat \ {0} /\ Size(sz, n) >= HeaderSize
         /\ \A n \in 1..Len(sz) : Size(sz, n) <= MaxRequestSize
<1>1. \A n \in 1..Len(sz) : sz[n] \in Sizes
  BY ElementOfSeq
<1>2. NewWndSize >= HeaderSize
  BY Numbers
<1> QED
  BY <1>1, <1>2, Numbers, LenProperties DEF Size

\* A request is put at the end.
LEMMA PutKeeps ==
  ASSUME NEW sz \in Seq(Sizes), NEW size \in Sizes, NEW s \in Seq(Known(Len(sz))),
         Len(sz) < MaxRequests,
         InOrder(s, sz), NEW h \in Nat, Begins(s, h), Ends(s, sz, h)
  PROVE  LET sz2 == Append(sz, size)
             t == s \o Bytes(Len(sz) + 1, size)
         IN  t \in Seq(Known(Len(sz2))) /\ InOrder(t, sz2) /\ Begins(t, h) /\ Ends(t, sz2, h)
<1> DEFINE n == Len(sz) + 1
           sz2 == Append(sz, size)
           new == Bytes(n, size)
           t == s \o new
<1>1. /\ size \in Nat \ {0} /\ size <= MaxRequestSize /\ Len(sz) \in Nat /\ n \in Nat /\ n <= MaxRequests
  BY Numbers, LenProperties
<1>2. /\ sz2 \in Seq(Sizes) /\ Len(sz2) = n /\ sz2[n] = size
      /\ \A k \in 1..Len(sz) : sz2[k] = sz[k]
  BY AppendProperties
<1>3. \A k \in 0..Len(sz) : Size(sz2, k) = Size(sz, k)
  BY <1>1, <1>2 DEF Size
<1>4. Size(sz2, n) = size
  BY <1>1, <1>2 DEF Size
<1>5. new \in Seq(Known(n)) /\ Len(new) = size /\ \A k \in 1..size : new[k] = <<n, k>>
  <2>1. \A k \in 1..size : n \in 0..n /\ k \in 1..(MaxRequestSize + NewWndSize)
    BY <1>1, Numbers
  <2>2. new = [k \in 1..size |-> <<n, k>>] /\ \A k \in 1..size : <<n, k>> \in Known(n)
    BY <2>1 DEF Bytes, Known
  <2> QED
    BY <1>1, <2>2, IsASeq, LenProperties
<1>6. s \in Seq(Known(n))
  <2>1. Known(Len(sz)) \subseteq Known(n)
    BY <1>1 DEF Known
  <2> QED
    BY <2>1, SeqMonotonic
<1>7. /\ t \in Seq(Known(n)) /\ Len(t) = Len(s) + size
      /\ \A i \in 1..(Len(s) + size) : t[i] = IF i <= Len(s) THEN s[i] ELSE new[i - Len(s)]
  BY <1>5, <1>6, ConcatProperties
<1> HIDE DEF n, sz2, new, t
<1>8. Len(s) \in Nat /\ DOMAIN s = 1..Len(s) /\ DOMAIN t = 1..(Len(s) + size) /\ n = Len(sz) + 1
      /\ \A i \in 1..Len(s) : s[i][1] \in 0..Len(sz) /\ s[i][2] \in Nat
      /\ (s = <<>> <=> Len(s) = 0) /\ (t = <<>> <=> Len(t) = 0)
  BY <1>1, <1>7, Elements DEF n
<1>0. Len(s) \in Nat /\ size \in Nat
  BY <1>1, <1>8
<1>9. /\ \A i \in 1..Len(s) : t[i] = s[i]
      /\ \A k \in 1..size : t[Len(s) + k] = <<n, k>>
  <2>1. \A k \in 1..size : Len(s) + k \in 1..(Len(s) + size) /\ ~ Len(s) + k <= Len(s) /\ (Len(s) + k) - Len(s) = k
    BY <1>0
  <2>2. \A i \in 1..Len(s) : i \in 1..(Len(s) + size) /\ i <= Len(s)
    BY <1>0
  <2> QED
    BY <1>5, <1>7, <2>1, <2>2
<1>10. \A i \in 1..Len(s) : s[i][2] + (Len(s) - i) >= Size(sz, s[i][1])
  <2> SUFFICES ASSUME NEW i \in 1..Len(s) PROVE s[i][2] + (Len(s) - i) >= Size(sz, s[i][1])
    OBVIOUS
  <2>0. Size(sz, s[i][1]) \in Nat
    BY <1>8, SizesAreNumbers
  <2>1. s[Len(s)][1] = Len(sz) /\ s[Len(s)][2] = Size(sz, Len(sz))
    BY <1>8 DEF Ends
  <2>2. CASE i = Len(s)
    BY <2>0, <2>1, <2>2, <1>8
  <2>3. CASE i < Len(s)
    <3>1. CASE s[i][2] + (Len(s) - i) <= Size(sz, s[i][1])
      <4>0. i \in DOMAIN s /\ Len(s) \in DOMAIN s
        BY <1>0, <1>8
      <4>1. s[Len(s)] = <<s[i][1], s[i][2] + (Len(s) - i)>>
        BY <2>3, <3>1, <4>0 DEF InOrder
      <4> QED
        BY <2>0, <2>1, <4>1, <1>8
    <3>2. s[i][2] \in Nat /\ Len(s) \in Nat /\ i \in Nat
      BY <1>0, <1>8
    <3> QED
      BY <3>1, <3>2, <2>0
  <2> QED
    BY <2>2, <2>3, <1>0
<1>11. InOrder(t, sz2)
  <2> SUFFICES ASSUME NEW i \in 1..(Len(s) + size), NEW j \in 1..(Len(s) + size), i < j
               PROVE  IF t[i][2] + (j - i) <= Size(sz2, t[i][1])
                      THEN t[j] = <<t[i][1], t[i][2] + (j - i)>>
                      ELSE t[j][1] > t[i][1] /\ (j = i + 1 => t[j] = <<t[i][1] + 1, 1>>)
    BY <1>8 DEF InOrder
  <2>1. CASE j <= Len(s)
    <3>1. i \in DOMAIN s /\ j \in DOMAIN s /\ t[i] = s[i] /\ t[j] = s[j] /\ Size(sz2, s[i][1]) = Size(sz, s[i][1])
      BY <2>1, <1>1, <1>3, <1>8, <1>9
    <3> QED
      BY <3>1 DEF InOrder
  <2>2. CASE i <= Len(s) /\ j > Len(s)
    <3>1. i \in 1..Len(s) /\ t[i] = s[i] /\ Size(sz2, s[i][1]) = Size(sz, s[i][1]) /\ Size(sz, s[i][1]) \in Nat
      BY <2>2, <1>1, <1>3, <1>8, <1>9, SizesAreNumbers
    <3>2. j - Len(s) \in 1..size /\ j = Len(s) + (j - Len(s))
      BY <2>2, <1>1, <1>8
    <3>3. t[j] = <<n, j - Len(s)>>
      BY <3>2, <1>9
    <3>4. ~ t[i][2] + (j - i) <= Size(sz2, t[i][1])
      BY <2>2, <3>1, <1>8, <1>10
    <3>5. t[j][1] > t[i][1]
      BY <3>1, <3>3, <1>1, <1>8
    <3>6. ASSUME j = i + 1 PROVE t[j] = <<t[i][1] + 1, 1>>
      <4>1. i = Len(s) /\ j - Len(s) = 1
        BY <3>6, <2>2, <1>0
      <4>2. s[i][1] = Len(sz)
        BY <4>1, <3>1, <1>8 DEF Ends
      <4> QED
        BY <4>1, <4>2, <3>1, <3>3, <1>8
    <3> QED
      BY <3>4, <3>5, <3>6
  <2>3. CASE i > Len(s)
    <3>1. /\ i - Len(s) \in 1..size /\ i = Len(s) + (i - Len(s))
          /\ j - Len(s) \in 1..size /\ j = Len(s) + (j - Len(s))
          /\ (i - Len(s)) + (j - i) = j - Len(s)
      BY <2>3, <1>1, <1>8
    <3>2. t[i] = <<n, i - Len(s)>> /\ t[j] = <<n, j - Len(s)>>
      BY <3>1, <1>9
    <3> QED
      BY <3>1, <3>2, <1>1, <1>4
  <2> QED
    BY <2>1, <2>2, <2>3, <1>1, <1>8
<1>12. Begins(t, h)
  <2>1. CASE s = <<>>
    <3>1. t[1] = <<n, 1>>
      BY <2>1, <1>1, <1>8, <1>9
    <3> QED
      BY <2>1, <3>1, <1>8 DEF Begins, Ends
  <2>2. CASE s # <<>>
    BY <2>2, <1>8, <1>9 DEF Begins
  <2> QED
    BY <2>1, <2>2
<1>13. Ends(t, sz2, h)
  <2>1. t # <<>> /\ t[Len(t)] = <<n, size>>
    BY <1>1, <1>7, <1>8, <1>9
  <2> QED
    BY <2>1, <1>2, <1>4 DEF Ends
<1> QED
  BY <1>2, <1>7, <1>11, <1>12, <1>13 DEF n, sz2, new, t

\* The stream is cut off.
LEMMA CutKeeps ==
  ASSUME NEW sz \in Seq(Sizes), NEW s \in Seq(Known(Len(sz))), NEW t \in Seq(Known(Len(sz))),
         InOrder(s \o t, sz), NEW h \in Nat, Begins(s \o t, h)
  PROVE  InOrder(s, sz) /\ Begins(s, h)
<1>1. /\ Len(s) \in Nat /\ Len(t) \in Nat
      /\ DOMAIN s = 1..Len(s) /\ DOMAIN (s \o t) = 1..(Len(s) + Len(t))
      /\ \A i \in 1..(Len(s) + Len(t)) : (s \o t)[i] = IF i <= Len(s) THEN s[i] ELSE t[i - Len(s)]
  BY ConcatProperties, LenProperties
<1>2. DOMAIN s \subseteq DOMAIN (s \o t) /\ \A i \in DOMAIN s : (s \o t)[i] = s[i]
  BY <1>1
<1>3. InOrder(s, sz)
  BY <1>2 DEF InOrder
<1>4. s # <<>> => 1 \in DOMAIN s /\ s \o t # <<>>
  <2>1. s # <<>> => Len(s) \in Nat \ {0}
    BY EmptySeq
  <2>2. s \o t \in Seq(Known(Len(sz))) /\ Len(s \o t) = Len(s) + Len(t)
    BY ConcatProperties
  <2> QED
    BY <1>1, <2>1, <2>2, EmptySeq
<1> QED
  BY <1>2, <1>3, <1>4 DEF Begins

\* Bytes are taken from the front.
LEMMA TakeKeeps ==
  ASSUME NEW sz \in Seq(Sizes), NEW s \in Seq(Known(Len(sz))), NEW k \in 0..Len(s),
         InOrder(s, sz)
  PROVE  InOrder(SubSeq(s, k + 1, Len(s)), sz)
<1> DEFINE t == SubSeq(s, k + 1, Len(s))
<1>1. /\ Len(s) \in Nat /\ DOMAIN s = 1..Len(s) /\ DOMAIN t = 1..(Len(s) - k)
      /\ \A i \in 1..(Len(s) - k) : t[i] = s[i + k]
  BY Pieces, LenProperties
<1> SUFFICES ASSUME NEW i \in DOMAIN t, NEW j \in DOMAIN t, i < j
             PROVE  IF t[i][2] + (j - i) <= Size(sz, t[i][1])
                    THEN t[j] = <<t[i][1], t[i][2] + (j - i)>>
                    ELSE t[j][1] > t[i][1] /\ (j = i + 1 => t[j] = <<t[i][1] + 1, 1>>)
  BY DEF InOrder
<1> HIDE DEF t
<1>2. /\ i + k \in DOMAIN s /\ j + k \in DOMAIN s /\ i + k < j + k /\ (j + k) - (i + k) = j - i
      /\ j = i + 1 => j + k = (i + k) + 1
  BY <1>1
<1>3. t[i] = s[i + k] /\ t[j] = s[j + k]
  BY <1>1
<1> QED
  BY <1>2, <1>3 DEF InOrder

\* The bytes after the first one of a request are its own up to its end, and
\* what follows is the next request.
LEMMA RequestIsWhole ==
  ASSUME NEW sz \in Seq(Sizes), NEW s \in Seq(Known(Len(sz))), s # <<>>, InOrder(s, sz),
         NEW k \in 1..Len(s), s[1][2] + (k - 1) <= Size(sz, s[1][1])
  PROVE  /\ \A i \in 1..k : s[i] = <<s[1][1], s[1][2] + (i - 1)>>
         /\ k < Len(s) => s[k + 1] = IF s[1][2] + k <= Size(sz, s[1][1])
                                     THEN <<s[1][1], s[1][2] + k>> ELSE <<s[1][1] + 1, 1>>
<1>1. /\ Len(s) \in Nat /\ DOMAIN s = 1..Len(s) /\ k \in Nat /\ 1 <= k /\ k <= Len(s)
      /\ 1 \in DOMAIN s /\ s[1] = <<s[1][1], s[1][2]>> /\ s[1][2] \in Nat
      /\ s[1][1] \in 0..Len(sz)
  BY Elements, LenProperties
<1>2. Size(sz, s[1][1]) \in Nat
  BY <1>1, SizesAreNumbers
<1>3. ASSUME NEW i \in 1..k PROVE s[i] = <<s[1][1], s[1][2] + (i - 1)>>
  <2>1. CASE i = 1
    BY <2>1, <1>1
  <2>2. CASE i # 1
    <3>1. i \in DOMAIN s /\ 1 < i /\ s[1][2] + (i - 1) <= Size(sz, s[1][1])
      BY <2>2, <1>1, <1>2
    <3> QED
      BY <3>1, <1>1 DEF InOrder
  <2> QED
    BY <2>1, <2>2
<1>4. ASSUME k < Len(s)
      PROVE  s[k + 1] = IF s[1][2] + k <= Size(sz, s[1][1])
                        THEN <<s[1][1], s[1][2] + k>> ELSE <<s[1][1] + 1, 1>>
  <2>1. k \in DOMAIN s /\ k + 1 \in DOMAIN s /\ 1 \in DOMAIN s /\ k < k + 1 /\ (k + 1) - k = 1
    BY <1>1, <1>4
  <2>2. s[k] = <<s[1][1], s[1][2] + (k - 1)>>
    BY <1>1, <1>3
  <2>3. s[k][1] = s[1][1] /\ s[k][2] + ((k + 1) - k) = s[1][2] + k
    BY <2>2, <1>1
  <2>4. IF s[k][2] + ((k + 1) - k) <= Size(sz, s[k][1])
        THEN s[k + 1] = <<s[k][1], s[k][2] + ((k + 1) - k)>>
        ELSE s[k + 1] = <<s[k][1] + 1, 1>>
    BY <2>1 DEF InOrder
  <2> QED
    BY <2>3, <2>4
<1> QED
  BY <1>3, <1>4

\* The first request, whole, is taken away.
LEMMA HandledKeeps ==
  ASSUME NEW sz \in Seq(Sizes), NEW s \in Seq(Known(Len(sz))), s # <<>>, InOrder(s, sz),
         NEW n \in 1..Len(sz), s[1] = <<n, 1>>, Size(sz, n) <= Len(s),
         NEW ended \in BOOLEAN, NEW h, ~ ended => Ends(s, sz, h)
  PROVE  LET t == SubSeq(s, Size(sz, n) + 1, Len(s))
         IN  InOrder(t, sz) /\ Begins(t, n) /\ (~ ended => Ends(t, sz, n))
<1> DEFINE k == Size(sz, n)
           t == SubSeq(s, k + 1, Len(s))
<1>1. Len(s) \in Nat /\ k \in 1..Len(s) /\ Len(sz) \in Nat
  BY SizesAreNumbers, LenProperties
<1>2. /\ t \in Seq(Known(Len(sz))) /\ Len(t) = Len(s) - k
      /\ \A i \in 1..(Len(s) - k) : t[i] = s[i + k]
  BY <1>1, Pieces
<1>3. InOrder(t, sz)
  BY <1>1, TakeKeeps
<1>4. s[1][1] = n /\ s[1][2] = 1 /\ s[1][2] + (k - 1) = k /\ s[1][2] + k = k + 1
  BY <1>1
<1>5. s[k] = <<n, k>> /\ (k < Len(s) => s[k + 1] = <<n + 1, 1>>)
  <2>1. k \in 1..k /\ ~ k + 1 <= k
    BY <1>1
  <2> HIDE DEF k
  <2>2. s[1][2] + (k - 1) <= Size(sz, s[1][1])
    BY <1>1, <1>4 DEF k
  <2>3. /\ \A i \in 1..k : s[i] = <<s[1][1], s[1][2] + (i - 1)>>
        /\ k < Len(s) => s[k + 1] = IF s[1][2] + k <= Size(sz, s[1][1])
                                    THEN <<s[1][1], s[1][2] + k>> ELSE <<s[1][1] + 1, 1>>
    BY <1>1, <2>2, RequestIsWhole
  <2>4. Size(sz, s[1][1]) = k
    BY <1>4 DEF k
  <2> QED
    BY <2>1, <2>3, <2>4, <1>4
<1> HIDE DEF t, k
<1>6. t # <<>> => Len(t) \in Nat /\ Len(t) >= 1 /\ k < Len(s) /\ t[1] = s[k + 1] /\ t[Len(t)] = s[Len(s)]
  <2>1. t # <<>> => Len(t) \in Nat \ {0}
    BY <1>2, EmptySeq
  <2>2. t # <<>> => 1 \in 1..(Len(s) - k) /\ Len(s) - k \in 1..(Len(s) - k) /\ (Len(s) - k) + k = Len(s) /\ 1 + k = k + 1
    BY <1>1, <1>2, <2>1
  <2> QED
    BY <1>1, <1>2, <2>1, <2>2
<1>7. Begins(t, n)
  BY <1>5, <1>6 DEF Begins
<1>8. ASSUME ~ ended PROVE Ends(t, sz, n)
  <2>1. s[Len(s)][1] = Len(sz) /\ s[Len(s)][2] = Size(sz, Len(sz))
    BY <1>8 DEF Ends
  <2>2. CASE t = <<>>
    <3>1. Len(s) = k
      BY <1>1, <1>2, <2>2, EmptySeq
    <3> QED
      BY <2>1, <2>2, <3>1, <1>5 DEF Ends
  <2>3. CASE t # <<>>
    BY <2>1, <2>3, <1>6 DEF Ends
  <2> QED
    BY <2>2, <2>3
<1> QED
  BY <1>3, <1>7, <1>8 DEF t, k

\* A word of the first request is taken for a header.
LEMMA WordKeeps ==
  ASSUME NEW sz \in Seq(Sizes), NEW s \in Seq(Known(Len(sz))), s # <<>>, InOrder(s, sz),
         NEW w \in 1..NewWndWords, s[1] = <<0, w * HeaderSize + 1>>, HeaderSize <= Len(s),
         NEW ended \in BOOLEAN, ~ ended => Ends(s, sz, 0)
  PROVE  LET t == SubSeq(s, HeaderSize + 1, Len(s))
         IN  InOrder(t, sz) /\ Begins(t, 0) /\ (~ ended => Ends(t, sz, 0))
<1> DEFINE t == SubSeq(s, HeaderSize + 1, Len(s))
           p == w * HeaderSize
<1>1. Len(s) \in Nat /\ HeaderSize \in 1..Len(s) /\ Len(sz) \in Nat /\ Size(sz, 0) = NewWndSize
  BY Numbers, LenProperties DEF Size
<1>2. /\ t \in Seq(Known(Len(sz))) /\ Len(t) = Len(s) - HeaderSize
      /\ \A i \in 1..(Len(s) - HeaderSize) : t[i] = s[i + HeaderSize]
  BY <1>1, Pieces
<1>3. InOrder(t, sz)
  BY <1>1, TakeKeeps
<1>4. /\ p \in Nat /\ p + HeaderSize <= NewWndSize /\ NewWndSize \in Nat
      /\ w < NewWndWords => (w + 1) * HeaderSize = p + HeaderSize
      /\ w = NewWndWords => p + HeaderSize = NewWndSize
  BY WordFits, Numbers
<1> HIDE DEF t, p
<1>5. s[1][1] = 0 /\ s[1][2] = p + 1
  BY DEF p
<1>6. /\ s[HeaderSize] = <<0, p + HeaderSize>>
      /\ HeaderSize < Len(s) =>
           s[HeaderSize + 1] = IF p + HeaderSize + 1 <= NewWndSize THEN <<0, p + HeaderSize + 1>> ELSE <<1, 1>>
  <2>1. /\ s[1][2] + (HeaderSize - 1) = p + HeaderSize /\ s[1][2] + HeaderSize = p + HeaderSize + 1
        /\ s[1][2] + (HeaderSize - 1) <= Size(sz, s[1][1]) /\ HeaderSize \in 1..HeaderSize
    BY <1>1, <1>4, <1>5
  <2>2. /\ \A i \in 1..HeaderSize : s[i] = <<s[1][1], s[1][2] + (i - 1)>>
        /\ HeaderSize < Len(s) =>
             s[HeaderSize + 1] = IF s[1][2] + HeaderSize <= Size(sz, s[1][1])
                                 THEN <<s[1][1], s[1][2] + HeaderSize>> ELSE <<s[1][1] + 1, 1>>
    BY <1>1, <2>1, RequestIsWhole
  <2>3. s[HeaderSize] = <<s[1][1], s[1][2] + (HeaderSize - 1)>>
    BY <2>1, <2>2
  <2>4. Size(sz, s[1][1]) = NewWndSize /\ s[1][1] + 1 = 1
    BY <1>1, <1>5
  <2> QED
    BY <2>1, <2>2, <2>3, <2>4, <1>5
<1>7. t # <<>> => /\ Len(t) \in Nat /\ Len(t) >= 1 /\ HeaderSize < Len(s)
                  /\ t[1] = s[HeaderSize + 1] /\ t[Len(t)] = s[Len(s)]
  <2>1. t # <<>> => Len(t) \in Nat \ {0}
    BY <1>2, EmptySeq
  <2>2. t # <<>> => /\ 1 \in 1..(Len(s) - HeaderSize) /\ Len(s) - HeaderSize \in 1..(Len(s) - HeaderSize)
                    /\ (Len(s) - HeaderSize) + HeaderSize = Len(s) /\ 1 + HeaderSize = HeaderSize + 1
    BY <1>1, <1>2, <2>1
  <2> QED
    BY <1>1, <1>2, <2>1, <2>2
<1>8. Begins(t, 0)
  <2> SUFFICES ASSUME t # <<>>
               PROVE  t[1] = <<1, 1>> \/ \E v \in 1..NewWndWords : t[1] = <<0, v * HeaderSize + 1>>
    BY DEF Begins
  <2>1. CASE w < NewWndWords
    <3>1. w + 1 \in 1..NewWndWords
      BY <2>1, Numbers
    <3>2. p + HeaderSize + 1 <= NewWndSize
      <4>1. /\ (w + 1) * HeaderSize + HeaderSize <= NewWndSize /\ (w + 1) * HeaderSize \in Nat
        BY <3>1, WordFits
      <4> QED
        BY <4>1, <2>1, <1>1, <1>4
    <3>3. t[1] = <<0, p + HeaderSize + 1>>
      BY <3>2, <1>6, <1>7
    <3>4. t[1] = <<0, (w + 1) * HeaderSize + 1>>
      BY <3>3, <2>1, <1>4
    <3> QED
      BY <3>1, <3>4
  <2>2. CASE w = NewWndWords
    <3>1. ~ p + HeaderSize + 1 <= NewWndSize
      BY <2>2, <1>1, <1>4
    <3> QED
      BY <3>1, <1>6, <1>7
  <2>3. w < NewWndWords \/ w = NewWndWords
    BY Numbers
  <2> QED
    BY <2>1, <2>2, <2>3
<1>9. ASSUME ~ ended PROVE Ends(t, sz, 0)
  <2>1. s[Len(s)][1] = Len(sz) /\ s[Len(s)][2] = Size(sz, Len(sz))
    BY <1>9 DEF Ends
  <2>2. CASE t = <<>>
    <3>1. Len(s) = HeaderSize
      BY <1>1, <1>2, <2>2, EmptySeq
    <3> QED
      BY <2>1, <2>2, <3>1, <1>6 DEF Ends
  <2>3. CASE t # <<>>
    BY <2>1, <2>3, <1>7 DEF Ends
  <2> QED
    BY <2>2, <2>3
<1> QED
  BY <1>3, <1>8, <1>9 DEF t

-----------------------------------------------------------------------------
(* Types.                                                                  *)

LEMMA AreBytes ==
  ASSUME NEW n \in 0..MaxRequests, NEW s \in Seq(Known(n))
  PROVE  s \in Seq(Byte)
<1>1. Known(n) \subseteq Byte
  BY Numbers DEF Known, Byte
<1> QED
  BY <1>1, SeqMonotonic

\* A request is made: what was known stays known, and the new bytes are.
LEMMA RequestMade ==
  ASSUME WireTypeOK, Local, NEW size \in Sizes, Len(sizes) < MaxRequests, sizes' = Append(sizes, size)
  PROVE  /\ sizes' \in Seq(Sizes) /\ Len(sizes') = Len(sizes) + 1 /\ Len(sizes') \in 0..MaxRequests
         /\ Bytes(Len(sizes'), size) \in Seq(Known(Len(sizes'))) /\ Len(Bytes(Len(sizes'), size)) = size
         /\ \A s : s \in Seq(Known(Len(sizes))) => s \in Seq(Known(Len(sizes')))
<1>1. /\ sizes' \in Seq(Sizes) /\ Len(sizes') = Len(sizes) + 1 /\ Len(sizes) \in Nat
      /\ size \in Nat /\ size <= MaxRequestSize
  BY AppendProperties, LenProperties, Numbers DEF WireTypeOK
<1>2. Len(sizes') \in 0..MaxRequests
  BY <1>1, Numbers
<1>3. \A k \in 1..size : Len(sizes') \in 0..Len(sizes') /\ k \in 1..(MaxRequestSize + NewWndSize)
  BY <1>1, Numbers
<1>4. /\ Bytes(Len(sizes'), size) = [k \in 1..size |-> <<Len(sizes'), k>>]
      /\ \A k \in 1..size : <<Len(sizes'), k>> \in Known(Len(sizes'))
  BY <1>3 DEF Bytes, Known
<1>5. Bytes(Len(sizes'), size) \in Seq(Known(Len(sizes'))) /\ Len(Bytes(Len(sizes'), size)) = size
  BY <1>1, <1>4, IsASeq, LenProperties
<1>6. Known(Len(sizes)) \subseteq Known(Len(sizes'))
  BY <1>1 DEF Known
<1> QED
  BY <1>1, <1>2, <1>5, <1>6, SeqMonotonic

LEMMA TypesKept ==
  ASSUME WireTypeOK, Local, [WireNext]_wireVars
  PROVE  WireTypeOK' /\ Local'
<1> DEFINE K == Known(Len(sizes))
<1>1. /\ Len(sizes) \in 0..MaxRequests /\ sizes \in Seq(Sizes)
      /\ Len(buf) \in Nat /\ Len(out) \in Nat /\ Len(socket) \in Nat /\ Len(got) \in Nat
  BY LenProperties, Numbers DEF WireTypeOK
<1>2. \A s : s \in Seq(K) => s \in Seq(Byte)
  BY <1>1, AreBytes
<1>3. <<>> \in Seq(Byte) /\ Len(<<>>) = 0 /\ \A S : <<>> \in Seq(S)
  BY EmptySeq
<1> HIDE DEF K
<1>4. ASSUME NEW size \in Sizes, AllocReq(size) PROVE WireTypeOK' /\ Local'
  <2>1. Len(sizes) < MaxRequests /\ sizes' = Append(sizes, size) /\ buf' = buf \o Bytes(Len(sizes'), size)
    BY <1>4 DEF AllocReq, Put
  <2>2. /\ sizes' \in Seq(Sizes) /\ Len(sizes') \in 0..MaxRequests
        /\ Bytes(Len(sizes'), size) \in Seq(Known(Len(sizes'))) /\ Len(Bytes(Len(sizes'), size)) = size
        /\ got \in Seq(Known(Len(sizes'))) /\ socket \in Seq(Known(Len(sizes')))
        /\ out \in Seq(Known(Len(sizes'))) /\ buf \in Seq(Known(Len(sizes')))
    BY <2>1, RequestMade DEF Local
  <2>3. buf' \in Seq(Known(Len(sizes'))) /\ Len(buf') = Len(buf) + size
    BY <2>1, <2>2, ConcatProperties
  <2>4. buf' \in Seq(Byte)
    BY <2>2, <2>3, AreBytes
  <2>5. Len(buf') <= bufmax' /\ size \in Nat
    BY <1>1, <1>4, <2>3, Numbers DEF AllocReq, WireTypeOK
  <2>6. Local'
    BY <1>4, <2>2, <2>3 DEF AllocReq, threadVars, Local, Idle
  <2>7. WireTypeOK'
    BY <1>4, <2>2, <2>4, <2>5, Numbers DEF AllocReq, threadVars, WireTypeOK
  <2> QED
    BY <2>6, <2>7
<1>5. ASSUME NEW size \in Sizes \cup {0}, FlushFor(size), size # 0 => Len(sizes) < MaxRequests
      PROVE  WireTypeOK' /\ Local'
  <2>1. Local'
    BY <1>5 DEF FlushFor, threadVars, Local, Idle
  <2>2. WireTypeOK'
    BY <1>5, <1>1 DEF FlushFor, threadVars, WireTypeOK
  <2> QED
    BY <2>1, <2>2
<1>6. ASSUME Write PROVE WireTypeOK' /\ Local'
  <2>1. PICK k \in 1..Len(out) :
          /\ Len(socket) + k <= SocketSize
          /\ socket' = socket \o SubSeq(out, 1, k)
          /\ out' = SubSeq(out, k + 1, Len(out))
    BY <1>6 DEF Write
  <2>2. k \in 0..Len(out) /\ k \in Nat
    BY <1>1
  <2>3. SubSeq(out, 1, k) \in Seq(K) /\ Len(SubSeq(out, 1, k)) = k /\ out' \in Seq(K)
    BY <2>1, <2>2, Pieces DEF Local, K
  <2>4. socket' \in Seq(K) /\ Len(socket') = Len(socket) + k
    BY <2>1, <2>3, ConcatProperties DEF Local, K
  <2>5. Local'
    BY <1>6, <2>3, <2>4 DEF Write, threadVars, Local, Idle, K
  <2>6. Len(socket') <= SocketSize
    BY <2>1, <2>4
  <2>7. WireTypeOK'
    BY <1>2, <1>6, <2>3, <2>4, <2>6 DEF Write, threadVars, WireTypeOK
  <2> QED
    BY <2>5, <2>7
<1>7. ASSUME WriteFails PROVE WireTypeOK' /\ Local'
  BY <1>3, <1>7 DEF WriteFails, threadVars, WireTypeOK, Local, Idle
<1>8. ASSUME FlushDone PROVE WireTypeOK' /\ Local'
  <2>0. client.at = "flush" /\ client' = Idle /\ Idle.size = 0 /\ Idle \in [at : {"app", "flush"}, size : Sizes \cup {0}]
    BY <1>8 DEF FlushDone, Idle
  <2>1. ~ closed
    BY <2>0 DEF Local, Idle
  <2>2. client.size \in Sizes \cup {0} /\ bufmax \in {ReqbufInitSize} \cup Sizes /\ bufmax \in Nat
    BY Numbers DEF WireTypeOK
  <2>3. CASE client.size = 0
    <3>1. bufmax' \in {ReqbufInitSize} \cup Sizes /\ bufmax' \in Nat
      BY <1>8, <2>2, <2>3, Numbers DEF FlushDone
    <3>2. Local'
      BY <1>3, <1>8, <2>0, <2>1, <2>3 DEF FlushDone, threadVars, Local
    <3>3. buf' = <<>> /\ sizes' = sizes
      BY <1>8, <2>3 DEF FlushDone
    <3>4. Len(buf') <= bufmax'
      BY <1>3, <3>1, <3>3
    <3>5. WireTypeOK'
      BY <1>3, <1>8, <2>0, <3>1, <3>3, <3>4 DEF FlushDone, threadVars, WireTypeOK
    <3> QED
      BY <3>2, <3>5
  <2>4. CASE client.size # 0
    <3> DEFINE size == client.size
    <3>1. size \in Sizes /\ size \in Nat /\ Len(sizes) < MaxRequests
      BY <2>2, <2>4, Numbers DEF Local
    <3>2. sizes' = Append(sizes, size) /\ buf' = <<>> \o Bytes(Len(sizes'), size)
      BY <1>8, <2>4 DEF FlushDone, Put
    <3>3. /\ sizes' \in Seq(Sizes) /\ Len(sizes') \in 0..MaxRequests
          /\ Bytes(Len(sizes'), size) \in Seq(Known(Len(sizes'))) /\ Len(Bytes(Len(sizes'), size)) = size
          /\ got \in Seq(Known(Len(sizes'))) /\ socket \in Seq(Known(Len(sizes')))
          /\ out \in Seq(Known(Len(sizes')))
      BY <3>1, <3>2, RequestMade DEF Local
    <3>4. buf' \in Seq(Known(Len(sizes'))) /\ Len(buf') = size
      BY <3>2, <3>3, ConcatEmptySeq
    <3>5. buf' \in Seq(Byte)
      BY <3>3, <3>4, AreBytes
    <3>6. bufmax' \in {ReqbufInitSize} \cup Sizes /\ Len(buf') <= bufmax'
      BY <1>8, <2>2, <3>1, <3>4 DEF FlushDone
    <3> HIDE DEF size
    <3>7. Local'
      BY <1>8, <2>0, <2>1, <3>3, <3>4 DEF FlushDone, threadVars, Local
    <3>8. WireTypeOK'
      BY <1>8, <2>0, <3>3, <3>5, <3>6, Numbers DEF FlushDone, threadVars, WireTypeOK
    <3> QED
      BY <3>7, <3>8
  <2> QED
    BY <2>3, <2>4
<1>9. ASSUME Close PROVE WireTypeOK' /\ Local'
  <2>1. Idle.size = 0 /\ Idle \in [at : {"app", "flush"}, size : Sizes \cup {0}]
    BY DEF Idle
  <2>2. bufmax \in Nat
    BY Numbers DEF WireTypeOK
  <2> QED
    BY <1>3, <1>9, <2>1, <2>2 DEF Close, threadVars, WireTypeOK, Local
<1>10. ASSUME Select PROVE WireTypeOK' /\ Local'
  <2>1. Len(got) <= HeaderSize
    BY <1>10, <1>3, Numbers DEF Select, WireTypeOK
  <2> QED
    BY <1>10, <2>1 DEF Select, clientVars, WireTypeOK, Local
<1>11. ASSUME NEW limit \in Nat, NEW k \in 1..(limit - Len(got)), k <= Len(socket),
              got' = got \o SubSeq(socket, 1, k), socket' = SubSeq(socket, k + 1, Len(socket)),
              limit = (IF thread = "body" THEN len ELSE HeaderSize), thread # "select",
              UNCHANGED <<clientVars, thread, len, handled, broken, closed>>
       PROVE  WireTypeOK' /\ Local'
  <2>1. k \in 0..Len(socket) /\ k \in Nat
    BY <1>1, <1>11
  <2>2. /\ SubSeq(socket, 1, k) \in Seq(K) /\ Len(SubSeq(socket, 1, k)) = k
        /\ socket' \in Seq(K) /\ Len(socket') = Len(socket) - k
    BY <1>11, <2>1, Pieces DEF Local, K
  <2>3. got' \in Seq(K) /\ Len(got') = Len(got) + k
    BY <1>11, <2>2, ConcatProperties DEF Local, K
  <2>4. Local'
    BY <1>11, <2>2, <2>3 DEF clientVars, Local, K
  <2>5. Len(got') <= limit /\ Len(socket') <= SocketSize
    BY <1>1, <1>11, <2>1, <2>2, <2>3, Numbers DEF WireTypeOK
  <2>6. WireTypeOK'
    BY <1>2, <1>11, <2>2, <2>3, <2>5 DEF clientVars, WireTypeOK
  <2> QED
    BY <2>4, <2>6
<1>12. ASSUME BackToSelect, UNCHANGED <<clientVars, socket, broken, closed>>, handled' \in 0..MaxRequests
       PROVE  WireTypeOK' /\ Local'
  <2>1. Len(<<>>) <= HeaderSize
    BY <1>3, Numbers
  <2> QED
    BY <1>3, <1>12, <2>1 DEF BackToSelect, clientVars, WireTypeOK, Local
<1>13. got # <<>> => got[1][1] \in 0..Len(sizes) /\ got[1][1] \in 0..MaxRequests
  <2>1. got \in Seq(Known(Len(sizes))) /\ Len(sizes) \in Nat
    BY <1>1 DEF Local
  <2>2. ASSUME got # <<>> PROVE got[1][1] \in 0..Len(sizes)
    <3>1. 1 \in 1..Len(got)
      BY <2>1, <2>2, EmptySeq, LenProperties
    <3> QED
      BY <2>1, <3>1, Elements
  <2>3. ASSUME NEW x \in 0..Len(sizes) PROVE x \in 0..MaxRequests
    BY <1>1, <2>1, Numbers
  <2> QED
    BY <2>2, <2>3
<1>14. ASSUME HeaderRead PROVE WireTypeOK' /\ Local'
  <2>1. got # <<>> /\ Len(got) = HeaderSize /\ thread = "header"
    BY <1>3, <1>14, Numbers DEF HeaderRead
  <2>2. PICK l \in Lengths :
          \/ IsTooLarge(l) /\ BackToSelect /\ UNCHANGED handled
          \/ l <= HeaderSize /\ BackToSelect /\ handled' = got[1][1]
          \/ /\ ~ IsTooLarge(l) /\ l > HeaderSize
             /\ thread' = "body" /\ len' = l
             /\ UNCHANGED <<got, handled>>
    BY <1>14 DEF HeaderRead
  <2>3. l \in Nat
    <3>1. Size(sizes, got[1][1]) \in Nat
      BY <1>1, <1>13, <2>1, SizesAreNumbers
    <3> QED
      BY <3>1, Numbers DEF Lengths, SizeOf, Size
  <2>4. UNCHANGED <<clientVars, socket, broken, closed>>
    BY <1>14 DEF HeaderRead
  <2>5. CASE BackToSelect /\ (UNCHANGED handled \/ handled' = got[1][1])
    <3>1. handled' \in 0..MaxRequests
      BY <1>13, <2>1, <2>5 DEF WireTypeOK
    <3> QED
      BY <1>12, <2>4, <2>5, <3>1
  <2>6. CASE ~ IsTooLarge(l) /\ l > HeaderSize /\ thread' = "body" /\ len' = l /\ UNCHANGED <<got, handled>>
    <3>1. l \in (HeaderSize + 1)..MaxRequestSize /\ l # 0 /\ Len(got) <= l
      BY <2>1, <2>3, <2>6, Numbers DEF IsTooLarge
    <3>2. Local'
      BY <2>4, <2>6 DEF clientVars, Local
    <3>3. WireTypeOK'
      BY <2>4, <2>6, <3>1 DEF clientVars, WireTypeOK
    <3> QED
      BY <3>2, <3>3
  <2> QED
    BY <2>2, <2>5, <2>6
<1>15. ASSUME ReadHeader PROVE WireTypeOK' /\ Local'
  <2>1. PICK k \in 1..(HeaderSize - Len(got)) :
          k <= Len(socket) /\ got' = got \o SubSeq(socket, 1, k) /\ socket' = SubSeq(socket, k + 1, Len(socket))
    BY <1>15 DEF ReadHeader, Read
  <2>2. HeaderSize \in Nat /\ HeaderSize = (IF thread = "body" THEN len ELSE HeaderSize) /\ thread # "select"
    BY <1>15, Numbers DEF ReadHeader
  <2> QED
    BY <1>11, <1>15, <2>1, <2>2 DEF ReadHeader
<1>16. ASSUME ReadBody PROVE WireTypeOK' /\ Local'
  <2>1. PICK k \in 1..(len - Len(got)) :
          k <= Len(socket) /\ got' = got \o SubSeq(socket, 1, k) /\ socket' = SubSeq(socket, k + 1, Len(socket))
    BY <1>16 DEF ReadBody, Read
  <2>2. len \in Nat /\ len = (IF thread = "body" THEN len ELSE HeaderSize) /\ thread # "select"
    BY <1>16, Numbers DEF ReadBody, WireTypeOK
  <2> QED
    BY <1>11, <1>16, <2>1, <2>2 DEF ReadBody
<1>17. ASSUME Handle PROVE WireTypeOK' /\ Local'
  <2>1. got # <<>>
    BY <1>3, <1>17, Numbers DEF Handle, WireTypeOK
  <2> QED
    BY <1>12, <1>13, <1>17, <2>1 DEF Handle
<1>18. ASSUME EndOfFile PROVE WireTypeOK' /\ Local'
  BY <1>12, <1>18 DEF EndOfFile, WireTypeOK
<1>19. ASSUME NEW size \in Sizes, FlushForRequest(size) PROVE WireTypeOK' /\ Local'
  BY <1>5, <1>19 DEF FlushForRequest
<1>20. ASSUME Flush PROVE WireTypeOK' /\ Local'
  BY <1>5, <1>20 DEF Flush
<1>21. CASE UNCHANGED wireVars
  BY <1>21 DEF wireVars, clientVars, threadVars, WireTypeOK, Local
<1> QED
  BY <1>4, <1>6, <1>7, <1>8, <1>9, <1>10, <1>14, <1>15, <1>16, <1>17, <1>18, <1>19, <1>20, <1>21
  DEF WireNext, Client, Thread

-----------------------------------------------------------------------------
(* The stream.                                                             *)

\* What has still to be written, or to be put into out.
Pending == IF client.at = "flush" THEN out ELSE buf

LEMMA Rest ==
  ASSUME NEW S, NEW s \in Seq(S), NEW t \in Seq(S)
  PROVE  SubSeq(s \o t, Len(s) + 1, Len(s \o t)) = t
<1>1. /\ s \o t \in Seq(S) /\ Len(s \o t) = Len(s) + Len(t) /\ Len(s) \in Nat /\ Len(t) \in Nat
      /\ \A i \in 1..(Len(s) + Len(t)) : (s \o t)[i] = IF i <= Len(s) THEN s[i] ELSE t[i - Len(s)]
  BY ConcatProperties, LenProperties
<1> DEFINE u == SubSeq(s \o t, Len(s) + 1, Len(s \o t))
<1>2. /\ u \in Seq(S) /\ Len(u) = Len(s \o t) - Len(s)
      /\ \A i \in 1..(Len(s \o t) - Len(s)) : u[i] = (s \o t)[i + Len(s)]
  <2>1. Len(s) \in 0..Len(s \o t)
    BY <1>1
  <2> QED
    BY <1>1, <2>1, Pieces
<1> HIDE DEF u
<1>3. Len(u) = Len(t)
  BY <1>1, <1>2
<1>4. ASSUME NEW i \in 1..Len(t) PROVE u[i] = t[i]
  <2>1. i \in 1..(Len(s \o t) - Len(s)) /\ i + Len(s) \in 1..(Len(s) + Len(t)) /\ ~ i + Len(s) <= Len(s)
        /\ (i + Len(s)) - Len(s) = i
    BY <1>1
  <2>2. u[i] = (s \o t)[i + Len(s)]
    BY <1>2, <2>1
  <2>3. (s \o t)[i + Len(s)] = t[(i + Len(s)) - Len(s)]
    BY <1>1, <2>1
  <2> QED
    BY <2>1, <2>2, <2>3
<1>5. u = t
  BY <1>2, <1>3, <1>4, SeqEqual
<1> QED
  BY <1>5 DEF u

LEMMA Between ==
  ASSUME WireTypeOK, Local
  PROVE  LET K == Known(Len(sizes))
         IN  /\ Underway = (got \o socket) \o Pending /\ Underway = got \o (socket \o Pending)
             /\ Underway \in Seq(K) /\ got \o socket \in Seq(K) /\ socket \o Pending \in Seq(K)
             /\ Pending \in Seq(K) /\ got \in Seq(K) /\ socket \in Seq(K)
             /\ Len(Underway) \in Nat /\ Len(got) \in Nat /\ Len(got) <= Len(Underway)
             /\ \A i \in 1..Len(got) : Underway[i] = got[i]
             /\ SubSeq(Underway, Len(got) + 1, Len(Underway)) = socket \o Pending
<1> DEFINE K == Known(Len(sizes))
<1>1. got \in Seq(K) /\ socket \in Seq(K) /\ Pending \in Seq(K)
  BY DEF Local, Pending
<1> HIDE DEF K
<1>2. got \o socket \in Seq(K) /\ socket \o Pending \in Seq(K)
  BY <1>1, ConcatProperties
<1>3. Underway = (got \o socket) \o Pending
  BY DEF Underway, Pending
<1>4. (got \o socket) \o Pending = got \o (socket \o Pending)
  BY <1>1, ConcatAssociative
<1>5. /\ Underway \in Seq(K) /\ Len(Underway) = Len(got) + Len(socket \o Pending)
      /\ \A i \in 1..(Len(got) + Len(socket \o Pending)) :
           Underway[i] = IF i <= Len(got) THEN got[i] ELSE (socket \o Pending)[i - Len(got)]
  BY <1>1, <1>2, <1>3, <1>4, ConcatProperties
<1>6. Len(got) \in Nat /\ Len(socket \o Pending) \in Nat /\ Len(Underway) \in Nat
  BY <1>1, <1>2, <1>5, LenProperties
<1>7. SubSeq(Underway, Len(got) + 1, Len(Underway)) = socket \o Pending
  BY <1>1, <1>2, <1>3, <1>4, Rest
<1>8. Len(got) <= Len(Underway) /\ \A i \in 1..Len(got) : Underway[i] = got[i]
  <2>1. Len(got) <= Len(Underway)
    BY <1>5, <1>6
  <2>2. ASSUME NEW i \in 1..Len(got) PROVE Underway[i] = got[i]
    <3>1. i \in 1..(Len(got) + Len(socket \o Pending)) /\ i <= Len(got)
      BY <1>6
    <3> QED
      BY <1>5, <3>1
  <2> QED
    BY <2>1, <2>2
<1>9. Underway \in Seq(K) /\ Underway = got \o (socket \o Pending)
  BY <1>3, <1>4, <1>5
<1> QED
  BY <1>1, <1>2, <1>3, <1>6, <1>7, <1>8, <1>9 DEF K

LEMMA StreamKept ==
  ASSUME WireTypeOK, Local, Stream, [WireNext]_wireVars
  PROVE  Stream'
<1> SUFFICES ASSUME ~ broken'
             PROVE  /\ InOrder(Underway', sizes') /\ Begins(Underway', handled')
                    /\ ~ closed' => Ends(Underway', sizes', handled')
                    /\ Body'
  BY DEF Stream
<1> DEFINE K == Known(Len(sizes))
<1>1. /\ Underway = (got \o socket) \o Pending /\ Underway = got \o (socket \o Pending)
      /\ Underway \in Seq(K) /\ got \o socket \in Seq(K) /\ socket \o Pending \in Seq(K)
      /\ Pending \in Seq(K) /\ got \in Seq(K) /\ socket \in Seq(K)
  BY Between
<1>2. /\ Len(Underway) \in Nat /\ Len(got) \in Nat /\ Len(got) <= Len(Underway)
      /\ \A i \in 1..Len(got) : Underway[i] = got[i]
      /\ SubSeq(Underway, Len(got) + 1, Len(Underway)) = socket \o Pending
  BY Between
<1>3. Underway' = (got' \o socket') \o Pending'
  BY DEF Underway, Pending
<1> HIDE DEF K
<1>4. ~ broken
  BY DEF WireNext, Client, Thread, AllocReq, FlushFor, FlushForRequest, Flush, Write, WriteFails, FlushDone,
         Close, Select, ReadHeader, HeaderRead, ReadBody, Handle, EndOfFile, wireVars
<1>5. /\ InOrder(Underway, sizes) /\ Begins(Underway, handled)
      /\ ~ closed => Ends(Underway, sizes, handled)
      /\ Body
  BY <1>4 DEF Stream
<1>6. sizes \in Seq(Sizes) /\ Len(sizes) \in Nat /\ handled \in Nat /\ closed \in BOOLEAN
  BY LenProperties, Numbers DEF WireTypeOK
<1>7. ASSUME Underway' = Underway, UNCHANGED <<sizes, handled, closed>>, Body'
      PROVE  /\ InOrder(Underway', sizes') /\ Begins(Underway', handled')
             /\ ~ closed' => Ends(Underway', sizes', handled')
             /\ Body'
  BY <1>5, <1>7
<1>8. ASSUME NEW size \in Sizes, Len(sizes) < MaxRequests, sizes' = Append(sizes, size), ~ closed,
             Underway' = Underway \o Bytes(Len(sizes) + 1, size), UNCHANGED <<threadVars, closed>>
      PROVE  /\ InOrder(Underway', sizes') /\ Begins(Underway', handled')
             /\ ~ closed' => Ends(Underway', sizes', handled')
             /\ Body'
  <2>1. InOrder(Underway', sizes') /\ Begins(Underway', handled) /\ Ends(Underway', sizes', handled)
    <3>1. Underway \in Seq(Known(Len(sizes)))
      BY <1>1 DEF K
    <3> QED
      BY <1>5, <1>6, <1>8, <3>1, PutKeeps
  <2>2. Body'
    <3> SUFFICES ASSUME thread = "body" PROVE got # <<>> /\ got[1] = <<handled + 1, 1>> /\ len = SizeOf(handled + 1)'
      BY <1>8 DEF Body, threadVars
    <3>1. got # <<>> /\ got[1] = <<handled + 1, 1>> /\ len = SizeOf(handled + 1)
      BY <1>5 DEF Body
    <3>2. handled + 1 \in 1..Len(sizes)
      <4>1. 1 \in 1..Len(got) /\ got \in Seq(Known(Len(sizes)))
        BY <1>1, <1>6, <3>1, Elements DEF K
      <4>2. got[1][1] \in 0..Len(sizes)
        BY <1>6, <4>1, Elements
      <4> QED
        BY <1>6, <3>1, <4>2
    <3>3. sizes'[handled + 1] = sizes[handled + 1]
      BY <1>6, <1>8, <3>2, AppendProperties
    <3> QED
      BY <1>6, <1>8, <3>1, <3>3 DEF SizeOf, threadVars
  <2> QED
    BY <1>8, <2>1, <2>2 DEF threadVars
<1>9. ASSUME NEW size \in Sizes, AllocReq(size)
      PROVE  /\ InOrder(Underway', sizes') /\ Begins(Underway', handled')
             /\ ~ closed' => Ends(Underway', sizes', handled')
             /\ Body'
  <2>1. /\ Len(sizes) < MaxRequests /\ sizes' = Append(sizes, size) /\ Len(sizes') = Len(sizes) + 1
        /\ Pending = buf /\ Pending' = buf \o Bytes(Len(sizes'), size)
        /\ UNCHANGED <<got, socket, threadVars, closed>> /\ ~ closed
    BY <1>6, <1>9, AppendProperties DEF AllocReq, Put, Pending, Idle, threadVars
  <2> DEFINE G == got \o socket
             new == Bytes(Len(sizes'), size)
             L == Known(Len(sizes'))
  <2>2. new \in Seq(L) /\ G \in Seq(L) /\ buf \in Seq(L)
    BY <1>1, <2>1, RequestMade DEF K
  <2>3. Underway = G \o buf /\ Underway' = G \o (buf \o new)
    BY <1>1, <1>3, <2>1
  <2> HIDE DEF G, new, L
  <2>4. G \o (buf \o new) = (G \o buf) \o new
    BY <2>2, ConcatAssociative
  <2>5. Underway' = Underway \o Bytes(Len(sizes) + 1, size)
    BY <2>1, <2>3, <2>4 DEF new
  <2> QED
    BY <1>8, <2>1, <2>5
<1>10. ASSUME NEW size, FlushFor(size) PROVE Underway' = Underway
  BY <1>1, <1>3, <1>10 DEF FlushFor, Pending, Idle, threadVars
<1>11. ASSUME Write PROVE Underway' = Underway
  <2>1. PICK k \in 1..Len(out) :
          /\ socket' = socket \o SubSeq(out, 1, k)
          /\ out' = SubSeq(out, k + 1, Len(out))
    BY <1>11 DEF Write
  <2>2. out \in Seq(K) /\ Pending = out /\ Pending' = out' /\ UNCHANGED got
    BY <1>1, <1>11 DEF Write, Pending, threadVars
  <2>3. k \in 0..Len(out)
    BY <2>2, LenProperties
  <2>4. /\ SubSeq(out, 1, k) \in Seq(K) /\ SubSeq(out, k + 1, Len(out)) \in Seq(K)
        /\ SubSeq(out, 1, k) \o SubSeq(out, k + 1, Len(out)) = out
    BY <2>2, <2>3, Pieces
  <2> DEFINE G == got \o socket
             a == SubSeq(out, 1, k)
             b == SubSeq(out, k + 1, Len(out))
  <2>5. G = got \o socket /\ a \o b = out /\ socket' = socket \o a /\ out' = b
    BY <2>1, <2>4
  <2>8. G \in Seq(K) /\ a \in Seq(K) /\ b \in Seq(K)
    BY <1>1, <2>4
  <2>9. got \in Seq(K) /\ socket \in Seq(K)
    BY <1>1
  <2> HIDE DEF G, a, b
  <2>6. (G \o a) \o b = G \o (a \o b)
    BY <2>8, ConcatAssociative
  <2>7. (got \o socket) \o a = got \o (socket \o a)
    BY <2>8, <2>9, ConcatAssociative
  <2> QED
    BY <1>1, <1>3, <2>2, <2>5, <2>6, <2>7
<1>12. ASSUME FlushDone
       PROVE  /\ InOrder(Underway', sizes') /\ Begins(Underway', handled')
              /\ ~ closed' => Ends(Underway', sizes', handled')
              /\ Body'
  <2>1. /\ client.at = "flush" /\ Pending = <<>> /\ Pending' = buf' /\ ~ closed
        /\ UNCHANGED <<got, socket, threadVars, closed>>
    BY <1>12 DEF FlushDone, Pending, Local, Idle, threadVars
  <2>2. Underway = got \o socket /\ Underway' = (got \o socket) \o buf'
    BY <1>1, <1>3, <2>1, ConcatEmptySeq
  <2>3. CASE client.size = 0
    <3>1. buf' = <<>> /\ UNCHANGED sizes
      BY <1>12, <2>3 DEF FlushDone
    <3>2. Underway' = Underway
      BY <1>1, <2>2, <3>1, ConcatEmptySeq
    <3>3. Body'
      BY <1>5, <2>1, <3>1 DEF Body, threadVars, SizeOf
    <3> QED
      BY <1>7, <2>1, <3>1, <3>2, <3>3 DEF threadVars
  <2>4. CASE client.size # 0
    <3>1. client.size \in Sizes /\ Len(sizes) < MaxRequests
      BY <2>4 DEF WireTypeOK, Local
    <3>2. sizes' = Append(sizes, client.size) /\ buf' = <<>> \o Bytes(Len(sizes'), client.size)
      BY <1>12, <2>4 DEF FlushDone, Put
    <3>3. Bytes(Len(sizes'), client.size) \in Seq(Known(Len(sizes'))) /\ Len(sizes') = Len(sizes) + 1
      BY <3>1, <3>2, RequestMade
    <3>4. buf' = Bytes(Len(sizes) + 1, client.size)
      BY <3>2, <3>3, ConcatEmptySeq
    <3> QED
      BY <1>8, <2>1, <2>2, <3>1, <3>2, <3>4
  <2> QED
    BY <2>3, <2>4
<1>13. ASSUME Close
       PROVE  /\ InOrder(Underway', sizes') /\ Begins(Underway', handled')
              /\ ~ closed' => Ends(Underway', sizes', handled')
              /\ Body'
  <2>1. Pending' = <<>> /\ closed' /\ UNCHANGED <<got, socket, sizes, handled, thread, len>>
    BY <1>13 DEF Close, Pending, Idle, threadVars
  <2>2. Underway' = got \o socket
    BY <1>1, <1>3, <2>1, ConcatEmptySeq
  <2>3. InOrder(got \o socket, sizes) /\ Begins(got \o socket, handled)
    BY <1>1, <1>5, <1>6, CutKeeps DEF K
  <2>4. Body'
    BY <1>5, <2>1 DEF Body, SizeOf
  <2> QED
    BY <2>1, <2>2, <2>3, <2>4
<1>14. ASSUME Select PROVE Underway' = Underway /\ Body' /\ UNCHANGED <<sizes, handled, closed>>
  BY <1>1, <1>3, <1>14 DEF Select, Pending, clientVars, Body
<1>15. ASSUME NEW k \in 1..Len(socket), got' = got \o SubSeq(socket, 1, k),
              socket' = SubSeq(socket, k + 1, Len(socket)),
              UNCHANGED <<clientVars, thread, len, handled, closed>>
       PROVE  Underway' = Underway /\ Body' /\ UNCHANGED <<sizes, handled, closed>>
  <2>1. k \in 0..Len(socket)
    BY <1>1, LenProperties
  <2>2. /\ SubSeq(socket, 1, k) \in Seq(K) /\ SubSeq(socket, k + 1, Len(socket)) \in Seq(K)
        /\ SubSeq(socket, 1, k) \o SubSeq(socket, k + 1, Len(socket)) = socket
    BY <1>1, <2>1, Pieces
  <2> DEFINE a == SubSeq(socket, 1, k)
             b == SubSeq(socket, k + 1, Len(socket))
  <2>8. a \o b = socket /\ got' = got \o a /\ socket' = b
    BY <1>15, <2>2
  <2>9. got \in Seq(K) /\ a \in Seq(K) /\ b \in Seq(K)
    BY <1>1, <2>2
  <2> HIDE DEF a, b
  <2>3. (got \o a) \o b = got \o (a \o b)
    BY <2>9, ConcatAssociative
  <2>4. Pending' = Pending
    BY <1>15 DEF Pending, clientVars
  <2>5. Underway' = Underway
    BY <1>1, <1>3, <2>3, <2>4, <2>8
  <2>6. got # <<>> => got' # <<>> /\ got'[1] = got[1]
    <3>1. /\ got' \in Seq(K) /\ Len(got') = Len(got) + Len(SubSeq(socket, 1, k))
          /\ \A i \in 1..(Len(got) + Len(SubSeq(socket, 1, k))) :
               got'[i] = IF i <= Len(got) THEN got[i] ELSE SubSeq(socket, 1, k)[i - Len(got)]
      BY <1>1, <1>15, <2>2, ConcatProperties
    <3>2. Len(SubSeq(socket, 1, k)) \in Nat /\ (got # <<>> => Len(got) \in Nat \ {0})
      BY <1>1, <2>2, EmptySeq, LenProperties
    <3>3. got # <<>> => 1 \in 1..(Len(got) + Len(SubSeq(socket, 1, k))) /\ 1 <= Len(got) /\ Len(got') # 0
      BY <3>1, <3>2
    <3> QED
      BY <3>1, <3>3, EmptySeq
  <2>7. Body'
    BY <1>5, <1>15, <2>6 DEF Body, SizeOf, clientVars
  <2> QED
    BY <1>15, <2>5, <2>7 DEF clientVars
<1>16. ASSUME BackToSelect, UNCHANGED <<clientVars, socket, closed>>
       PROVE  Underway' = SubSeq(Underway, Len(got) + 1, Len(Underway)) /\ Body'
              /\ UNCHANGED <<sizes, closed>>
  <2>1. got' = <<>> /\ Pending' = Pending /\ thread' = "select"
    BY <1>16 DEF BackToSelect, Pending, clientVars
  <2>2. <<>> \o socket = socket
    BY <1>1, ConcatEmptySeq
  <2> QED
    BY <1>2, <1>3, <1>16, <2>1, <2>2 DEF Body, clientVars
\* What is in got is the next request, or a word of the first one.
<1>17. ASSUME got # <<>>
       PROVE  /\ 1 \in 1..Len(got) /\ Underway # <<>> /\ Underway[1] = got[1] /\ got[1][1] \in 0..Len(sizes)
              /\ \/ got[1] = <<handled + 1, 1>> /\ handled + 1 \in 1..Len(sizes)
                 \/ handled = 0 /\ \E w \in 1..NewWndWords : got[1] = <<0, w * HeaderSize + 1>>
  <2>1. Len(got) \in Nat \ {0} /\ Len(Underway) # 0
    BY <1>1, <1>2, <1>17, EmptySeq
  <2>2. Underway # <<>> /\ Underway[1] = got[1] /\ 1 \in 1..Len(got)
    BY <1>1, <1>2, <2>1, EmptySeq
  <2>3. got[1][1] \in 0..Len(sizes)
    BY <1>1, <1>6, <2>2, Elements DEF K
  <2> QED
    BY <1>5, <1>6, <2>2, <2>3 DEF Begins
<1>18. ASSUME got # <<>>, got[1] = <<handled + 1, 1>>, Len(got) = SizeOf(handled + 1),
              BackToSelect, UNCHANGED <<clientVars, socket, closed>>, handled' = got[1][1]
       PROVE  /\ InOrder(Underway', sizes') /\ Begins(Underway', handled')
              /\ ~ closed' => Ends(Underway', sizes', handled')
              /\ Body'
  <2> DEFINE n == handled + 1
  <2>0. handled \in Nat
    BY <1>6
  <2>1. n \in 1..Len(sizes) /\ n # 0 /\ Underway # <<>> /\ Underway[1] = <<n, 1>> /\ handled' = n
    BY <1>17, <1>18, <2>0
  <2>2. Size(sizes, n) = Len(got) /\ Size(sizes, n) <= Len(Underway)
    BY <1>2, <1>18, <2>1 DEF Size, SizeOf
  <2>3. /\ Underway' = SubSeq(Underway, Size(sizes, n) + 1, Len(Underway))
        /\ Body' /\ UNCHANGED <<sizes, closed>>
    BY <1>16, <1>18, <2>2
  <2> HIDE DEF n
  <2>4. Underway \in Seq(Known(Len(sizes)))
    BY <1>1 DEF K
  <2>5. /\ InOrder(Underway', sizes) /\ Begins(Underway', n)
        /\ ~ closed => Ends(Underway', sizes, n)
    BY <1>5, <1>6, <2>1, <2>2, <2>3, <2>4, HandledKeeps
  <2> QED
    BY <2>1, <2>3, <2>5
<1>19. ASSUME NEW w \in 1..NewWndWords, got # <<>>, got[1] = <<0, w * HeaderSize + 1>>, handled = 0,
              Len(got) = HeaderSize, BackToSelect, UNCHANGED <<clientVars, socket, closed>>, handled' = 0
       PROVE  /\ InOrder(Underway', sizes') /\ Begins(Underway', handled')
              /\ ~ closed' => Ends(Underway', sizes', handled')
              /\ Body'
  <2>1. Underway # <<>> /\ Underway[1] = <<0, w * HeaderSize + 1>> /\ HeaderSize <= Len(Underway)
    BY <1>2, <1>17, <1>19
  <2>2. /\ Underway' = SubSeq(Underway, HeaderSize + 1, Len(Underway))
        /\ Body' /\ UNCHANGED <<sizes, closed>>
    BY <1>16, <1>19
  <2>3. Underway \in Seq(Known(Len(sizes)))
    BY <1>1 DEF K
  <2>4. /\ InOrder(Underway', sizes) /\ Begins(Underway', 0)
        /\ ~ closed => Ends(Underway', sizes, 0)
    BY <1>5, <1>6, <1>19, <2>1, <2>2, <2>3, WordKeeps
  <2> QED
    BY <1>19, <2>2, <2>4
<1>20. ASSUME HeaderRead
       PROVE  /\ InOrder(Underway', sizes') /\ Begins(Underway', handled')
              /\ ~ closed' => Ends(Underway', sizes', handled')
              /\ Body'
  <2>1. thread = "header" /\ Len(got) = HeaderSize /\ UNCHANGED <<clientVars, socket, closed>>
    BY <1>20 DEF HeaderRead
  <2>2. got # <<>>
    BY <2>1, EmptySeq, Numbers
  <2>3. PICK l \in Lengths :
          \/ IsTooLarge(l) /\ BackToSelect /\ UNCHANGED handled
          \/ l <= HeaderSize /\ BackToSelect /\ handled' = got[1][1]
          \/ /\ ~ IsTooLarge(l) /\ l > HeaderSize
             /\ thread' = "body" /\ len' = l
             /\ UNCHANGED <<got, handled>>
    BY <1>20 DEF HeaderRead
  <2>4. CASE got[1] = <<handled + 1, 1>> /\ handled + 1 \in 1..Len(sizes)
    <3> DEFINE n == handled + 1
    <3>1. /\ SizeOf(n) = Size(sizes, n) /\ SizeOf(n) \in Nat
          /\ HeaderSize <= SizeOf(n) /\ SizeOf(n) <= MaxRequestSize
      BY <1>6, <2>4, SizesAreNumbers DEF SizeOf, Size
    <3>2. got = SubSeq(Bytes(n, SizeOf(n)), 1, HeaderSize)
      <4>1. HeaderSize \in 1..Len(Underway) /\ Underway # <<>> /\ Underway[1] = <<n, 1>>
        BY <1>2, <1>17, <2>1, <2>2, <2>4, Numbers
      <4>2. /\ Underway[1][1] = n /\ Underway[1][2] = 1 /\ 1 + (HeaderSize - 1) = HeaderSize
            /\ \A i \in 1..HeaderSize : i \in 1..Len(got) /\ 1 + (i - 1) = i
        BY <2>1, <4>1, Numbers
      <4>3. Underway \in Seq(Known(Len(sizes)))
        BY <1>1 DEF K
      <4>4. Underway[1][2] + (HeaderSize - 1) <= Size(sizes, Underway[1][1])
        BY <3>1, <4>2
      <4>5. \A i \in 1..HeaderSize : Underway[i] = <<Underway[1][1], Underway[1][2] + (i - 1)>>
        BY <1>5, <1>6, <4>1, <4>3, <4>4, RequestIsWhole
      <4>6. \A i \in 1..HeaderSize : got[i] = <<n, i>>
        BY <1>2, <4>2, <4>5
      <4> HIDE DEF n
      <4>7. /\ Bytes(n, SizeOf(n)) \in Seq({n} \X Nat) /\ Len(Bytes(n, SizeOf(n))) = SizeOf(n)
            /\ \A i \in 1..SizeOf(n) : Bytes(n, SizeOf(n))[i] = <<n, i>>
        <5>1. \A i \in 1..SizeOf(n) : <<n, i>> \in {n} \X Nat
          BY <3>1
        <5> QED
          BY <3>1, <5>1, IsASeq, LenProperties DEF Bytes
      <4>8. HeaderSize \in 0..Len(Bytes(n, SizeOf(n)))
        BY <3>1, <4>7, Numbers
      <4> DEFINE first == SubSeq(Bytes(n, SizeOf(n)), 1, HeaderSize)
      <4>9. /\ first \in Seq({n} \X Nat) /\ Len(first) = HeaderSize
            /\ \A i \in 1..HeaderSize : first[i] = Bytes(n, SizeOf(n))[i]
        BY <4>7, <4>8, Pieces
      <4>10. \A i \in 1..HeaderSize : i \in 1..SizeOf(n)
        BY <3>1, Numbers
      <4> HIDE DEF first
      <4>11. \A i \in 1..HeaderSize : first[i] = got[i]
        BY <4>6, <4>7, <4>9, <4>10
      <4>12. first \in Seq((0..Len(sizes)) \X Nat) /\ got \in Seq((0..Len(sizes)) \X Nat)
        <5>1. {n} \X Nat \subseteq (0..Len(sizes)) \X Nat
          BY <1>6, <2>4 DEF n
        <5>2. Known(Len(sizes)) \subseteq (0..Len(sizes)) \X Nat
          BY Numbers DEF Known
        <5> QED
          BY <1>1, <4>9, <5>1, <5>2, SeqMonotonic DEF K
      <4>13. first = got
        BY <2>1, <4>9, <4>11, <4>12, SeqEqual
      <4> QED
        BY <4>13 DEF first
    <3>3. got[1][1] = n /\ got[1][2] = 1
      BY <2>4
    <3>4. l = SizeOf(n)
      BY <3>2, <3>3 DEF Lengths
    <3>5. ~ IsTooLarge(l)
      BY <3>1, <3>4, Numbers DEF IsTooLarge
    <3>6. CASE l <= HeaderSize /\ BackToSelect /\ handled' = got[1][1]
      <4>1. Len(got) = SizeOf(n)
        BY <2>1, <3>1, <3>4, <3>6, Numbers
      <4> QED
        BY <1>18, <2>1, <2>2, <2>4, <3>6, <4>1
    <3>7. CASE thread' = "body" /\ len' = l /\ UNCHANGED <<got, handled>>
      <4>1. Underway' = Underway /\ UNCHANGED <<sizes, handled, closed>>
        BY <1>1, <1>3, <2>1, <3>7 DEF Pending, clientVars
      <4>2. Body'
        BY <2>2, <2>4, <3>4, <3>7, <4>1 DEF Body, SizeOf
      <4> QED
        BY <1>7, <4>1, <4>2
    <3> QED
      BY <2>3, <3>5, <3>6, <3>7
  <2>5. CASE handled = 0 /\ \E w \in 1..NewWndWords : got[1] = <<0, w * HeaderSize + 1>>
    <3>1. PICK w \in 1..NewWndWords : got[1] = <<0, w * HeaderSize + 1>>
      BY <2>5
    <3>2. got[1][1] = 0 /\ got[1][2] # 1
      <4>1. w * HeaderSize \in Nat /\ w * HeaderSize >= HeaderSize /\ HeaderSize \in Nat \ {0}
        BY WordFits, Numbers
      <4> DEFINE p == w * HeaderSize
      <4>2. got[1] = <<0, p + 1>> /\ p \in Nat /\ p >= HeaderSize
        BY <3>1, <4>1
      <4> HIDE DEF p
      <4> QED
        BY <4>1, <4>2
    <3>3. l \in {0, MaxRequestSize + 1}
      BY <3>2 DEF Lengths
    <3>4. ~ (~ IsTooLarge(l) /\ l > HeaderSize)
      BY <3>3, Numbers DEF IsTooLarge
    <3>5. BackToSelect /\ handled' = 0
      BY <2>3, <2>5, <3>2, <3>4
    <3> QED
      BY <1>19, <2>1, <2>2, <2>5, <3>1, <3>5
  <2> QED
    BY <1>17, <2>2, <2>4, <2>5
<1>21. ASSUME Handle
       PROVE  /\ InOrder(Underway', sizes') /\ Begins(Underway', handled')
              /\ ~ closed' => Ends(Underway', sizes', handled')
              /\ Body'
  BY <1>5, <1>18, <1>21 DEF Handle, Body
<1>22. ASSUME EndOfFile
       PROVE  /\ InOrder(Underway', sizes') /\ Begins(Underway', handled')
              /\ ~ closed' => Ends(Underway', sizes', handled')
              /\ Body'
  <2>1. closed /\ socket = <<>> /\ Pending = <<>> /\ BackToSelect /\ UNCHANGED <<clientVars, socket, closed>>
    BY <1>22 DEF EndOfFile, Local, Pending, Idle
  <2>2. got' = <<>> /\ Pending' = <<>> /\ thread' = "select"
    BY <2>1 DEF BackToSelect, Pending, clientVars
  <2>3. Underway' = <<>>
    BY <1>1, <1>3, <2>1, <2>2, ConcatEmptySeq
  <2>4. DOMAIN Underway' = {}
    BY <2>3
  <2> QED
    BY <2>1, <2>2, <2>3, <2>4 DEF InOrder, Begins, Body
<1>23. ASSUME ReadHeader \/ ReadBody PROVE Underway' = Underway /\ Body' /\ UNCHANGED <<sizes, handled, closed>>
  <2>1. PICK wanted \in {HeaderSize - Len(got), len - Len(got)} :
          Read(wanted) /\ UNCHANGED <<clientVars, thread, len, handled, closed>>
    BY <1>23 DEF ReadHeader, ReadBody
  <2>2. wanted \in Int /\ Len(socket) \in Nat
    BY <1>1, <1>2, Numbers, LenProperties DEF WireTypeOK
  <2>3. PICK k \in 1..wanted :
          /\ k <= Len(socket) /\ got' = got \o SubSeq(socket, 1, k)
          /\ socket' = SubSeq(socket, k + 1, Len(socket))
    BY <2>1 DEF Read
  <2>4. k \in 1..Len(socket)
    BY <2>2, <2>3
  <2> QED
    BY <1>15, <2>1, <2>3, <2>4
<1>24. ASSUME NEW size, FlushFor(size) PROVE Body' /\ UNCHANGED <<sizes, handled, closed>>
  BY <1>5, <1>24 DEF FlushFor, Body, threadVars, SizeOf
<1>25. ASSUME Write PROVE Body' /\ UNCHANGED <<sizes, handled, closed>>
  BY <1>5, <1>25 DEF Write, Body, threadVars, SizeOf
<1>26. CASE UNCHANGED wireVars
  BY <1>5, <1>26 DEF wireVars, clientVars, threadVars, Underway, Body, SizeOf
<1>27. ~ WriteFails
  BY DEF WriteFails
<1>28. ASSUME NEW size \in Sizes, FlushForRequest(size) PROVE FlushFor(size)
  BY <1>28 DEF FlushForRequest
<1>29. Flush => FlushFor(0)
  BY DEF Flush
<1> QED
  BY <1>7, <1>9, <1>10, <1>11, <1>12, <1>13, <1>14, <1>20, <1>21, <1>22, <1>23, <1>24, <1>25, <1>26, <1>27,
     <1>28, <1>29 DEF WireNext, Client, Thread

-----------------------------------------------------------------------------
(* Theorems.                                                               *)

LEMMA InitWInv == WireInit => WInv
<1> SUFFICES ASSUME WireInit PROVE WInv
  OBVIOUS
<1> DEFINE rest == SubSeq(Bytes(0, NewWndSize), HeaderSize + 1, NewWndSize)
           W == NewWndWords * HeaderSize
<1>1. /\ client = Idle /\ buf = <<>> /\ bufmax = ReqbufInitSize /\ out = <<>> /\ socket = rest
      /\ thread = "select" /\ got = <<>> /\ len = 0 /\ sizes = <<>> /\ handled = 0
      /\ broken = FALSE /\ closed = FALSE /\ Idle.size = 0 /\ Idle.at = "app"
  BY DEF WireInit, Idle
<1>2. W \in Nat /\ NewWndSize = W + HeaderSize /\ HeaderSize \in Nat \ {0} /\ NewWndSize \in Nat
  BY Numbers
<1>3. <<>> \in Seq(Sizes) /\ Len(<<>>) = 0 /\ <<>> \in Seq(Known(0)) /\ <<>> \in Seq(Byte)
  BY EmptySeq
<1>4. /\ Bytes(0, NewWndSize) \in Seq(Known(0)) /\ Len(Bytes(0, NewWndSize)) = NewWndSize
      /\ \A i \in 1..NewWndSize : Bytes(0, NewWndSize)[i] = <<0, i>>
  <2>1. \A i \in 1..NewWndSize : <<0, i>> \in Known(0)
    BY <1>2, Numbers DEF Known
  <2>2. Bytes(0, NewWndSize) = [i \in 1..NewWndSize |-> <<0, i>>]
    BY DEF Bytes
  <2>3. Bytes(0, NewWndSize) \in Seq(Known(0))
    BY <1>2, <2>1, <2>2, IsASeq
  <2> QED
    BY <1>2, <2>2, <2>3, LenProperties
<1>5. /\ rest \in Seq(Known(0)) /\ Len(rest) = W /\ \A i \in 1..W : rest[i] = <<0, i + HeaderSize>>
  <2>1. HeaderSize \in 0..Len(Bytes(0, NewWndSize)) /\ NewWndSize - HeaderSize = W
    BY <1>2, <1>4
  <2>2. /\ rest \in Seq(Known(0)) /\ Len(rest) = W
        /\ \A i \in 1..W : rest[i] = Bytes(0, NewWndSize)[i + HeaderSize]
    BY <1>4, <2>1, Pieces
  <2>3. \A i \in 1..W : i + HeaderSize \in 1..NewWndSize
    BY <1>2
  <2> QED
    BY <1>4, <2>2, <2>3
<1>6. rest \in Seq(Byte)
  <2>1. 0 \in 0..MaxRequests
    BY Numbers
  <2> QED
    BY <1>5, <2>1, AreBytes
<1>7. W <= SocketSize
  BY WireAssumption
<1> HIDE DEF rest, W
<1>8. WireTypeOK
  <2>1. Idle \in [at : {"app", "flush"}, size : Sizes \cup {0}]
    BY DEF Idle
  <2>2. Len(buf) <= bufmax /\ Len(got) <= HeaderSize /\ Len(sizes) <= MaxRequests /\ Len(socket) <= SocketSize
    BY <1>1, <1>2, <1>3, <1>5, <1>7, Numbers
  <2>3. handled \in 0..MaxRequests
    BY <1>1, Numbers
  <2>4. Len(got) <= IF thread = "body" THEN len ELSE HeaderSize
    BY <1>1, <2>2
  <2> QED
    BY <1>1, <1>3, <1>6, <2>1, <2>2, <2>3, <2>4 DEF WireTypeOK
<1>9. Local
  BY <1>1, <1>3, <1>5 DEF Local
<1>10. Underway = rest
  <2>1. Underway = (<<>> \o rest) \o <<>>
    BY <1>1 DEF Underway
  <2> QED
    BY <1>5, <2>1, ConcatEmptySeq
<1>11. DOMAIN rest = 1..W /\ (rest = <<>> <=> W = 0)
  BY <1>5, EmptySeq, LenProperties
<1>12. \A sz : Size(sz, 0) = W + HeaderSize
  BY <1>2 DEF Size
<1>13. InOrder(Underway, sizes)
  <2> SUFFICES ASSUME NEW i \in 1..W, NEW j \in 1..W, i < j
               PROVE  rest[i][2] + (j - i) <= Size(sizes, rest[i][1])
                      /\ rest[j] = <<rest[i][1], rest[i][2] + (j - i)>>
    BY <1>10, <1>11 DEF InOrder
  <2>1. rest[i] = <<0, i + HeaderSize>> /\ rest[j] = <<0, j + HeaderSize>>
    BY <1>5
  <2>2. (i + HeaderSize) + (j - i) = j + HeaderSize /\ j + HeaderSize <= W + HeaderSize
    BY <1>2
  <2> QED
    BY <1>12, <2>1, <2>2
<1>14. Begins(Underway, handled)
  <2> SUFFICES ASSUME W # 0 PROVE \E w \in 1..NewWndWords : rest[1] = <<0, w * HeaderSize + 1>>
    BY <1>1, <1>10, <1>11 DEF Begins
  <2>1. 1 \in 1..NewWndWords
    BY Numbers DEF W
  <2>2. rest[1] = <<0, 1 + HeaderSize>>
    BY <1>2, <1>5
  <2>3. 1 + HeaderSize = 1 * HeaderSize + 1
    BY <1>2
  <2> QED
    BY <2>1, <2>2, <2>3
<1>15. Ends(Underway, sizes, handled)
  <2>1. CASE W = 0
    BY <1>1, <1>3, <1>10, <1>11, <2>1 DEF Ends
  <2>2. CASE W # 0
    <3>1. rest[W] = <<0, W + HeaderSize>>
      BY <1>2, <1>5, <2>2
    <3> QED
      BY <1>1, <1>3, <1>5, <1>10, <1>11, <1>12, <2>2, <3>1 DEF Ends
  <2> QED
    BY <2>1, <2>2
<1>16. Body
  BY <1>1 DEF Body
<1> QED
  BY <1>8, <1>9, <1>13, <1>14, <1>15, <1>16 DEF WInv, Stream

\* The invariant is inductive.
THEOREM WireInvariant == WireSpec => []WInv
<1>1. WInv /\ [WireNext]_wireVars => WInv'
  BY TypesKept, StreamKept DEF WInv
<1> QED
  BY <1>1, InitWInv, PTL DEF WireSpec

LEMMA InvariantIsWhole == WInv => StreamIsWhole
<1> SUFFICES ASSUME WInv PROVE StreamIsWhole
  OBVIOUS
<1>1. WireTypeOK /\ Local /\ Stream
  BY DEF WInv
<1> SUFFICES ASSUME ~ broken
             PROVE  /\ Underway # <<>> => IsNext(Underway[1])
                    /\ \A i \in 1..(Len(Underway) - 1) : Underway[i + 1] = NextByte(Underway[i])
                    /\ ~ closed =>
                         IF Underway = <<>> THEN handled = Len(sizes)
                         ELSE NextByte(Underway[Len(Underway)]) = <<Len(sizes) + 1, 1>>
  BY <1>1 DEF StreamIsWhole
<1>2. /\ InOrder(Underway, sizes) /\ Begins(Underway, handled)
      /\ ~ closed => Ends(Underway, sizes, handled)
  BY <1>1 DEF Stream
<1>3. Underway \in Seq(Known(Len(sizes))) /\ sizes \in Seq(Sizes) /\ Len(sizes) \in Nat
  BY <1>1, Between, LenProperties DEF WireTypeOK
<1>4. /\ Len(Underway) \in Nat /\ DOMAIN Underway = 1..Len(Underway) /\ (Underway = <<>> <=> Len(Underway) = 0)
      /\ \A i \in 1..Len(Underway) : Underway[i][1] \in 0..Len(sizes) /\ Underway[i][2] \in Nat
  BY <1>3, Elements
<1>5. \A n : SizeOf(n) = Size(sizes, n)
  BY DEF SizeOf, Size
<1>6. \A n \in 0..Len(sizes) : Size(sizes, n) \in Nat
  BY <1>3, SizesAreNumbers
<1>7. Underway # <<>> => IsNext(Underway[1])
  <2>1. ASSUME handled = 0, NEW w \in 1..NewWndWords, Underway[1] = <<0, w * HeaderSize + 1>>
        PROVE  IsNext(Underway[1])
    <3>1. (w * HeaderSize + 1) % HeaderSize = 1 % HeaderSize
      BY WordFits, Numbers
    <3> QED
      BY <2>1, <3>1 DEF IsNext
  <2> QED
    BY <1>2, <2>1 DEF Begins, IsNext
<1>8. ASSUME NEW i \in 1..(Len(Underway) - 1) PROVE Underway[i + 1] = NextByte(Underway[i])
  <2>1. i \in 1..Len(Underway) /\ i + 1 \in 1..Len(Underway) /\ i < i + 1 /\ (i + 1) - i = 1
    BY <1>4
  <2>2. IF Underway[i][2] + 1 <= Size(sizes, Underway[i][1])
        THEN Underway[i + 1] = <<Underway[i][1], Underway[i][2] + 1>>
        ELSE Underway[i + 1] = <<Underway[i][1] + 1, 1>>
    BY <1>2, <1>4, <2>1 DEF InOrder
  <2>3. Underway[i][2] < Size(sizes, Underway[i][1]) <=> Underway[i][2] + 1 <= Size(sizes, Underway[i][1])
    BY <1>4, <1>6, <2>1
  <2> QED
    BY <1>5, <2>2, <2>3 DEF NextByte
<1>9. ASSUME ~ closed
      PROVE  IF Underway = <<>> THEN handled = Len(sizes)
             ELSE NextByte(Underway[Len(Underway)]) = <<Len(sizes) + 1, 1>>
  <2>1. Ends(Underway, sizes, handled)
    BY <1>2, <1>9
  <2>2. Size(sizes, Len(sizes)) \in Nat
    BY <1>3, <1>6
  <2> QED
    BY <1>5, <2>1, <2>2 DEF Ends, NextByte
<1> QED
  BY <1>7, <1>8, <1>9

\* Client and server keep in step, in whatever pieces requests are written
\* and read (alloc_req, flush_reqbuf, handle_client_window_req).
THEOREM NothingIsLost == WireSpec => []StreamIsWhole
  BY WireInvariant, InvariantIsWhole, PTL

=============================================================================
