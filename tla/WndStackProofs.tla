--------------------------- MODULE WndStackProofs ---------------------------
(***************************************************************************)
(* Proofs about the window stack: first about the permit that guards it    *)
(* (RWSync), for any finite number of threads: the inductive invariant,    *)
(* the exclusion it implies, writers first, and that the semaphores        *)
(* implement RWLock.  Then about the windows (WndTree), for any number of  *)
(* them, of any size, at any place: the links make a tree, clips are       *)
(* calculated again when they must be, the pointer finds what is seen, and *)
(* what is uncovered is exposed.                                           *)
(***************************************************************************)
EXTENDS RWSync, WndTree, FiniteSetTheorems, SequenceTheorems, WellFoundedInduction, TLAPS

-----------------------------------------------------------------------------
(* Counting the threads that are somewhere.                                *)

\* What a thread that goes from one label to another adds to Num(pc, S).
Delta(from, to, S) == (IF to \in S THEN 1 ELSE 0) - (IF from \in S THEN 1 ELSE 0)

\* The set of threads is finite.
LEMMA ThreadsFinite == IsFiniteSet(Threads)
  BY ThreadsAssumption, FS_Union DEF Threads

\* Num is a natural number, and positive as soon as one thread is in S.
LEMMA NumType ==
  ASSUME NEW f, NEW S
  PROVE  /\ Num(f, S) \in Nat
         /\ \A t \in Threads : f[t] \in S => Num(f, S) > 0
  <1> DEFINE A == {t \in Threads : f[t] \in S}
  <1>1. IsFiniteSet(A)
    BY ThreadsFinite, FS_Subset
  <1>2. Cardinality(A) \in Nat /\ (Cardinality(A) = 0 => A = {})
    BY <1>1, FS_CardinalityType, FS_EmptySet
  <1> QED
    BY <1>2 DEF Num

\* When at most one thread is in S, two threads in S are the same.
LEMMA NumUnique ==
  ASSUME NEW f, NEW S, Num(f, S) <= 1,
         NEW t \in Threads, NEW u \in Threads, f[t] \in S, f[u] \in S
  PROVE  t = u
  <1> DEFINE A == {v \in Threads : f[v] \in S}
  <1>1. IsFiniteSet(A) /\ t \in A /\ u \in A
    BY ThreadsFinite, FS_Subset
  <1>2. /\ IsFiniteSet(A \ {t})
        /\ Cardinality(A \ {t}) = Cardinality(A) - 1
        /\ Cardinality(A) \in Nat
    BY <1>1, FS_RemoveElement, FS_CardinalityType
  <1>3. Cardinality(A) <= 1
    BY DEF Num
  <1>4. Cardinality(A \ {t}) \in Nat
    BY <1>2, FS_CardinalityType
  <1>5. Cardinality(A \ {t}) = 0
    BY <1>2, <1>3, <1>4
  <1>6. A \ {t} = {}
    BY <1>2, <1>5, FS_EmptySet
  <1> QED
    BY <1>1, <1>6

\* How Num changes when one thread moves.
LEMMA NumMove ==
  ASSUME NEW f \in [Threads -> Labels], NEW t \in Threads, NEW to \in Labels, NEW S
  PROVE  Num([f EXCEPT ![t] = to], S) = Num(f, S) + Delta(f[t], to, S)
  <1> DEFINE g == [f EXCEPT ![t] = to]
             A == {u \in Threads : f[u] \in S}
             B == {u \in Threads : g[u] \in S}
  <1>1. IsFiniteSet(A) /\ IsFiniteSet(B)
    BY ThreadsFinite, FS_Subset
  <1>2. Cardinality(A) \in Nat /\ Cardinality(B) \in Nat
    BY <1>1, FS_CardinalityType
  <1>3. CASE to \in S /\ f[t] \in S
    <2>1. A = B
      BY <1>3
    <2> QED
      BY <1>2, <1>3, <2>1 DEF Num, Delta
  <1>4. CASE to \notin S /\ f[t] \notin S
    <2>1. A = B
      BY <1>4
    <2> QED
      BY <1>2, <1>4, <2>1 DEF Num, Delta
  <1>5. CASE to \in S /\ f[t] \notin S
    <2>1. t \notin A /\ B = A \cup {t}
      BY <1>5
    <2>2. Cardinality(B) = Cardinality(A) + 1
      BY <1>1, <2>1, FS_AddElement
    <2> QED
      BY <1>2, <1>5, <2>2 DEF Num, Delta
  <1>6. CASE to \notin S /\ f[t] \in S
    <2>1. t \in A /\ B = A \ {t}
      BY <1>6
    <2>2. Cardinality(B) = Cardinality(A) - 1
      BY <1>1, <2>1, FS_RemoveElement
    <2> QED
      BY <1>2, <1>6, <2>2 DEF Num, Delta
  <1> QED
    BY <1>3, <1>4, <1>5, <1>6

-----------------------------------------------------------------------------
(* The inductive invariant.                                                *)

\* A thread moved: how each of the five counts changed.
LEMMA CountsMove ==
  ASSUME TypeOK, NEW t \in Threads, NEW from \in Labels, NEW to \in Labels,
         Goto(t, from, to)
  PROVE  /\ Num(pc', Locked) = Num(pc, Locked) + Delta(from, to, Locked)
         /\ Num(pc', CountedRead) = Num(pc, CountedRead) + Delta(from, to, CountedRead)
         /\ Num(pc', CountedWrite) = Num(pc, CountedWrite) + Delta(from, to, CountedWrite)
         /\ Num(pc', HoldsRead) = Num(pc, HoldsRead) + Delta(from, to, HoldsRead)
         /\ Num(pc', HoldsWrite) = Num(pc, HoldsWrite) + Delta(from, to, HoldsWrite)
         /\ pc' \in [Threads -> Labels]
  <1>1. pc \in [Threads -> Labels] /\ pc[t] = from /\ pc' = [pc EXCEPT ![t] = to]
    BY DEF TypeOK, Goto
  <1> QED
    BY <1>1, NumMove

\* The counts of the current state, and what one thread's place says of them.
LEMMA CountsNow ==
  ASSUME TypeOK
  PROVE  /\ Num(pc, Locked) \in Nat
         /\ Num(pc, CountedRead) \in Nat
         /\ Num(pc, CountedWrite) \in Nat
         /\ Num(pc, HoldsRead) \in Nat
         /\ Num(pc, HoldsWrite) \in Nat
         /\ \A t \in Threads :
              /\ pc[t] \in Locked => Num(pc, Locked) > 0
              /\ pc[t] \in CountedRead => Num(pc, CountedRead) > 0
              /\ pc[t] \in CountedWrite => Num(pc, CountedWrite) > 0
              /\ pc[t] \in HoldsRead => Num(pc, HoldsRead) > 0
              /\ pc[t] \in HoldsWrite => Num(pc, HoldsWrite) > 0
  BY NumType

\* While t is between P and V, no other thread is waking the readers up.
LEMMA OnlyOneWakes ==
  ASSUME TypeOK, MutexExclusion, NEW t \in Threads, NEW u \in Threads,
         pc[t] \in Locked, pc[u] = "wakeReaders"
  PROVE  u = t
  <1>1. Num(pc, Locked) <= 1
    BY CountsNow DEF MutexExclusion, TypeOK
  <1>2. pc[u] \in Locked
    BY DEF Locked
  <1> QED
    BY <1>1, <1>2, NumUnique

\* No thread is anywhere but idle in the initial state.
LEMMA InitIInv == Init => IInv
  <1> SUFFICES ASSUME Init PROVE IInv
    OBVIOUS
  <1>1. TypeOK
    BY DEF Init, TypeOK, Labels
  <1>2. ASSUME NEW S, "idle" \notin S
        PROVE  Num(pc, S) = 0
    <2>1. {t \in Threads : pc[t] \in S} = {}
      BY <1>2 DEF Init
    <2> QED
      BY <2>1, FS_EmptySet DEF Num
  <1>3. /\ Num(pc, Locked) = 0
        /\ Num(pc, CountedRead) = 0
        /\ Num(pc, CountedWrite) = 0
        /\ Num(pc, HoldsRead) = 0
        /\ Num(pc, HoldsWrite) = 0
    BY <1>2 DEF Locked, CountedRead, CountedWrite, HoldsRead, HoldsWrite
  <1> QED
    BY <1>1, <1>3 DEF Init, IInv, MutexExclusion, EveryRequestCounted,
       TokensMatchGrants, GrantsExclude, NobodyForgotten

-----------------------------------------------------------------------------
(* Each step preserves the invariant.  The five conjuncts that count follow  *)
(* from CountsMove; NobodyForgotten also needs that the mutex keeps other    *)
(* threads away from the loop that wakes the readers up.                     *)

\* A call, and P and V of readWriteMutex, leave the counters and tokens alone.
LEMMA CallStep ==
  ASSUME IInv, NEW t \in Threads,
         NEW from \in Labels, NEW to \in Labels, Call(t, from, to),
         <<from, to>> \in {<<"idle", "getRead">>, <<"idle", "getWrite">>,
                          <<"reading", "putRead">>, <<"writing", "putWrite">>}
  PROVE  IInv'
  <1> USE DEF IInv, Call
  <1>1. Goto(t, from, to)
    OBVIOUS
  <1>2. TypeOK'
    BY <1>1, CountsMove DEF TypeOK, tokens, counters
  <1>3. MutexExclusion' /\ EveryRequestCounted' /\ TokensMatchGrants' /\ GrantsExclude'
    BY <1>1, CountsMove, CountsNow
       DEF Delta, Locked, CountedRead, CountedWrite, HoldsRead, HoldsWrite, TypeOK, tokens,
           counters, MutexExclusion, EveryRequestCounted, TokensMatchGrants, GrantsExclude
  <1>4. NobodyForgotten'
    BY <1>1 DEF Goto, TypeOK, counters, NobodyForgotten
  <1> QED
    BY <1>2, <1>3, <1>4

\* P(readWriteMutex): a thread goes in where no other thread is.
LEMMA LockStep ==
  ASSUME IInv, NEW t \in Threads,
         NEW from \in Labels, NEW to \in Labels, LockMutex(t, from, to),
         <<from, to>> \in {<<"getRead", "getReadCS">>, <<"getWrite", "getWriteCS">>,
                          <<"putRead", "putReadCS">>, <<"putWrite", "putWriteCS">>}
  PROVE  IInv'
  <1> USE DEF IInv, LockMutex
  <1>1. Goto(t, from, to)
    OBVIOUS
  <1>2. TypeOK'
    BY <1>1, CountsMove DEF TypeOK, tokens, counters
  <1>3. MutexExclusion' /\ EveryRequestCounted' /\ TokensMatchGrants' /\ GrantsExclude'
    BY <1>1, CountsMove, CountsNow
       DEF Delta, Locked, CountedRead, CountedWrite, HoldsRead, HoldsWrite, TypeOK, tokens,
           counters, MutexExclusion, EveryRequestCounted, TokensMatchGrants, GrantsExclude
  <1>4. NobodyForgotten'
    BY <1>1 DEF Goto, TypeOK, counters, NobodyForgotten
  <1> QED
    BY <1>2, <1>3, <1>4

\* V(readWriteMutex): the thread comes out.
LEMMA UnlockStep ==
  ASSUME IInv, NEW t \in Threads,
         NEW from \in Labels, NEW to \in Labels, UnlockMutex(t, from, to),
         <<from, to>> \in {<<"getReadOut", "waitRead">>, <<"getWriteOut", "waitWrite">>,
                          <<"putReadOut", "idle">>, <<"putWriteOut", "idle">>,
                          <<"wakeReaders", "idle">>},
         from = "wakeReaders" => wr = 0
  PROVE  IInv'
  <1> USE DEF IInv, UnlockMutex
  <1>1. Goto(t, from, to)
    OBVIOUS
  <1>2. readWriteMutex' \in {0, 1}
    BY <1>1, CountsNow DEF Goto, MutexExclusion, TypeOK, Locked
  <1>3. TypeOK'
    BY <1>1, <1>2, CountsMove DEF TypeOK, tokens, counters
  <1>4. MutexExclusion' /\ EveryRequestCounted' /\ TokensMatchGrants' /\ GrantsExclude'
    BY <1>1, CountsMove, CountsNow
       DEF Delta, Locked, CountedRead, CountedWrite, HoldsRead, HoldsWrite, TypeOK, tokens,
           counters, MutexExclusion, EveryRequestCounted, TokensMatchGrants, GrantsExclude
  <1>5. NobodyForgotten'
    BY <1>1 DEF Goto, TypeOK, counters, NobodyForgotten
  <1> QED
    BY <1>3, <1>4, <1>5

\* A reader is granted its permit: no writer is active or waiting.
LEMMA GrantReadStep ==
  ASSUME IInv, NEW t \in Threads, GrantRead(t)
  PROVE  IInv'
  <1>0. /\ TypeOK /\ MutexExclusion /\ EveryRequestCounted
        /\ TokensMatchGrants /\ GrantsExclude /\ NobodyForgotten
    BY DEF IInv
  <1>1. Goto(t, "getReadCS", "getReadOut") /\ "getReadCS" \in Labels /\ "getReadOut" \in Labels
    BY DEF GrantRead, Labels, GetReadLabels, GetWriteLabels, PutReadLabels, PutWriteLabels
  <1>2. pc[t] = "getReadCS" /\ pc' = [pc EXCEPT ![t] = "getReadOut"]
    BY <1>1 DEF Goto
  <1>3. /\ Num(pc', Locked) = Num(pc, Locked)
        /\ Num(pc', CountedRead) = Num(pc, CountedRead) + 1
        /\ Num(pc', CountedWrite) = Num(pc, CountedWrite)
        /\ Num(pc', HoldsRead) = Num(pc, HoldsRead)
        /\ Num(pc', HoldsWrite) = Num(pc, HoldsWrite)
        /\ pc' \in [Threads -> Labels]
    BY <1>0, <1>1, CountsMove, CountsNow
       DEF Delta, Locked, CountedRead, CountedWrite, HoldsRead, HoldsWrite
  <1>4. /\ Num(pc, HoldsRead) \in Nat
        /\ Num(pc, HoldsWrite) \in Nat
        /\ \A u \in Threads : pc[u] = "wakeReaders" => u = t
    BY <1>0, <1>2, CountsNow, OnlyOneWakes DEF Locked, HoldsRead, HoldsWrite
  <1>5. aw = 0 /\ ww = 0
    BY <1>0, <1>4 DEF GrantRead, TypeOK, TokensMatchGrants, GrantsExclude
  <1>6. TypeOK'
    BY <1>0, <1>3, <1>5 DEF GrantRead, TypeOK, tokens, counters
  <1>7. MutexExclusion'
    BY <1>0, <1>3 DEF GrantRead, MutexExclusion
  <1>8. EveryRequestCounted'
    BY <1>0, <1>3, <1>5, CountsNow DEF GrantRead, TypeOK, tokens, counters, EveryRequestCounted
  <1>9. TokensMatchGrants'
    BY <1>0, <1>3, <1>4, <1>5 DEF GrantRead, TypeOK, tokens, counters, TokensMatchGrants
  <1>10. GrantsExclude'
    BY <1>0, <1>5 DEF GrantRead, TypeOK, tokens, counters, GrantsExclude
  <1>11. NobodyForgotten'
    BY <1>0, <1>2, <1>4, <1>5 DEF GrantRead, TypeOK, tokens, counters, NobodyForgotten
  <1> QED
    BY <1>6, <1>7, <1>8, <1>9, <1>10, <1>11 DEF IInv

\* A reader queues behind an active or waiting writer.
LEMMA QueueReadStep ==
  ASSUME IInv, NEW t \in Threads, QueueRead(t)
  PROVE  IInv'
  <1>0. /\ TypeOK /\ MutexExclusion /\ EveryRequestCounted
        /\ TokensMatchGrants /\ GrantsExclude /\ NobodyForgotten
    BY DEF IInv
  <1>1. Goto(t, "getReadCS", "getReadOut") /\ "getReadCS" \in Labels /\ "getReadOut" \in Labels
    BY DEF QueueRead, Labels, GetReadLabels, GetWriteLabels, PutReadLabels, PutWriteLabels
  <1>2. pc[t] = "getReadCS" /\ pc' = [pc EXCEPT ![t] = "getReadOut"]
    BY <1>1 DEF Goto
  <1>3. /\ Num(pc', Locked) = Num(pc, Locked)
        /\ Num(pc', CountedRead) = Num(pc, CountedRead) + 1
        /\ Num(pc', CountedWrite) = Num(pc, CountedWrite)
        /\ Num(pc', HoldsRead) = Num(pc, HoldsRead)
        /\ Num(pc', HoldsWrite) = Num(pc, HoldsWrite)
        /\ pc' \in [Threads -> Labels]
    BY <1>0, <1>1, CountsMove, CountsNow
       DEF Delta, Locked, CountedRead, CountedWrite, HoldsRead, HoldsWrite
  <1>4. /\ Num(pc, HoldsRead) \in Nat
        /\ Num(pc, HoldsWrite) \in Nat
        /\ \A u \in Threads : pc[u] = "wakeReaders" => u = t
    BY <1>0, <1>2, CountsNow, OnlyOneWakes DEF Locked, HoldsRead, HoldsWrite
  <1>6. TypeOK'
    BY <1>0, <1>3 DEF QueueRead, TypeOK, tokens, counters
  <1>7. MutexExclusion'
    BY <1>0, <1>3 DEF QueueRead, MutexExclusion
  <1>8. EveryRequestCounted'
    BY <1>0, <1>3, CountsNow DEF QueueRead, TypeOK, tokens, counters, EveryRequestCounted
  <1>9. TokensMatchGrants'
    BY <1>0, <1>3, <1>4 DEF QueueRead, TypeOK, tokens, counters, TokensMatchGrants
  <1>10. GrantsExclude'
    BY <1>0 DEF QueueRead, TypeOK, tokens, counters, GrantsExclude
  <1>11. NobodyForgotten'
    BY <1>0, <1>2, <1>4 DEF QueueRead, TypeOK, tokens, counters, NobodyForgotten
  <1> QED
    BY <1>6, <1>7, <1>8, <1>9, <1>10, <1>11 DEF IInv

\* A reader takes a token.
LEMMA TakeReadStep ==
  ASSUME IInv, NEW t \in Threads, TakeRead(t)
  PROVE  IInv'
  <1>0. /\ TypeOK /\ MutexExclusion /\ EveryRequestCounted
        /\ TokensMatchGrants /\ GrantsExclude /\ NobodyForgotten
    BY DEF IInv
  <1>1. Goto(t, "waitRead", "reading") /\ "waitRead" \in Labels /\ "reading" \in Labels
    BY DEF TakeRead, Labels, GetReadLabels, GetWriteLabels, PutReadLabels, PutWriteLabels
  <1>2. pc[t] = "waitRead" /\ pc' = [pc EXCEPT ![t] = "reading"]
    BY <1>1 DEF Goto
  <1>3. /\ Num(pc', Locked) = Num(pc, Locked)
        /\ Num(pc', CountedRead) = Num(pc, CountedRead)
        /\ Num(pc', CountedWrite) = Num(pc, CountedWrite)
        /\ Num(pc', HoldsRead) = Num(pc, HoldsRead) + 1
        /\ Num(pc', HoldsWrite) = Num(pc, HoldsWrite)
        /\ pc' \in [Threads -> Labels]
    BY <1>0, <1>1, CountsMove, CountsNow
       DEF Delta, Locked, CountedRead, CountedWrite, HoldsRead, HoldsWrite
  <1>4. /\ Num(pc, HoldsRead) \in Nat
        /\ Num(pc, HoldsWrite) \in Nat
    BY <1>0, <1>2, CountsNow DEF Locked, HoldsRead, HoldsWrite
  <1>6. TypeOK'
    BY <1>0, <1>3 DEF TakeRead, TypeOK, tokens, counters
  <1>7. MutexExclusion'
    BY <1>0, <1>3 DEF TakeRead, MutexExclusion
  <1>8. EveryRequestCounted'
    BY <1>0, <1>3, CountsNow DEF TakeRead, TypeOK, tokens, counters, EveryRequestCounted
  <1>9. TokensMatchGrants'
    BY <1>0, <1>3, <1>4 DEF TakeRead, TypeOK, tokens, counters, TokensMatchGrants
  <1>10. GrantsExclude'
    BY <1>0 DEF TakeRead, TypeOK, tokens, counters, GrantsExclude
  <1>11. NobodyForgotten'
    BY <1>0, <1>2, <1>4 DEF TakeRead, TypeOK, tokens, counters, NobodyForgotten
  <1> QED
    BY <1>6, <1>7, <1>8, <1>9, <1>10, <1>11 DEF IInv

\* The last reader hands the permit to a waiting writer.
LEMMA HandToWriterStep ==
  ASSUME IInv, NEW t \in Threads, HandToWriter(t)
  PROVE  IInv'
  <1>0. /\ TypeOK /\ MutexExclusion /\ EveryRequestCounted
        /\ TokensMatchGrants /\ GrantsExclude /\ NobodyForgotten
    BY DEF IInv
  <1>1. Goto(t, "putReadCS", "putReadOut") /\ "putReadCS" \in Labels /\ "putReadOut" \in Labels
    BY DEF HandToWriter, Labels, GetReadLabels, GetWriteLabels, PutReadLabels, PutWriteLabels
  <1>2. pc[t] = "putReadCS" /\ pc' = [pc EXCEPT ![t] = "putReadOut"]
    BY <1>1 DEF Goto
  <1>3. /\ Num(pc', Locked) = Num(pc, Locked)
        /\ Num(pc', CountedRead) = Num(pc, CountedRead) - 1
        /\ Num(pc', CountedWrite) = Num(pc, CountedWrite)
        /\ Num(pc', HoldsRead) = Num(pc, HoldsRead) - 1
        /\ Num(pc', HoldsWrite) = Num(pc, HoldsWrite)
        /\ pc' \in [Threads -> Labels]
    BY <1>0, <1>1, CountsMove, CountsNow
       DEF Delta, Locked, CountedRead, CountedWrite, HoldsRead, HoldsWrite
  <1>4. /\ Num(pc, HoldsRead) > 0
        /\ Num(pc, HoldsRead) \in Nat
        /\ Num(pc, HoldsWrite) \in Nat
        /\ \A u \in Threads : pc[u] = "wakeReaders" => u = t
    BY <1>0, <1>2, CountsNow, OnlyOneWakes DEF Locked, HoldsRead, HoldsWrite
  <1>5. ar > 0 /\ aw = 0
    <2>1. ar > 0
      BY <1>0, <1>4 DEF TypeOK, TokensMatchGrants
    <2> QED
      BY <1>0, <2>1 DEF TypeOK, GrantsExclude
  <1>6. TypeOK'
    BY <1>0, <1>3, <1>5 DEF HandToWriter, TypeOK, tokens, counters
  <1>7. MutexExclusion'
    BY <1>0, <1>3 DEF HandToWriter, MutexExclusion
  <1>8. EveryRequestCounted'
    BY <1>0, <1>3, <1>5, CountsNow DEF HandToWriter, TypeOK, tokens, counters, EveryRequestCounted
  <1>9. TokensMatchGrants'
    <2>1. ar' = ar - 1 /\ OkToRead' = OkToRead /\ aw' = aw + 1 /\ OkToWrite' = OkToWrite + 1
      BY DEF HandToWriter
    <2> QED
      BY <1>0, <1>3, <1>4, <2>1 DEF TypeOK, TokensMatchGrants
  <1>10. GrantsExclude'
    BY <1>0, <1>5 DEF HandToWriter, TypeOK, tokens, counters, GrantsExclude
  <1>11. NobodyForgotten'
    BY <1>0, <1>2, <1>4, <1>5 DEF HandToWriter, TypeOK, tokens, counters, NobodyForgotten
  <1> QED
    BY <1>6, <1>7, <1>8, <1>9, <1>10, <1>11 DEF IInv

\* A reader leaves, others are active or no writer waits.
LEMMA DropReadStep ==
  ASSUME IInv, NEW t \in Threads, DropRead(t)
  PROVE  IInv'
  <1>0. /\ TypeOK /\ MutexExclusion /\ EveryRequestCounted
        /\ TokensMatchGrants /\ GrantsExclude /\ NobodyForgotten
    BY DEF IInv
  <1>1. Goto(t, "putReadCS", "putReadOut") /\ "putReadCS" \in Labels /\ "putReadOut" \in Labels
    BY DEF DropRead, Labels, GetReadLabels, GetWriteLabels, PutReadLabels, PutWriteLabels
  <1>2. pc[t] = "putReadCS" /\ pc' = [pc EXCEPT ![t] = "putReadOut"]
    BY <1>1 DEF Goto
  <1>3. /\ Num(pc', Locked) = Num(pc, Locked)
        /\ Num(pc', CountedRead) = Num(pc, CountedRead) - 1
        /\ Num(pc', CountedWrite) = Num(pc, CountedWrite)
        /\ Num(pc', HoldsRead) = Num(pc, HoldsRead) - 1
        /\ Num(pc', HoldsWrite) = Num(pc, HoldsWrite)
        /\ pc' \in [Threads -> Labels]
    BY <1>0, <1>1, CountsMove, CountsNow
       DEF Delta, Locked, CountedRead, CountedWrite, HoldsRead, HoldsWrite
  <1>4. /\ Num(pc, HoldsRead) > 0
        /\ Num(pc, HoldsRead) \in Nat
        /\ Num(pc, HoldsWrite) \in Nat
        /\ \A u \in Threads : pc[u] = "wakeReaders" => u = t
    BY <1>0, <1>2, CountsNow, OnlyOneWakes DEF Locked, HoldsRead, HoldsWrite
  <1>5. ar > 0
    BY <1>0, <1>4 DEF DropRead, TypeOK, TokensMatchGrants, GrantsExclude
  <1>6. TypeOK'
    BY <1>0, <1>3, <1>5 DEF DropRead, TypeOK, tokens, counters
  <1>7. MutexExclusion'
    BY <1>0, <1>3 DEF DropRead, MutexExclusion
  <1>8. EveryRequestCounted'
    BY <1>0, <1>3, <1>5, CountsNow DEF DropRead, TypeOK, tokens, counters, EveryRequestCounted
  <1>9. TokensMatchGrants'
    BY <1>0, <1>3, <1>4, <1>5 DEF DropRead, TypeOK, tokens, counters, TokensMatchGrants
  <1>10. GrantsExclude'
    BY <1>0, <1>5 DEF DropRead, TypeOK, tokens, counters, GrantsExclude
  <1>11. NobodyForgotten'
    BY <1>0, <1>2, <1>4, <1>5 DEF DropRead, TypeOK, tokens, counters, NobodyForgotten
  <1> QED
    BY <1>6, <1>7, <1>8, <1>9, <1>10, <1>11 DEF IInv

\* A writer is granted its permit: nobody is active or waiting to write.
LEMMA GrantWriteStep ==
  ASSUME IInv, NEW t \in Threads, GrantWrite(t)
  PROVE  IInv'
  <1>0. /\ TypeOK /\ MutexExclusion /\ EveryRequestCounted
        /\ TokensMatchGrants /\ GrantsExclude /\ NobodyForgotten
    BY DEF IInv
  <1>1. Goto(t, "getWriteCS", "getWriteOut") /\ "getWriteCS" \in Labels /\ "getWriteOut" \in Labels
    BY DEF GrantWrite, Labels, GetReadLabels, GetWriteLabels, PutReadLabels, PutWriteLabels
  <1>2. pc[t] = "getWriteCS" /\ pc' = [pc EXCEPT ![t] = "getWriteOut"]
    BY <1>1 DEF Goto
  <1>3. /\ Num(pc', Locked) = Num(pc, Locked)
        /\ Num(pc', CountedRead) = Num(pc, CountedRead)
        /\ Num(pc', CountedWrite) = Num(pc, CountedWrite) + 1
        /\ Num(pc', HoldsRead) = Num(pc, HoldsRead)
        /\ Num(pc', HoldsWrite) = Num(pc, HoldsWrite)
        /\ pc' \in [Threads -> Labels]
    BY <1>0, <1>1, CountsMove, CountsNow
       DEF Delta, Locked, CountedRead, CountedWrite, HoldsRead, HoldsWrite
  <1>4. /\ Num(pc, HoldsRead) \in Nat
        /\ Num(pc, HoldsWrite) \in Nat
        /\ \A u \in Threads : pc[u] = "wakeReaders" => u = t
    BY <1>0, <1>2, CountsNow, OnlyOneWakes DEF Locked, HoldsRead, HoldsWrite
  <1>5. aw = 0 /\ ar = 0 /\ ww = 0
    <2>1. aw + ar + ww = 0
      BY DEF GrantWrite
    <2>2. aw \in Nat /\ ar \in Nat /\ ww \in Nat
      BY <1>0 DEF TypeOK
    <2> QED
      BY <2>1, <2>2
  <1>6. TypeOK'
    BY <1>0, <1>3, <1>5 DEF GrantWrite, TypeOK, tokens, counters
  <1>7. MutexExclusion'
    BY <1>0, <1>3 DEF GrantWrite, MutexExclusion
  <1>8. EveryRequestCounted'
    BY <1>0, <1>3, <1>5, CountsNow DEF GrantWrite, TypeOK, tokens, counters, EveryRequestCounted
  <1>9. TokensMatchGrants'
    BY <1>0, <1>3, <1>4, <1>5 DEF GrantWrite, TypeOK, tokens, counters, TokensMatchGrants
  <1>10. GrantsExclude'
    BY <1>0, <1>5 DEF GrantWrite, TypeOK, tokens, counters, GrantsExclude
  <1>11. NobodyForgotten'
    BY <1>0, <1>2, <1>4, <1>5 DEF GrantWrite, TypeOK, tokens, counters, NobodyForgotten
  <1> QED
    BY <1>6, <1>7, <1>8, <1>9, <1>10, <1>11 DEF IInv

\* A writer queues.
LEMMA QueueWriteStep ==
  ASSUME IInv, NEW t \in Threads, QueueWrite(t)
  PROVE  IInv'
  <1>0. /\ TypeOK /\ MutexExclusion /\ EveryRequestCounted
        /\ TokensMatchGrants /\ GrantsExclude /\ NobodyForgotten
    BY DEF IInv
  <1>1. Goto(t, "getWriteCS", "getWriteOut") /\ "getWriteCS" \in Labels /\ "getWriteOut" \in Labels
    BY DEF QueueWrite, Labels, GetReadLabels, GetWriteLabels, PutReadLabels, PutWriteLabels
  <1>2. pc[t] = "getWriteCS" /\ pc' = [pc EXCEPT ![t] = "getWriteOut"]
    BY <1>1 DEF Goto
  <1>3. /\ Num(pc', Locked) = Num(pc, Locked)
        /\ Num(pc', CountedRead) = Num(pc, CountedRead)
        /\ Num(pc', CountedWrite) = Num(pc, CountedWrite) + 1
        /\ Num(pc', HoldsRead) = Num(pc, HoldsRead)
        /\ Num(pc', HoldsWrite) = Num(pc, HoldsWrite)
        /\ pc' \in [Threads -> Labels]
    BY <1>0, <1>1, CountsMove, CountsNow
       DEF Delta, Locked, CountedRead, CountedWrite, HoldsRead, HoldsWrite
  <1>4. /\ Num(pc, HoldsRead) \in Nat
        /\ Num(pc, HoldsWrite) \in Nat
        /\ \A u \in Threads : pc[u] = "wakeReaders" => u = t
    BY <1>0, <1>2, CountsNow, OnlyOneWakes DEF Locked, HoldsRead, HoldsWrite
  <1>6. TypeOK'
    BY <1>0, <1>3 DEF QueueWrite, TypeOK, tokens, counters
  <1>7. MutexExclusion'
    BY <1>0, <1>3 DEF QueueWrite, MutexExclusion
  <1>8. EveryRequestCounted'
    BY <1>0, <1>3, CountsNow DEF QueueWrite, TypeOK, tokens, counters, EveryRequestCounted
  <1>9. TokensMatchGrants'
    BY <1>0, <1>3, <1>4 DEF QueueWrite, TypeOK, tokens, counters, TokensMatchGrants
  <1>10. GrantsExclude'
    BY <1>0 DEF QueueWrite, TypeOK, tokens, counters, GrantsExclude
  <1>11. NobodyForgotten'
    BY <1>0, <1>2, <1>4 DEF QueueWrite, TypeOK, tokens, counters, NobodyForgotten
  <1> QED
    BY <1>6, <1>7, <1>8, <1>9, <1>10, <1>11 DEF IInv

\* A writer takes a token.
LEMMA TakeWriteStep ==
  ASSUME IInv, NEW t \in Threads, TakeWrite(t)
  PROVE  IInv'
  <1>0. /\ TypeOK /\ MutexExclusion /\ EveryRequestCounted
        /\ TokensMatchGrants /\ GrantsExclude /\ NobodyForgotten
    BY DEF IInv
  <1>1. Goto(t, "waitWrite", "writing") /\ "waitWrite" \in Labels /\ "writing" \in Labels
    BY DEF TakeWrite, Labels, GetReadLabels, GetWriteLabels, PutReadLabels, PutWriteLabels
  <1>2. pc[t] = "waitWrite" /\ pc' = [pc EXCEPT ![t] = "writing"]
    BY <1>1 DEF Goto
  <1>3. /\ Num(pc', Locked) = Num(pc, Locked)
        /\ Num(pc', CountedRead) = Num(pc, CountedRead)
        /\ Num(pc', CountedWrite) = Num(pc, CountedWrite)
        /\ Num(pc', HoldsRead) = Num(pc, HoldsRead)
        /\ Num(pc', HoldsWrite) = Num(pc, HoldsWrite) + 1
        /\ pc' \in [Threads -> Labels]
    BY <1>0, <1>1, CountsMove, CountsNow
       DEF Delta, Locked, CountedRead, CountedWrite, HoldsRead, HoldsWrite
  <1>4. /\ Num(pc, HoldsRead) \in Nat
        /\ Num(pc, HoldsWrite) \in Nat
    BY <1>0, <1>2, CountsNow DEF Locked, HoldsRead, HoldsWrite
  <1>6. TypeOK'
    BY <1>0, <1>3 DEF TakeWrite, TypeOK, tokens, counters
  <1>7. MutexExclusion'
    BY <1>0, <1>3 DEF TakeWrite, MutexExclusion
  <1>8. EveryRequestCounted'
    BY <1>0, <1>3, CountsNow DEF TakeWrite, TypeOK, tokens, counters, EveryRequestCounted
  <1>9. TokensMatchGrants'
    BY <1>0, <1>3, <1>4 DEF TakeWrite, TypeOK, tokens, counters, TokensMatchGrants
  <1>10. GrantsExclude'
    BY <1>0 DEF TakeWrite, TypeOK, tokens, counters, GrantsExclude
  <1>11. NobodyForgotten'
    BY <1>0, <1>2, <1>4 DEF TakeWrite, TypeOK, tokens, counters, NobodyForgotten
  <1> QED
    BY <1>6, <1>7, <1>8, <1>9, <1>10, <1>11 DEF IInv

\* A writer passes the permit to the next writer.
LEMMA PassToWriterStep ==
  ASSUME IInv, NEW t \in Threads, PassToWriter(t)
  PROVE  IInv'
  <1>0. /\ TypeOK /\ MutexExclusion /\ EveryRequestCounted
        /\ TokensMatchGrants /\ GrantsExclude /\ NobodyForgotten
    BY DEF IInv
  <1>1. Goto(t, "putWriteCS", "putWriteOut") /\ "putWriteCS" \in Labels /\ "putWriteOut" \in Labels
    BY DEF PassToWriter, Labels, GetReadLabels, GetWriteLabels, PutReadLabels, PutWriteLabels
  <1>2. pc[t] = "putWriteCS" /\ pc' = [pc EXCEPT ![t] = "putWriteOut"]
    BY <1>1 DEF Goto
  <1>3. /\ Num(pc', Locked) = Num(pc, Locked)
        /\ Num(pc', CountedRead) = Num(pc, CountedRead)
        /\ Num(pc', CountedWrite) = Num(pc, CountedWrite) - 1
        /\ Num(pc', HoldsRead) = Num(pc, HoldsRead)
        /\ Num(pc', HoldsWrite) = Num(pc, HoldsWrite) - 1
        /\ pc' \in [Threads -> Labels]
    BY <1>0, <1>1, CountsMove, CountsNow
       DEF Delta, Locked, CountedRead, CountedWrite, HoldsRead, HoldsWrite
  <1>4. /\ Num(pc, HoldsWrite) > 0
        /\ Num(pc, HoldsRead) \in Nat
        /\ Num(pc, HoldsWrite) \in Nat
        /\ \A u \in Threads : pc[u] = "wakeReaders" => u = t
    BY <1>0, <1>2, CountsNow, OnlyOneWakes DEF Locked, HoldsRead, HoldsWrite
  <1>5. aw = 1 /\ ar = 0
    BY <1>0, <1>4 DEF PassToWriter, TypeOK, TokensMatchGrants, GrantsExclude
  <1>6. TypeOK'
    BY <1>0, <1>3, <1>5 DEF PassToWriter, TypeOK, tokens, counters
  <1>7. MutexExclusion'
    BY <1>0, <1>3 DEF PassToWriter, MutexExclusion
  <1>8. EveryRequestCounted'
    BY <1>0, <1>3, <1>5, CountsNow DEF PassToWriter, TypeOK, tokens, counters, EveryRequestCounted
  <1>9. TokensMatchGrants'
    BY <1>0, <1>3, <1>4, <1>5 DEF PassToWriter, TypeOK, tokens, counters, TokensMatchGrants
  <1>10. GrantsExclude'
    BY <1>0, <1>5 DEF PassToWriter, TypeOK, tokens, counters, GrantsExclude
  <1>11. NobodyForgotten'
    BY <1>0, <1>2, <1>4, <1>5 DEF PassToWriter, TypeOK, tokens, counters, NobodyForgotten
  <1> QED
    BY <1>6, <1>7, <1>8, <1>9, <1>10, <1>11 DEF IInv

\* The last writer leaves and starts waking the readers up.
LEMMA DropWriteStep ==
  ASSUME IInv, NEW t \in Threads, DropWrite(t)
  PROVE  IInv'
  <1>0. /\ TypeOK /\ MutexExclusion /\ EveryRequestCounted
        /\ TokensMatchGrants /\ GrantsExclude /\ NobodyForgotten
    BY DEF IInv
  <1>1. Goto(t, "putWriteCS", "wakeReaders") /\ "putWriteCS" \in Labels /\ "wakeReaders" \in Labels
    BY DEF DropWrite, Labels, GetReadLabels, GetWriteLabels, PutReadLabels, PutWriteLabels
  <1>2. pc[t] = "putWriteCS" /\ pc' = [pc EXCEPT ![t] = "wakeReaders"]
    BY <1>1 DEF Goto
  <1>3. /\ Num(pc', Locked) = Num(pc, Locked)
        /\ Num(pc', CountedRead) = Num(pc, CountedRead)
        /\ Num(pc', CountedWrite) = Num(pc, CountedWrite) - 1
        /\ Num(pc', HoldsRead) = Num(pc, HoldsRead)
        /\ Num(pc', HoldsWrite) = Num(pc, HoldsWrite) - 1
        /\ pc' \in [Threads -> Labels]
    BY <1>0, <1>1, CountsMove, CountsNow
       DEF Delta, Locked, CountedRead, CountedWrite, HoldsRead, HoldsWrite
  <1>4. /\ Num(pc, HoldsWrite) > 0
        /\ Num(pc, HoldsRead) \in Nat
        /\ Num(pc, HoldsWrite) \in Nat
        /\ \A u \in Threads : pc[u] = "wakeReaders" => u = t
    BY <1>0, <1>2, CountsNow, OnlyOneWakes DEF Locked, HoldsRead, HoldsWrite
  <1>5. aw = 1 /\ ar = 0
    BY <1>0, <1>4 DEF DropWrite, TypeOK, TokensMatchGrants, GrantsExclude
  <1>6. TypeOK'
    BY <1>0, <1>3, <1>5 DEF DropWrite, TypeOK, tokens, counters
  <1>7. MutexExclusion'
    BY <1>0, <1>3 DEF DropWrite, MutexExclusion
  <1>8. EveryRequestCounted'
    BY <1>0, <1>3, <1>5, CountsNow DEF DropWrite, TypeOK, tokens, counters, EveryRequestCounted
  <1>9. TokensMatchGrants'
    BY <1>0, <1>3, <1>4, <1>5 DEF DropWrite, TypeOK, tokens, counters, TokensMatchGrants
  <1>10. GrantsExclude'
    BY <1>0, <1>5 DEF DropWrite, TypeOK, tokens, counters, GrantsExclude
  <1>11. NobodyForgotten'
    BY <1>0, <1>2, <1>4, <1>5 DEF DropWrite, TypeOK, tokens, counters, NobodyForgotten
  <1> QED
    BY <1>6, <1>7, <1>8, <1>9, <1>10, <1>11 DEF IInv

\* The last writer wakes one more reader up, and none is left when it is done.
LEMMA WakeReaderStep ==
  ASSUME IInv, NEW t \in Threads, WakeReader(t)
  PROVE  IInv'
  <1> USE DEF IInv, WakeReader
  <1>1. TypeOK'
    BY DEF TypeOK
  <1>2. MutexExclusion' /\ EveryRequestCounted'
    BY DEF TypeOK, MutexExclusion, EveryRequestCounted
  <1>3. TokensMatchGrants' /\ GrantsExclude' /\ NobodyForgotten'
    BY CountsNow DEF TypeOK, TokensMatchGrants, GrantsExclude, NobodyForgotten
  <1> QED
    BY <1>1, <1>2, <1>3

-----------------------------------------------------------------------------
(* The theorems.                                                           *)

\* The invariant is inductive: every step of Next keeps it.
LEMMA NextIInv ==
  ASSUME IInv, [Next]_vars
  PROVE  IInv'
  <1>1. ASSUME NEW t \in Threads, Reader(t)
        PROVE  IInv'
    <2> USE DEF Labels, GetReadLabels, PutReadLabels
    <2>1. CASE Call(t, "idle", "getRead") \/ Call(t, "reading", "putRead")
      BY <2>1, CallStep
    <2>2. CASE LockMutex(t, "getRead", "getReadCS") \/ LockMutex(t, "putRead", "putReadCS")
      BY <2>2, LockStep
    <2>3. CASE UnlockMutex(t, "getReadOut", "waitRead") \/ UnlockMutex(t, "putReadOut", "idle")
      BY <2>3, UnlockStep
    <2>4. CASE GrantRead(t) \/ QueueRead(t) \/ TakeRead(t)
      BY <2>4, GrantReadStep, QueueReadStep, TakeReadStep
    <2>5. CASE HandToWriter(t) \/ DropRead(t)
      BY <2>5, HandToWriterStep, DropReadStep
    <2> QED
      BY <1>1, <2>1, <2>2, <2>3, <2>4, <2>5 DEF Reader, GetRead, PutRead
  <1>2. ASSUME NEW t \in Threads, Writer(t)
        PROVE  IInv'
    <2> USE DEF Labels, GetWriteLabels, PutWriteLabels
    <2>1. CASE Call(t, "idle", "getWrite") \/ Call(t, "writing", "putWrite")
      BY <2>1, CallStep
    <2>2. CASE LockMutex(t, "getWrite", "getWriteCS") \/ LockMutex(t, "putWrite", "putWriteCS")
      BY <2>2, LockStep
    <2>3. CASE UnlockMutex(t, "getWriteOut", "waitWrite") \/ UnlockMutex(t, "putWriteOut", "idle")
      BY <2>3, UnlockStep
    <2>4. CASE GrantWrite(t) \/ QueueWrite(t) \/ TakeWrite(t)
      BY <2>4, GrantWriteStep, QueueWriteStep, TakeWriteStep
    <2>5. CASE PassToWriter(t) \/ DropWrite(t) \/ WakeReader(t)
      BY <2>5, PassToWriterStep, DropWriteStep, WakeReaderStep
    <2>6. CASE WakeDone(t)
      BY <2>6, UnlockStep DEF WakeDone
    <2> QED
      BY <1>2, <2>1, <2>2, <2>3, <2>4, <2>5, <2>6 DEF Writer, GetWrite, PutWrite
  <1>3. CASE UNCHANGED vars
    BY <1>3 DEF vars, IInv, TypeOK, MutexExclusion, EveryRequestCounted,
                TokensMatchGrants, GrantsExclude, NobodyForgotten
  <1> QED
    BY <1>1, <1>2, <1>3 DEF Next, Threads

\* Whatever the threads do, the counters and tokens of a sync_t account for
\* every thread (init_sync and the four permit functions).
THEOREM InductiveInvariant == Spec => []IInv
  <1>1. Init => IInv
    BY InitIInv
  <1>2. IInv /\ [Next]_vars => IInv'
    BY NextIInv
  <1> QED
    BY <1>1, <1>2, PTL DEF Spec

\* The invariant excludes a writer from every other holder of the permit.
LEMMA IInvExclusion == IInv => PermitExclusion
  <1> SUFFICES ASSUME IInv, NEW t \in Threads, NEW u \in Threads,
                      t # u, pc[t] \in HoldsWrite
               PROVE  pc[u] \notin HoldsRead \cup HoldsWrite
    BY DEF PermitExclusion
  <1>1. TypeOK /\ TokensMatchGrants /\ GrantsExclude
    BY DEF IInv
  <1>2. /\ Num(pc, HoldsWrite) \in Nat /\ Num(pc, HoldsWrite) > 0
        /\ Num(pc, HoldsRead) \in Nat
    BY NumType
  <1>3. Num(pc, HoldsWrite) = 1 /\ aw = 1
    BY <1>1, <1>2 DEF TypeOK, TokensMatchGrants, GrantsExclude
  <1>4. Num(pc, HoldsRead) = 0
    BY <1>1, <1>2, <1>3 DEF TypeOK, TokensMatchGrants, GrantsExclude
  <1>5. pc[u] \notin HoldsRead
    BY <1>4, NumType
  <1>6. pc[u] \notin HoldsWrite
    BY <1>3, NumUnique
  <1> QED
    BY <1>5, <1>6

\* No two threads hold wnd_stack_sync unless both hold it for reading: the
\* window tree never changes under a thread that draws.
THEOREM Exclusion == Spec => []PermitExclusion
  BY InductiveInvariant, IInvExclusion, PTL

\* The counters never wrap around and every thread is at a statement.
THEOREM TypeCorrect == Spec => []TypeOK
  <1>1. IInv => TypeOK
    BY DEF IInv
  <1> QED
    BY <1>1, InductiveInvariant, PTL

\* A permit that is waited for is always held or being passed on by someone.
THEOREM NoLostWakeup == Spec => []NobodyForgotten
  <1>1. IInv => NobodyForgotten
    BY DEF IInv
  <1> QED
    BY <1>1, InductiveInvariant, PTL

-----------------------------------------------------------------------------
(* Writers first.                                                          *)

\* No step makes a reader active while a writer waits.
LEMMA WritersFirstStep ==
  ASSUME IInv, [Next]_vars, ww > 0
  PROVE  ar' <= ar
  <1>1. TypeOK /\ NobodyForgotten
    BY DEF IInv
  <1>2. ar \in Nat /\ aw \in Nat /\ ww \in Nat
    BY <1>1 DEF TypeOK
  <1>3. ASSUME NEW t \in Threads, GrantRead(t)
        PROVE  FALSE
    <2>1. aw + ww = 0
      BY <1>3 DEF GrantRead
    <2> QED
      BY <2>1, <1>2
  <1>4. ASSUME NEW t \in Threads, WakeReader(t)
        PROVE  FALSE
    <2>1. aw + ww = 0
      BY <1>1, <1>4 DEF WakeReader, NobodyForgotten
    <2> QED
      BY <2>1, <1>2
  <1>5. ASSUME NEW t \in Threads, Reader(t)
        PROVE  ar' = ar \/ ar' = ar - 1
    BY <1>3, <1>5 DEF Reader, GetRead, PutRead, Call, LockMutex, UnlockMutex, QueueRead,
                      TakeRead, HandToWriter, DropRead, counters
  <1>6. ASSUME NEW t \in Threads, Writer(t)
        PROVE  ar' = ar
    BY <1>4, <1>6 DEF Writer, GetWrite, PutWrite, Call, LockMutex, UnlockMutex, GrantWrite,
                      QueueWrite, TakeWrite, PassToWriter, DropWrite, WakeDone, counters
  <1>7. ar' = ar \/ ar' = ar - 1
    BY <1>5, <1>6 DEF Next, Threads, vars
  <1> QED
    BY <1>2, <1>7

\* Readers cannot starve a writer that waits: get_read_permit queues them, and
\* neither release function admits one before the writer.
THEOREM WritersComeFirst == Spec => WritersFirst
  <1>1. IInv /\ [Next]_vars => [ww > 0 => ar' <= ar]_vars
    BY WritersFirstStep
  <1> QED
    BY <1>1, InductiveInvariant, PTL DEF Spec, WritersFirst

-----------------------------------------------------------------------------
(* RWSync implements RWLock.                                               *)

\* A thread that moves moves in the abstract lock as its labels say.
LEMMA PhaseMove ==
  ASSUME TypeOK, NEW t \in Threads, NEW from, NEW to, Goto(t, from, to)
  PROVE  /\ phaseBar[t] = PhaseOf(from)
         /\ phaseBar' = [phaseBar EXCEPT ![t] = PhaseOf(to)]
  BY DEF TypeOK, Goto, phaseBar

\* The abstract lock's view of the labels.
LEMMA PhaseLabels ==
  /\ \A l \in GetReadLabels : PhaseOf(l) = "wantsRead"
  /\ \A l \in GetWriteLabels : PhaseOf(l) = "wantsWrite"
  /\ \A l \in HoldsRead : PhaseOf(l) = "reading"
  /\ \A l \in HoldsWrite : PhaseOf(l) = "writing"
  /\ \A l \in {"idle", "putReadOut", "putWriteOut", "wakeReaders"} : PhaseOf(l) = "idle"
  /\ \A l \in Labels : PhaseOf(l) = "reading" => l \in HoldsRead
  /\ \A l \in Labels : PhaseOf(l) = "writing" => l \in HoldsWrite
  BY DEF PhaseOf, GetReadLabels, GetWriteLabels, PutReadLabels, PutWriteLabels,
         HoldsRead, HoldsWrite, Labels

\* Steps between labels of one phase are invisible to the abstract lock.
LEMMA SamePhase ==
  ASSUME TypeOK, NEW t \in Threads, NEW from, NEW to, Goto(t, from, to),
         PhaseOf(from) = PhaseOf(to)
  PROVE  UNCHANGED phaseBar
  <1>1. phaseBar \in [Threads -> {PhaseOf(l) : l \in Labels}]
    BY DEF phaseBar, TypeOK
  <1> QED
    BY <1>1, PhaseMove

\* Every step of a reader is a step of the abstract reader, or none.
LEMMA ReaderImplements ==
  ASSUME IInv, NEW t \in Readers, Reader(t)
  PROVE  [Lock!Next]_phaseBar
  <1>1. TypeOK /\ TokensMatchGrants /\ GrantsExclude /\ t \in Threads
    BY DEF IInv, Threads
  <1> USE DEF GetReadLabels, HoldsRead
  <1>2. CASE Call(t, "idle", "getRead")
    <2>1. Lock!RequestRead(t)
      BY <1>1, <1>2, PhaseMove, PhaseLabels DEF Call, Lock!RequestRead, Lock!Move
    <2> QED
      BY <2>1 DEF Lock!Next
  <1>3. CASE TakeRead(t)
    <2>1. Num(pc, HoldsRead) \in Nat /\ Num(pc, HoldsWrite) \in Nat
      BY NumType
    <2>2. aw = 0
      BY <1>1, <1>3, <2>1 DEF TakeRead, TypeOK, TokensMatchGrants, GrantsExclude
    <2>3. Num(pc, HoldsWrite) = 0
      BY <1>1, <2>1, <2>2 DEF TypeOK, TokensMatchGrants
    <2>4. \A u \in Threads : phaseBar[u] # "writing"
      BY <1>1, <2>3, NumType, PhaseLabels DEF phaseBar, TypeOK
    <2>5. Lock!AcquireRead(t)
      BY <1>1, <1>3, <2>4, PhaseMove, PhaseLabels
         DEF TakeRead, Lock!AcquireRead, Lock!Move, Lock!Threads, Threads
    <2> QED
      BY <2>5 DEF Lock!Next
  <1>4. CASE HandToWriter(t) \/ DropRead(t)
    <2>1. Lock!ReleaseRead(t)
      BY <1>1, <1>4, PhaseMove, PhaseLabels
         DEF HandToWriter, DropRead, Lock!ReleaseRead, Lock!Move
    <2> QED
      BY <2>1 DEF Lock!Next
  <1>5. CASE \/ LockMutex(t, "getRead", "getReadCS")
             \/ GrantRead(t)
             \/ QueueRead(t)
             \/ UnlockMutex(t, "getReadOut", "waitRead")
             \/ Call(t, "reading", "putRead")
             \/ LockMutex(t, "putRead", "putReadCS")
             \/ UnlockMutex(t, "putReadOut", "idle")
    BY <1>1, <1>5, SamePhase, PhaseLabels
       DEF LockMutex, UnlockMutex, Call, GrantRead, QueueRead
  <1> QED
    BY <1>2, <1>3, <1>4, <1>5 DEF Reader, GetRead, PutRead

\* Every step of a writer is a step of the abstract writer, or none.
LEMMA WriterImplements ==
  ASSUME IInv, NEW t \in Writers, Writer(t)
  PROVE  [Lock!Next]_phaseBar
  <1>1. TypeOK /\ TokensMatchGrants /\ GrantsExclude /\ t \in Threads
    BY DEF IInv, Threads
  <1> USE DEF GetWriteLabels, HoldsWrite
  <1>2. CASE Call(t, "idle", "getWrite")
    <2>1. Lock!RequestWrite(t)
      BY <1>1, <1>2, PhaseMove, PhaseLabels DEF Call, Lock!RequestWrite, Lock!Move
    <2> QED
      BY <2>1 DEF Lock!Next
  <1>3. CASE TakeWrite(t)
    <2>1. Num(pc, HoldsRead) \in Nat /\ Num(pc, HoldsWrite) \in Nat
      BY NumType
    <2>2. aw = 1 /\ Num(pc, HoldsWrite) = 0
      BY <1>1, <1>3, <2>1 DEF TakeWrite, TypeOK, TokensMatchGrants, GrantsExclude
    <2>3. Num(pc, HoldsRead) = 0
      BY <1>1, <2>1, <2>2 DEF TypeOK, TokensMatchGrants, GrantsExclude
    <2>4. \A u \in Threads : phaseBar[u] \notin {"reading", "writing"}
      BY <1>1, <2>2, <2>3, NumType, PhaseLabels DEF phaseBar, TypeOK
    <2>5. Lock!AcquireWrite(t)
      BY <1>1, <1>3, <2>4, PhaseMove, PhaseLabels
         DEF TakeWrite, Lock!AcquireWrite, Lock!Move, Lock!Threads, Threads
    <2> QED
      BY <2>5 DEF Lock!Next
  <1>4. CASE PassToWriter(t) \/ DropWrite(t)
    <2>1. Lock!ReleaseWrite(t)
      BY <1>1, <1>4, PhaseMove, PhaseLabels
         DEF PassToWriter, DropWrite, Lock!ReleaseWrite, Lock!Move
    <2> QED
      BY <2>1 DEF Lock!Next
  <1>5. CASE \/ LockMutex(t, "getWrite", "getWriteCS")
             \/ GrantWrite(t)
             \/ QueueWrite(t)
             \/ UnlockMutex(t, "getWriteOut", "waitWrite")
             \/ Call(t, "writing", "putWrite")
             \/ LockMutex(t, "putWrite", "putWriteCS")
             \/ UnlockMutex(t, "putWriteOut", "idle")
             \/ WakeDone(t)
    BY <1>1, <1>5, SamePhase, PhaseLabels
       DEF LockMutex, UnlockMutex, Call, GrantWrite, QueueWrite, WakeDone
  <1>6. CASE WakeReader(t)
    BY <1>6 DEF WakeReader, phaseBar
  <1> QED
    BY <1>2, <1>3, <1>4, <1>5, <1>6 DEF Writer, GetWrite, PutWrite

\* Every behaviour of the semaphores and counters is one of the abstract
\* readers/writer lock: what the permit functions are for.
THEOREM Refinement == Spec => ImplementsLock
  <1>1. Init => Lock!Init
    BY DEF Init, Lock!Init, phaseBar, PhaseOf, Lock!Threads, Threads, GetReadLabels,
           GetWriteLabels, HoldsRead, HoldsWrite
  <1>2. IInv /\ [Next]_vars => [Lock!Next]_phaseBar
    <2>1. CASE UNCHANGED vars
      BY <2>1 DEF vars, phaseBar
    <2> QED
      BY <2>1, ReaderImplements, WriterImplements DEF Next
  <1> QED
    BY <1>1, <1>2, InductiveInvariant, PTL DEF Spec, ImplementsLock, Lock!Spec

-----------------------------------------------------------------------------
(* The tree *)

\* Every set of numbers has a least one: what induction over windows rests on.
LEMMA LeastNumber ==
  ASSUME NEW T, T \subseteq Nat, T # {}
  PROVE  \E n \in T : \A k \in T : n <= k
<1> DEFINE R == {p \in Nat \X Nat : p[1] < p[2]}
<1>1. IsWellFoundedOn(R, Nat)
  BY NatLessThanWellFounded DEF OpToRel
<1> HIDE DEF R
<1>2. PICK n \in T : \A k \in T : ~(<<k, n>> \in R)
  BY <1>1, WFMin
<1>3. ASSUME NEW k \in T, k < n PROVE FALSE
  BY <1>2, <1>3, T \subseteq Nat DEF R
<1>4. QED
  BY <1>3, T \subseteq Nat

\* The links upwards have an end: each window has a rank above its parent's.
Ranked(rank) ==
  /\ rank \in [All -> Nat]
  /\ \A w \in All : parent[w] # NULL => rank[parent[w]] < rank[w]

Links ==
  /\ parent \in [All -> All \cup {NULL}]
  /\ parent[root] = NULL
  /\ \A w \in All : parent[w] # NULL => parent[w] \in Accepted
  /\ \E rank : Ranked(rank)

\* Upwards and downwards links agree, and no child is listed twice.
Lists ==
  /\ children \in [All -> Seq(Windows)]
  /\ \A p \in All : \A w \in All : w \in Children(p) <=> parent[w] = p
  /\ \A p \in All : \A i, j \in DOMAIN children[p] : children[p][i] = children[p][j] => i = j

\* What Ancestors(w) is: the parent and its ancestors.
UpOne ==
  \A w \in All :
    /\ Ancestors(w) \subseteq All
    /\ parent[w] = NULL => Ancestors(w) = {}
    /\ \A p \in All : parent[w] = p => Ancestors(w) = {p} \cup Ancestors(p)

LEMMA NotNull ==
  /\ NULL \notin All /\ root \in All /\ root \notin Windows
  /\ Windows \subseteq All /\ All = Windows \cup {root}
BY TreeAssumption DEF All

\* The ancestors are the least set that has the parent and with each window its
\* parent.
LEMMA AncestorsAre == Links => UpOne
<1> SUFFICES ASSUME Links PROVE UpOne
  OBVIOUS
<1> DEFINE Has(S, v) == parent[v] # NULL => parent[v] \in S
           Sets(v) == {S \in SUBSET All : Has(S, v) /\ \A s \in S : Has(S, s)}
           A(v) == {a \in All : \A S \in Sets(v) : a \in S}
           Step(g) == [v \in All |-> IF parent[v] = NULL THEN {} ELSE {parent[v]} \cup g[parent[v]]]
           up == CHOOSE g : g = Step(g)
           least == [v \in All |-> A(v)]
<1>1. parent \in [All -> All \cup {NULL}]
  BY DEF Links
<1>2. ASSUME NEW v \in All, parent[v] = NULL PROVE A(v) = {}
  <2>1. {} \in Sets(v)
    BY <1>2
  <2> QED
    BY <2>1
<1>3. ASSUME NEW v \in All, parent[v] # NULL
      PROVE  A(v) = {parent[v]} \cup A(parent[v])
  <2>1. parent[v] \in All
    BY <1>1, <1>3
  <2> DEFINE p == parent[v]
  <2>2. {p} \cup A(p) \in Sets(v)
    <3>1. ASSUME NEW s \in {p} \cup A(p), parent[s] # NULL PROVE parent[s] \in A(p)
      <4>1. parent[s] \in All
        BY <1>1, <2>1, <3>1
      <4>2. ASSUME NEW S \in Sets(p) PROVE parent[s] \in S
        <5>1. CASE s = p
          BY <3>1, <5>1
        <5>2. CASE s \in A(p)
          BY <3>1, <5>2
        <5> QED
          BY <5>1, <5>2
      <4> QED
        BY <4>1, <4>2
    <3> QED
      BY <2>1, <3>1
  <2>3. A(v) \subseteq {p} \cup A(p)
    BY <2>2
  <2>4. Sets(v) \subseteq Sets(p)
    BY <1>3, <2>1
  <2>5. A(p) \subseteq A(v)
    BY <2>4
  <2>6. p \in A(v)
    BY <1>3, <2>1
  <2> QED
    BY <2>3, <2>5, <2>6
<1> HIDE DEF A
<1>4. least = Step(least)
  <2>1. ASSUME NEW v \in All
        PROVE  A(v) = IF parent[v] = NULL THEN {} ELSE {parent[v]} \cup least[parent[v]]
    <3>1. CASE parent[v] = NULL
      BY <1>2, <3>1
    <3>2. CASE parent[v] # NULL
      <4>1. parent[v] \in All
        BY <1>1, <3>2
      <4> QED
        BY <1>3, <3>2, <4>1
    <3> QED
      BY <3>1, <3>2
  <2> QED
    BY <2>1
<1> HIDE DEF least
<1>5. up = Step(up)
  BY <1>4
<1>6. \A w \in All : Ancestors(w) = up[w]
  BY DEF Ancestors
<1> HIDE DEF up
<1>7. ASSUME NEW w \in All
      PROVE  Ancestors(w) = IF parent[w] = NULL THEN {} ELSE {parent[w]} \cup Ancestors(parent[w])
  <2>1. up[w] = IF parent[w] = NULL THEN {} ELSE {parent[w]} \cup up[parent[w]]
    BY <1>5
  <2>2. parent[w] # NULL => parent[w] \in All
    BY <1>1
  <2> QED
    BY <1>6, <2>1, <2>2
<1>8. ASSUME NEW w \in All
      PROVE  Ancestors(w) \subseteq All
  <2>1. PICK rank : Ranked(rank)
    BY DEF Links
  <2> DEFINE Wrong == {w1 \in All : ~ (Ancestors(w1) \subseteq All)}
             T == {rank[w1] : w1 \in Wrong}
  <2>2. SUFFICES ASSUME Wrong # {} PROVE FALSE
    OBVIOUS
  <2>3. T \subseteq Nat /\ T # {}
    BY <2>1, <2>2 DEF Ranked
  <2>4. PICK n \in T : \A k \in T : n <= k
    BY <2>3, LeastNumber
  <2>5. PICK v \in Wrong : n = rank[v]
    OBVIOUS
  <2>6. v \in All /\ ~ (Ancestors(v) \subseteq All)
    OBVIOUS
  <2>7. parent[v] # NULL
    BY <1>7, <2>6
  <2>8. parent[v] \in All /\ rank[parent[v]] < rank[v] /\ rank[v] \in Nat /\ rank[parent[v]] \in Nat
    BY <1>1, <2>1, <2>6, <2>7 DEF Ranked
  <2>9. parent[v] \notin Wrong
    BY <2>4, <2>5, <2>8
  <2> QED
    BY <1>7, <2>6, <2>7, <2>8, <2>9
<1> QED
  BY <1>7, <1>8, NotNull DEF UpOne

\* Induction from the windows without a parent downwards.
LEMMA Downwards ==
  ASSUME Links, NEW P,
         \A w \in All : (parent[w] # NULL => parent[w] \in P) => w \in P
  PROVE  All \subseteq P
<1>1. PICK rank : Ranked(rank)
  BY DEF Links
<1> DEFINE T == {rank[w] : w \in All \ P}
<1>2. SUFFICES ASSUME All \ P # {} PROVE FALSE
  OBVIOUS
<1>3. T \subseteq Nat /\ T # {}
  BY <1>1, <1>2 DEF Ranked
<1>4. PICK n \in T : \A k \in T : n <= k
  BY <1>3, LeastNumber
<1>5. PICK v \in All \ P : n = rank[v]
  OBVIOUS
<1>6. parent[v] # NULL /\ parent[v] \notin P
  BY <1>5
<1>7. parent[v] \in All
  BY <1>6 DEF Links
<1>8. rank[parent[v]] < rank[v] /\ rank[v] \in Nat /\ rank[parent[v]] \in Nat
  BY <1>1, <1>6, <1>7 DEF Ranked
<1>9. n <= rank[parent[v]]
  BY <1>4, <1>6, <1>7
<1> QED
  BY <1>5, <1>8, <1>9

\* What the rest relies on: ancestors are accepted, up to the root window, and
\* those of an ancestor are one's own.
Lineage ==
  /\ UpOne
  /\ \A w \in All :
       /\ Ancestors(w) \subseteq Accepted
       /\ w \notin Ancestors(w)
       /\ \A a \in Ancestors(w) : Ancestors(a) \subseteq Ancestors(w)
       /\ w \in Accepted /\ w # root => root \in Ancestors(w)

LEMMA LineageHolds == Links => Lineage
<1> SUFFICES ASSUME Links PROVE Lineage
  OBVIOUS
<1>1. UpOne
  BY AncestorsAre
<1>2. \A w \in All : parent[w] # NULL => parent[w] \in Accepted /\ parent[w] \in All
  BY DEF Links
<1>3. \A w \in All : Ancestors(w) \subseteq Accepted
  <2> DEFINE P == {w \in All : Ancestors(w) \subseteq Accepted}
  <2>1. \A w \in All : (parent[w] # NULL => parent[w] \in P) => w \in P
    BY <1>1, <1>2 DEF UpOne
  <2> HIDE DEF P
  <2>2. All \subseteq P
    BY <2>1, Downwards
  <2> QED
    BY <2>2 DEF P
<1>4. \A w \in All : \A a \in Ancestors(w) : Ancestors(a) \subseteq Ancestors(w)
  <2> DEFINE P == {w \in All : \A a \in Ancestors(w) : Ancestors(a) \subseteq Ancestors(w)}
  <2>1. \A w \in All : (parent[w] # NULL => parent[w] \in P) => w \in P
    BY <1>1, <1>2 DEF UpOne
  <2> HIDE DEF P
  <2>2. All \subseteq P
    BY <2>1, Downwards
  <2> QED
    BY <2>2 DEF P
<1>5. \A w \in All : w \in Accepted /\ w # root => root \in Ancestors(w)
  <2> DEFINE P == {w \in All : w \in Accepted /\ w # root => root \in Ancestors(w)}
  <2>1. \A w \in All : w \in Accepted /\ w # root => parent[w] # NULL
    BY DEF Accepted
  <2>2. \A w \in All : (parent[w] # NULL => parent[w] \in P) => w \in P
    BY <1>1, <1>2, <2>1 DEF UpOne
  <2> HIDE DEF P
  <2>3. All \subseteq P
    BY <2>2, Downwards
  <2> QED
    BY <2>3 DEF P
<1>6. \A w \in All : w \notin Ancestors(w)
  <2>1. PICK rank : Ranked(rank)
    BY DEF Links
  <2> DEFINE P == {w \in All : \A a \in Ancestors(w) : rank[a] < rank[w]}
  <2>2. ASSUME NEW w \in All, parent[w] # NULL => parent[w] \in P PROVE w \in P
    <3>1. ASSUME NEW a \in Ancestors(w) PROVE rank[a] < rank[w]
      <4>1. parent[w] # NULL /\ a \in {parent[w]} \cup Ancestors(parent[w])
        BY <1>1, <1>2 DEF UpOne
      <4>2. parent[w] \in All /\ a \in All
        BY <1>1, <1>2, <4>1 DEF UpOne
      <4>3. rank[parent[w]] < rank[w] /\ a # parent[w] => rank[a] < rank[parent[w]]
        BY <2>1, <2>2, <4>1 DEF Ranked
      <4>4. rank[parent[w]] < rank[w]
        BY <2>1, <4>1 DEF Ranked
      <4>5. rank[a] \in Nat /\ rank[w] \in Nat /\ rank[parent[w]] \in Nat
        BY <2>1, <4>2 DEF Ranked
      <4> QED
        BY <4>3, <4>4, <4>5
    <3> QED
      BY <3>1
  <2> HIDE DEF P
  <2>3. All \subseteq P
    BY <2>2, Downwards
  <2>4. ASSUME NEW w \in All PROVE w \notin Ancestors(w)
    <3>1. rank[w] \in Nat
      BY <2>1 DEF Ranked
    <3> QED
      BY <2>3, <3>1 DEF P
  <2> QED
    BY <2>4
<1> QED
  BY <1>1, <1>3, <1>4, <1>5, <1>6 DEF Lineage

-----------------------------------------------------------------------------
(* Siblings *)

\* Each child has its place, and Above and Below go by the places.
Places ==
  \A w \in All : parent[w] # NULL =>
    /\ PlaceOf(w) \in DOMAIN children[parent[w]]
    /\ children[parent[w]][PlaceOf(w)] = w
    /\ \A i \in DOMAIN children[parent[w]] : children[parent[w]][i] = w => i = PlaceOf(w)

Siblings ==
  \A v, w \in All :
    /\ Above(w) \subseteq All /\ Below(w) \subseteq All
    /\ v \in Above(w) <=> /\ parent[w] # NULL /\ parent[v] = parent[w]
                          /\ PlaceOf(v) < PlaceOf(w)
    /\ v \in Below(w) <=> /\ parent[w] # NULL /\ parent[v] = parent[w]
                          /\ PlaceOf(w) < PlaceOf(v)

LEMMA PlacesHold == Links /\ Lists => Places
<1> SUFFICES ASSUME Links, Lists, NEW w \in All, parent[w] # NULL
             PROVE  /\ PlaceOf(w) \in DOMAIN children[parent[w]]
                    /\ children[parent[w]][PlaceOf(w)] = w
                    /\ \A i \in DOMAIN children[parent[w]] :
                         children[parent[w]][i] = w => i = PlaceOf(w)
  BY DEF Places
<1>1. parent[w] \in All
  BY DEF Links
<1>2. \E i \in DOMAIN children[parent[w]] : children[parent[w]][i] = w
  BY <1>1 DEF Lists, Children
<1>3. PlaceOf(w) \in DOMAIN children[parent[w]] /\ children[parent[w]][PlaceOf(w)] = w
  BY <1>2 DEF PlaceOf
<1> QED
  BY <1>1, <1>3 DEF Lists

LEMMA SiblingsHold == Links /\ Lists => Siblings
<1> SUFFICES ASSUME Links, Lists, NEW v \in All, NEW w \in All
             PROVE  /\ Above(w) \subseteq All /\ Below(w) \subseteq All
                    /\ v \in Above(w) <=> /\ parent[w] # NULL /\ parent[v] = parent[w]
                                          /\ PlaceOf(v) < PlaceOf(w)
                    /\ v \in Below(w) <=> /\ parent[w] # NULL /\ parent[v] = parent[w]
                                          /\ PlaceOf(w) < PlaceOf(v)
  BY DEF Siblings
<1>1. CASE parent[w] = NULL
  BY <1>1 DEF Above, Below
<1>2. CASE parent[w] # NULL
  <2> DEFINE s == children[parent[w]]
  <2>1. parent[w] \in All
    BY <1>2 DEF Links
  <2>2. s \in Seq(Windows) /\ DOMAIN s = 1..Len(s) /\ Len(s) \in Nat
    BY <2>1 DEF Lists
  <2>3. Places
    BY PlacesHold
  <2>4. PlaceOf(w) \in 1..Len(s)
    BY <1>2, <2>2, <2>3 DEF Places
  <2>5. parent[v] = parent[w] => /\ PlaceOf(v) \in 1..Len(s) /\ s[PlaceOf(v)] = v
                                 /\ \A i \in 1..Len(s) : s[i] = v => i = PlaceOf(v)
    BY <1>2, <2>2, <2>3 DEF Places
  <2>6. \A i \in 1..Len(s) : s[i] = v => parent[v] = parent[w]
    BY <2>1, <2>2 DEF Lists, Children
  <2> HIDE DEF s
  <2>7. Above(w) = {s[i] : i \in 1..(PlaceOf(w) - 1)}
    BY <1>2 DEF Above, s
  <2>8. Below(w) = {s[i] : i \in (PlaceOf(w) + 1)..Len(s)}
    BY <1>2 DEF Below, s
  <2>9. /\ \A i \in 1..(PlaceOf(w) - 1) : i \in 1..Len(s) /\ i < PlaceOf(w)
        /\ \A i \in (PlaceOf(w) + 1)..Len(s) : i \in 1..Len(s) /\ PlaceOf(w) < i
        /\ \A i \in 1..Len(s) : i < PlaceOf(w) => i \in 1..(PlaceOf(w) - 1)
        /\ \A i \in 1..Len(s) : PlaceOf(w) < i => i \in (PlaceOf(w) + 1)..Len(s)
    BY <2>2, <2>4
  <2>10. Above(w) \subseteq All /\ Below(w) \subseteq All
    BY <2>2, <2>7, <2>8, <2>9, ElementOfSeq, NotNull
  <2> QED
    BY <1>2, <2>5, <2>6, <2>7, <2>8, <2>9, <2>10
<1> QED
  BY <1>1, <1>2

\* What the links alone keep, and what follows from it.
TreeInv == Links /\ Lists

TreeFacts == Lineage /\ Places /\ Siblings

LEMMA TreeFactsHold == TreeInv => TreeFacts
BY LineageHolds, PlacesHold, SiblingsHold DEF TreeInv, TreeFacts

LEMMA TreeFactsNext == TreeInv' => TreeFacts'
BY TreeFactsHold, PTL

\* A tree whose links stay has the same relations.
LEMMA SameTree ==
  ASSUME UNCHANGED <<parent, children>>
  PROVE  /\ Accepted' = Accepted
         /\ \A w : /\ Ancestors(w)' = Ancestors(w) /\ Children(w)' = Children(w)
                   /\ Above(w)' = Above(w) /\ Below(w)' = Below(w) /\ Tree(w)' = Tree(w)
         /\ TreeInv => TreeInv'
<1>1. Accepted' = Accepted
  BY DEF Accepted
<1>2. ASSUME NEW w PROVE Ancestors(w)' = Ancestors(w)
  BY DEF Ancestors
<1>3. ASSUME NEW w
      PROVE  /\ Children(w)' = Children(w) /\ PlaceOf(w)' = PlaceOf(w)
  BY DEF Children, PlaceOf
<1>4. ASSUME NEW w
      PROVE  /\ Above(w)' = Above(w) /\ Below(w)' = Below(w)
  BY DEF Above, Below, PlaceOf
<1>5. ASSUME NEW w PROVE Tree(w)' = Tree(w)
  BY <1>1, <1>2 DEF Tree
<1>6. ASSUME TreeInv PROVE TreeInv'
  <2>1. Links'
    BY <1>1, <1>6 DEF TreeInv, Links, Ranked
  <2>2. Lists'
    BY <1>3, <1>6 DEF TreeInv, Lists
  <2> QED
    BY <2>1, <2>2 DEF TreeInv
<1> QED
  BY <1>1, <1>2, <1>3, <1>4, <1>5, <1>6

\* Before the root window is accepted nothing is linked.
LEMMA InitTree ==
  ASSUME TreeInit
  PROVE  TreeInv
<1>1. parent = [w \in All |-> NULL] /\ children = [w \in All |-> <<>>]
  BY DEF TreeInit
<1>2. Ranked([w \in All |-> 0])
  BY <1>1 DEF Ranked
<1>3. Links
  <2>1. parent \in [All -> All \cup {NULL}] /\ parent[root] = NULL
    BY <1>1, NotNull
  <2> QED
    BY <1>1, <1>2, <2>1 DEF Links
<1>4. Lists
  <2>1. children \in [All -> Seq(Windows)]
    BY <1>1
  <2>2. \A p \in All : DOMAIN children[p] = {}
    BY <1>1
  <2>3. \A p \in All : Children(p) = {}
    BY <2>2 DEF Children
  <2>4. \A p \in All, w \in All : parent[w] # p
    BY <1>1, NotNull
  <2> QED
    BY <2>1, <2>2, <2>3, <2>4 DEF Lists
<1> QED
  BY <1>3, <1>4 DEF TreeInv

\* A window that is put in front of a list.
LEMMA InFront ==
  ASSUME NEW s \in Seq(Windows), NEW w \in Windows
  PROVE  /\ <<w>> \o s \in Seq(Windows)
         /\ DOMAIN (<<w>> \o s) = 1..(Len(s) + 1) /\ DOMAIN s = 1..Len(s) /\ Len(s) \in Nat
         /\ (<<w>> \o s)[1] = w
         /\ \A i \in 1..Len(s) : i + 1 \in 1..(Len(s) + 1) /\ (<<w>> \o s)[i + 1] = s[i]
         /\ \A i \in 1..(Len(s) + 1) : i = 1 \/ (i - 1 \in 1..Len(s) /\ (<<w>> \o s)[i] = s[i - 1])
<1>1. <<w>> \in Seq(Windows) /\ Len(<<w>>) = 1 /\ <<w>>[1] = w
  OBVIOUS
<1>2. /\ <<w>> \o s \in Seq(Windows)
      /\ Len(<<w>> \o s) = 1 + Len(s)
      /\ DOMAIN (<<w>> \o s) = 1..Len(<<w>> \o s)
      /\ \A i \in 1..(1 + Len(s)) : (<<w>> \o s)[i] = IF i <= 1 THEN <<w>>[i] ELSE s[i - 1]
  BY <1>1, ConcatProperties
<1> QED
  BY <1>1, <1>2

\* accept_window adds a leaf: the lines of the others stay, and only the new
\* window's parent has one more child, which is above the others.
LEMMA AcceptTree ==
  ASSUME TreeInv, NEW w \in Windows, NEW p \in All, NEW at \in Positions, AcceptWindow(w, p, at)
  PROVE  /\ TreeInv'
         /\ Accepted' = Accepted \cup {w}
         /\ \A v \in Accepted : Ancestors(v)' = Ancestors(v) /\ w \notin Ancestors(v)
         /\ \A v \in Accepted : Above(v)' \ {w} = Above(v)
         /\ \A v \in Accepted : Children(v)' \ {w} = Children(v)
<1>1. /\ w \notin Accepted /\ p \in Accepted
      /\ parent' = [parent EXCEPT ![w] = p]
      /\ children' = [children EXCEPT ![p] = <<w>> \o @]
  BY DEF AcceptWindow
<1>2. /\ parent \in [All -> All \cup {NULL}] /\ parent[root] = NULL
      /\ \A v \in All : parent[v] # NULL => parent[v] \in Accepted
      /\ children \in [All -> Seq(Windows)]
      /\ \A q \in All : \A v \in All : v \in Children(q) <=> parent[v] = q
      /\ \A q \in All : \A i, j \in DOMAIN children[q] :
           children[q][i] = children[q][j] => i = j
  BY DEF TreeInv, Links, Lists
<1>3. w \in All /\ parent[w] = NULL /\ w # root /\ w # p /\ p # NULL
  BY <1>1, NotNull DEF Accepted
<1>4. \A v \in All : parent'[v] = IF v = w THEN p ELSE parent[v]
  BY <1>1, <1>2
<1>5. Accepted' = Accepted \cup {w}
  BY <1>3, <1>4, NotNull DEF Accepted
<1>6. Links'
  <2>1. parent' \in [All -> All \cup {NULL}] /\ parent'[root] = NULL
    BY <1>1, <1>2, <1>3, NotNull
  <2>2. \A v \in All : parent'[v] # NULL => parent'[v] \in Accepted'
    BY <1>1, <1>2, <1>4, <1>5
  <2>3. PICK rank : Ranked(rank)
    BY DEF TreeInv, Links
  <2> DEFINE rank2 == [rank EXCEPT ![w] = rank[p] + 1]
  <2>4. \A v \in All : parent[v] # w
    BY <1>1, <1>2, <1>3, NotNull
  <2>5. rank2 \in [All -> Nat] /\ \A v \in All : rank2[v] = IF v = w THEN rank[p] + 1 ELSE rank[v]
    <3>1. rank \in [All -> Nat]
      BY <2>3 DEF Ranked
    <3>2. rank[p] + 1 \in Nat
      BY <3>1
    <3> QED
      BY <3>1, <3>2
  <2> HIDE DEF rank2
  <2>6. ASSUME NEW v \in All, parent'[v] # NULL PROVE rank2[parent'[v]] < rank2[v]
    <3>1. CASE v = w
      <4>1. rank[p] \in Nat
        BY <2>3 DEF Ranked
      <4> QED
        BY <1>3, <1>4, <2>5, <3>1, <4>1
    <3>2. CASE v # w
      <4>1. parent'[v] = parent[v] /\ parent[v] \in All /\ parent[v] # w
        BY <1>2, <1>4, <2>4, <2>6, <3>2
      <4> QED
        BY <2>3, <2>5, <2>6, <3>2, <4>1 DEF Ranked
    <3> QED
      BY <3>1, <3>2
  <2>7. (\E rank1 : Ranked(rank1))'
    BY <2>5, <2>6 DEF Ranked
  <2> QED
    BY <2>1, <2>2, <2>7 DEF Links
<1> DEFINE s == children[p]
           t == <<w>> \o s
<1>7. s \in Seq(Windows)
  BY <1>2
<1>8. /\ t \in Seq(Windows)
      /\ DOMAIN t = 1..(Len(s) + 1) /\ DOMAIN s = 1..Len(s) /\ Len(s) \in Nat
      /\ t[1] = w
      /\ \A i \in 1..Len(s) : i + 1 \in 1..(Len(s) + 1) /\ t[i + 1] = s[i]
      /\ \A i \in 1..(Len(s) + 1) : i = 1 \/ (i - 1 \in 1..Len(s) /\ t[i] = s[i - 1])
  BY <1>7, InFront
<1> HIDE DEF t
<1>9. /\ children' \in [All -> Seq(Windows)]
      /\ \A q \in All : children'[q] = IF q = p THEN t ELSE children[q]
  BY <1>1, <1>2, <1>8 DEF t
<1>10. \A i \in 1..Len(s) : s[i] # w
  <2>1. w \notin Children(p)
    BY <1>2, <1>3
  <2> QED
    BY <1>8, <2>1 DEF Children
<1>11. \A q \in All : Children(q)' = IF q = p THEN Children(q) \cup {w} ELSE Children(q)
  <2>1. {t[i] : i \in DOMAIN t} = {s[i] : i \in DOMAIN s} \cup {w}
    <3>1. \A i \in DOMAIN t : t[i] \in {s[k] : k \in DOMAIN s} \cup {w}
      BY <1>8
    <3>2. \A i \in DOMAIN s : s[i] \in {t[k] : k \in DOMAIN t}
      BY <1>8
    <3>3. w \in {t[k] : k \in DOMAIN t}
      <4>1. 1 \in DOMAIN t
        BY <1>8
      <4> QED
        BY <1>8, <4>1
    <3> QED
      BY <3>1, <3>2, <3>3
  <2> QED
    BY <1>9, <2>1 DEF Children
<1>12. Lists'
  <2>1. ASSUME NEW q \in All, NEW v \in All PROVE v \in Children(q)' <=> parent'[v] = q
    <3>1. v \in Children(q) <=> parent[v] = q
      BY <1>2
    <3> QED
      BY <1>3, <1>4, <1>11, <3>1, NotNull
  <2>2. ASSUME NEW i \in DOMAIN t, NEW j \in DOMAIN t, t[i] = t[j] PROVE i = j
    <3>1. CASE i = 1 \/ j = 1
      <4>1. i \in 1..(Len(s) + 1) /\ j \in 1..(Len(s) + 1)
        BY <1>8
      <4>2. ASSUME NEW k \in 1..(Len(s) + 1), k # 1 PROVE t[k] # w
        <5>1. k - 1 \in 1..Len(s) /\ t[k] = s[k - 1]
          BY <1>8, <4>2
        <5> QED
          BY <1>10, <5>1
      <4> QED
        BY <1>8, <2>2, <3>1, <4>1, <4>2
    <3>2. CASE i # 1 /\ j # 1
      <4>1. /\ i - 1 \in DOMAIN s /\ j - 1 \in DOMAIN s
            /\ s[i - 1] = s[j - 1]
        BY <1>8, <2>2, <3>2
      <4>2. i - 1 = j - 1
        BY <1>2, <4>1
      <4>3. i \in Int /\ j \in Int
        BY <1>8
      <4> QED
        BY <4>2, <4>3
    <3> QED
      BY <3>1, <3>2
  <2>3. \A q \in All : \A i, j \in DOMAIN children'[q] : children'[q][i] = children'[q][j] => i = j
    BY <1>2, <1>9, <2>2
  <2> QED
    BY <1>9, <2>1, <2>3 DEF Lists
<1>13. TreeInv'
  BY <1>6, <1>12 DEF TreeInv
<1>14. TreeFacts /\ TreeFacts'
  BY <1>13, TreeFactsHold, TreeFactsNext
<1>15. Lineage /\ UpOne /\ UpOne'
  BY <1>14 DEF TreeFacts, Lineage
<1>16. \A v \in All : v # w => Ancestors(v)' = Ancestors(v)
  <2> DEFINE P == {v \in All : v # w => Ancestors(v)' = Ancestors(v)}
  <2>1. ASSUME NEW v \in All, parent[v] # NULL => parent[v] \in P PROVE v \in P
    <3>1. CASE v = w
      BY <3>1
    <3>2. CASE v # w /\ parent[v] = NULL
      <4>1. Ancestors(v)' = {} /\ Ancestors(v) = {}
        BY <1>4, <1>15, <3>2 DEF UpOne
      <4> QED
        BY <4>1
    <3>3. CASE v # w /\ parent[v] # NULL
      <4>1. PICK u \in All : u = parent[v]
        BY <1>2, <3>3
      <4>2. u \in Accepted /\ u # w /\ parent'[v] = u
        BY <1>1, <1>2, <1>4, <3>3, <4>1
      <4>3. Ancestors(u)' = Ancestors(u)
        BY <2>1, <3>3, <4>1, <4>2
      <4>4. Ancestors(v) = {u} \cup Ancestors(u)
        BY <1>15, <4>1 DEF UpOne
      <4>5. Ancestors(v)' = {u} \cup Ancestors(u)'
        BY <1>15, <4>2 DEF UpOne
      <4> QED
        BY <4>3, <4>4, <4>5
    <3> QED
      BY <3>1, <3>2, <3>3
  <2> HIDE DEF P
  <2>2. All \subseteq P
    BY <2>1, Downwards DEF TreeInv
  <2> QED
    BY <2>2 DEF P
<1>17. \A v \in Accepted : v # w /\ v \in All /\ w \notin Ancestors(v)
  BY <1>1, <1>15, NotNull DEF Lineage, Accepted
<1>18. ASSUME NEW v \in Accepted PROVE Above(v)' \ {w} = Above(v)
  <2>1. v \in All /\ v # w
    BY <1>17
  <2>2. Siblings /\ Places
    BY <1>14 DEF TreeFacts
  <2>3. Siblings' /\ Places'
    BY <1>14 DEF TreeFacts
  <2>4. ASSUME NEW u \in All, u # w, parent[u] # NULL
        PROVE  PlaceOf(u)' = IF parent[u] = p THEN PlaceOf(u) + 1 ELSE PlaceOf(u)
    <3>1. parent'[u] = parent[u] /\ parent[u] \in All
      BY <1>2, <1>4, <2>4
    <3>2. PlaceOf(u) \in DOMAIN children[parent[u]] /\ children[parent[u]][PlaceOf(u)] = u
      BY <2>2, <2>4 DEF Places
    <3>3. \A i \in DOMAIN children'[parent[u]] :
            children'[parent[u]][i] = u => i = PlaceOf(u)'
      BY <2>3, <2>4, <3>1 DEF Places
    <3>4. CASE parent[u] = p
      <4>1. children'[parent[u]] = t /\ PlaceOf(u) \in 1..Len(s) /\ s[PlaceOf(u)] = u
        BY <1>8, <1>9, <3>1, <3>2, <3>4
      <4>2. PlaceOf(u) + 1 \in DOMAIN t /\ t[PlaceOf(u) + 1] = u
        BY <1>8, <4>1
      <4> QED
        BY <3>3, <3>4, <4>1, <4>2
    <3>5. CASE parent[u] # p
      <4>1. children'[parent[u]] = children[parent[u]]
        BY <1>9, <3>1, <3>5
      <4> QED
        BY <3>2, <3>3, <3>5, <4>1
    <3> QED
      BY <3>4, <3>5
  <2>5. \A u \in All : parent[u] # NULL => PlaceOf(u) \in Int
    <3>1. \A u \in All : parent[u] # NULL =>
            PlaceOf(u) \in DOMAIN children[parent[u]] /\ DOMAIN children[parent[u]] \subseteq Int
      BY <1>2, <2>2 DEF Places
    <3> QED
      BY <3>1
  <2>6. ASSUME NEW u \in All, u # w
        PROVE  u \in Above(v)' <=> u \in Above(v)
    <3>1. /\ parent'[u] = parent[u] /\ parent'[v] = parent[v]
      BY <1>4, <2>1, <2>6
    <3>2. u \in Above(v) <=> /\ parent[v] # NULL /\ parent[u] = parent[v]
                             /\ PlaceOf(u) < PlaceOf(v)
      BY <2>1, <2>2 DEF Siblings
    <3>3. u \in Above(v)' <=> /\ parent[v] # NULL /\ parent[u] = parent[v]
                              /\ PlaceOf(u)' < PlaceOf(v)'
      BY <2>1, <2>3, <3>1 DEF Siblings
    <3>4. ASSUME parent[v] # NULL, parent[u] = parent[v]
          PROVE  PlaceOf(u)' < PlaceOf(v)' <=> PlaceOf(u) < PlaceOf(v)
      <4>1. PlaceOf(u) \in Int /\ PlaceOf(v) \in Int
        BY <2>1, <2>5, <3>4
      <4>2. /\ PlaceOf(u)' = IF parent[v] = p THEN PlaceOf(u) + 1 ELSE PlaceOf(u)
            /\ PlaceOf(v)' = IF parent[v] = p THEN PlaceOf(v) + 1 ELSE PlaceOf(v)
        BY <2>1, <2>4, <2>6, <3>4
      <4> QED
        BY <4>1, <4>2
    <3> QED
      BY <3>2, <3>3, <3>4
  <2>7. Above(v) \subseteq All /\ Above(v)' \subseteq All
    BY <2>1, <2>2, <2>3 DEF Siblings
  <2>8. w \notin Above(v)
    BY <1>3, <2>1, <2>2 DEF Siblings
  <2> QED
    BY <2>6, <2>7, <2>8
<1>19. \A v \in Accepted : Children(v)' \ {w} = Children(v)
  <2>1. \A v \in Accepted : w \notin Children(v) /\ v \in All
    BY <1>2, <1>3, <1>17, NotNull
  <2> QED
    BY <1>11, <2>1
<1> QED
  BY <1>5, <1>13, <1>16, <1>17, <1>18, <1>19

-----------------------------------------------------------------------------
(* Places and clips *)

\* What else the windows have.
States ==
  /\ pos \in [All -> Int \X Int]
  /\ mapped \in [All -> BOOLEAN]
  /\ need_recalc_clip \in [All -> BOOLEAN]
  /\ asking \subseteq Accepted
  /\ crashed \in BOOLEAN
  /\ \A w \in All : mapped[w] => w \in Accepted

\* Clips are records of the arguments they were calculated from.
ClipForm ==
  /\ clip = [v \in All |-> clip[v]]
  /\ \A v \in All :
       clip[v] = [bounds |-> clip[v].bounds, above |-> clip[v].above, inside |-> clip[v].inside]

\* The clip of w is the one that would be calculated now.
Current(w) ==
  /\ clip[w].bounds = Bounds(w)
  /\ Bounds(w) # NULL =>
       Covered(w, clip[w].above) = Covered(w, MappedRects(w, Above(w)))

\* What ClipIsFresh says of one window, without the types.
Fresh(w) == mapped[w] /\ ~ need_recalc_clip[w] => Current(w)

\* The inductive invariant.
TInv == TreeInv /\ States /\ ClipForm /\ \A w \in Windows : Fresh(w)

LEMMA Sizes ==
  ASSUME NEW w \in All
  PROVE  Width[w] \in Nat \ {0} /\ Height[w] \in Nat \ {0}
BY TreeAssumption

\* A rectangle that is relative to w has the points of the window's area, moved.
LEMMA Shift ==
  ASSUME pos \in [All -> Int \X Int], NEW w \in All, NEW v \in All, NEW q
  PROVE  q \in PointsOf(RelativeTo(w, v)) <=>
           q \in Int \X Int /\ <<q[1] + pos[w][1], q[2] + pos[w][2]>> \in PointsOf(Area(v))
<1>1. PICK x \in Int, y \in Int : pos[w] = <<x, y>>
  OBVIOUS
<1>2. PICK a \in Int, b \in Int : pos[v] = <<a, b>>
  OBVIOUS
<1>3. PICK n \in Int, m \in Int : n = Width[v] /\ m = Height[v]
  BY Sizes
<1>4. /\ PointsOf(RelativeTo(w, v)) = ((a - x) .. (a - x + n - 1)) \X ((b - y) .. (b - y + m - 1))
      /\ PointsOf(Area(v)) = (a .. (a + n - 1)) \X (b .. (b + m - 1))
  BY <1>1, <1>2, <1>3 DEF PointsOf, RelativeTo, Area, RectAt, Rect
<1>5. \A i, j \in Int :
        /\ i \in (a - x) .. (a - x + n - 1) <=> i + x \in a .. (a + n - 1)
        /\ j \in (b - y) .. (b - y + m - 1) <=> j + y \in b .. (b + m - 1)
  OBVIOUS
<1>6. ASSUME NEW i \in Int, NEW j \in Int, q = <<i, j>>
      PROVE  q \in PointsOf(RelativeTo(w, v)) <=>
               <<q[1] + pos[w][1], q[2] + pos[w][2]>> \in PointsOf(Area(v))
  <2>1. q[1] + pos[w][1] = i + x /\ q[2] + pos[w][2] = j + y
    BY <1>1, <1>6
  <2> QED
    BY <1>4, <1>5, <1>6, <2>1
<1>7. q \in PointsOf(RelativeTo(w, v)) => q \in Int \X Int
  BY <1>4
<1>8. q \in Int \X Int => \E i \in Int, j \in Int : q = <<i, j>>
  OBVIOUS
<1> QED
  BY <1>6, <1>7, <1>8

Shifts ==
  pos \in [All -> Int \X Int] =>
    \A w, v \in All : \A q :
      q \in PointsOf(RelativeTo(w, v)) <=>
        q \in Int \X Int /\ <<q[1] + pos[w][1], q[2] + pos[w][2]>> \in PointsOf(Area(v))

LEMMA ShiftHolds == Shifts
BY Shift DEF Shifts

LEMMA ShiftNext == Shifts'
BY ShiftHolds, PTL

\* The points that mapped windows of S cover.
LEMMA CoveredBy ==
  ASSUME NEW w, NEW S, NEW q
  PROVE  q \in Covered(w, MappedRects(w, S)) <=>
           /\ q \in PointsOf(RelativeTo(w, w))
           /\ \E u \in S : mapped[u] /\ q \in PointsOf(RelativeTo(w, u))
BY DEF Covered, MappedRects

LEMMA CoveredUnion ==
  ASSUME NEW w, NEW R, NEW S
  PROVE  Covered(w, R \cup S) = Covered(w, R) \cup Covered(w, S)
BY DEF Covered

\* The bounds of the part that is left of a window at o.
BoundsOf(left, o) ==
  LET xs == {p[1] : p \in left}
      ys == {p[2] : p \in left}
      minx == CHOOSE i \in xs : \A j \in xs : i <= j
      miny == CHOOSE i \in ys : \A j \in ys : i <= j
  IN  IF left = {} THEN NULL
      ELSE [left |-> minx - o[1], top |-> miny - o[2],
            right |-> Cardinality(xs) - 1, bottom |-> Cardinality(ys) - 1]

LeftOf(w) == {p \in PointsOf(Area(w)) : \A a \in Ancestors(w) : p \in PointsOf(Area(a))}

LEMMA BoundsAre ==
  ASSUME NEW w
  PROVE  Bounds(w) = BoundsOf(LeftOf(w), pos[w])
BY DEF Bounds, BoundsOf, LeftOf

LEMMA BoundsAreNext ==
  ASSUME NEW w
  PROVE  Bounds(w)' = BoundsOf(LeftOf(w)', pos'[w])
BY DEF Bounds, BoundsOf, LeftOf

LEMMA SameBounds ==
  ASSUME NEW w, Ancestors(w)' = Ancestors(w), pos'[w] = pos[w],
         \A a \in Ancestors(w) : pos'[a] = pos[a]
  PROVE  Bounds(w)' = Bounds(w)
<1>1. Area(w)' = Area(w) /\ \A a \in Ancestors(w) : Area(a)' = Area(a)
  BY DEF Area
<1>2. LeftOf(w)' = LeftOf(w)
  BY <1>1 DEF LeftOf
<1> QED
  BY <1>2, BoundsAre, BoundsAreNext

\* A window's clip stays current as long as nothing has changed but windows that
\* do not overlap it, neither before nor after.
LEMMA StaysCurrent ==
  ASSUME NEW w \in All, TreeFacts, TreeFacts', Current(w), clip'[w] = clip[w],
         Ancestors(w)' = Ancestors(w), pos'[w] = pos[w],
         \A a \in Ancestors(w) : pos'[a] = pos[a],
         pos \in [All -> Int \X Int], pos' \in [All -> Int \X Int],
         \A u \in All :
           \/ u \in Above(w) /\ u \in Above(w)' /\ mapped'[u] = mapped[u] /\ pos'[u] = pos[u]
           \/ /\ u \in Above(w) /\ mapped[u] => PointsOf(Area(u)) \cap PointsOf(Area(w)) = {}
              /\ u \in Above(w)' /\ mapped'[u] => PointsOf(Area(u))' \cap PointsOf(Area(w)) = {}
  PROVE  Current(w)'
<1>1. Bounds(w)' = Bounds(w)
  BY SameBounds
<1>2. Above(w) \subseteq All /\ Above(w)' \subseteq All
  BY DEF TreeFacts, Siblings
<1>3. Area(w)' = Area(w) /\ RelativeTo(w, w)' = RelativeTo(w, w)
  BY DEF Area, RelativeTo
<1> DEFINE On(u, q) == q \in PointsOf(RelativeTo(w, w)) /\ q \in PointsOf(RelativeTo(w, u))
<1>4. ASSUME NEW u \in All, PointsOf(Area(u)) \cap PointsOf(Area(w)) = {}, NEW q, On(u, q)
      PROVE  FALSE
  <2>1. /\ <<q[1] + pos[w][1], q[2] + pos[w][2]>> \in PointsOf(Area(w))
        /\ <<q[1] + pos[w][1], q[2] + pos[w][2]>> \in PointsOf(Area(u))
    BY <1>4, Shift
  <2> QED
    BY <1>4, <2>1
<1>5. ASSUME NEW u \in All, PointsOf(Area(u))' \cap PointsOf(Area(w)) = {}, NEW q, On(u, q)'
      PROVE  FALSE
  <2>1. \A v \in All : q \in PointsOf(RelativeTo(w, v))' =>
          <<q[1] + pos'[w][1], q[2] + pos'[w][2]>> \in PointsOf(Area(v))'
    BY ShiftNext DEF Shifts
  <2>2. /\ <<q[1] + pos'[w][1], q[2] + pos'[w][2]>> \in PointsOf(Area(w))'
        /\ <<q[1] + pos'[w][1], q[2] + pos'[w][2]>> \in PointsOf(Area(u))'
    BY <1>5, <2>1
  <2>3. PointsOf(Area(w))' = PointsOf(Area(w))
    BY <1>3 DEF PointsOf
  <2> QED
    BY <1>5, <2>2, <2>3
<1>6. \A u \in All : pos'[u] = pos[u] => \A q : On(u, q)' <=> On(u, q)
  <2>1. \A u \in All : pos'[u] = pos[u] => RelativeTo(w, u)' = RelativeTo(w, u)
    BY DEF RelativeTo
  <2> QED
    BY <1>3, <2>1 DEF PointsOf
<1>7. ASSUME NEW q
      PROVE  (\E u \in Above(w) : mapped[u] /\ On(u, q))
             <=> (\E u \in Above(w)' : mapped'[u] /\ On(u, q)')
  <2>1. \A u \in All : u \in Above(w) /\ mapped[u] /\ On(u, q)
                         => u \in Above(w)' /\ mapped'[u] /\ On(u, q)'
    BY <1>4, <1>6
  <2>2. \A u \in All : u \in Above(w)' /\ mapped'[u] /\ On(u, q)'
                         => u \in Above(w) /\ mapped[u] /\ On(u, q)
    BY <1>5, <1>6
  <2> QED
    BY <1>2, <2>1, <2>2
<1>8. Covered(w, MappedRects(w, Above(w)))' = Covered(w, MappedRects(w, Above(w)))
  <2>1. \A q : q \in Covered(w, MappedRects(w, Above(w))) <=>
                 \E u \in Above(w) : mapped[u] /\ On(u, q)
    BY CoveredBy
  <2>2. \A q : q \in Covered(w, MappedRects(w, Above(w)))' <=>
                 \E u \in Above(w)' : mapped'[u] /\ On(u, q)'
    BY DEF Covered, MappedRects
  <2> QED
    BY <1>7, <2>1, <2>2
<1>9. Covered(w, clip[w].above)' = Covered(w, clip[w].above)
  BY <1>3 DEF Covered, PointsOf
<1> QED
  BY <1>1, <1>8, <1>9 DEF Current

-----------------------------------------------------------------------------
(* The steps *)

LEMMA InitTInv ==
  ASSUME TreeInit
  PROVE  TInv
<1>1. TreeInv
  BY InitTree
<1>2. States
  <2>1. pos = [v \in All |-> <<0, 0>>] /\ <<0, 0>> \in Int \X Int
    BY DEF TreeInit
  <2>2. pos \in [All -> Int \X Int]
    BY <2>1
  <2>3. mapped \in [All -> BOOLEAN] /\ need_recalc_clip \in [All -> BOOLEAN]
    BY DEF TreeInit
  <2> QED
    BY <2>2, <2>3 DEF TreeInit, States
<1>3. ClipForm
  BY DEF TreeInit, ClipForm, NoClip
<1>4. \A w \in Windows : Fresh(w)
  BY NotNull DEF TreeInit, Fresh
<1> QED
  BY <1>1, <1>2, <1>3, <1>4 DEF TInv

\* A window that is accepted lies above others but is not mapped.
LEMMA AcceptStep ==
  ASSUME TInv, NEW w \in Windows, NEW p \in All, NEW at \in Positions, AcceptWindow(w, p, at)
  PROVE  TInv'
<1>1. /\ w \notin Accepted /\ p \in Accepted
      /\ pos' = [pos EXCEPT ![w] = at]
      /\ UNCHANGED <<mapped, clip, asking, crashed>>
  BY DEF AcceptWindow
<1>2. PICK garbage \in BOOLEAN :
        need_recalc_clip' = [need_recalc_clip EXCEPT ![w] = garbage]
  BY DEF AcceptWindow
<1>3. TreeInv /\ States /\ ClipForm
  BY DEF TInv
<1>4. w \in All /\ Accepted \subseteq All
  BY NotNull DEF Accepted
<1>5. /\ TreeInv'
      /\ Accepted' = Accepted \cup {w}
      /\ \A v \in Accepted : Ancestors(v)' = Ancestors(v) /\ w \notin Ancestors(v)
      /\ \A v \in Accepted : Above(v)' \ {w} = Above(v)
  BY <1>3, AcceptTree
<1>6. States'
  <2>1. at \in Int \X Int
    BY TreeAssumption
  <2>2. pos' \in [All -> Int \X Int] /\ need_recalc_clip' \in [All -> BOOLEAN]
    BY <1>1, <1>2, <1>3, <2>1 DEF States
  <2> QED
    BY <1>1, <1>3, <1>5, <2>2 DEF States
<1>7. ClipForm'
  BY <1>1, <1>3 DEF ClipForm
<1>8. ASSUME NEW v \in Windows PROVE Fresh(v)'
  <2> SUFFICES ASSUME mapped'[v], ~ need_recalc_clip'[v] PROVE Current(v)'
    BY DEF Fresh
  <2>1. v \in Accepted /\ v # w /\ v \in All
    BY <1>1, <1>3, NotNull DEF States
  <2>2. Current(v)
    <3>1. mapped[v] /\ ~ need_recalc_clip[v]
      BY <1>1, <1>2, <1>3, <2>1 DEF States
    <3> QED
      BY <3>1 DEF TInv, Fresh
  <2>3. Lineage
    BY <1>3, TreeFactsHold DEF TreeFacts
  <2>4. Ancestors(v)' = Ancestors(v) /\ w \notin Ancestors(v) /\ Ancestors(v) \subseteq All
    BY <1>4, <1>5, <2>1, <2>3 DEF Lineage
  <2>5. \A u \in All : u # w => pos'[u] = pos[u]
    BY <1>1, <1>3 DEF States
  <2>6. pos \in [All -> Int \X Int] /\ pos' \in [All -> Int \X Int]
    BY <1>3, <1>6 DEF States
  <2>7. ~ mapped[w] /\ ~ mapped'[w]
    BY <1>1, <1>3, <1>4 DEF States
  <2>8. ASSUME NEW u \in All
        PROVE  \/ u \in Above(v) /\ u \in Above(v)' /\ mapped'[u] = mapped[u] /\ pos'[u] = pos[u]
               \/ /\ u \in Above(v) /\ mapped[u] => PointsOf(Area(u)) \cap PointsOf(Area(v)) = {}
                  /\ u \in Above(v)' /\ mapped'[u] =>
                       PointsOf(Area(u))' \cap PointsOf(Area(v)) = {}
    <3>1. CASE u = w
      BY <2>7, <3>1
    <3>2. CASE u # w
      <4>1. u \in Above(v)' <=> u \in Above(v)
        BY <1>5, <2>1, <3>2
      <4> QED
        BY <1>1, <2>5, <3>2, <4>1
    <3> QED
      BY <3>1, <3>2
  <2>9. TreeFacts /\ TreeFacts'
    BY <1>3, <1>5, TreeFactsHold, TreeFactsNext
  <2>10. pos'[v] = pos[v] /\ \A a \in Ancestors(v) : pos'[a] = pos[a]
    BY <2>1, <2>4, <2>5
  <2>11. clip'[v] = clip[v]
    BY <1>1
  <2> QED
    BY <2>1, <2>2, <2>4, <2>6, <2>8, <2>9, <2>10, <2>11, StaysCurrent
<1> QED
  BY <1>5, <1>6, <1>7, <1>8 DEF TInv

\* A sibling of v that is in the tree of w, which v is not in, is w itself.
LEMMA OutsideTree ==
  ASSUME TreeInv, NEW w \in Accepted, NEW v \in Accepted, v \notin Tree(w),
         NEW u \in All, u \in Above(v), u \in Tree(w)
  PROVE  u = w
<1>1. Lineage /\ Siblings
  BY TreeFactsHold DEF TreeFacts
<1>2. v \in All /\ w \in All
  BY NotNull DEF Accepted
<1>3. parent[v] # NULL /\ parent[u] = parent[v]
  BY <1>1, <1>2 DEF Siblings
<1>4. PICK p \in All : p = parent[v]
  BY <1>2, <1>3 DEF TreeInv, Links
<1>5. Ancestors(u) = {p} \cup Ancestors(p) /\ Ancestors(v) = {p} \cup Ancestors(p)
  BY <1>1, <1>2, <1>3, <1>4 DEF Lineage, UpOne
<1>6. u = w \/ w \in Ancestors(u)
  BY DEF Tree
<1>7. w \notin Ancestors(v)
  BY DEF Tree
<1> QED
  BY <1>5, <1>6, <1>7

\* Neither the window nor an ancestor of it is in a tree it is outside of.
LEMMA LineOutside ==
  ASSUME TreeInv, NEW w \in Accepted, NEW v \in Accepted, v \notin Tree(w)
  PROVE  /\ Ancestors(v) \subseteq All
         /\ \A a \in {v} \cup Ancestors(v) : a \notin Tree(w)
<1>1. Lineage
  BY TreeFactsHold DEF TreeFacts
<1>2. v \in All
  BY NotNull DEF Accepted
<1>3. ASSUME NEW a \in Ancestors(v) PROVE a \notin Tree(w)
  <2>1. Ancestors(a) \subseteq Ancestors(v)
    BY <1>1, <1>2 DEF Lineage
  <2>2. w \notin Ancestors(v)
    BY DEF Tree
  <2> QED
    BY <2>1, <2>2 DEF Tree
<1> QED
  BY <1>1, <1>2, <1>3 DEF Lineage, UpOne

\* A window under w overlaps w or is listed.
LEMMA ListedBelow ==
  ASSUME TreeInv, NEW w \in Accepted, NEW v \in Accepted, w \in Above(v), v \notin Overlapped(w)
  PROVE  ~ Overlap(v, w)
<1>1. Siblings
  BY TreeFactsHold DEF TreeFacts
<1>2. v \in All /\ w \in All
  BY NotNull DEF Accepted
<1>3. parent[v] # NULL /\ parent[w] = parent[v] /\ PlaceOf(w) < PlaceOf(v)
  BY <1>1, <1>2 DEF Siblings
<1>4. v \in Below(w)
  BY <1>1, <1>2, <1>3 DEF Siblings
<1>5. v \in Tree(v)
  BY DEF Tree
<1> QED
  BY <1>4, <1>5 DEF Overlapped

LEMMA ListedBelowNext ==
  ASSUME TreeInv', NEW w \in Accepted', NEW v \in Accepted', w \in Above(v)', v \notin Overlapped(w)'
  PROVE  ~ Overlap(v, w)'
<1>1. Siblings'
  BY TreeFactsNext DEF TreeFacts
<1>2. v \in All /\ w \in All
  BY NotNull DEF Accepted
<1>3. parent'[v] # NULL /\ parent'[w] = parent'[v] /\ PlaceOf(w)' < PlaceOf(v)'
  BY <1>1, <1>2 DEF Siblings
<1>4. v \in Below(w)'
  BY <1>1, <1>2, <1>3 DEF Siblings
<1>5. v \in Tree(v)'
  BY DEF Tree
<1> QED
  BY <1>4, <1>5 DEF Overlapped

\* The windows under the mapped one that it overlaps are listed by map_window.
LEMMA MapStep ==
  ASSUME TInv, NEW w \in All, MapWindow(w)
  PROVE  TInv'
<1> DEFINE list == Tree(w) \cup Overlapped(w)'
<1>1. /\ w \in asking
      /\ UNCHANGED <<parent, children, pos, clip, crashed>>
      /\ asking' = asking \ {w}
      /\ mapped' = [v \in All |-> v \in Tree(w) \/ mapped[v]]
      /\ need_recalc_clip' = [v \in All |-> v \in list \/ need_recalc_clip[v]]
  BY DEF MapWindow
<1> HIDE DEF list
<1>2. TreeInv /\ States /\ ClipForm
  BY DEF TInv
<1>3. /\ Accepted' = Accepted
      /\ \A v : /\ Ancestors(v)' = Ancestors(v) /\ Children(v)' = Children(v)
                /\ Above(v)' = Above(v) /\ Below(v)' = Below(v) /\ Tree(v)' = Tree(v)
      /\ TreeInv'
  BY <1>1, <1>2, SameTree
<1>4. w \in Accepted
  BY <1>1, <1>2 DEF States
<1>5. States'
  <2>1. \A v \in Tree(w) : v \in Accepted
    BY DEF Tree
  <2>2. \A v \in All : mapped'[v] = (v \in Tree(w) \/ mapped[v])
    BY <1>1
  <2>3. mapped' \in [All -> BOOLEAN] /\ need_recalc_clip' \in [All -> BOOLEAN]
    BY <1>1, <1>2 DEF States
  <2>4. \A v \in All : mapped'[v] => v \in Accepted'
    BY <1>2, <1>3, <2>1, <2>2 DEF States
  <2>5. asking' \subseteq Accepted' /\ pos' \in [All -> Int \X Int] /\ crashed' \in BOOLEAN
    BY <1>1, <1>2, <1>3 DEF States
  <2> QED
    BY <2>3, <2>4, <2>5 DEF States
<1>6. ClipForm'
  BY <1>1, <1>2 DEF ClipForm
<1>7. ASSUME NEW v \in Windows PROVE Fresh(v)'
  <2> SUFFICES ASSUME mapped'[v], ~ need_recalc_clip'[v] PROVE Current(v)'
    BY DEF Fresh
  <2>0. v \in All /\ w \in All
    BY NotNull
  <2>1. v \notin list /\ ~ need_recalc_clip[v]
    BY <1>1, <2>0
  <2>2. v \notin Tree(w) /\ v \notin Overlapped(w)'
    BY <2>1 DEF list
  <2>3. mapped[v] /\ v \in Accepted
    <3>1. mapped[v]
      BY <1>1, <2>0, <2>2
    <3> QED
      BY <1>2, <2>0, <3>1 DEF States
  <2>4. Current(v)
    BY <2>1, <2>3 DEF TInv, Fresh
  <2>5. TreeFacts /\ TreeFacts'
    BY <1>2, <1>3, TreeFactsHold, TreeFactsNext
  <2>6. pos' = pos /\ clip' = clip /\ pos \in [All -> Int \X Int]
    BY <1>1, <1>2 DEF States
  <2>7. ASSUME NEW u \in All
        PROVE  \/ u \in Above(v) /\ u \in Above(v)' /\ mapped'[u] = mapped[u] /\ pos'[u] = pos[u]
               \/ /\ u \in Above(v) /\ mapped[u] => PointsOf(Area(u)) \cap PointsOf(Area(v)) = {}
                  /\ u \in Above(v)' /\ mapped'[u] =>
                       PointsOf(Area(u))' \cap PointsOf(Area(v)) = {}
    <3>1. CASE u \notin Above(v)
      BY <1>3, <3>1
    <3>2. CASE u \in Above(v) /\ u \notin Tree(w)
      <4>1. mapped'[u] = mapped[u]
        <5>1. mapped[u] \in BOOLEAN
          BY <1>2 DEF States
        <5> QED
          BY <1>1, <3>2, <5>1
      <4> QED
        BY <1>3, <2>6, <3>2, <4>1
    <3>3. CASE u \in Above(v) /\ u \in Tree(w)
      <4>1. u = w
        BY <1>2, <1>4, <2>2, <2>3, <3>3, OutsideTree
      <4>2. ~ Overlap(v, w)'
        BY <1>3, <1>4, <2>2, <2>3, <3>3, <4>1, ListedBelowNext
      <4>3. mapped'[w]
        BY <1>1, <2>0, <3>3, <4>1
      <4>4. /\ PointsOf(Area(w))' = PointsOf(Area(w))
            /\ PointsOf(Area(v))' = PointsOf(Area(v))
        BY <2>6 DEF Area, PointsOf
      <4>5. PointsOf(Area(v)) \cap PointsOf(Area(w)) = {}
        BY <4>2, <4>3, <4>4 DEF Overlap
      <4> QED
        BY <4>1, <4>4, <4>5
    <3> QED
      BY <3>1, <3>2, <3>3
  <2> QED
    BY <1>3, <2>0, <2>4, <2>5, <2>6, <2>7, StaysCurrent
<1> QED
  BY <1>3, <1>5, <1>6, <1>7 DEF TInv

\* So are those that overlap the moved one, before or after, by move_window.
LEMMA MoveStep ==
  ASSUME TInv, NEW w \in All, NEW to \in Positions, MoveWindow(w, to)
  PROVE  TInv'
<1> DEFINE list == Tree(w) \cup Overlapped(w) \cup Overlapped(w)'
<1>1. /\ w \in Accepted
      /\ UNCHANGED <<parent, children, mapped, clip, asking, crashed>>
      /\ pos' = [v \in All |-> IF v \in Tree(w)
                               THEN <<pos[v][1] + to[1] - pos[w][1], pos[v][2] + to[2] - pos[w][2]>>
                               ELSE pos[v]]
      /\ need_recalc_clip' = [v \in All |-> v \in list \/ need_recalc_clip[v]]
  BY DEF MoveWindow
<1> HIDE DEF list
<1>2. TreeInv /\ States /\ ClipForm
  BY DEF TInv
<1>3. /\ Accepted' = Accepted
      /\ \A v : /\ Ancestors(v)' = Ancestors(v) /\ Children(v)' = Children(v)
                /\ Above(v)' = Above(v) /\ Below(v)' = Below(v) /\ Tree(v)' = Tree(v)
      /\ TreeInv'
  BY <1>1, <1>2, SameTree
<1>4. pos' \in [All -> Int \X Int]
  <2>1. /\ to[1] \in Int /\ to[2] \in Int
        /\ \A v \in All : pos[v][1] \in Int /\ pos[v][2] \in Int /\ pos[v] \in Int \X Int
    BY <1>2, TreeAssumption DEF States
  <2> QED
    BY <1>1, <2>1
<1>5. States'
  <2>1. need_recalc_clip' \in [All -> BOOLEAN]
    BY <1>1, <1>2 DEF States
  <2> QED
    BY <1>1, <1>2, <1>3, <1>4, <2>1 DEF States
<1>6. ClipForm'
  BY <1>1, <1>2 DEF ClipForm
<1>7. \A v \in All : v \notin Tree(w) => pos'[v] = pos[v]
  BY <1>1
<1>8. ASSUME NEW v \in Windows PROVE Fresh(v)'
  <2> SUFFICES ASSUME mapped'[v], ~ need_recalc_clip'[v] PROVE Current(v)'
    BY DEF Fresh
  <2>0. v \in All /\ w \in All
    BY NotNull
  <2>1. v \notin list /\ ~ need_recalc_clip[v]
    BY <1>1, <2>0
  <2>2. v \notin Tree(w) /\ v \notin Overlapped(w) /\ v \notin Overlapped(w)'
    BY <2>1 DEF list
  <2>3. mapped[v] /\ v \in Accepted
    BY <1>1, <1>2, <2>0 DEF States
  <2>4. Current(v)
    BY <2>1, <2>3 DEF TInv, Fresh
  <2>5. TreeFacts /\ TreeFacts'
    BY <1>2, <1>3, TreeFactsHold, TreeFactsNext
  <2>6. clip'[v] = clip[v] /\ pos \in [All -> Int \X Int] /\ mapped' = mapped
    BY <1>1, <1>2 DEF States
  <2>7. pos'[v] = pos[v] /\ \A a \in Ancestors(v) : pos'[a] = pos[a]
    <3>1. Ancestors(v) \subseteq All /\ \A a \in {v} \cup Ancestors(v) : a \notin Tree(w)
      BY <1>1, <1>2, <2>2, <2>3, LineOutside
    <3> QED
      BY <1>7, <2>0, <3>1
  <2>8. ASSUME NEW u \in All
        PROVE  \/ u \in Above(v) /\ u \in Above(v)' /\ mapped'[u] = mapped[u] /\ pos'[u] = pos[u]
               \/ /\ u \in Above(v) /\ mapped[u] => PointsOf(Area(u)) \cap PointsOf(Area(v)) = {}
                  /\ u \in Above(v)' /\ mapped'[u] =>
                       PointsOf(Area(u))' \cap PointsOf(Area(v)) = {}
    <3>1. CASE u \notin Above(v)
      BY <1>3, <3>1
    <3>2. CASE u \in Above(v) /\ u \notin Tree(w)
      BY <1>3, <1>7, <2>6, <3>2
    <3>3. CASE u \in Above(v) /\ u \in Tree(w)
      <4>1. u = w
        BY <1>1, <1>2, <2>2, <2>3, <3>3, OutsideTree
      <4>2. ~ Overlap(v, w)
        BY <1>1, <1>2, <2>2, <2>3, <3>3, <4>1, ListedBelow
      <4>3. ~ Overlap(v, w)'
        BY <1>1, <1>3, <2>2, <2>3, <3>3, <4>1, ListedBelowNext
      <4>4. PointsOf(Area(v))' = PointsOf(Area(v))
        BY <2>7 DEF Area, PointsOf
      <4>5. mapped[w] => PointsOf(Area(w)) \cap PointsOf(Area(v)) = {}
        BY <2>3, <4>2 DEF Overlap
      <4>6. mapped'[w] => PointsOf(Area(w))' \cap PointsOf(Area(v)) = {}
        BY <2>3, <2>6, <4>3, <4>4 DEF Overlap
      <4> QED
        BY <4>1, <4>5, <4>6
    <3> QED
      BY <3>1, <3>2, <3>3
  <2> QED
    BY <1>3, <1>4, <2>0, <2>4, <2>5, <2>6, <2>7, <2>8, StaysCurrent
<1> QED
  BY <1>3, <1>5, <1>6, <1>8 DEF TInv

\* What a clip is compared with depends on the tree, the places and mapped only.
LEMMA SamePlaces ==
  ASSUME UNCHANGED <<parent, children, pos, mapped>>, NEW w, NEW R
  PROVE  /\ Bounds(w)' = Bounds(w)
         /\ MappedRects(w, Above(w))' = MappedRects(w, Above(w))
         /\ Covered(w, R)' = Covered(w, R)
<1>1. Ancestors(w)' = Ancestors(w) /\ Above(w)' = Above(w)
  BY SameTree
<1>2. Bounds(w)' = Bounds(w)
  BY <1>1 DEF Bounds, Area
<1>3. MappedRects(w, Above(w))' = MappedRects(w, Above(w))
  BY <1>1 DEF MappedRects, RelativeTo
<1>4. Covered(w, R)' = Covered(w, R)
  BY DEF Covered, RelativeTo
<1> QED
  BY <1>2, <1>3, <1>4

LEMMA CheckStep ==
  ASSUME TInv, NEW w \in All, CheckMapped(w)
  PROVE  TInv'
<1>1. /\ w \in Accepted /\ asking' = asking \cup {w}
      /\ UNCHANGED <<parent, children, pos, mapped, need_recalc_clip, clip, crashed>>
  BY DEF CheckMapped
<1>2. TreeInv' /\ Accepted' = Accepted
  BY <1>1, SameTree DEF TInv
<1>3. States' /\ ClipForm'
  BY <1>1, <1>2 DEF TInv, States, ClipForm
<1>4. ASSUME NEW v \in Windows PROVE Fresh(v)'
  <2>1. Current(v) => Current(v)'
    <3>1. PICK R : R = clip[v].above
      OBVIOUS
    <3>2. /\ Bounds(v)' = Bounds(v) /\ Covered(v, R)' = Covered(v, R)
          /\ MappedRects(v, Above(v))' = MappedRects(v, Above(v))
      BY <1>1, SamePlaces
    <3>3. PICK M : M = MappedRects(v, Above(v))
      OBVIOUS
    <3>4. Covered(v, M)' = Covered(v, M)
      BY <1>1, SamePlaces
    <3> QED
      BY <1>1, <3>1, <3>2, <3>3, <3>4 DEF Current, Covered
  <2> QED
    BY <1>1, <2>1 DEF TInv, Fresh
<1> QED
  BY <1>2, <1>3, <1>4 DEF TInv

\* The clip of an ancestor after calc_window_clip: what is above it is cut again.
Added(v) == [clip[v] EXCEPT !.above = @ \cup MappedRects(v, Above(v))]

\* What calc_window_clip does to the clip of w and to the others'.
LEMMA CalcClipIs ==
  ASSUME NEW w \in All, w \notin Ancestors(w)
  PROVE  /\ CalcClip(w) = [v \in All |-> CalcClip(w)[v]]
         /\ Bounds(w) = NULL => CalcClip(w)[w] = NoClip
         /\ Bounds(w) # NULL =>
              CalcClip(w)[w] = [bounds |-> Bounds(w), above |-> MappedRects(w, Above(w)),
                                inside |-> MappedRects(w, Children(w))]
         /\ \A v \in All : v # w => CalcClip(w)[v] = Added(v) \/ CalcClip(w)[v] = clip[v]
<1> DEFINE Adds(v) == v \in Ancestors(w) \ {root} /\ Bounds(w) # NULL /\ clip[v].bounds # NULL
           New == [bounds |-> Bounds(w), above |-> MappedRects(w, Above(w)),
                   inside |-> MappedRects(w, Children(w))]
<1>1. CalcClip(w) = [v \in All |->
        CASE v = w -> IF Bounds(w) = NULL THEN NoClip ELSE New
          [] Adds(v) -> Added(v)
          [] OTHER -> clip[v]]
  BY DEF CalcClip, Added
<1>2. ~ Adds(w)
  OBVIOUS
<1> HIDE DEF Adds, New
<1>3. \A v \in All : CalcClip(w)[v] =
        CASE v = w -> IF Bounds(w) = NULL THEN NoClip ELSE New
          [] Adds(v) -> Added(v)
          [] OTHER -> clip[v]
  BY <1>1
<1>4. CalcClip(w)[w] = IF Bounds(w) = NULL THEN NoClip ELSE New
  BY <1>2, <1>3
<1>5. \A v \in All : v # w => CalcClip(w)[v] = Added(v) \/ CalcClip(w)[v] = clip[v]
  BY <1>3
<1>6. CalcClip(w) = [v \in All |-> CalcClip(w)[v]]
  BY <1>1
<1> QED
  BY <1>4, <1>5, <1>6 DEF New

LEMMA AddedIs ==
  ASSUME ClipForm, NEW v \in All
  PROVE  Added(v) = [bounds |-> clip[v].bounds,
                     above |-> clip[v].above \cup MappedRects(v, Above(v)),
                     inside |-> clip[v].inside]
<1>1. PICK b, a, i, m : b = clip[v].bounds /\ a = clip[v].above /\ i = clip[v].inside
                        /\ m = MappedRects(v, Above(v))
  OBVIOUS
<1>2. clip[v] = [bounds |-> b, above |-> a, inside |-> i]
  BY <1>1 DEF ClipForm
<1> QED
  BY <1>1, <1>2 DEF Added

\* A clip that is calculated is current, and what is cut out of the ancestors'
\* is what was cut out of them anyway.
LEMMA DrawStep ==
  ASSUME TInv, NEW w \in All, Draw(w)
  PROVE  TInv'
<1>1. w \in Accepted /\ UNCHANGED <<parent, children, pos, mapped, asking>>
  BY DEF Draw
<1>2. TreeInv' /\ Accepted' = Accepted /\ TreeInv /\ TreeFacts
  BY <1>1, SameTree, TreeFactsHold DEF TInv
<1>3. \/ crashed' = TRUE /\ UNCHANGED <<need_recalc_clip, clip>>
      \/ /\ need_recalc_clip' = [need_recalc_clip EXCEPT ![w] = FALSE]
         /\ clip' = IF mapped[w] THEN CalcClip(w) ELSE clip
         /\ UNCHANGED crashed
  BY DEF Draw
<1>4. crashed' \in BOOLEAN /\ need_recalc_clip' \in [All -> BOOLEAN]
  BY <1>3 DEF TInv, States
<1>5. States'
  BY <1>1, <1>2, <1>4 DEF TInv, States
<1>6. w \notin Ancestors(w)
  BY <1>2 DEF TreeFacts, Lineage
<1>7. ClipForm /\ States
  BY DEF TInv
<1> DEFINE C == CalcClip(w)
<1>10. /\ C = [v \in All |-> C[v]]
       /\ Bounds(w) = NULL => C[w] = [bounds |-> NULL, above |-> {}, inside |-> {}]
       /\ Bounds(w) # NULL =>
            C[w] = [bounds |-> Bounds(w), above |-> MappedRects(w, Above(w)),
                    inside |-> MappedRects(w, Children(w))]
       /\ \A v \in All : v # w => C[v] = Added(v) \/ C[v] = clip[v]
  BY <1>6, CalcClipIs DEF NoClip
<1>11. clip' = clip \/ clip' = C
  BY <1>3
<1>12. mapped[w] => \/ clip' = C
                    \/ clip' = clip /\ need_recalc_clip' = need_recalc_clip
  BY <1>3
<1> HIDE DEF C
<1>8. ClipForm'
  <2>1. CASE clip' = clip
    BY <1>7, <2>1 DEF ClipForm
  <2>2. CASE clip' = C
    <3>1. clip' = [v \in All |-> clip'[v]]
      BY <1>10, <2>2
    <3>2. ASSUME NEW v \in All
          PROVE  \E b, a, i : clip'[v] = [bounds |-> b, above |-> a, inside |-> i]
      <4>1. CASE v = w
        BY <1>10, <2>2, <4>1
      <4>2. CASE v # w
        <5>1. clip'[v] = Added(v) \/ clip'[v] = clip[v]
          BY <1>10, <2>2, <4>2
        <5>2. CASE clip'[v] = Added(v)
          BY <1>7, <5>2, AddedIs
        <5>3. CASE clip'[v] = clip[v]
          BY <1>7, <5>3 DEF ClipForm
        <5> QED
          BY <5>1, <5>2, <5>3
      <4> QED
        BY <4>1, <4>2
    <3>3. ASSUME NEW v \in All
          PROVE  clip'[v] = [bounds |-> clip'[v].bounds, above |-> clip'[v].above,
                             inside |-> clip'[v].inside]
      <4>1. PICK b, a, i : clip'[v] = [bounds |-> b, above |-> a, inside |-> i]
        BY <3>2
      <4> QED
        BY <4>1
    <3> QED
      BY <3>1, <3>3 DEF ClipForm
  <2> QED
    BY <1>11, <2>1, <2>2
<1>9. ASSUME NEW v \in Windows PROVE Fresh(v)'
  <2> SUFFICES ASSUME mapped'[v], ~ need_recalc_clip'[v] PROVE Current(v)'
    BY DEF Fresh
  <2>1. PICK M : M = MappedRects(v, Above(v))
    OBVIOUS
  <2>2. PICK R : R = clip'[v].above
    OBVIOUS
  <2>3. /\ Bounds(v)' = Bounds(v) /\ MappedRects(v, Above(v))' = M
        /\ Covered(v, R)' = Covered(v, R) /\ Covered(v, M)' = Covered(v, M)
    BY <1>1, <2>1, SamePlaces
  <2>4. v \in All
    BY NotNull
  <2>5. /\ clip'[v].bounds = Bounds(v)
        /\ Bounds(v) # NULL => Covered(v, R) = Covered(v, M)
    <3>1. CASE v = w /\ clip' = C /\ Bounds(v) = NULL
      BY <1>10, <3>1
    <3>2. CASE v = w /\ clip' = C /\ Bounds(v) # NULL
      <4>1. clip'[v].bounds = Bounds(v) /\ R = M
        BY <1>10, <2>1, <2>2, <3>2
      <4> QED
        BY <4>1
    <3>3. CASE v # w \/ (clip' = clip /\ need_recalc_clip' = need_recalc_clip)
      <4>1. ~ need_recalc_clip[v]
        BY <1>3, <1>7, <2>4, <3>3 DEF States
      <4>2. Current(v)
        BY <1>1, <4>1 DEF TInv, Fresh
      <4>3. \/ clip'[v] = clip[v]
            \/ clip'[v].bounds = clip[v].bounds /\ R = clip[v].above \cup M
        <5>1. CASE clip' = clip
          BY <5>1
        <5>2. CASE clip' = C /\ v # w
          <6>1. CASE C[v] = clip[v]
            BY <5>2, <6>1
          <6>2. CASE C[v] = Added(v)
            BY <1>7, <2>1, <2>2, <2>4, <5>2, <6>2, AddedIs
          <6> QED
            BY <1>10, <2>4, <5>2, <6>1, <6>2
        <5> QED
          BY <1>11, <3>3, <5>1, <5>2
      <4>4. PICK A : A = clip[v].above
        OBVIOUS
      <4>5. Covered(v, A \cup M) = Covered(v, A) \cup Covered(v, M)
        BY CoveredUnion
      <4>6. clip[v].bounds = Bounds(v) /\ (Bounds(v) # NULL => Covered(v, A) = Covered(v, M))
        BY <2>1, <4>2, <4>4 DEF Current
      <4>7. CASE clip'[v] = clip[v]
        BY <2>2, <4>4, <4>6, <4>7
      <4>8. CASE clip'[v].bounds = clip[v].bounds /\ R = A \cup M
        BY <4>5, <4>6, <4>8
      <4> QED
        BY <4>3, <4>4, <4>7, <4>8
    <3>4. v # w \/ clip' = C \/ (clip' = clip /\ need_recalc_clip' = need_recalc_clip)
      BY <1>1, <1>12
    <3> QED
      BY <3>1, <3>2, <3>3, <3>4
  <2> QED
    BY <2>1, <2>2, <2>3, <2>5 DEF Current, Covered
<1> QED
  BY <1>2, <1>5, <1>8, <1>9 DEF TInv

LEMMA StayTInv ==
  ASSUME TInv, UNCHANGED treeVars
  PROVE  TInv'
<1>1. UNCHANGED <<parent, children, pos, mapped, need_recalc_clip, clip, asking, crashed>>
  BY DEF treeVars
<1>2. TreeInv' /\ Accepted' = Accepted
  BY <1>1, SameTree DEF TInv
<1>3. States' /\ ClipForm'
  BY <1>1, <1>2 DEF TInv, States, ClipForm
<1>4. ASSUME NEW v \in Windows PROVE Fresh(v)'
  <2>1. PICK R : R = clip[v].above
    OBVIOUS
  <2>2. PICK M : M = MappedRects(v, Above(v))
    OBVIOUS
  <2>3. /\ Bounds(v)' = Bounds(v) /\ MappedRects(v, Above(v))' = M
        /\ Covered(v, R)' = Covered(v, R) /\ Covered(v, M)' = Covered(v, M)
    BY <1>1, <2>2, SamePlaces
  <2>4. Current(v) => Current(v)'
    BY <1>1, <2>1, <2>2, <2>3 DEF Current, Covered
  <2> QED
    BY <1>1, <2>4 DEF TInv, Fresh
<1> QED
  BY <1>2, <1>3, <1>4 DEF TInv

\* The invariant holds of every state: one lemma for each action.
LEMMA TInvHolds == TreeSpec => []TInv
<1>1. TreeInit => TInv
  BY InitTInv
<1>2. TInv /\ [TreeNext]_treeVars => TInv'
  BY AcceptStep, CheckStep, MapStep, MoveStep, DrawStep, StayTInv DEF TreeNext
<1> QED
  BY <1>1, <1>2, PTL DEF TreeSpec

\* A list without repetitions is as long as the set of its members.
LEMMA ListLength ==
  ASSUME TreeInv, NEW p \in All
  PROVE  Len(children[p]) = Cardinality(Children(p))
<1> DEFINE s == children[p]
           f == [i \in 1..Len(s) |-> s[i]]
<1>1. s \in Seq(Windows) /\ Len(s) \in Nat /\ DOMAIN s = 1..Len(s)
  BY DEF TreeInv, Lists
<1>2. Children(p) = {s[i] : i \in 1..Len(s)}
  BY <1>1 DEF Children
<1>3. \A i, j \in 1..Len(s) : s[i] = s[j] => i = j
  BY <1>1 DEF TreeInv, Lists
<1> HIDE DEF s
<1>4. f \in Bijection(1..Len(s), Children(p))
  BY <1>1, <1>2, <1>3 DEF Bijection, Injection, IsInjective, Surjection
<1> HIDE DEF f
<1>5. IsFiniteSet(1..Len(s)) /\ Cardinality(1..Len(s)) = Len(s)
  BY <1>1, FS_Interval
<1>6. Cardinality(1..Len(s)) = Cardinality(Children(p))
  BY <1>4, <1>5, FS_Bijection DEF ExistsBijection
<1> QED
  BY <1>5, <1>6 DEF s

LEMMA TInvTypes == TInv => TreeTypeOK
<1> SUFFICES ASSUME TInv PROVE TreeTypeOK
  OBVIOUS
<1>1. parent \in [All -> All \cup {NULL}]
  BY DEF TInv, TreeInv, Links
<1>2. ASSUME NEW p \in All
      PROVE  /\ Children(p) = {w \in All : parent[w] = p}
             /\ Len(children[p]) = Cardinality(Children(p))
  <2>1. children[p] \in Seq(Windows)
    BY DEF TInv, TreeInv, Lists
  <2>2. Children(p) \subseteq Windows
    BY <2>1, ElementOfSeq DEF Children
  <2>3. Children(p) = {w \in All : parent[w] = p}
    BY <2>2, NotNull DEF TInv, TreeInv, Lists
  <2> QED
    BY <2>3, ListLength DEF TInv
<1> QED
  BY <1>1, <1>2 DEF TreeTypeOK, TInv, States

\* Whatever is accepted where (accept_window), the links make a tree in which a
\* window is among the children of its parent, once, and of nobody else.
THEOREM TreeIsWellFormed == TreeSpec => []TreeTypeOK
BY TInvHolds, TInvTypes, PTL

\* A window that draws without calculating its clip draws through the one that
\* would be calculated now: map_window and move_window list every window whose
\* clip they change, as far as windows above it go.
THEOREM ClipsAreFresh == TreeSpec => []ClipIsFresh
<1>1. TInv => ClipIsFresh
  BY TInvTypes DEF TInv, ClipIsFresh, Fresh, Current
<1> QED
  BY <1>1, TInvHolds, PTL

-----------------------------------------------------------------------------
(* The window under the pointer *)

\* The mapped children of w that have the point, and the topmost of them.
Under(p, w) ==
  {i \in DOMAIN children[w] : mapped[children[w][i]] /\ p \in PointsOf(Area(children[w][i]))}

First(p, w) == children[w][CHOOSE i \in Under(p, w) : \A j \in Under(p, w) : i <= j]

\* Nothing that is not inside of w hides the point in w.
Open(p, w) ==
  \A a \in {w} \cup Ancestors(w) :
    /\ mapped[a] /\ p \in PointsOf(Area(a))
    /\ \A v \in Above(a) : mapped[v] => p \notin PointsOf(Area(v))

\* A window is visible at a point that is not hidden in it, nor by a child.
LEMMA VisibleIs ==
  ASSUME NEW w, NEW p
  PROVE  p \in Visible(w) <=> Open(p, w) /\ Under(p, w) = {}
<1> DEFINE line == {w} \cup Ancestors(w)
           covering == {v \in Children(w) \cup UNION {Above(a) : a \in line} : mapped[v]}
<1>1. p \in Visible(w) <=>
        /\ \A a \in line : mapped[a]
        /\ p \in PointsOf(Area(w))
        /\ \A a \in Ancestors(w) : p \in PointsOf(Area(a))
        /\ \A v \in covering : p \notin PointsOf(Area(v))
  BY DEF Visible
<1>2. Under(p, w) = {} <=> \A v \in Children(w) : mapped[v] => p \notin PointsOf(Area(v))
  BY DEF Under, Children
<1>3. (\A v \in covering : p \notin PointsOf(Area(v))) <=>
        /\ Under(p, w) = {}
        /\ \A a \in line : \A v \in Above(a) : mapped[v] => p \notin PointsOf(Area(v))
  BY <1>2
<1> QED
  BY <1>1, <1>3 DEF Open

\* The topmost is a child, and no other one that has the point is before it.
LEMMA FirstIs ==
  ASSUME TreeInv, NEW w \in All, NEW p, Under(p, w) # {}
  PROVE  /\ First(p, w) \in All /\ parent[First(p, w)] = w
         /\ PlaceOf(First(p, w)) \in Under(p, w)
         /\ children[w][PlaceOf(First(p, w))] = First(p, w)
         /\ \A j \in Under(p, w) : PlaceOf(First(p, w)) <= j
<1>1. children[w] \in Seq(Windows) /\ DOMAIN children[w] = 1..Len(children[w])
  BY DEF TreeInv, Lists
<1>2. Under(p, w) \subseteq Nat
  BY <1>1 DEF Under
<1>3. PICK i : /\ i \in Under(p, w) /\ \A j \in Under(p, w) : i <= j
               /\ First(p, w) = children[w][i]
  BY <1>2, LeastNumber DEF First
<1>4. i \in DOMAIN children[w]
  BY <1>3 DEF Under
<1>5. children[w][i] \in All
  BY <1>1, <1>4, ElementOfSeq, NotNull
<1>6. parent[children[w][i]] = w
  BY <1>4, <1>5 DEF TreeInv, Lists, Children
<1>7. PlaceOf(children[w][i]) = i
  <2>1. Places
    BY TreeFactsHold DEF TreeFacts
  <2>2. w # NULL
    BY NotNull
  <2> QED
    BY <1>4, <1>5, <1>6, <2>1, <2>2 DEF Places
<1> QED
  BY <1>3, <1>5, <1>6, <1>7

\* find_visible_window's walk: it stops where no mapped child has the point.
Walk(p, find) ==
  \A w \in All : find[w] = IF Under(p, w) = {} THEN w ELSE find[First(p, w)]

\* From each window the walk's ends are the least set of windows it comes to.
LEMMA WalkExists ==
  ASSUME TreeInv, NEW p
  PROVE  \E find : /\ Walk(p, find)
                   /\ FindWindow(p) = IF mapped[root] /\ p \in PointsOf(Area(root))
                                      THEN find[root] ELSE NULL
<1> DEFINE Sets(v) == {S \in SUBSET All :
                         /\ v \in S
                         /\ \A s \in S : Under(p, s) # {} => First(p, s) \in S}
           A(v) == {a \in All : \A S \in Sets(v) : a \in S}
           Ends(v) == {a \in A(v) : Under(p, a) = {}}
           Step(g) == [w \in All |-> IF Under(p, w) = {} THEN w ELSE g[First(p, w)]]
           find == CHOOSE g : g = Step(g)
           End(v) == CHOOSE a : a \in Ends(v)
           ends == [v \in All |-> End(v)]
<1>1. \A v \in All : Under(p, v) # {} => First(p, v) \in All
  BY FirstIs
<1>2. ASSUME NEW v \in All, Under(p, v) = {} PROVE A(v) = {v}
  <2>1. {v} \in Sets(v)
    BY <1>2
  <2> QED
    BY <2>1
<1>3. ASSUME NEW v \in All, Under(p, v) # {} PROVE A(v) = {v} \cup A(First(p, v))
  <2> DEFINE f == First(p, v)
  <2>1. f \in All
    BY <1>1, <1>3
  <2>2. f \in A(f)
    BY <2>1
  <2>3. {v} \cup A(f) \in Sets(v)
    <3>1. ASSUME NEW s \in A(f), Under(p, s) # {} PROVE First(p, s) \in A(f)
      <4>1. First(p, s) \in All
        BY <1>1, <3>1
      <4> QED
        BY <3>1, <4>1
    <3> QED
      BY <2>2, <3>1
  <2>4. A(v) \subseteq {v} \cup A(f)
    BY <2>3
  <2>5. Sets(v) \subseteq Sets(f)
    BY <1>3
  <2>6. A(f) \subseteq A(v)
    BY <2>5
  <2> QED
    BY <2>4, <2>6
<1> HIDE DEF A
<1>4. ends = Step(ends)
  <2>1. ASSUME NEW v \in All
        PROVE  End(v) = IF Under(p, v) = {} THEN v ELSE ends[First(p, v)]
    <3>1. CASE Under(p, v) = {}
      <4>1. Ends(v) = {v}
        BY <1>2, <3>1
      <4> QED
        BY <3>1, <4>1
    <3>2. CASE Under(p, v) # {}
      <4>1. Ends(v) = Ends(First(p, v))
        BY <1>3, <3>2
      <4>2. First(p, v) \in All
        BY <1>1, <3>2
      <4> QED
        BY <3>2, <4>1, <4>2
    <3> QED
      BY <3>1, <3>2
  <2> HIDE DEF End
  <2> QED
    BY <2>1
<1> HIDE DEF ends
<1>5. find = Step(find)
  BY <1>4
<1>6. FindWindow(p) = IF mapped[root] /\ p \in PointsOf(Area(root)) THEN find[root] ELSE NULL
  BY DEF FindWindow, Under, First
<1> HIDE DEF find
<1>7. Walk(p, find)
  BY <1>5 DEF Walk
<1> QED
  BY <1>6, <1>7

\* Where the point is not hidden from the outside, the walk comes by.
LEMMA WalkComesBy ==
  ASSUME TreeInv, NEW p, NEW find, Walk(p, find), NEW w \in Accepted, Open(p, w)
  PROVE  find[root] = find[w]
<1> DEFINE P == {v \in All : v \in Accepted /\ Open(p, v) => find[root] = find[v]}
<1>1. Lineage /\ UpOne /\ Siblings /\ Places
  BY TreeFactsHold DEF TreeFacts, Lineage
<1>2. ASSUME NEW v \in All, parent[v] # NULL => parent[v] \in P PROVE v \in P
  <2> SUFFICES ASSUME v \in Accepted, Open(p, v), v # root PROVE find[root] = find[v]
    OBVIOUS
  <2>1. parent[v] # NULL
    BY DEF Accepted
  <2>2. PICK q \in All : q = parent[v]
    BY <2>1 DEF TreeInv, Links
  <2>3. Ancestors(v) = {q} \cup Ancestors(q)
    BY <1>1, <2>2 DEF UpOne
  <2>4. q \in Accepted /\ Open(p, q)
    BY <2>1, <2>2, <2>3 DEF TreeInv, Links, Open
  <2>5. find[root] = find[q]
    BY <1>2, <2>1, <2>2, <2>4
  <2>6. PlaceOf(v) \in Under(p, q)
    BY <1>1, <2>1, <2>2 DEF Places, Under, Open
  <2>7. First(p, q) = v
    <3> DEFINE u == First(p, q)
    <3>1. /\ u \in All /\ parent[u] = q /\ PlaceOf(u) \in Under(p, q)
          /\ children[q][PlaceOf(u)] = u /\ PlaceOf(u) <= PlaceOf(v)
      BY <2>6, FirstIs
    <3> HIDE DEF u
    <3>2. mapped[u] /\ p \in PointsOf(Area(u))
      BY <3>1 DEF Under
    <3>3. u \notin Above(v)
      BY <3>2 DEF Open
    <3>4. ~ PlaceOf(u) < PlaceOf(v)
      BY <1>1, <2>1, <2>2, <3>1, <3>3 DEF Siblings
    <3>5. PlaceOf(u) \in Nat /\ PlaceOf(v) \in Nat
      <4>1. children[q] \in Seq(Windows) /\ DOMAIN children[q] = 1..Len(children[q])
        BY DEF TreeInv, Lists
      <4> QED
        BY <2>6, <3>1, <4>1 DEF Under
    <3>6. PlaceOf(u) = PlaceOf(v)
      BY <3>1, <3>4, <3>5
    <3>7. children[q][PlaceOf(v)] = v
      BY <1>1, <2>1, <2>2 DEF Places
    <3> QED
      BY <3>1, <3>6, <3>7 DEF u
  <2>8. find[q] = find[v]
    BY <2>6, <2>7 DEF Walk
  <2> QED
    BY <2>5, <2>8
<1> HIDE DEF P
<1>3. All \subseteq P
  BY <1>2, Downwards DEF TreeInv
<1>4. w \in All
  BY NotNull DEF Accepted
<1> QED
  BY <1>3, <1>4 DEF P

\* Among the windows in which the point is not hidden from the outside there is
\* one that has no child there: one that is as deep as any.
LEMMA WalkEnds ==
  ASSUME TreeInv, NEW p, Open(p, root)
  PROVE  \E w \in Accepted : Open(p, w) /\ Under(p, w) = {}
<1> DEFINE Ws == {w \in All : w \in Accepted /\ Open(p, w)}
           Left(w) == Cardinality(All \ Ancestors(w))
           T == {Left(w) : w \in Ws}
<1>1. Lineage /\ UpOne /\ Siblings /\ Places
  BY TreeFactsHold DEF TreeFacts, Lineage
<1>2. IsFiniteSet(All)
  BY TreeAssumption, FS_AddElement DEF All
<1>3. \A w \in All : IsFiniteSet(All \ Ancestors(w)) /\ Left(w) \in Nat
  BY <1>2, FS_Difference, FS_CardinalityType
<1>4. root \in Ws
  BY NotNull DEF Accepted
<1>5. T \subseteq Nat /\ T # {}
  BY <1>3, <1>4
<1>6. PICK n \in T : \A k \in T : n <= k
  BY <1>5, LeastNumber
<1>7. PICK w \in Ws : n = Left(w)
  OBVIOUS
<1>8. ASSUME Under(p, w) # {} PROVE FALSE
  <2>1. PICK u \in All : u = First(p, w)
    BY <1>8, FirstIs
  <2>2. /\ parent[u] = w /\ PlaceOf(u) \in Under(p, w) /\ children[w][PlaceOf(u)] = u
        /\ \A j \in Under(p, w) : PlaceOf(u) <= j
    BY <1>8, <2>1, FirstIs
  <2>3. mapped[u] /\ p \in PointsOf(Area(u))
    BY <2>2 DEF Under
  <2>4. Ancestors(u) = {w} \cup Ancestors(w) /\ Ancestors(w) \subseteq All
    BY <1>1, <2>2 DEF UpOne
  <2>5. u \in Accepted
    BY <2>2, NotNull DEF Accepted
  <2>6. ASSUME NEW v \in Above(u), mapped[v] PROVE p \notin PointsOf(Area(v))
    <3>1. v \in All
      BY <1>1, <2>6 DEF Siblings
    <3>2. w # NULL
      BY NotNull
    <3>3. parent[v] = w /\ PlaceOf(v) < PlaceOf(u)
      BY <1>1, <2>2, <2>6, <3>1 DEF Siblings
    <3>4. PlaceOf(v) \in DOMAIN children[w] /\ children[w][PlaceOf(v)] = v
      BY <1>1, <3>1, <3>2, <3>3 DEF Places
    <3>5. PlaceOf(v) \in Int /\ PlaceOf(u) \in Int
      <4>1. children[w] \in Seq(Windows) /\ DOMAIN children[w] = 1..Len(children[w])
        BY DEF TreeInv, Lists
      <4> QED
        BY <2>2, <3>4, <4>1 DEF Under
    <3>6. PlaceOf(v) \notin Under(p, w)
      BY <2>2, <3>3, <3>5
    <3> QED
      BY <2>6, <3>4, <3>6 DEF Under
  <2>7. u \in Ws
    BY <2>3, <2>4, <2>5, <2>6 DEF Open
  <2>8. Left(u) < Left(w)
    <3>1. All \ Ancestors(u) \subseteq All \ Ancestors(w) /\ All \ Ancestors(u) # All \ Ancestors(w)
      <4>1. w \notin Ancestors(w)
        BY <1>1 DEF Lineage
      <4> QED
        BY <2>4, <4>1
    <3>2. IsFiniteSet(All \ Ancestors(w))
      BY <1>3
    <3>3. PICK S1 : S1 = All \ Ancestors(w)
      OBVIOUS
    <3>4. PICK S2 : S2 = All \ Ancestors(u)
      OBVIOUS
    <3>5. Cardinality(S2) <= Cardinality(S1) /\ (Cardinality(S2) = Cardinality(S1) => S2 = S1)
      BY <3>1, <3>2, <3>3, <3>4, FS_Subset
    <3>6. Cardinality(S1) \in Nat /\ Cardinality(S2) \in Nat
      BY <1>3, <3>3, <3>4
    <3>7. S1 # S2
      BY <3>1, <3>3, <3>4
    <3>8. Cardinality(S2) < Cardinality(S1)
      BY <3>5, <3>6, <3>7
    <3> QED
      BY <3>3, <3>4, <3>8
  <2>9. Left(w) <= Left(u)
    BY <1>6, <1>7, <2>7
  <2> QED
    BY <1>3, <2>8, <2>9
<1> QED
  BY <1>8

LEMMA TInvPointer == TInv => PointerFindsWhatIsSeen
<1> SUFFICES ASSUME TInv, NEW p \in PointsOf(Area(root)), NEW w \in Accepted
             PROVE  p \in Visible(w) <=> FindWindow(p) = w
  BY DEF PointerFindsWhatIsSeen
<1>1. TreeInv /\ Lineage /\ UpOne
  BY TreeFactsHold DEF TInv, TreeFacts, Lineage
<1>2. PICK find : /\ Walk(p, find)
                  /\ FindWindow(p) = IF mapped[root] /\ p \in PointsOf(Area(root))
                                     THEN find[root] ELSE NULL
  BY <1>1, WalkExists
<1>3. \A v \in Accepted : Open(p, v) /\ Under(p, v) = {} => find[root] = v
  <2>1. Accepted \subseteq All
    BY NotNull DEF Accepted
  <2> QED
    BY <1>1, <1>2, <2>1, WalkComesBy DEF Walk
<1>4. w \in All /\ root \in All /\ w # NULL
  BY NotNull DEF Accepted
<1>5. ASSUME p \in Visible(w) PROVE FindWindow(p) = w
  <2>1. Open(p, w) /\ Under(p, w) = {}
    BY <1>5, VisibleIs
  <2>2. root \in {w} \cup Ancestors(w)
    BY <1>1, <1>4 DEF Lineage
  <2>3. mapped[root]
    BY <2>1, <2>2 DEF Open
  <2> QED
    BY <1>2, <1>3, <2>1, <2>3
<1>6. ASSUME FindWindow(p) = w PROVE p \in Visible(w)
  <2>1. mapped[root] /\ find[root] = w
    BY <1>2, <1>4, <1>6
  <2>2. Ancestors(root) = {} /\ Above(root) = {}
    BY <1>1, <1>4 DEF UpOne, TreeInv, Links, Above
  <2>3. Open(p, root)
    BY <2>1, <2>2 DEF Open
  <2>4. PICK v \in Accepted : Open(p, v) /\ Under(p, v) = {}
    BY <1>1, <2>3, WalkEnds
  <2>5. v = w
    BY <1>3, <2>1, <2>4
  <2> QED
    BY <2>4, <2>5, VisibleIs
<1> QED
  BY <1>5, <1>6

\* find_visible_window returns the one window that is seen at a point of the
\* screen, and none if none is seen there.
THEOREM PointerFindsTheWindow == TreeSpec => []PointerFindsWhatIsSeen
BY TInvHolds, TInvPointer, PTL

-----------------------------------------------------------------------------
(* What is uncovered is exposed                                            *)

\* No mapped child of w has the point.
Clear(p, w) == \A v \in Children(w) : mapped[v] => p \notin PointsOf(Area(v))

Seen == \A w, p : p \in Visible(w) <=> Open(p, w) /\ Clear(p, w)

LEMMA SeenHolds == Seen
<1> SUFFICES ASSUME NEW w, NEW p
             PROVE  p \in Visible(w) <=> Open(p, w) /\ Clear(p, w)
  BY DEF Seen
<1>1. Under(p, w) = {} <=> Clear(p, w)
  BY DEF Under, Clear, Children
<1> QED
  BY <1>1, VisibleIs

LEMMA SeenNext == Seen'
BY SeenHolds, PTL

\* The exposures that the last step delivered to w.
Exposed(w) == UNION {PointsOf(e.rect) : e \in {f \in last.exposed : f.wnd = w}}

\* What UncoveredIsExposed says of w.
Told(w) ==
  \/ /\ last'.op = "move"
     /\ w \in Tree(last'.wnd) \cup Ancestors(last'.wnd)
  \/ Visible(w)' \ Visible(w) \subseteq Exposed(w)'

LEMMA UnchangedTold ==
  ASSUME UNCHANGED <<parent, children, pos, mapped>>, NEW w
  PROVE  Told(w)
<1>1. \A v : Ancestors(v)' = Ancestors(v) /\ Above(v)' = Above(v) /\ Children(v)' = Children(v)
  BY SameTree
<1>2. \A v : Area(v)' = Area(v)
  BY DEF Area
<1>3. Visible(w)' = Visible(w)
  BY <1>1, <1>2 DEF Visible, PointsOf
<1> QED
  BY <1>3 DEF Told

\* The new window covers, once it is mapped, and uncovers nothing.
LEMMA AcceptTold ==
  ASSUME TInv, NEW x \in Windows, NEW q \in All, NEW at \in Positions, AcceptWindow(x, q, at),
         NEW w \in Accepted
  PROVE  Told(w)
<1>1. x \notin Accepted /\ pos' = [pos EXCEPT ![x] = at] /\ mapped' = mapped
  BY DEF AcceptWindow
<1>2. TreeInv /\ Lineage /\ Siblings
  BY TreeFactsHold DEF TInv, TreeFacts
<1>3. /\ \A v \in Accepted : Ancestors(v)' = Ancestors(v)
      /\ \A v \in Accepted : Above(v)' \ {x} = Above(v)
      /\ \A v \in Accepted : Children(v)' \ {x} = Children(v)
  BY <1>2, AcceptTree
<1>4. w \in All /\ Accepted \subseteq All
  BY NotNull DEF Accepted
<1>5. \A v \in All : v # x => pos'[v] = pos[v]
  BY <1>1 DEF TInv, States
<1>6. \A v \in All : v # x => Area(v)' = Area(v)
  BY <1>5 DEF Area
<1>7. \A a \in {w} \cup Ancestors(w) : a \in Accepted /\ a # x /\ a \in All
  BY <1>1, <1>2, <1>4 DEF Lineage
<1>8. Children(w) \subseteq All
  BY <1>2, <1>4, NotNull, ElementOfSeq DEF TreeInv, Lists, Children
<1>9. ASSUME NEW p \in Visible(w)' PROVE p \in Visible(w)
  <2>1. Open(p, w)' /\ Clear(p, w)'
    BY SeenNext DEF Seen
  <2>2. ASSUME NEW a \in {w} \cup Ancestors(w)
        PROVE  /\ mapped[a] /\ p \in PointsOf(Area(a))
               /\ \A v \in Above(a) : mapped[v] => p \notin PointsOf(Area(v))
    <3>1. a \in ({w} \cup Ancestors(w))'
      BY <1>3
    <3>2. /\ mapped'[a] /\ p \in PointsOf(Area(a)')
          /\ \A v \in Above(a)' : mapped'[v] => p \notin PointsOf(Area(v)')
      BY <2>1, <3>1 DEF Open, PointsOf
    <3>3. Area(a)' = Area(a) /\ a \in Accepted
      BY <1>6, <1>7
    <3>4. \A v \in Above(a) : v \in All /\ v # x /\ v \in Above(a)'
      BY <1>2, <1>3, <1>7 DEF Siblings
    <3> QED
      BY <1>1, <1>6, <3>2, <3>3, <3>4
  <2>3. \A v \in Children(w) : mapped[v] => p \notin PointsOf(Area(v))
    <3>1. \A v \in Children(w) : v \in All /\ v # x /\ v \in Children(w)'
      BY <1>3, <1>8
    <3>2. \A v \in Children(w)' : mapped'[v] => p \notin PointsOf(Area(v)')
      BY <2>1 DEF Clear, PointsOf
    <3> QED
      BY <1>1, <1>6, <3>1, <3>2
  <2> QED
    BY <2>2, <2>3, SeenHolds DEF Seen, Open, Clear
<1> QED
  BY <1>9 DEF Told

\* The mapped tree is told of its whole areas; others see no more than before.
LEMMA MapTold ==
  ASSUME TInv, NEW x \in All, MapWindow(x), NEW w \in Accepted
  PROVE  Told(w)
<1> DEFINE list == Tree(x) \cup Overlapped(x)'
           told == {[wnd |-> v, rect |-> Area(v)] : v \in {u \in list : mapped'[u]}}
<1>1. /\ x \in asking /\ UNCHANGED <<parent, children, pos>>
      /\ mapped' = [v \in All |-> v \in Tree(x) \/ mapped[v]]
      /\ last' = [op |-> "map", wnd |-> x, exposed |-> told]
  BY DEF MapWindow
<1>2. TreeInv /\ Lineage /\ Siblings /\ x \in Accepted
  <2>1. TreeInv /\ asking \subseteq Accepted
    BY DEF TInv, States
  <2> QED
    BY <1>1, <2>1, TreeFactsHold DEF TreeFacts
<1>3. \A v : Ancestors(v)' = Ancestors(v) /\ Above(v)' = Above(v) /\ Children(v)' = Children(v)
  BY <1>1, SameTree
<1>4. \A v : Area(v)' = Area(v)
  BY <1>1 DEF Area
<1>5. w \in All
  BY NotNull DEF Accepted
<1>6. ASSUME NEW p \in Visible(w)', w \in Tree(x) PROVE p \in Exposed(w)'
  <2>1. Open(p, w)'
    BY SeenNext DEF Seen
  <2>2. p \in PointsOf(Area(w)')
    BY <2>1 DEF Open, PointsOf
  <2>3. p \in PointsOf(Area(w))
    BY <1>4, <2>2
  <2>4. mapped'[w]
    BY <1>1, <1>5, <1>6
  <2>5. [wnd |-> w, rect |-> Area(w)] \in last'.exposed
    BY <1>1, <1>6, <2>4
  <2>6. PICK f : f = [wnd |-> w, rect |-> Area(w)]
    OBVIOUS
  <2>7. f \in last'.exposed /\ f.wnd = w /\ p \in PointsOf(f.rect)
    BY <2>3, <2>5, <2>6
  <2> QED
    BY <2>7 DEF Exposed, PointsOf
<1>7. ASSUME NEW p \in Visible(w)', w \notin Tree(x) PROVE p \in Visible(w)
  <2>1. Open(p, w)' /\ Clear(p, w)'
    BY SeenNext DEF Seen
  <2>2. /\ Ancestors(w) \subseteq All
        /\ \A a \in {w} \cup Ancestors(w) : a \notin Tree(x)
    BY <1>2, <1>7, LineOutside
  <2>3. \A v \in All : mapped[v] => mapped'[v]
    BY <1>1
  <2>4. ASSUME NEW a \in {w} \cup Ancestors(w)
        PROVE  /\ mapped[a] /\ p \in PointsOf(Area(a))
               /\ \A v \in Above(a) : mapped[v] => p \notin PointsOf(Area(v))
    <3>1. a \in ({w} \cup Ancestors(w))'
      BY <1>3
    <3>2. /\ mapped'[a] /\ p \in PointsOf(Area(a)')
          /\ \A v \in Above(a)' : mapped'[v] => p \notin PointsOf(Area(v)')
      BY <2>1, <3>1 DEF Open, PointsOf
    <3>3. a \in All
      BY <1>5, <2>2
    <3>4. mapped[a]
      BY <1>1, <2>2, <3>2, <3>3
    <3>5. Above(a) \subseteq All
      BY <1>2, <3>3 DEF Siblings
    <3> QED
      BY <1>3, <1>4, <2>3, <3>2, <3>4, <3>5
  <2>5. \A v \in Children(w) : mapped[v] => p \notin PointsOf(Area(v))
    <3>1. \A v \in Children(w) : v \in All
      BY <1>2, <1>5, NotNull, ElementOfSeq DEF TreeInv, Lists, Children
    <3>2. \A v \in Children(w)' : mapped'[v] => p \notin PointsOf(Area(v)')
      BY <2>1 DEF Clear, PointsOf
    <3> QED
      BY <1>3, <1>4, <2>3, <3>1, <3>2
  <2> QED
    BY <2>4, <2>5, SeenHolds DEF Seen, Open, Clear
<1> QED
  BY <1>6, <1>7 DEF Told

\* What has become visible of a window outside the moved tree was covered by the
\* moved window, which is a sibling of the window or of an ancestor of it.
LEMMA MoveTold ==
  ASSUME TInv, NEW x \in All, NEW to \in Positions, MoveWindow(x, to), NEW w \in Accepted
  PROVE  Told(w)
<1> DEFINE list == Tree(x) \cup Overlapped(x) \cup Overlapped(x)'
           told == {[wnd |-> v, rect |-> Area(x)] : v \in {u \in list : mapped[u]}}
<1>1. /\ x \in Accepted /\ UNCHANGED <<parent, children, mapped>>
      /\ \A v \in All : v \notin Tree(x) => pos'[v] = pos[v]
      /\ last' = [op |-> "move", wnd |-> x, exposed |-> told]
  BY DEF MoveWindow
<1>2. TreeInv /\ Lineage /\ UpOne /\ Siblings
  BY TreeFactsHold DEF TInv, TreeFacts, Lineage
<1>3. \A v : Ancestors(v)' = Ancestors(v) /\ Above(v)' = Above(v) /\ Children(v)' = Children(v)
  BY <1>1, SameTree
<1>4. \A v \in All : v \notin Tree(x) => Area(v)' = Area(v)
  BY <1>1 DEF Area
<1>5. w \in All /\ x \in All
  BY NotNull DEF Accepted
<1>6. CASE w \in Tree(x) \cup Ancestors(x)
  BY <1>1, <1>6 DEF Told
<1>7. ASSUME w \notin Tree(x), w \notin Ancestors(x), NEW p \in Visible(w)', p \notin Visible(w)
      PROVE  p \in Exposed(w)'
  <2>1. Open(p, w)' /\ Clear(p, w)'
    BY SeenNext DEF Seen
  <2>2. /\ Ancestors(w) \subseteq All
        /\ \A a \in {w} \cup Ancestors(w) : a \notin Tree(x) /\ a \in Accepted /\ a \in All
    <3>1. /\ Ancestors(w) \subseteq All
          /\ \A a \in {w} \cup Ancestors(w) : a \notin Tree(x)
      BY <1>1, <1>2, <1>7, LineOutside
    <3>2. Ancestors(w) \subseteq Accepted
      BY <1>2, <1>5 DEF Lineage
    <3> QED
      BY <1>5, <3>1, <3>2
  <2>3. \A a \in {w} \cup Ancestors(w) :
          /\ mapped[a] /\ p \in PointsOf(Area(a))
          /\ \A v \in Above(a) : mapped[v] => p \notin PointsOf(Area(v)')
    <3>1. \A a \in {w} \cup Ancestors(w) :
            /\ mapped'[a] /\ p \in PointsOf(Area(a)')
            /\ \A v \in Above(a)' : mapped'[v] => p \notin PointsOf(Area(v)')
      BY <1>3, <2>1 DEF Open, PointsOf
    <3>2. \A a \in {w} \cup Ancestors(w) : Area(a)' = Area(a)
      BY <1>4, <2>2
    <3> QED
      BY <1>1, <1>3, <3>1, <3>2
  <2>4. \A v \in Children(w) : mapped[v] => p \notin PointsOf(Area(v))
    <3> SUFFICES ASSUME NEW v \in Children(w), mapped[v] PROVE p \notin PointsOf(Area(v))
      OBVIOUS
    <3>1. v \in All /\ parent[v] = w
      BY <1>2, <1>5, NotNull, ElementOfSeq DEF TreeInv, Lists, Children
    <3>2. Ancestors(v) = {w} \cup Ancestors(w)
      BY <1>2, <1>5, <3>1 DEF UpOne
    <3>3. v # x /\ x # w /\ x \notin Ancestors(w)
      BY <1>7, <3>2 DEF Tree
    <3>4. v \notin Tree(x)
      BY <3>2, <3>3 DEF Tree
    <3>5. p \notin PointsOf(Area(v)')
      BY <1>1, <1>3, <2>1 DEF Clear, PointsOf
    <3> QED
      BY <1>4, <3>1, <3>4, <3>5
  <2>17. PICK a \in {w} \cup Ancestors(w) :
           \E v \in Above(a) : mapped[v] /\ p \in PointsOf(Area(v))
    BY <1>7, <2>3, <2>4, SeenHolds DEF Seen, Open, Clear
  <2>5. PICK v \in Above(a) : mapped[v] /\ p \in PointsOf(Area(v))
    BY <2>17
  <2>6. v \in All
    BY <1>2, <2>2, <2>5 DEF Siblings
  <2>7. v \in Tree(x)
    BY <1>4, <2>3, <2>5, <2>6
  <2>8. v = x
    BY <1>1, <1>2, <2>2, <2>5, <2>6, <2>7, OutsideTree
  <2>9. a \in Below(x)
    BY <1>2, <1>5, <2>2, <2>5, <2>8 DEF Siblings
  <2>10. w \in Tree(a)
    BY <2>5 DEF Tree
  <2>11. Overlap(w, x)
    BY <2>3, <2>5, <2>8 DEF Overlap
  <2>12. w \in Overlapped(x)
    BY <2>9, <2>10, <2>11 DEF Overlapped
  <2>13. mapped[w]
    BY <2>3
  <2>14. [wnd |-> w, rect |-> Area(x)] \in last'.exposed
    BY <1>1, <2>12, <2>13
  <2>15. PICK f : f = [wnd |-> w, rect |-> Area(x)]
    OBVIOUS
  <2>16. f \in last'.exposed /\ f.wnd = w /\ p \in PointsOf(f.rect)
    BY <2>5, <2>8, <2>14, <2>15
  <2> QED
    BY <2>16 DEF Exposed, PointsOf
<1> QED
  BY <1>6, <1>7 DEF Told

\* map_window and move_window send every window that is not moved itself, nor
\* has the moved one inside, an exposure of each point that becomes visible.
THEOREM UncoveredIsTold == TreeSpec => UncoveredIsExposed
<1>1. ASSUME TInv, [TreeNext]_treeVars
      PROVE  [\A w \in Accepted : Told(w)]_treeVars
  <2>1. ASSUME NEW w \in Windows, NEW p \in All, NEW at \in Positions, AcceptWindow(w, p, at)
        PROVE  \A v \in Accepted : Told(v)
    BY <1>1, <2>1, AcceptTold
  <2>2. ASSUME NEW w \in All, CheckMapped(w) \/ Draw(w)
        PROVE  \A v \in Accepted : Told(v)
    <3>1. UNCHANGED <<parent, children, pos, mapped>>
      BY <2>2 DEF CheckMapped, Draw
    <3> QED
      BY <3>1, UnchangedTold
  <2>3. ASSUME NEW w \in All, MapWindow(w)
        PROVE  \A v \in Accepted : Told(v)
    BY <1>1, <2>3, MapTold
  <2>4. ASSUME NEW w \in All, NEW to \in Positions, MoveWindow(w, to)
        PROVE  \A v \in Accepted : Told(v)
    BY <1>1, <2>4, MoveTold
  <2> QED
    BY <1>1, <2>1, <2>2, <2>3, <2>4 DEF TreeNext
<1>2. [\A w \in Accepted : Told(w)]_treeVars <=>
        [\A w \in Accepted :
           \/ /\ last'.op = "move"
              /\ w \in Tree(last'.wnd) \cup Ancestors(last'.wnd)
           \/ Visible(w)' \ Visible(w)
                \subseteq UNION {PointsOf(e.rect) : e \in {f \in last'.exposed : f.wnd = w}}]_treeVars
  BY DEF Told, Exposed, PointsOf
<1> QED
  BY <1>1, <1>2, TInvHolds, PTL DEF TreeSpec, UncoveredIsExposed

=============================================================================
