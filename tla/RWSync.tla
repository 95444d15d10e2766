------------------------------- MODULE RWSync -------------------------------
(***************************************************************************)
(* The server's readers/writer permit, sync_t, built from three counting   *)
(* semaphores and four counters (kwgssrv_wnd.c).  The permit that is used  *)
(* as it should be is wnd_stack_sync: a window thread takes it for reading *)
(* around every drawing request and for writing in map_window, the main    *)
(* thread takes it for writing in accept_window.                           *)
(*                                                                         *)
(* A permit that is granted is a token: the granting thread counts the     *)
(* reader or writer as active and posts OkToRead or OkToWrite, and some    *)
(* thread blocked on that semaphore takes the token, not necessarily the   *)
(* one it was posted for.  The counters are read and written only between  *)
(* P and V of readWriteMutex, so the statements in between are one step,   *)
(* except the loop of release_write_permit, which is a step an iteration.  *)
(***************************************************************************)
EXTENDS Integers, FiniteSets

CONSTANTS Readers,  \* threads that take read permits (drawing requests)
          Writers   \* threads that take write permits (map, move, accept)

Threads == Readers \cup Writers

ASSUME ThreadsAssumption == IsFiniteSet(Readers) /\ IsFiniteSet(Writers)

VARIABLES
  readWriteMutex,   \* value of the binary semaphore around the counters
  OkToRead,         \* tokens posted for readers and not yet taken
  OkToWrite,        \* tokens posted for writers and not yet taken
  aw, ww, ar, wr,   \* active and waiting writers, active and waiting readers
  pc                \* where each thread is

counters == <<aw, ww, ar, wr>>
tokens == <<OkToRead, OkToWrite>>
vars == <<readWriteMutex, OkToRead, OkToWrite, aw, ww, ar, wr, pc>>

-----------------------------------------------------------------------------
(* Where a thread can be.  "...CS" is between P and V of readWriteMutex    *)
(* with the work to do, "...Out" is with the work done, before V.          *)

GetReadLabels == {"getRead", "getReadCS", "getReadOut", "waitRead"}
GetWriteLabels == {"getWrite", "getWriteCS", "getWriteOut", "waitWrite"}
PutReadLabels == {"putRead", "putReadCS", "putReadOut"}
PutWriteLabels == {"putWrite", "putWriteCS", "wakeReaders", "putWriteOut"}

Labels == {"idle", "reading", "writing"}
          \cup GetReadLabels \cup GetWriteLabels \cup PutReadLabels \cup PutWriteLabels

\* The thread is between P and V of readWriteMutex.
Locked == {"getReadCS", "getReadOut", "getWriteCS", "getWriteOut", "putReadCS",
           "putReadOut", "putWriteCS", "putWriteOut", "wakeReaders"}

\* The thread has taken a token and has not yet given its permit back.
HoldsRead == {"reading", "putRead", "putReadCS"}
HoldsWrite == {"writing", "putWrite", "putWriteCS"}

\* The thread is counted in one of the counters.
CountedRead == {"getReadOut", "waitRead"} \cup HoldsRead
CountedWrite == {"getWriteOut", "waitWrite"} \cup HoldsWrite

\* How many of the threads f places are in labels S.
Num(f, S) == Cardinality({t \in Threads : f[t] \in S})

Goto(t, from, to) ==
  /\ pc[t] = from
  /\ pc' = [pc EXCEPT ![t] = to]

-----------------------------------------------------------------------------
(* init_sync *)
Init ==
  /\ readWriteMutex = 1
  /\ OkToRead = 0
  /\ OkToWrite = 0
  /\ aw = 0
  /\ ww = 0
  /\ ar = 0
  /\ wr = 0
  /\ pc = [t \in Threads |-> "idle"]

\* A thread calls one of the four functions, or comes to its first statement.
Call(t, from, to) ==
  /\ Goto(t, from, to)
  /\ UNCHANGED <<readWriteMutex, tokens, counters>>

\* sem_wait(&(sync->readWriteMutex))
LockMutex(t, from, to) ==
  /\ readWriteMutex > 0
  /\ readWriteMutex' = readWriteMutex - 1
  /\ Goto(t, from, to)
  /\ UNCHANGED <<tokens, counters>>

\* sem_post(&(sync->readWriteMutex))
UnlockMutex(t, from, to) ==
  /\ readWriteMutex' = readWriteMutex + 1
  /\ Goto(t, from, to)
  /\ UNCHANGED <<tokens, counters>>

-----------------------------------------------------------------------------
(* Slips: each is one of the steps below with a mistake its code could      *)
(* have.  Next does not use them; they show which property each mistake     *)
(* breaks.                                                                  *)

GrantReadOverWaitingWriter(t) ==
  /\ Goto(t, "getReadCS", "getReadOut")
  /\ aw = 0
  /\ OkToRead' = OkToRead + 1
  /\ ar' = ar + 1
  /\ UNCHANGED <<readWriteMutex, OkToWrite, aw, ww, wr>>

GrantReadOverActiveWriter(t) ==
  /\ Goto(t, "getReadCS", "getReadOut")
  /\ ww = 0
  /\ OkToRead' = OkToRead + 1
  /\ ar' = ar + 1
  /\ UNCHANGED <<readWriteMutex, OkToWrite, aw, ww, wr>>

HandWithoutPost(t) ==
  /\ Goto(t, "putReadCS", "putReadOut")
  /\ ar - 1 = 0 /\ ww > 0
  /\ ar' = ar - 1
  /\ aw' = aw + 1
  /\ ww' = ww - 1
  /\ UNCHANGED <<readWriteMutex, tokens, wr>>

GrantWriteOverReaders(t) ==
  /\ Goto(t, "getWriteCS", "getWriteOut")
  /\ aw + ww = 0
  /\ OkToWrite' = OkToWrite + 1
  /\ aw' = aw + 1
  /\ UNCHANGED <<readWriteMutex, OkToRead, ww, ar, wr>>

PassWithoutCounting(t) ==
  /\ Goto(t, "putWriteCS", "putWriteOut")
  /\ ww > 0
  /\ OkToWrite' = OkToWrite + 1
  /\ aw' = aw - 1
  /\ ww' = ww - 1
  /\ UNCHANGED <<readWriteMutex, OkToRead, ar, wr>>

DropWriteAndGo(t) ==
  /\ Goto(t, "putWriteCS", "putWriteOut")
  /\ ww = 0
  /\ aw' = aw - 1
  /\ UNCHANGED <<readWriteMutex, tokens, ww, ar, wr>>

WakeReaderWithoutPost(t) ==
  /\ pc[t] = "wakeReaders"
  /\ wr > 0
  /\ ar' = ar + 1
  /\ wr' = wr - 1
  /\ UNCHANGED <<readWriteMutex, tokens, aw, ww, pc>>

-----------------------------------------------------------------------------
(* get_read_permit *)
GrantRead(t) ==
  /\ Goto(t, "getReadCS", "getReadOut")
  /\ aw + ww = 0
  /\ OkToRead' = OkToRead + 1
  /\ ar' = ar + 1
  /\ UNCHANGED <<readWriteMutex, OkToWrite, aw, ww, wr>>

QueueRead(t) ==
  /\ Goto(t, "getReadCS", "getReadOut")
  /\ aw + ww # 0
  /\ wr' = wr + 1
  /\ UNCHANGED <<readWriteMutex, tokens, aw, ww, ar>>

TakeRead(t) ==
  /\ Goto(t, "waitRead", "reading")
  /\ OkToRead > 0
  /\ OkToRead' = OkToRead - 1
  /\ UNCHANGED <<readWriteMutex, OkToWrite, counters>>

(* release_read_permit: the last reader out passes the permit to a writer. *)
HandToWriter(t) ==
  /\ Goto(t, "putReadCS", "putReadOut")
  /\ ar - 1 = 0 /\ ww > 0
  /\ ar' = ar - 1
  /\ OkToWrite' = OkToWrite + 1
  /\ aw' = aw + 1
  /\ ww' = ww - 1
  /\ UNCHANGED <<readWriteMutex, OkToRead, wr>>

DropRead(t) ==
  /\ Goto(t, "putReadCS", "putReadOut")
  /\ ~ (ar - 1 = 0 /\ ww > 0)
  /\ ar' = ar - 1
  /\ UNCHANGED <<readWriteMutex, tokens, aw, ww, wr>>

(* get_write_permit *)
GrantWrite(t) ==
  /\ Goto(t, "getWriteCS", "getWriteOut")
  /\ aw + ar + ww = 0
  /\ OkToWrite' = OkToWrite + 1
  /\ aw' = aw + 1
  /\ UNCHANGED <<readWriteMutex, OkToRead, ww, ar, wr>>

QueueWrite(t) ==
  /\ Goto(t, "getWriteCS", "getWriteOut")
  /\ aw + ar + ww # 0
  /\ ww' = ww + 1
  /\ UNCHANGED <<readWriteMutex, tokens, aw, ar, wr>>

TakeWrite(t) ==
  /\ Goto(t, "waitWrite", "writing")
  /\ OkToWrite > 0
  /\ OkToWrite' = OkToWrite - 1
  /\ UNCHANGED <<readWriteMutex, OkToRead, counters>>

(* release_write_permit: to the next writer if there is one, or else to    *)
(* every waiting reader.                                                   *)
PassToWriter(t) ==
  /\ Goto(t, "putWriteCS", "putWriteOut")
  /\ ww > 0
  /\ OkToWrite' = OkToWrite + 1
  /\ aw' = (aw - 1) + 1
  /\ ww' = ww - 1
  /\ UNCHANGED <<readWriteMutex, OkToRead, ar, wr>>

DropWrite(t) ==
  /\ Goto(t, "putWriteCS", "wakeReaders")
  /\ ww = 0
  /\ aw' = aw - 1
  /\ UNCHANGED <<readWriteMutex, tokens, ww, ar, wr>>

WakeReader(t) ==
  /\ pc[t] = "wakeReaders"
  /\ wr > 0
  /\ OkToRead' = OkToRead + 1
  /\ ar' = ar + 1
  /\ wr' = wr - 1
  /\ UNCHANGED <<readWriteMutex, OkToWrite, aw, ww, pc>>

WakeDone(t) ==
  /\ wr = 0
  /\ UnlockMutex(t, "wakeReaders", "idle")

-----------------------------------------------------------------------------
\* The steps inside get_read_permit.
GetRead(t) ==
  \/ LockMutex(t, "getRead", "getReadCS")
  \/ GrantRead(t)
  \/ QueueRead(t)
  \/ UnlockMutex(t, "getReadOut", "waitRead")
  \/ TakeRead(t)

\* The steps inside release_read_permit.
PutRead(t) ==
  \/ LockMutex(t, "putRead", "putReadCS")
  \/ HandToWriter(t)
  \/ DropRead(t)
  \/ UnlockMutex(t, "putReadOut", "idle")

\* The steps inside get_write_permit.
GetWrite(t) ==
  \/ LockMutex(t, "getWrite", "getWriteCS")
  \/ GrantWrite(t)
  \/ QueueWrite(t)
  \/ UnlockMutex(t, "getWriteOut", "waitWrite")
  \/ TakeWrite(t)

\* The steps inside release_write_permit.
PutWrite(t) ==
  \/ LockMutex(t, "putWrite", "putWriteCS")
  \/ PassToWriter(t)
  \/ DropWrite(t)
  \/ WakeReader(t)
  \/ WakeDone(t)
  \/ UnlockMutex(t, "putWriteOut", "idle")

\* A drawing request: permit, recalculation of the clip, drawing, release.
Reader(t) ==
  \/ Call(t, "idle", "getRead")
  \/ GetRead(t)
  \/ Call(t, "reading", "putRead")
  \/ PutRead(t)

\* accept_window, map_window, move_window: permit, change of the tree, release.
Writer(t) ==
  \/ Call(t, "idle", "getWrite")
  \/ GetWrite(t)
  \/ Call(t, "writing", "putWrite")
  \/ PutWrite(t)

Next ==
  \/ \E t \in Readers : Reader(t)
  \/ \E t \in Writers : Writer(t)

Spec == Init /\ [][Next]_vars

\* A thread inside a request finishes it: every statement it can execute it
\* eventually does (weak fairness), but sem_wait is not FIFO.  Nothing obliges
\* a client to send another request.
StepOfRequest(t) ==
  \/ GetRead(t) \/ PutRead(t) \/ GetWrite(t) \/ PutWrite(t)
  \/ Call(t, "reading", "putRead")
  \/ Call(t, "writing", "putWrite")

Fairness == \A t \in Threads : WF_vars(StepOfRequest(t))

FairSpec == Spec /\ Fairness

-----------------------------------------------------------------------------
(* Safety *)

\* Type invariant.  The counters are unsigned in the code: that they stay
\* natural numbers says no decrement ever wraps around.
TypeOK ==
  /\ readWriteMutex \in {0, 1}
  /\ OkToRead \in Nat
  /\ OkToWrite \in Nat
  /\ aw \in Nat
  /\ ww \in Nat
  /\ ar \in Nat
  /\ wr \in Nat
  /\ pc \in [Threads -> Labels]

\* At most one thread is between P and V of readWriteMutex.
MutexExclusion == readWriteMutex + Num(pc, Locked) = 1

\* Every thread that asked and has not released is counted exactly once, as
\* active or as waiting, although tokens are taken by whoever comes first.
EveryRequestCounted ==
  /\ ar + wr = Num(pc, CountedRead)
  /\ aw + ww = Num(pc, CountedWrite)

\* An active reader or writer holds its permit or has a token to take: tokens
\* are neither lost nor posted twice.
TokensMatchGrants ==
  /\ ar = OkToRead + Num(pc, HoldsRead)
  /\ aw = OkToWrite + Num(pc, HoldsWrite)

\* A grant to a writer excludes every other grant, taken or not.
GrantsExclude ==
  /\ aw <= 1
  /\ aw = 1 => ar = 0

\* While a thread changes the window tree no other thread draws or changes it,
\* whatever token each of them took.
PermitExclusion ==
  \A t, u \in Threads :
    t # u /\ pc[t] \in HoldsWrite => pc[u] \notin HoldsRead \cup HoldsWrite

\* Nobody waits for a permit that nobody will pass on: a waiting writer has an
\* active thread before it, and a waiting reader a writer, or the writer that
\* is waking the readers up right now.
NobodyForgotten ==
  /\ ww > 0 => aw + ar > 0
  /\ wr > 0 => aw + ww > 0 \/ \E t \in Threads : pc[t] = "wakeReaders"
  /\ (\E t \in Threads : pc[t] = "wakeReaders") => aw + ww = 0

\* The inductive invariant: what each step needs of the state before it.
IInv ==
  /\ TypeOK
  /\ MutexExclusion
  /\ EveryRequestCounted
  /\ TokensMatchGrants
  /\ GrantsExclude
  /\ NobodyForgotten

\* Writers first: while a writer waits, no reader becomes active.
WritersFirst == [][ww > 0 => ar' <= ar]_vars

-----------------------------------------------------------------------------
(* RWSync implements RWLock: a thread holds the permit from the moment it  *)
(* takes a token to the moment release_*_permit counts it out.             *)

PhaseOf(label) ==
  CASE label \in GetReadLabels -> "wantsRead"
    [] label \in GetWriteLabels -> "wantsWrite"
    [] label \in HoldsRead -> "reading"
    [] label \in HoldsWrite -> "writing"
    [] OTHER -> "idle"

phaseBar == [t \in Threads |-> PhaseOf(pc[t])]

Lock == INSTANCE RWLock WITH phase <- phaseBar

\* Every behaviour of the semaphores is a behaviour of the abstract lock.
ImplementsLock == Lock!Spec

-----------------------------------------------------------------------------
(* Liveness *)

\* Once a writer waits at OkToWrite, some writer gets the permit: readers
\* that keep coming cannot keep all the writers out.
SomeWriterProgresses ==
  (\E t \in Writers : pc[t] = "waitWrite") ~> (\E t \in Writers : pc[t] = "writing")

\* A reader waiting at OkToRead gets the permit, unless writers never stop.
ReadersServedAfterWriters ==
  \A t \in Readers :
    <>[](aw + ww = 0) => (pc[t] = "waitRead" ~> pc[t] = "reading")

=============================================================================
