------------------------------- MODULE RWLock -------------------------------
(***************************************************************************)
(* What a readers/writer permit promises its users: any number of readers, *)
(* or one writer and nobody else.  RWSync is the implementation.           *)
(***************************************************************************)
CONSTANTS Readers,  \* threads that may ask for a read permit
          Writers   \* threads that may ask for a write permit

VARIABLE phase      \* what each thread is doing with the permit

Threads == Readers \cup Writers

Phases == {"idle", "wantsRead", "wantsWrite", "reading", "writing"}

Move(t, from, to) ==
  /\ phase[t] = from
  /\ phase' = [phase EXCEPT ![t] = to]

Init == phase = [t \in Threads |-> "idle"]

RequestRead(t) == Move(t, "idle", "wantsRead")

RequestWrite(t) == Move(t, "idle", "wantsWrite")

AcquireRead(t) ==
  /\ \A u \in Threads : phase[u] # "writing"
  /\ Move(t, "wantsRead", "reading")

AcquireWrite(t) ==
  /\ \A u \in Threads : phase[u] \notin {"reading", "writing"}
  /\ Move(t, "wantsWrite", "writing")

ReleaseRead(t) == Move(t, "reading", "idle")

ReleaseWrite(t) == Move(t, "writing", "idle")

Next ==
  \/ \E t \in Readers : RequestRead(t) \/ AcquireRead(t) \/ ReleaseRead(t)
  \/ \E t \in Writers : RequestWrite(t) \/ AcquireWrite(t) \/ ReleaseWrite(t)

Spec == Init /\ [][Next]_phase

=============================================================================
