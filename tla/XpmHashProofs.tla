--------------------------- MODULE XpmHashProofs ---------------------------
(***************************************************************************)
(* Proofs about XpmHash, for every set of codes, every hash function,      *)
(* every initial size and every number of colours: types, and that the     *)
(* table finds the colour which a search through all colours finds.        *)
(*                                                                         *)
(* The argument is the one of open addressing: every slot between the home *)
(* of an atom and the atom is occupied (Reachable), and the slots that the *)
(* search under way has passed hold other codes (Walked).  An empty slot   *)
(* then ends the search only where no atom of that code exists.            *)
(***************************************************************************)
EXTENDS XpmHash, TLAPS

\* How many turns of the loop lead from slot h to slot q.
Dist(h, q, n) == IF q <= h THEN h - q ELSE h - q + n

Reachable ==
  at \notin {"failed", "freed"} =>
    \A q, r \in Slots(size) :
      /\ atomTable[q] # NULL
      /\ Dist(Home(atomTable[q].name, size), r, size)
           < Dist(Home(atomTable[q].name, size), q, size)
      => atomTable[r] # NULL

Walked ==
  at = "probe" =>
    \A r \in Slots(size) :
      Dist(Home(probe.name, size), r, size) < Dist(Home(probe.name, size), probe.p, size)
      => atomTable[r] # NULL /\ atomTable[r].name # probe.name

\* Atoms have the index of the first colour of their code.
Contents ==
  /\ \A q \in DOMAIN atomTable :
       atomTable[q] # NULL => FirstMatch(atomTable[q].name, atomTable[q].data)
  /\ \A q \in DOMAIN old : old[q] # NULL => FirstMatch(old[q].name, old[q].data)

\* Every interned code has an atom in the array, or one still to be moved.
Complete ==
  at # "freed" =>
    \A k \in Interned :
      \/ \E q \in DOMAIN atomTable : Holds(atomTable, q, colorTable[k])
      \/ \E q \in DOMAIN old : q >= i /\ Holds(old, q, colorTable[k])

\* What the search under way is for.
Purpose ==
  /\ Probing("intern") =>
       Len(colorTable) > 0 /\ probe.name = colorTable[Len(colorTable)]
  /\ Probing("rehash") =>
       i \in DOMAIN old /\ old[i] # NULL /\ probe.name = old[i].name

\* A code has one atom, counting those still to be moved.
Unique ==
  /\ \A q, r \in DOMAIN atomTable :
       /\ atomTable[q] # NULL /\ atomTable[r] # NULL
       /\ atomTable[q].name = atomTable[r].name
       => q = r
  /\ \A q, r \in DOMAIN old :
       old[q] # NULL /\ old[r] # NULL /\ old[q].name = old[r].name => q = r
  /\ \A q \in DOMAIN atomTable, r \in DOMAIN old :
       r >= i /\ atomTable[q] # NULL /\ old[r] # NULL
       => atomTable[q].name # old[r].name

XInv ==
  TypeOK /\ Reachable /\ Walked /\ Contents /\ Complete /\ Purpose /\ Unique

-----------------------------------------------------------------------------
(* Lemmas.                                                                 *)

\* A search starts in the array (hash % table->size).
LEMMA HomeIsASlot ==
  ASSUME hash \in Hashes, NEW name \in Names, NEW n \in Nat, n >= 1
  PROVE  Home(name, n) \in Slots(n)
<1>1. hash \in [Names -> Nat]
  BY HashAssumption
<1>2. hash[name] \in Nat
  BY <1>1
<1>3. \A v \in Nat : v % n \in 0..(n - 1)
  BY SMT
<1> QED
  BY <1>2, <1>3 DEF Home, Slots

\* NULL is no atom (the index of an atom is not negative).
LEMMA NullIsNoAtom ==
  NULL \notin Atoms
BY HashAssumption DEF NULL, Atoms

\* One turn of the loop leads one slot further, or back to the home slot.
LEMMA NextSlot ==
  ASSUME NEW n \in Nat, n >= 2, NEW h \in Slots(n), NEW p \in Slots(n)
  PROVE  LET q == IF p = 0 THEN n - 1 ELSE p - 1 IN
           /\ q \in Slots(n)
           /\ \A r \in Slots(n) :
                Dist(h, r, n) < Dist(h, q, n) => r = p \/ Dist(h, r, n) < Dist(h, p, n)
BY SMT DEF Slots, Dist

\* Two slots as far from the same home are the same slot.
LEMMA SameDist ==
  ASSUME NEW n \in Nat, n >= 2, NEW h \in Slots(n), NEW p \in Slots(n),
         NEW q \in Slots(n), Dist(h, p, n) = Dist(h, q, n)
  PROVE  p = q
BY SMT DEF Slots, Dist

LEMMA DistIsInt ==
  ASSUME NEW n \in Nat, NEW h \in Slots(n), NEW q \in Slots(n)
  PROVE  Dist(h, q, n) \in Nat
BY SMT DEF Slots, Dist

LEMMA HomeIsNotPassed ==
  ASSUME NEW n \in Nat, NEW h \in Slots(n), NEW q \in Slots(n)
  PROVE  ~ (Dist(h, q, n) < Dist(h, h, n))
BY SMT DEF Slots, Dist

\* A search that ends at an empty slot was for a code that no atom has
\* (xpmHashSlot): an atom further on would not be reachable, and one before
\* would have ended the search.
LEMMA EmptySlotMeansMissing ==
  ASSUME TypeOK, Reachable, Walked, at = "probe", AtEmptySlot
  PROVE  \A q \in Slots(size) : ~ Holds(atomTable, q, probe.name)
<1> SUFFICES ASSUME NEW q \in Slots(size), Holds(atomTable, q, probe.name)
             PROVE  FALSE
  OBVIOUS
<1> DEFINE h == Home(probe.name, size)
<1>1. /\ probe.name \in Names /\ probe.p \in Slots(size)
      /\ size \in Nat /\ size >= 2 /\ hash \in Hashes
  BY DEF TypeOK
<1>2. h \in Slots(size)
  BY <1>1, HomeIsASlot
<1>3. q # probe.p
  BY DEF Holds, AtEmptySlot
<1>4. /\ atomTable[q] # NULL /\ atomTable[q].name = probe.name
  BY DEF Holds
<1>5. ~ (Dist(h, q, size) < Dist(h, probe.p, size))
  BY <1>4 DEF Walked
<1>6. ~ (Dist(h, probe.p, size) < Dist(h, q, size))
  BY <1>1, <1>4 DEF Reachable, AtEmptySlot
<1>7. Dist(h, q, size) \in Nat /\ Dist(h, probe.p, size) \in Nat
  BY <1>1, <1>2, DistIsInt
<1>8. Dist(h, q, size) = Dist(h, probe.p, size)
  BY <1>5, <1>6, <1>7
<1> HIDE DEF h
<1> QED
  BY <1>1, <1>2, <1>3, <1>8, SameDist

\* Filling the slot where a search ends keeps every atom reachable.
LEMMA FillKeepsReachable ==
  ASSUME TypeOK, Reachable, Walked, at = "probe", AtEmptySlot,
         NEW atom \in Atoms, atom.name = probe.name,
         atomTable' = [atomTable EXCEPT ![probe.p] = atom],
         UNCHANGED <<hash, size>>
  PROVE  Reachable'
<1> SUFFICES ASSUME NEW q \in Slots(size), NEW r \in Slots(size),
                    atomTable'[q] # NULL,
                    Dist(Home(atomTable'[q].name, size), r, size)
                      < Dist(Home(atomTable'[q].name, size), q, size)
             PROVE  atomTable'[r] # NULL
  BY DEF Reachable, Home
<1>1. /\ probe.p \in Slots(size) /\ DOMAIN atomTable = Slots(size)
      /\ atomTable \in [Slots(size) -> Atoms \cup {NULL}]
  BY DEF TypeOK
<1>2. CASE r = probe.p
  BY <1>1, <1>2, NullIsNoAtom
<1>3. CASE r # probe.p /\ q = probe.p
  <2>1. atomTable'[q] = atom /\ atomTable'[r] = atomTable[r]
    BY <1>1, <1>3
  <2> QED
    BY <1>3, <2>1 DEF Walked
<1>4. CASE r # probe.p /\ q # probe.p
  <2>1. atomTable'[q] = atomTable[q] /\ atomTable'[r] = atomTable[r]
    BY <1>1, <1>4
  <2> QED
    BY <2>1 DEF Reachable
<1> QED
  BY <1>2, <1>3, <1>4

-----------------------------------------------------------------------------
(* Types.                                                                  *)

LEMMA InitInv ==
  Init => XInv
<1> SUFFICES ASSUME Init PROVE XInv
  OBVIOUS
<1>1. TypeOK
  BY HashAssumption DEF Init, TypeOK, Probing, Growing, OldSize, Empty, Slots, NoProbe
<1>2. Reachable /\ Walked /\ Purpose
  BY DEF Init, Reachable, Walked, Purpose, Probing, Empty
<1>3. Contents /\ Unique
  BY DEF Init, Contents, Unique, Empty
<1>4. Complete
  BY DEF Init, Complete, Interned, Probing
<1> QED
  BY <1>1, <1>2, <1>3, <1>4 DEF XInv

\* StartProbe puts the search at the home slot of a code, in the array.
LEMMA StartTypes ==
  ASSUME TypeOK, at # "failed", at # "freed",
         NEW goal \in {"intern", "rehash", "pixel"}, NEW name \in Names,
         StartProbe(goal, name)
  PROVE  /\ probe' \in [goal : {"intern", "rehash", "pixel"}, name : Names, p : Slots(size)]
         /\ probe'.goal = goal /\ probe'.name = name
         /\ probe'.p = Home(name, size) /\ probe'.p \in Slots(size)
<1>1. size \in Nat /\ size >= 2 /\ hash \in Hashes
  BY DEF TypeOK
<1>2. Home(name, size) \in Slots(size)
  BY <1>1, HomeIsASlot
<1> QED
  BY <1>2 DEF StartProbe

LEMMA StepTypes ==
  ASSUME TypeOK, Purpose, Next
  PROVE  TypeOK'
<1> USE DEF Slots, OldSize, table
<1>1. ASSUME ReadColor PROVE TypeOK'
  <2> PICK name \in Names : /\ colorTable' = Append(colorTable, name)
                             /\ StartProbe("intern", name)
    BY <1>1 DEF ReadColor
  <2>1. /\ probe' \in [goal : {"intern", "rehash", "pixel"}, name : Names, p : Slots(size)]
        /\ probe'.goal = "intern"
    BY <1>1, StartTypes DEF ReadColor
  <2>2. colorTable' \in Seq(Names) /\ Len(colorTable') <= NColors
    BY <1>1, HashAssumption DEF ReadColor, TypeOK
  <2> QED
    BY <1>1, <2>1, <2>2 DEF ReadColor, StartProbe, TypeOK, Probing, Growing
<1>2. ASSUME ProbeOn PROVE TypeOK'
  <2>1. /\ probe' \in [goal : {"intern", "rehash", "pixel"}, name : Names, p : Slots(size)]
        /\ probe'.goal = probe.goal
    <3> DEFINE q == IF probe.p = 0 THEN size - 1 ELSE probe.p - 1
    <3>1. /\ probe \in [goal : {"intern", "rehash", "pixel"}, name : Names, p : Slots(size)]
          /\ size \in Nat /\ size >= 2 /\ UNCHANGED size
      BY <1>2 DEF ProbeOn, TypeOK
    <3>2. q \in Slots(size)
      BY <3>1
    <3>3. probe' = [probe EXCEPT !.p = q]
      BY <1>2 DEF ProbeOn
    <3> HIDE DEF q
    <3> QED
      BY <3>1, <3>2, <3>3
  <2> QED
    BY <1>2, <2>1 DEF ProbeOn, TypeOK, Probing, Growing
<1>3. ASSUME InternFound \/ AtomMakeFails PROVE TypeOK'
  BY <1>3 DEF InternFound, AtomMakeFails, Return, TypeOK, Probing, Growing, NoProbe
<1>4. ASSUME Probing("intern") PROVE NewAtom \in Atoms
  BY <1>4, HashAssumption DEF NewAtom, Atoms, Purpose, Probing, TypeOK
<1>5. ASSUME InternNew PROVE TypeOK'
  BY <1>4, <1>5 DEF InternNew, Return, TypeOK, Probing, Growing, NoProbe
<1>6. ASSUME GrowStart PROVE TypeOK'
  <2>1. old' \in [Slots(size) -> Atoms \cup {NULL}]
    BY <1>4, <1>6 DEF GrowStart, Grows, TypeOK, Probing
  <2>2. /\ size' \in Nat /\ size' >= 2 /\ size' \div 2 = size /\ limit' = LimitOf(size')
    BY <1>6 DEF GrowStart, Grows, TypeOK
  <2>3. /\ atomTable' \in [DOMAIN atomTable' -> Atoms \cup {NULL}]
        /\ DOMAIN atomTable' = Slots(size')
    BY <1>6 DEF GrowStart, Empty
  <2> QED
    BY <1>6, <2>1, <2>2, <2>3 DEF GrowStart, Grows, Return, TypeOK, Probing, Growing, NoProbe
<1>7. ASSUME GrowFails PROVE TypeOK'
  <2>1. size' \in Nat /\ size' >= 2 /\ limit' = LimitOf(size')
    BY <1>7 DEF GrowFails, Grows, TypeOK
  <2>2. atomTable' \in [DOMAIN atomTable' -> Atoms \cup {NULL}]
    BY <1>4, <1>7 DEF GrowFails, Grows, TypeOK, Probing
  <2> QED
    BY <1>7, <2>1, <2>2 DEF GrowFails, Grows, Return, TypeOK, Probing, Growing, NoProbe
<1>8. ASSUME RehashSkip PROVE TypeOK'
  BY <1>8 DEF RehashSkip, TypeOK, Probing, Growing
<1>9. ASSUME RehashStart PROVE TypeOK'
  <2>1. old[i] \in Atoms
    BY <1>9 DEF RehashStart, TypeOK
  <2>2. old[i].name \in Names
    BY <2>1 DEF Atoms
  <2>3. /\ probe' \in [goal : {"intern", "rehash", "pixel"}, name : Names, p : Slots(size)]
        /\ probe'.goal = "rehash"
    BY <1>9, <2>2, StartTypes DEF RehashStart
  <2> QED
    BY <1>9, <2>3 DEF RehashStart, StartProbe, TypeOK, Probing, Growing
<1>10. ASSUME RehashPut PROVE TypeOK'
  <2>1. i \in DOMAIN old /\ old[i] \in Atoms
    BY <1>10 DEF RehashPut, Purpose, TypeOK
  <2>2. /\ atomTable' \in [DOMAIN atomTable' -> Atoms \cup {NULL}]
        /\ DOMAIN atomTable' = Slots(size)
    BY <1>10, <2>1 DEF RehashPut, TypeOK, Probing
  <2> QED
    BY <1>10, <2>1, <2>2 DEF RehashPut, Return, TypeOK, Probing, Growing, NoProbe
<1>11. ASSUME GrowDone PROVE TypeOK'
  BY <1>11 DEF GrowDone, TypeOK, Probing, Growing, Empty
<1>12. ASSUME ColorsDone PROVE TypeOK'
  BY <1>12 DEF ColorsDone, TypeOK, Probing, Growing
<1>13. ASSUME ReadPixel PROVE TypeOK'
  <2> PICK name \in Names : StartProbe("pixel", name)
    BY <1>13 DEF ReadPixel
  <2>1. /\ probe' \in [goal : {"intern", "rehash", "pixel"}, name : Names, p : Slots(size)]
        /\ probe'.goal = "pixel"
    BY <1>13, StartTypes DEF ReadPixel
  <2> QED
    BY <1>13, <2>1 DEF ReadPixel, StartProbe, TypeOK, Probing, Growing
<1>14. ASSUME PixelFound \/ PixelMissing \/ PixelsDone PROVE TypeOK'
  BY <1>14 DEF PixelFound, PixelMissing, PixelsDone, Return, TypeOK, Probing, Growing, NoProbe
<1>15. ASSUME Free PROVE TypeOK'
  BY <1>15 DEF Free, TypeOK, Probing, Growing, Empty
<1> QED
  BY <1>1, <1>2, <1>3, <1>5, <1>6, <1>7, <1>8, <1>9, <1>10, <1>11, <1>12, <1>13, <1>14, <1>15
  DEF Next, Intern, Grow, Pixels

-----------------------------------------------------------------------------
(* The steps by what they do to the array.                                 *)

\* Steps that neither change the array nor give up the image.
LeavesTable ==
  \/ ReadColor \/ ProbeOn \/ InternFound \/ RehashSkip \/ RehashStart
  \/ GrowDone \/ ColorsDone \/ ReadPixel \/ PixelFound \/ PixelsDone

\* Steps after which the table is only freed.
GivesUp == AtomMakeFails \/ GrowFails \/ PixelMissing \/ Free

LEMMA Steps ==
  Next => LeavesTable \/ GivesUp \/ InternNew \/ GrowStart \/ RehashPut
BY DEF Next, Intern, Grow, Pixels, LeavesTable, GivesUp

LEMMA LeavingTable ==
  ASSUME LeavesTable
  PROVE  /\ UNCHANGED <<hash, atomTable, size>>
         /\ at \notin {"failed", "freed"} /\ at' \notin {"failed", "freed"}
BY DEF LeavesTable, ReadColor, ProbeOn, InternFound, RehashSkip, RehashStart, GrowDone,
       ColorsDone, ReadPixel, PixelFound, PixelsDone, StartProbe, Return, Probing, table

\* An atom is moved to an empty slot: the new array has no atom of its code.
LEMMA RehashSlotIsEmpty ==
  ASSUME TypeOK, Purpose, Unique, RehashPut
  PROVE  /\ AtEmptySlot /\ at = "probe"
         /\ i \in DOMAIN old /\ old[i] \in Atoms /\ old[i].name = probe.name
<1>1. /\ i \in DOMAIN old /\ old[i] # NULL /\ probe.name = old[i].name /\ i >= i
      /\ old[i] \in Atoms
  BY DEF RehashPut, Purpose, TypeOK, Slots
<1>2. probe.p \in DOMAIN atomTable
  BY DEF RehashPut, Probing, TypeOK
<1>3. ~ AtItsName
  BY <1>1, <1>2 DEF Unique, AtItsName, AtEmptySlot
<1> QED
  BY <1>1, <1>3 DEF RehashPut, Probing, Stops

\* The atom that AtomMake makes is the first of its code.
LEMMA NewAtomIsFirst ==
  ASSUME XInv, Probing("intern"), AtEmptySlot
  PROVE  /\ NewAtom \in Atoms /\ NewAtom.name = probe.name
         /\ \A q \in Slots(size) : ~ Holds(atomTable, q, probe.name)
         /\ FirstMatch(NewAtom.name, NewAtom.data)
<1>1. NewAtom \in Atoms /\ NewAtom.name = probe.name
  BY HashAssumption DEF XInv, NewAtom, Atoms, Purpose, Probing, TypeOK
<1>2. \A q \in Slots(size) : ~ Holds(atomTable, q, probe.name)
  BY EmptySlotMeansMissing DEF XInv, Probing
<1>3. /\ colorTable \in Seq(Names) /\ Len(colorTable) > 0
      /\ probe.name = colorTable[Len(colorTable)]
  BY DEF XInv, TypeOK, Purpose
<1>4. ASSUME NEW k \in 1..(Len(colorTable) - 1) PROVE colorTable[k] # probe.name
  <2>1. k \in Interned /\ at # "freed"
    BY DEF Interned, Probing
  <2>2. DOMAIN old = {} /\ DOMAIN atomTable = Slots(size)
    BY SMT DEF XInv, TypeOK, OldSize, Growing, Probing, Slots
  <2>3. \E q \in DOMAIN atomTable : Holds(atomTable, q, colorTable[k])
    BY <2>1, <2>2 DEF XInv, Complete
  <2> QED
    BY <1>2, <2>2, <2>3
<1> QED
  BY <1>1, <1>2, <1>3, <1>4 DEF FirstMatch, NewAtom

-----------------------------------------------------------------------------
(* Every conjunct of the invariant is preserved.                           *)

LEMMA StepReachable ==
  ASSUME XInv, Next
  PROVE  Reachable'
<1>1. ASSUME LeavesTable PROVE Reachable'
  BY <1>1, LeavingTable DEF XInv, Reachable, Home
<1>2. ASSUME GivesUp PROVE Reachable'
  BY <1>2 DEF GivesUp, AtomMakeFails, GrowFails, PixelMissing, Free, Return, Reachable
<1>3. ASSUME InternNew PROVE Reachable'
  BY <1>3, NewAtomIsFirst, FillKeepsReachable DEF XInv, InternNew, Probing
<1>4. ASSUME GrowStart PROVE Reachable'
  BY <1>4 DEF GrowStart, Empty, Reachable
<1>5. ASSUME RehashPut PROVE Reachable'
  BY <1>5, RehashSlotIsEmpty, FillKeepsReachable DEF XInv, RehashPut
<1> QED
  BY <1>1, <1>2, <1>3, <1>4, <1>5, Steps

\* A search that begins has passed no slot.
LEMMA StartWalked ==
  ASSUME TypeOK, at # "failed", at # "freed", NEW goal \in {"intern", "rehash", "pixel"},
         NEW name \in Names, StartProbe(goal, name), UNCHANGED <<hash, size>>
  PROVE  Walked'
<1>1. /\ probe'.p = Home(name, size) /\ probe'.p \in Slots(size) /\ probe'.name = name
      /\ size \in Nat
  BY StartTypes DEF TypeOK
<1>2. \A r \in Slots(size) :
        ~ (Dist(Home(name, size), r, size) < Dist(Home(name, size), Home(name, size), size))
  BY <1>1, HomeIsNotPassed
<1> QED
  BY <1>1, <1>2 DEF Walked, Home

LEMMA StepWalked ==
  ASSUME XInv, Next
  PROVE  Walked'
<1>1. ASSUME ReadColor PROVE Walked'
  BY <1>1, StartWalked DEF XInv, ReadColor, table
<1>2. ASSUME ProbeOn PROVE Walked'
  <2> DEFINE h == Home(probe.name, size)
             q == IF probe.p = 0 THEN size - 1 ELSE probe.p - 1
  <2>1. /\ probe' = [probe EXCEPT !.p = q] /\ at = "probe" /\ ~ Stops
        /\ UNCHANGED <<hash, size, atomTable>>
    BY <1>2 DEF ProbeOn, table
  <2>2. /\ probe.name \in Names /\ probe.p \in Slots(size) /\ hash \in Hashes
        /\ size \in Nat /\ size >= 2
        /\ probe \in [goal : {"intern", "rehash", "pixel"}, name : Names, p : Slots(size)]
    BY <2>1 DEF XInv, TypeOK
  <2>3. probe'.name = probe.name /\ probe'.p = q
    BY <2>1, <2>2
  <2>4. h \in Slots(size)
    BY <2>2, HomeIsASlot
  <2>5. \A r \in Slots(size) :
          Dist(h, r, size) < Dist(h, q, size)
          => r = probe.p \/ Dist(h, r, size) < Dist(h, probe.p, size)
    BY <2>2, <2>4, NextSlot
  <2>6. \A r \in Slots(size) :
          Dist(h, r, size) < Dist(h, q, size)
          => atomTable[r] # NULL /\ atomTable[r].name # probe.name
    BY <2>1, <2>5 DEF XInv, Walked, Stops, AtEmptySlot, AtItsName
  <2>7. Home(probe.name, size)' = h
    BY <2>1, <2>3 DEF Home
  <2> HIDE DEF h, q
  <2> QED
    BY <2>1, <2>3, <2>6, <2>7 DEF Walked
<1>3. ASSUME RehashStart PROVE Walked'
  <2>1. old[i].name \in Names
    BY <1>3 DEF XInv, RehashStart, TypeOK, Atoms
  <2> QED
    BY <1>3, <2>1, StartWalked DEF XInv, RehashStart, table
<1>4. ASSUME ReadPixel PROVE Walked'
  BY <1>4, StartWalked DEF XInv, ReadPixel, table
<1>5. ASSUME ~ ReadColor, ~ ProbeOn, ~ RehashStart, ~ ReadPixel PROVE at' # "probe"
  BY <1>5 DEF Next, Intern, Grow, Pixels, InternFound, InternNew, AtomMakeFails, GrowStart,
     GrowFails, RehashSkip, RehashPut, GrowDone, ColorsDone, PixelFound, PixelMissing,
     PixelsDone, Free, Return
<1> QED
  BY <1>1, <1>2, <1>3, <1>4, <1>5 DEF Walked

LEMMA StepPurpose ==
  ASSUME XInv, Next
  PROVE  Purpose'
<1>1. ASSUME ReadColor PROVE Purpose'
  BY <1>1 DEF ReadColor, StartProbe, XInv, TypeOK, Purpose, Probing
<1>2. ASSUME ProbeOn PROVE Purpose'
  <2>1. probe'.name = probe.name /\ probe'.goal = probe.goal
    BY <1>2 DEF ProbeOn, XInv, TypeOK
  <2> QED
    BY <1>2, <2>1 DEF ProbeOn, XInv, Purpose, Probing
<1>3. ASSUME RehashStart PROVE Purpose'
  BY <1>3 DEF RehashStart, StartProbe, Purpose, Probing
<1>4. ASSUME ReadPixel PROVE Purpose'
  BY <1>4 DEF ReadPixel, StartProbe, Purpose, Probing
<1>5. ASSUME ~ ReadColor, ~ ProbeOn, ~ RehashStart, ~ ReadPixel PROVE at' # "probe"
  BY <1>5 DEF Next, Intern, Grow, Pixels, InternFound, InternNew, AtomMakeFails, GrowStart,
     GrowFails, RehashSkip, RehashPut, GrowDone, ColorsDone, PixelFound, PixelMissing,
     PixelsDone, Free, Return
<1> QED
  BY <1>1, <1>2, <1>3, <1>4, <1>5 DEF Purpose, Probing

LEMMA StepContents ==
  ASSUME XInv, Next
  PROVE  Contents'
<1>1. ASSUME ReadColor PROVE Contents'
  <2>1. PICK name \in Names : colorTable' = Append(colorTable, name)
    BY <1>1 DEF ReadColor
  <2>2. colorTable \in Seq(Names)
    BY DEF XInv, TypeOK
  <2>3. \A n, a : a \in 0..(NColors - 1) /\ FirstMatch(n, a) => FirstMatch(n, a)'
    BY <2>1, <2>2, HashAssumption DEF FirstMatch
  <2>4. /\ \A q \in DOMAIN atomTable : atomTable[q] # NULL => atomTable[q].data \in 0..(NColors - 1)
        /\ \A q \in DOMAIN old : old[q] # NULL => old[q].data \in 0..(NColors - 1)
    BY DEF XInv, TypeOK, Atoms
  <2>5. UNCHANGED <<atomTable, old>>
    BY <1>1 DEF ReadColor, table
  <2> QED
    BY <2>3, <2>4, <2>5 DEF XInv, Contents
<1>2. ASSUME UNCHANGED <<atomTable, old, colorTable>> PROVE Contents'
  BY <1>2 DEF XInv, Contents, FirstMatch
<1>3. ASSUME Probing("intern"), AtEmptySlot,
             UNCHANGED <<colorTable, old>>,
             atomTable' = [atomTable EXCEPT ![probe.p] = NewAtom]
      PROVE  Contents'
  BY <1>3, NewAtomIsFirst DEF XInv, Contents, FirstMatch, NewAtom
<1>4. ASSUME InternNew \/ GrowFails PROVE Contents'
  BY <1>3, <1>4 DEF InternNew, GrowFails, Grows
<1>5. ASSUME GrowStart PROVE Contents'
  <2>1. /\ UNCHANGED colorTable
        /\ old' = [atomTable EXCEPT ![probe.p] = NewAtom]
        /\ \A q \in DOMAIN atomTable' : atomTable'[q] = NULL
    BY <1>5 DEF GrowStart, Grows, Empty
  <2>2. FirstMatch(NewAtom.name, NewAtom.data)
    BY <1>5, NewAtomIsFirst DEF GrowStart, Grows
  <2> QED
    BY <2>1, <2>2 DEF XInv, Contents, FirstMatch, NewAtom
<1>6. ASSUME RehashPut PROVE Contents'
  BY <1>6, RehashSlotIsEmpty DEF RehashPut, XInv, Contents, FirstMatch
<1>7. ASSUME GrowDone PROVE Contents'
  BY <1>7 DEF GrowDone, Empty, Slots, XInv, Contents, FirstMatch
<1>8. ASSUME Free PROVE Contents'
  BY <1>8 DEF Free, Empty, Slots, XInv, Contents, FirstMatch
<1> QED
  BY <1>1, <1>2, <1>4, <1>5, <1>6, <1>7, <1>8
  DEF Next, Intern, Grow, Pixels, ProbeOn, InternFound, AtomMakeFails, RehashSkip, RehashStart,
      ColorsDone, ReadPixel, PixelFound, PixelMissing, PixelsDone, table

LEMMA StepUnique ==
  ASSUME XInv, Next
  PROVE  Unique'
<1>1. ASSUME UNCHANGED <<atomTable, old, i>> PROVE Unique'
  BY <1>1 DEF XInv, Unique
<1>2. ASSUME Probing("intern") PROVE DOMAIN old = {} /\ DOMAIN atomTable = Slots(size)
  BY <1>2 DEF XInv, TypeOK, OldSize, Growing, Probing, Slots
<1>3. ASSUME Probing("intern"), AtEmptySlot,
             UNCHANGED <<old, i>>,
             atomTable' = [atomTable EXCEPT ![probe.p] = NewAtom]
      PROVE  Unique'
  BY <1>2, <1>3, NewAtomIsFirst DEF XInv, Unique, Holds
<1>4. ASSUME InternNew \/ GrowFails PROVE Unique'
  BY <1>3, <1>4 DEF InternNew, GrowFails, Grows
<1>5. ASSUME GrowStart PROVE Unique'
  <2>1. /\ Probing("intern") /\ AtEmptySlot
        /\ old' = [atomTable EXCEPT ![probe.p] = NewAtom]
        /\ \A q \in DOMAIN atomTable' : atomTable'[q] = NULL
    BY <1>5 DEF GrowStart, Grows, Empty
  <2> QED
    BY <1>2, <2>1, NewAtomIsFirst DEF XInv, Unique, Holds
<1>6. ASSUME RehashSkip PROVE Unique'
  BY <1>6 DEF RehashSkip, table, XInv, TypeOK, Unique, Slots
<1>7. ASSUME RehashPut PROVE Unique'
  <2>1. /\ AtEmptySlot /\ i \in DOMAIN old /\ old[i] \in Atoms /\ old[i] # NULL
        /\ atomTable' = [atomTable EXCEPT ![probe.p] = old[i]]
        /\ i' = i + 1 /\ old' = old
        /\ i \in Nat /\ \A r \in DOMAIN old : r \in Int
    BY <1>7, RehashSlotIsEmpty, NullIsNoAtom DEF RehashPut, XInv, TypeOK, Slots
  <2>2. \A r \in DOMAIN old : r >= i + 1 => r >= i /\ r # i
    BY <2>1
  <2>3. \A q \in DOMAIN atomTable : atomTable[q] # NULL => atomTable[q].name # old[i].name
    BY <2>1 DEF XInv, Unique
  <2> QED
    BY <2>1, <2>2, <2>3 DEF XInv, Unique
<1>8. ASSUME GrowDone \/ Free PROVE Unique'
  BY <1>8 DEF GrowDone, Free, Empty, Slots, XInv, Unique
<1> QED
  BY <1>1, <1>4, <1>5, <1>6, <1>7, <1>8
  DEF Next, Intern, Grow, Pixels, ReadColor, ProbeOn, InternFound, AtomMakeFails, RehashStart,
      ColorsDone, ReadPixel, PixelFound, PixelMissing, PixelsDone, table

LEMMA StepComplete ==
  ASSUME XInv, Next
  PROVE  Complete'
<1>1. ASSUME ReadColor PROVE Complete'
  <2>1. PICK name \in Names : colorTable' = Append(colorTable, name)
    BY <1>1 DEF ReadColor
  <2>2. Interned = 1..Len(colorTable) /\ Interned' = 1..Len(colorTable)
    BY <1>1, <2>1 DEF ReadColor, StartProbe, Interned, Probing, XInv, TypeOK
  <2>3. \A k \in Interned : colorTable'[k] = colorTable[k]
    BY <2>1, <2>2 DEF XInv, TypeOK
  <2> QED
    BY <1>1, <2>2, <2>3 DEF ReadColor, table, XInv, Complete, Holds
<1>2. ASSUME UNCHANGED <<atomTable, old, i, colorTable>>, Interned' \subseteq Interned,
             at # "freed"
      PROVE  Complete'
  BY <1>2 DEF XInv, Complete, Holds
<1>3. ASSUME ProbeOn PROVE Complete'
  <2>1. probe'.goal = probe.goal
    BY <1>3 DEF ProbeOn, XInv, TypeOK
  <2> QED
    BY <1>2, <1>3, <2>1 DEF ProbeOn, table, Interned, Probing
<1>4. ASSUME InternFound PROVE Complete'
  <2>1. /\ Interned = 1..(Len(colorTable) - 1) /\ Interned' = 1..Len(colorTable)
        /\ Len(colorTable) \in Nat
    BY <1>4 DEF InternFound, Return, Interned, Probing, XInv, TypeOK
  <2>2. Holds(atomTable, probe.p, colorTable[Len(colorTable)]) /\ probe.p \in DOMAIN atomTable
    BY <1>4 DEF InternFound, AtItsName, AtEmptySlot, Holds, Probing, XInv, Purpose, TypeOK
  <2> QED
    BY <1>4, <2>1, <2>2 DEF InternFound, table, Probing, XInv, Complete, Holds
<1>5. ASSUME Probing("intern") PROVE
        /\ DOMAIN old = {} /\ probe.p \in DOMAIN atomTable /\ at # "freed"
        /\ Interned = 1..(Len(colorTable) - 1) /\ Len(colorTable) \in Nat
        /\ colorTable[Len(colorTable)] = probe.name
        /\ \A k \in Interned : \E q \in DOMAIN atomTable : Holds(atomTable, q, colorTable[k])
  BY <1>5 DEF XInv, TypeOK, OldSize, Growing, Probing, Slots, Interned, Purpose, Complete
<1>6. ASSUME InternNew PROVE Complete'
  <2>1. Interned' = 1..Len(colorTable)
    BY <1>6 DEF InternNew, Return, Interned, Probing, XInv, TypeOK
  <2>2. Probing("intern") /\ AtEmptySlot /\ atomTable' = [atomTable EXCEPT ![probe.p] = NewAtom]
        /\ UNCHANGED colorTable
    BY <1>6 DEF InternNew
  <2>3. NewAtom \in Atoms /\ NewAtom.name = probe.name
    BY <2>2, NewAtomIsFirst
  <2>4. Holds(atomTable', probe.p, probe.name)
    BY <1>5, <2>2, <2>3, NullIsNoAtom DEF Holds
  <2>5. \A n : \A q \in DOMAIN atomTable : Holds(atomTable, q, n) => Holds(atomTable', q, n)
    BY <2>2 DEF Holds, AtEmptySlot
  <2>6. DOMAIN atomTable' = DOMAIN atomTable
    BY <2>2
  <2>7. \A k \in Interned' : k = Len(colorTable) \/ k \in Interned
    BY <1>5, <2>1, <2>2
  <2> QED
    BY <1>5, <2>2, <2>4, <2>5, <2>6, <2>7 DEF Complete
<1>7. ASSUME GrowStart PROVE Complete'
  <2>1. Interned' = 1..Len(colorTable)
    BY <1>7 DEF GrowStart, Grows, Return, Interned, Probing, XInv, TypeOK
  <2>2. Probing("intern") /\ AtEmptySlot /\ old' = [atomTable EXCEPT ![probe.p] = NewAtom]
        /\ UNCHANGED colorTable /\ i' = 0
    BY <1>7 DEF GrowStart, Grows
  <2>3. NewAtom \in Atoms /\ NewAtom.name = probe.name
    BY <2>2, NewAtomIsFirst
  <2>4. Holds(old', probe.p, probe.name)
    BY <1>5, <2>2, <2>3, NullIsNoAtom DEF Holds
  <2>5. \A n : \A q \in DOMAIN atomTable : Holds(atomTable, q, n) => Holds(old', q, n)
    BY <2>2 DEF Holds, AtEmptySlot
  <2>6. DOMAIN old' = DOMAIN atomTable /\ \A q \in DOMAIN old' : q >= i'
    BY <2>2 DEF Probing, XInv, TypeOK, Slots
  <2>7. \A k \in Interned' : k = Len(colorTable) \/ k \in Interned
    BY <1>5, <2>1, <2>2
  <2> QED
    BY <1>5, <2>2, <2>4, <2>5, <2>6, <2>7 DEF Complete
<1>8. ASSUME AtomMakeFails PROVE Complete'
  BY <1>2, <1>8 DEF AtomMakeFails, Return, table, Interned, Probing
<1>9. ASSUME GrowFails PROVE Complete'
  <2>1. Interned' = 1..(Len(colorTable) - 1) /\ UNCHANGED <<colorTable, old, i>>
    BY <1>9 DEF GrowFails, Grows, Return, Interned, Probing
  <2>2. Probing("intern") /\ AtEmptySlot /\ atomTable' = [atomTable EXCEPT ![probe.p] = NewAtom]
    BY <1>9 DEF GrowFails, Grows
  <2>3. \A n : \A q \in DOMAIN atomTable : Holds(atomTable, q, n) => Holds(atomTable', q, n)
    BY <2>2 DEF Holds, AtEmptySlot
  <2>4. DOMAIN atomTable' = DOMAIN atomTable
    BY <2>2
  <2> QED
    BY <1>5, <2>1, <2>2, <2>3, <2>4 DEF Complete
<1>10. ASSUME RehashSkip PROVE Complete'
  <2>1. /\ Interned' = Interned /\ at # "freed" /\ old[i] = NULL /\ i' = i + 1
        /\ UNCHANGED <<atomTable, old, colorTable>>
        /\ i \in Nat /\ \A q \in DOMAIN old : q \in Int
    BY <1>10 DEF RehashSkip, table, Interned, Probing, XInv, TypeOK, Slots
  <2>2. \A n : \A q \in DOMAIN old : q >= i /\ Holds(old, q, n) => q >= i'
    BY <2>1 DEF Holds
  <2> QED
    BY <2>1, <2>2 DEF XInv, Complete, Holds
<1>11. ASSUME RehashStart PROVE Complete'
  BY <1>2, <1>11 DEF RehashStart, StartProbe, table, Interned, Probing
<1>12. ASSUME RehashPut PROVE Complete'
  <2>1. /\ AtEmptySlot /\ i \in DOMAIN old /\ old[i] # NULL
        /\ atomTable' = [atomTable EXCEPT ![probe.p] = old[i]]
        /\ i' = i + 1 /\ UNCHANGED <<old, colorTable>> /\ probe.p \in DOMAIN atomTable
        /\ i \in Nat /\ \A r \in DOMAIN old : r \in Int
    BY <1>12, RehashSlotIsEmpty, NullIsNoAtom DEF RehashPut, XInv, TypeOK, Slots, Probing
  <2>2. Interned' = Interned /\ at # "freed"
    BY <1>12 DEF RehashPut, Return, Interned, Probing
  <2>3. \A n : \A q \in DOMAIN atomTable : Holds(atomTable, q, n) => Holds(atomTable', q, n)
    BY <2>1 DEF Holds, AtEmptySlot
  <2>4. \A n : \A q \in DOMAIN old :
          q >= i /\ Holds(old, q, n) => q >= i' \/ Holds(atomTable', probe.p, n)
    BY <2>1 DEF Holds
  <2>5. DOMAIN atomTable' = DOMAIN atomTable
    BY <2>1
  <2> QED
    BY <2>1, <2>2, <2>3, <2>4, <2>5 DEF XInv, Complete
<1>13. ASSUME GrowDone PROVE Complete'
  <2>1. /\ Interned' = Interned /\ at # "freed" /\ UNCHANGED <<atomTable, colorTable>>
    BY <1>13 DEF GrowDone, Interned, Probing
  <2>2. \A q \in DOMAIN old : ~ (q >= i)
    BY <1>13 DEF GrowDone, XInv, TypeOK, Slots, OldSize, Growing
  <2> QED
    BY <2>1, <2>2 DEF XInv, Complete
<1>14. ASSUME ColorsDone \/ ReadPixel \/ PixelFound \/ PixelMissing \/ PixelsDone PROVE Complete'
  <2>1. Interned = 1..Len(colorTable) /\ UNCHANGED colorTable
    BY <1>14 DEF ColorsDone, ReadPixel, PixelFound, PixelMissing, PixelsDone, Interned, Probing,
                 XInv, TypeOK
  <2>2. Interned' \subseteq Interned
    BY <2>1 DEF Interned, XInv, TypeOK
  <2> QED
    BY <1>2, <1>14, <2>2 DEF ColorsDone, ReadPixel, PixelFound, PixelMissing, PixelsDone, Probing, table
<1>15. ASSUME Free PROVE Complete'
  BY <1>15 DEF Free, Complete
<1> QED
  BY <1>1, <1>3, <1>4, <1>6, <1>7, <1>8, <1>9, <1>10, <1>11, <1>12, <1>13, <1>14, <1>15
  DEF Next, Intern, Grow, Pixels

-----------------------------------------------------------------------------
(* Theorems.                                                               *)

LEMMA StutterInv ==
  XInv /\ UNCHANGED vars => XInv'
BY DEF vars, table, XInv, TypeOK, Reachable, Walked, Contents, Complete, Purpose, Unique, Probing,
       Growing, OldSize, Interned, Holds, FirstMatch, Home

\* The invariant that the argument rests on: types, reachability of atoms and
\* what the search has passed (kwxpm_hash.c).
THEOREM HashInvariant ==
  Spec => []XInv
<1>1. Init => XInv
  BY InitInv
<1>2. XInv /\ Next => XInv'
  <2> SUFFICES ASSUME XInv, Next PROVE XInv'
    OBVIOUS
  <2>1. TypeOK'
    BY StepTypes DEF XInv
  <2> QED
    BY <2>1, StepReachable, StepWalked, StepContents, StepComplete, StepPurpose, StepUnique DEF XInv
<1>3. XInv /\ [Next]_vars => XInv'
  BY <1>2, StutterInv
<1> QED
  BY <1>1, <1>3, PTL DEF Spec

\* The array has the size that the table says, and the search stays inside it
\* (xpmHashSlot, HashTableGrows).
THEOREM HashTypes ==
  Spec => []TypeOK
<1>1. XInv => TypeOK
  BY DEF XInv
<1> QED
  BY <1>1, HashInvariant, PTL

\* A pixel gets the colour that a search through all colours gives, or is
\* refused when that search refuses it (kwxpm_parse.c:386-421).
THEOREM LookupIsSearch ==
  Spec => []LookupIsFirstMatch
<1>1. XInv => LookupIsFirstMatch
  <2> SUFFICES ASSUME XInv, Probing("pixel") PROVE LookupIsFirstMatch
    BY DEF LookupIsFirstMatch
  <2>1. /\ at = "probe" /\ probe.p \in DOMAIN atomTable /\ DOMAIN atomTable = Slots(size)
        /\ DOMAIN old = {} /\ Interned = DOMAIN colorTable
    BY DEF XInv, TypeOK, Probing, OldSize, Growing, Slots, Interned
  <2>2. AtItsName => FirstMatch(probe.name, atomTable[probe.p].data)
    BY <2>1 DEF XInv, Contents, AtItsName, AtEmptySlot
  <2>3. ASSUME AtEmptySlot, NEW k \in DOMAIN colorTable PROVE colorTable[k] # probe.name
    <3>1. \A q \in Slots(size) : ~ Holds(atomTable, q, probe.name)
      BY <2>1, <2>3, EmptySlotMeansMissing DEF XInv
    <3> QED
      BY <2>1, <3>1 DEF XInv, Complete
  <2> QED
    BY <2>2, <2>3 DEF LookupIsFirstMatch
<1> QED
  BY <1>1, HashInvariant, PTL

\* No atom is lost or doubled while the table grows (HashTableGrows).
THEOREM AtomsAreKept ==
  Spec => []OneAtomForEachCode
<1>1. XInv => OneAtomForEachCode
  <2> DEFINE here(k) == {q \in DOMAIN atomTable : Holds(atomTable, q, colorTable[k])}
             toMove(k) == {q \in DOMAIN old : q >= i /\ Holds(old, q, colorTable[k])}
  <2> SUFFICES ASSUME XInv, at # "freed", NEW k \in Interned
               PROVE  \/ toMove(k) = {} /\ \E q \in here(k) : here(k) = {q}
                      \/ here(k) = {} /\ \E q \in toMove(k) : toMove(k) = {q}
    BY Zenon DEF OneAtomForEachCode
  <2>1. /\ \A q, r \in here(k) : q = r
        /\ \A q, r \in toMove(k) : q = r
        /\ here(k) = {} \/ toMove(k) = {}
    BY DEF XInv, Unique, Holds
  <2>2. here(k) # {} \/ toMove(k) # {}
    BY DEF XInv, Complete
  <2>3. CASE here(k) # {}
    <3>1. PICK q \in here(k) : TRUE
      BY <2>3
    <3> QED
      BY <2>1, <2>3, <3>1
  <2>4. CASE toMove(k) # {}
    <3>1. PICK q \in toMove(k) : TRUE
      BY <2>4
    <3> QED
      BY <2>1, <2>4, <3>1
  <2> QED
    BY <2>2, <2>3, <2>4
<1> QED
  BY <1>1, HashInvariant, PTL

=============================================================================
