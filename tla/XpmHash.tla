------------------------------ MODULE XpmHash ------------------------------
(***************************************************************************)
(* The hash table through which the xpm reader finds the colour of a pixel *)
(* (kwxpm_hash.c), as it is used while an image is read (kwxpm_parse.c):   *)
(* parse_xpm_file_colors interns the code of every colour, with the index  *)
(* of the colour, and parse_xpm_file_pixels looks up the code of every     *)
(* pixel.                                                                  *)
(*                                                                         *)
(* Open addressing: a code is looked for from its home slot downwards,     *)
(* round the end of the array, until it or an empty slot is found.  An     *)
(* atom is stored before the table grows, and growing makes the new array  *)
(* of every atom of the old one.  Each turn of a loop is a step here.      *)
(* A code is a model value with a hash; what a colour line says after its  *)
(* code, and how lines are scanned, is left out.                           *)
(***************************************************************************)
EXTENDS Integers, Sequences

CONSTANTS Names,        \* the codes that colours and pixels can have
          Hashes,       \* functions from Names to hash values, one is used
          InitialSize,  \* INITIAL_HASH_SIZE
          NColors       \* ncolors: colours of the image

ASSUME HashAssumption ==
  /\ Hashes \subseteq [Names -> Nat]
  /\ InitialSize \in Nat /\ InitialSize >= 2
  /\ NColors \in Nat

VARIABLES
  hash,        \* the hash function, one of Hashes
  at,          \* where the reader is
  colorTable,  \* the codes of the colours read so far
  atomTable,   \* the array of the table
  size, limit, used,
  old, i,      \* the array that HashTableGrows copies from, and how far it is
  probe        \* the call of xpmHashSlot under way: for what, name and slot

table == <<atomTable, size, limit, used>>
vars == <<hash, at, colorTable, table, old, i, probe>>

NULL == [name |-> "none", data |-> 0 - 1]
Atoms == [name : Names, data : 0..(NColors - 1)]

Slots(n) == 0..(n - 1)
Empty(n) == [q \in Slots(n) |-> NULL]

NoProbe == [goal |-> "none", name |-> "none", p |-> 0]

\* The slot where xpmHashSlot starts to look for a name.
Home(name, n) == hash[name] % n

\* Slip: a limit as large as the table; Next does not use it.
LimitIsSize(n) == n

LimitOf(n) == n \div 3

Init ==
  /\ hash \in Hashes
  /\ at = "colors"
  /\ colorTable = <<>>
  /\ size = InitialSize
  /\ limit = LimitOf(InitialSize)
  /\ used = 0
  /\ atomTable = Empty(InitialSize)
  /\ old = Empty(0)
  /\ i = 0
  /\ probe = NoProbe

-----------------------------------------------------------------------------
(* xpmHashSlot                                                             *)

StartProbe(goal, name) ==
  /\ at' = "probe"
  /\ probe' = [goal |-> goal, name |-> name, p |-> Home(name, size)]

Probing(goal) == at = "probe" /\ probe.goal = goal
AtEmptySlot == atomTable[probe.p] = NULL
AtItsName == ~ AtEmptySlot /\ atomTable[probe.p].name = probe.name
Stops == AtEmptySlot \/ AtItsName

Return(to) == at' = to /\ probe' = NoProbe

\* Slip: the search goes round to the slot after the last one.
ProbeOnOverTheEnd ==
  /\ at = "probe" /\ ~ Stops
  /\ probe' = [probe EXCEPT !.p = IF probe.p = 0 THEN size ELSE probe.p - 1]
  /\ UNCHANGED <<hash, at, colorTable, table, old, i>>

\* One turn of the loop; the slots before the first are the last ones.
ProbeOn ==
  /\ at = "probe" /\ ~ Stops
  /\ probe' = [probe EXCEPT !.p = IF probe.p = 0 THEN size - 1 ELSE probe.p - 1]
  /\ UNCHANGED <<hash, at, colorTable, table, old, i>>

-----------------------------------------------------------------------------
(* xpmHashIntern, called for every colour                                  *)

ReadColor ==
  /\ at = "colors" /\ Len(colorTable) < NColors
  /\ \E name \in Names :
       /\ colorTable' = Append(colorTable, name)
       /\ StartProbe("intern", name)
  /\ UNCHANGED <<hash, table, old, i>>

\* The atom that AtomMake makes of the last colour.
NewAtom == [name |-> probe.name, data |-> Len(colorTable) - 1]

\* Slip: a later colour of the same code takes it.
InternReplaces ==
  /\ Probing("intern") /\ AtItsName
  /\ atomTable' = [atomTable EXCEPT ![probe.p] = NewAtom]
  /\ Return("colors")
  /\ UNCHANGED <<hash, colorTable, size, limit, used, old, i>>

\* A code that an earlier colour has: that colour keeps it.
InternFound ==
  /\ Probing("intern") /\ AtItsName
  /\ Return("colors")
  /\ UNCHANGED <<hash, colorTable, table, old, i>>

InternNew ==
  /\ Probing("intern") /\ AtEmptySlot /\ used < limit
  /\ atomTable' = [atomTable EXCEPT ![probe.p] = NewAtom]
  /\ used' = used + 1
  /\ Return("colors")
  /\ UNCHANGED <<hash, colorTable, size, limit, old, i>>

AtomMakeFails ==
  /\ Probing("intern") /\ AtEmptySlot
  /\ Return("failed")
  /\ UNCHANGED <<hash, colorTable, table, old, i>>

-----------------------------------------------------------------------------
(* HashTableGrows: the new atom is in the old array already.               *)

Grows ==
  /\ Probing("intern") /\ AtEmptySlot /\ used >= limit
  /\ size' = size * 2
  /\ limit' = LimitOf(size')
  /\ UNCHANGED <<hash, colorTable, used>>

GrowStart ==
  /\ Grows
  /\ old' = [atomTable EXCEPT ![probe.p] = NewAtom]
  /\ i' = 0
  /\ atomTable' = Empty(size')
  /\ Return("grow")

\* No memory: the table keeps its array and has the size of the new one.
GrowFails ==
  /\ Grows
  /\ atomTable' = [atomTable EXCEPT ![probe.p] = NewAtom]
  /\ Return("failed")
  /\ UNCHANGED <<old, i>>

RehashSkip ==
  /\ at = "grow" /\ i \in DOMAIN old /\ old[i] = NULL
  /\ i' = i + 1
  /\ UNCHANGED <<hash, at, colorTable, table, old, probe>>

\* Slip: every atom is copied to the slot it had.
RehashInPlace ==
  /\ at = "grow" /\ i \in DOMAIN old /\ old[i] # NULL
  /\ atomTable' = [atomTable EXCEPT ![i] = old[i]]
  /\ i' = i + 1
  /\ UNCHANGED <<hash, at, colorTable, size, limit, used, old, probe>>

RehashStart ==
  /\ at = "grow" /\ i \in DOMAIN old /\ old[i] # NULL
  /\ StartProbe("rehash", old[i].name)
  /\ UNCHANGED <<hash, colorTable, table, old, i>>

RehashPut ==
  /\ Probing("rehash") /\ Stops
  /\ atomTable' = [atomTable EXCEPT ![probe.p] = old[i]]
  /\ i' = i + 1
  /\ Return("grow")
  /\ UNCHANGED <<hash, colorTable, size, limit, used, old>>

\* The old array is freed, and xpmHashIntern counts the atom.
GrowDone ==
  /\ at = "grow" /\ i \notin DOMAIN old
  /\ old' = Empty(0) /\ i' = 0
  /\ used' = used + 1
  /\ at' = "colors"
  /\ UNCHANGED <<hash, colorTable, atomTable, size, limit, probe>>

-----------------------------------------------------------------------------
(* The colours are read, the pixels are looked up, the table is freed.     *)

ColorsDone ==
  /\ at = "colors" /\ Len(colorTable) = NColors
  /\ at' = "pixels"
  /\ UNCHANGED <<hash, colorTable, table, old, i, probe>>

ReadPixel ==
  /\ at = "pixels"
  /\ \E name \in Names : StartProbe("pixel", name)
  /\ UNCHANGED <<hash, colorTable, table, old, i>>

PixelFound ==
  /\ Probing("pixel") /\ AtItsName
  /\ Return("pixels")
  /\ UNCHANGED <<hash, colorTable, table, old, i>>

\* No colour has the code of the pixel: the image is refused.
PixelMissing ==
  /\ Probing("pixel") /\ AtEmptySlot
  /\ Return("failed")
  /\ UNCHANGED <<hash, colorTable, table, old, i>>

PixelsDone ==
  /\ at = "pixels"
  /\ at' = "done"
  /\ UNCHANGED <<hash, colorTable, table, old, i, probe>>

\* xpmHashTableFree
Free ==
  /\ at \in {"failed", "done"}
  /\ at' = "freed"
  /\ atomTable' = Empty(0)
  /\ UNCHANGED <<hash, colorTable, size, limit, used, old, i, probe>>

Intern == InternFound \/ InternNew \/ AtomMakeFails

Grow == GrowStart \/ GrowFails \/ RehashSkip \/ RehashStart \/ RehashPut \/ GrowDone

Pixels == ReadPixel \/ PixelFound \/ PixelMissing \/ PixelsDone

Next == ReadColor \/ ProbeOn \/ Intern \/ Grow \/ ColorsDone \/ Pixels \/ Free

Spec == Init /\ [][Next]_vars

\* The reader is one thread that does not wait for anybody.
FairSpec == Spec /\ WF_vars(Next)

-----------------------------------------------------------------------------
(* Properties.                                                             *)

\* Atoms are being moved to a new array.
Growing == at = "grow" \/ Probing("rehash")

OldSize == IF Growing THEN size \div 2 ELSE 0

\* The array has the size the table says, unless making a larger one failed.
TypeOK ==
  /\ hash \in Hashes
  /\ at \in {"colors", "probe", "grow", "pixels", "failed", "done", "freed"}
  /\ colorTable \in Seq(Names) /\ Len(colorTable) <= NColors
  /\ size \in Nat /\ size >= 2
  /\ limit = LimitOf(size)
  /\ used \in Nat
  /\ atomTable \in [DOMAIN atomTable -> Atoms \cup {NULL}]
  /\ at \notin {"failed", "freed"} => DOMAIN atomTable = Slots(size)
  /\ old \in [Slots(OldSize) -> Atoms \cup {NULL}]
  /\ i \in 0..OldSize
  /\ at = "probe" =>
       probe \in [goal : {"intern", "rehash", "pixel"}, name : Names, p : Slots(size)]
  /\ at # "probe" => probe = NoProbe

\* The colour that a search through all colours gives, the way
\* parse_xpm_file_pixels looks pixels up when there is no table.
FirstMatch(name, a) ==
  /\ a + 1 \in DOMAIN colorTable
  /\ colorTable[a + 1] = name
  /\ \A k \in 1..a : colorTable[k] # name

\* A pixel gets the colour that the search through all colours would give it,
\* and is refused only if that search would refuse it, whatever collides and
\* however often the table has grown (xpmHashSlot, kwxpm_parse.c:386-398, and
\* the loop without a table, kwxpm_parse.c:404-421).
LookupIsFirstMatch ==
  Probing("pixel") =>
    /\ AtItsName => FirstMatch(probe.name, atomTable[probe.p].data)
    /\ AtEmptySlot => \A k \in DOMAIN colorTable : colorTable[k] # probe.name

\* The colours whose code must be in the table: the last one is not as long
\* as it is being interned.
Interned ==
  IF Probing("intern") \/ at \in {"failed", "freed"}
  THEN 1..(Len(colorTable) - 1) ELSE DOMAIN colorTable

Holds(array, q, name) == array[q] # NULL /\ array[q].name = name

\* No atom is lost or stored twice, also while HashTableGrows moves them one
\* after the other: the code of a colour has one atom, in the array or among
\* those that are still to be moved.
OneAtomForEachCode ==
  at # "freed" =>
    \A k \in Interned :
      LET here == {q \in DOMAIN atomTable : Holds(atomTable, q, colorTable[k])}
          toMove == {q \in DOMAIN old : q >= i /\ Holds(old, q, colorTable[k])}
      IN  \/ toMove = {} /\ \E q \in here : here = {q}
          \/ here = {} /\ \E q \in toMove : toMove = {q}

\* Every search ends (xpmHashSlot has no other end than the name or an empty
\* slot, and xpmHashIntern fills a slot before it looks at the limit).
ProbingEnds == at = "probe" ~> at # "probe"

=============================================================================
