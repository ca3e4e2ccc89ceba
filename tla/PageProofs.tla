------------------------------ MODULE PageProofs ------------------------------
(* The proofs about the storage of a page and the life of its workspaces.  An  *)
(* invariant of a part is proved of the part's own specification, under the    *)
(* part's own assumption, and carried over by its <Part>Run lemma: MCPage runs *)
(* one part at a time, so that each of its behaviours is one of every part.    *)
EXTENDS MCPage, WellFoundedInduction, TLAPS

-----------------------------------------------------------------------------
(* The vault of the browser (src/src/storage/browser-vault.ts)                 *)
(*                                                                             *)
(* No legacy or saved data is lost, for any sources, paths, contents and       *)
(* generations, when every legacy writer honours the writer lock.              *)
(* LegacyKept alone is not inductive: RemoveEntry deletes plaintext on the     *)
(* strength of checks made many steps, and perhaps several crashed opens,      *)
(* before.  CopyState carries the inventory and its verification to the        *)
(* commit, CleanState carries the persisted journal to the removal.            *)

CopySteps == {"remove", "select", "create", "copy", "verify", "commit"}

\* Before the commit nothing is removed, and what will be is what is there.
CopyState ==
  /\ pc \in CopySteps => control # NoControl /\ ~Committed
  /\ pc \in {"copy", "verify", "commit"} =>
       control.generation \in Gens /\ Selected # Missing
  /\ pc \in {"select", "create"} => \A g \in Gens : gens[g] = Missing
  /\ pc = "create" => control.generation \in Gens
  /\ pc = "copy" => journal \in Inventory
  /\ pc = "commit" => mem = Selected.files

\* A committed generation exists until it is erased, and cleanup removes
\* only what its persisted files hold.
CleanState ==
  /\ pc \in {"mount", "clean", "cleanSource", "open"} => Committed
  /\ pc \in {"clean", "cleanSource", "open"} => Selected # Missing
  /\ pc \in {"clean", "cleanSource"} => control.phase = "cleanup" /\ mem = Selected.files
  /\ pc = "cleanSource" => journal \in Inventory /\ Imported(Selected.files, journal)
  /\ pc = "open" => control.phase = "ready"
  /\ cleaning # {} => pc = "cleanSource"
  /\ \A s \in cleaning, p \in Paths :
       legacy[s][p] # Absent => legacy[s][p] = journal[s][p]

\* The bootstrap selects a generation from the copy on.
ControlState ==
  /\ control # NoControl /\ control.phase # "pending" => control.generation \in Gens
  /\ pc = "erase" => /\ \A s \in Sources, p \in Paths : due[s][p] = Absent
                     /\ \A p \in Paths : mine[p] = Absent
  /\ \A p \in Paths : mine[p] # Absent => control # NoControl /\ control.phase = "ready"

IInv == /\ TypeOK /\ CopyState /\ CleanState /\ ControlState
        /\ LegacyKept /\ SavesKept /\ OnlySelectedGeneration

LEMMA EmptyTrees == EmptyTree \in Tree /\ \A p \in Paths : EmptyTree[p] = Absent
BY DEF EmptyTree, Tree, Entry

\* Writing one entry, or the journal, of an existing generation.
LEMMA FilePut ==
  ASSUME TypeOK, NEW g \in Gens, gens[g] # Missing, NEW p \in Paths, NEW c \in Entry,
         gens' = [gens EXCEPT ![g].files[p] = c]
  PROVE  /\ gens' \in [Gens -> Generation \cup {Missing}] /\ gens'[g] # Missing
         /\ \A h \in Gens : h # g => gens'[h] = gens[h]
<1> DEFINE new == [gens[g] EXCEPT !.files = [gens[g].files EXCEPT ![p] = c]]
<1>1. gens \in [Gens -> Generation \cup {Missing}] /\ gens[g] \in Generation
  BY DEF TypeOK
<1>2. [gens[g].files EXCEPT ![p] = c] \in Tree
  BY <1>1 DEF Generation, Tree
<1>3. new \in Generation /\ new.files = [gens[g].files EXCEPT ![p] = c]
  BY <1>1, <1>2 DEF Generation
<1>4. gens' = [gens EXCEPT ![g] = new]
  OBVIOUS
<1> HIDE DEF new
<1> QED BY <1>1, <1>3, <1>4, VaultAssumption

LEMMA JournalPut ==
  ASSUME TypeOK, NEW g \in Gens, gens[g] # Missing,
         gens' = [gens EXCEPT ![g].journal = journal]
  PROVE  gens' \in [Gens -> Generation \cup {Missing}] /\ gens'[g] # Missing
<1> DEFINE new == [gens[g] EXCEPT !.journal = journal]
<1>1. gens \in [Gens -> Generation \cup {Missing}] /\ gens[g] \in Generation
  BY DEF TypeOK
<1>2. new \in Generation
  BY <1>1 DEF Generation, TypeOK
<1>3. gens' = [gens EXCEPT ![g] = new]
  OBVIOUS
<1> HIDE DEF new
<1> QED BY <1>1, <1>2, <1>3, VaultAssumption

LEMMA InitIInv == Init => IInv
BY EmptyTrees DEF Init, IInv, TypeOK, CopyState, CleanState, ControlState, LegacyKept, SavesKept,
  OnlySelectedGeneration, InVault, Committed, CopySteps

LEMMA NextIInv == ASSUME ~LegacyIgnoresLock, IInv, [Next]_vars PROVE IInv'
<1> USE VaultAssumption, EmptyTrees
<1> USE DEF IInv, TypeOK, Committed, Selected, CopySteps, durable, local, history
<1>1. CASE Open
  <2>1. TypeOK'
    BY <1>1 DEF Open, Control, Phases
  <2>2. CopyState'
    BY <1>1 DEF Open, CopyState, Control, Phases
  <2>3. CleanState'
    BY <1>1 DEF Open, CleanState
  <2>4. ControlState'
    BY <1>1 DEF Open, ControlState
  <2>5. LegacyKept' /\ SavesKept'
    BY <1>1 DEF Open, LegacyKept, SavesKept, InVault
  <2>6. OnlySelectedGeneration'
    BY <1>1 DEF Open, OnlySelectedGeneration
  <2> QED BY <2>1, <2>2, <2>3, <2>4, <2>5, <2>6
<1>2. CASE RemoveStale
  <2>1. TypeOK'
    BY <1>2 DEF RemoveStale
  <2>2. CopyState'
    BY <1>2 DEF RemoveStale, CopyState, OnlySelectedGeneration
  <2>3. CleanState'
    BY <1>2 DEF RemoveStale, CleanState
  <2>4. ControlState'
    BY <1>2 DEF RemoveStale, ControlState
  <2>5. LegacyKept' /\ SavesKept'
    BY <1>2 DEF RemoveStale, LegacyKept, SavesKept, CopyState, InVault
  <2>6. OnlySelectedGeneration'
    BY <1>2 DEF RemoveStale, OnlySelectedGeneration
  <2> QED BY <2>1, <2>2, <2>3, <2>4, <2>5, <2>6
<1>3. CASE Select
  <2>1. TypeOK'
    BY <1>3 DEF Select, Control, Phases
  <2>2. CopyState'
    BY <1>3 DEF Select, CopyState, Control, Phases
  <2>3. CleanState'
    BY <1>3 DEF Select, CleanState
  <2>4. ControlState'
    BY <1>3 DEF Select, ControlState, CopyState
  <2>5. LegacyKept' /\ SavesKept'
    BY <1>3 DEF Select, LegacyKept, SavesKept, CopyState, InVault
  <2>6. OnlySelectedGeneration'
    BY <1>3 DEF Select, OnlySelectedGeneration, CopyState
  <2> QED BY <2>1, <2>2, <2>3, <2>4, <2>5, <2>6
<1>4. CASE Create
  <2>1. TypeOK'
    BY <1>4 DEF Create, Generation, Inventory
  <2>2. CopyState'
    BY <1>4 DEF Create, CopyState, Inventory, Generation
  <2>3. CleanState'
    BY <1>4 DEF Create, CleanState
  <2>4. ControlState'
    BY <1>4 DEF Create, ControlState
  <2>5. LegacyKept' /\ SavesKept'
    BY <1>4 DEF Create, LegacyKept, SavesKept, CopyState, InVault
  <2>6. OnlySelectedGeneration'
    BY <1>4 DEF Create, OnlySelectedGeneration, CopyState
  <2> QED BY <2>1, <2>2, <2>3, <2>4, <2>5, <2>6
<1>5. CASE JournalWrite
  <2>1. TypeOK'
    <3>1. control.generation \in Gens /\ Selected # Missing
      BY <1>5 DEF JournalWrite, CopyState
    <3>2. gens' \in [Gens -> Generation \cup {Missing}]
      BY <1>5, <3>1, JournalPut DEF JournalWrite
    <3> QED BY <1>5, <3>2 DEF JournalWrite
  <2>2. CopyState'
    BY <1>5 DEF JournalWrite, CopyState, Generation
  <2>3. CleanState'
    BY <1>5 DEF JournalWrite, CleanState
  <2>4. ControlState'
    BY <1>5 DEF JournalWrite, ControlState
  <2>5. LegacyKept' /\ SavesKept'
    BY <1>5 DEF JournalWrite, LegacyKept, SavesKept, InVault, Generation
  <2>6. OnlySelectedGeneration'
    BY <1>5 DEF JournalWrite, OnlySelectedGeneration, CopyState
  <2> QED BY <2>1, <2>2, <2>3, <2>4, <2>5, <2>6
<1>6. CASE Verify
  <2>1. TypeOK'
    BY <1>6 DEF Verify, Generation, CopyState
  <2>2. CopyState'
    BY <1>6 DEF Verify, CopyState
  <2>3. CleanState'
    BY <1>6 DEF Verify, CleanState
  <2>4. ControlState'
    BY <1>6 DEF Verify, ControlState
  <2>5. LegacyKept' /\ SavesKept'
    BY <1>6 DEF Verify, LegacyKept, SavesKept, InVault
  <2>6. OnlySelectedGeneration'
    BY <1>6 DEF Verify, OnlySelectedGeneration
  <2> QED BY <2>1, <2>2, <2>3, <2>4, <2>5, <2>6
<1>7. CASE Commit
  <2>1. TypeOK'
    BY <1>7 DEF Commit, Control, Phases, CopyState
  <2>2. CopyState'
    BY <1>7 DEF Commit, CopyState
  <2>3. CleanState'
    BY <1>7 DEF Commit, CleanState, CopyState, Control, Phases
  <2>4. ControlState'
    BY <1>7 DEF Commit, ControlState, CopyState
  <2>5. LegacyKept' /\ SavesKept'
    BY <1>7 DEF Commit, LegacyKept, SavesKept, InVault, Control, Phases
  <2>6. OnlySelectedGeneration'
    BY <1>7 DEF Commit, OnlySelectedGeneration, Control, Phases
  <2> QED BY <2>1, <2>2, <2>3, <2>4, <2>5, <2>6
<1>8. CASE Mount
  <2>1. TypeOK'
    BY <1>8 DEF Mount, Generation, CleanState, ControlState
  <2>2. CopyState'
    BY <1>8 DEF Mount, CopyState
  <2>3. CleanState'
    BY <1>8 DEF Mount, CleanState
  <2>4. ControlState'
    BY <1>8 DEF Mount, ControlState
  <2>5. LegacyKept' /\ SavesKept'
    BY <1>8 DEF Mount, LegacyKept, SavesKept, InVault
  <2>6. OnlySelectedGeneration'
    BY <1>8 DEF Mount, OnlySelectedGeneration
  <2> QED BY <2>1, <2>2, <2>3, <2>4, <2>5, <2>6
<1>9. CASE BeginCleanup
  <2>1. TypeOK'
    BY <1>9 DEF BeginCleanup, Generation, CleanState, ControlState
  <2>2. CopyState'
    BY <1>9 DEF BeginCleanup, CopyState
  <2>3. CleanState'
    BY <1>9 DEF BeginCleanup, CleanState, ControlState, Generation
  <2>4. ControlState'
    BY <1>9 DEF BeginCleanup, ControlState
  <2>5. LegacyKept' /\ SavesKept'
    BY <1>9 DEF BeginCleanup, LegacyKept, SavesKept, InVault
  <2>6. OnlySelectedGeneration'
    BY <1>9 DEF BeginCleanup, OnlySelectedGeneration
  <2> QED BY <2>1, <2>2, <2>3, <2>4, <2>5, <2>6
<1>10. CASE Ready
  <2>1. TypeOK'
    BY <1>10 DEF Ready, Control, Phases, CleanState
  <2>2. CopyState'
    BY <1>10 DEF Ready, CopyState
  <2>3. CleanState'
    BY <1>10 DEF Ready, CleanState, Control, Phases
  <2>4. ControlState'
    BY <1>10 DEF Ready, ControlState, CleanState
  <2>5. LegacyKept' /\ SavesKept'
    BY <1>10 DEF Ready, LegacyKept, SavesKept, CopyState, InVault, Control, Phases
  <2>6. OnlySelectedGeneration'
    BY <1>10 DEF Ready, OnlySelectedGeneration, Control, Phases
  <2> QED BY <2>1, <2>2, <2>3, <2>4, <2>5, <2>6
<1>11. CASE Reset
  <2>1. TypeOK'
    BY <1>11 DEF Reset, Inventory
  <2>2. CopyState'
    BY <1>11 DEF Reset, CopyState
  <2>3. CleanState'
    BY <1>11 DEF Reset, CleanState
  <2>4. ControlState'
    BY <1>11 DEF Reset, ControlState
  <2>5. LegacyKept' /\ SavesKept'
    BY <1>11 DEF Reset, LegacyKept, SavesKept
  <2>6. OnlySelectedGeneration'
    BY <1>11 DEF Reset, OnlySelectedGeneration
  <2> QED BY <2>1, <2>2, <2>3, <2>4, <2>5, <2>6
<1>12. CASE EraseBacking
  <2>1. TypeOK'
    BY <1>12 DEF EraseBacking, Control, Generation, Tree, Entry, Inventory, Phases, Present,
       CopyState, CleanState, ControlState
  <2>2. CopyState'
    BY <1>12 DEF EraseBacking, CopyState
  <2>3. CleanState'
    BY <1>12 DEF EraseBacking, CleanState
  <2>4. ControlState'
    BY <1>12 DEF EraseBacking, ControlState
  <2>5. LegacyKept' /\ SavesKept'
    BY <1>12 DEF EraseBacking, LegacyKept, SavesKept, ControlState
  <2>6. OnlySelectedGeneration'
    BY <1>12 DEF EraseBacking, OnlySelectedGeneration
  <2> QED BY <2>1, <2>2, <2>3, <2>4, <2>5, <2>6
<1>13. CASE EraseControl
  <2>1. TypeOK'
    BY <1>13 DEF EraseControl
  <2>2. CopyState'
    BY <1>13 DEF EraseControl, CopyState
  <2>3. CleanState'
    BY <1>13 DEF EraseControl, CleanState
  <2>4. ControlState'
    BY <1>13 DEF EraseControl, ControlState
  <2>5. LegacyKept' /\ SavesKept'
    BY <1>13 DEF EraseControl, LegacyKept, SavesKept, ControlState
  <2>6. OnlySelectedGeneration'
    BY <1>13 DEF EraseControl, OnlySelectedGeneration
  <2> QED BY <2>1, <2>2, <2>3, <2>4, <2>5, <2>6
<1>14. CASE Stop
  <2>1. TypeOK'
    BY <1>14 DEF Stop
  <2>2. CopyState'
    BY <1>14 DEF Stop, CopyState
  <2>3. CleanState'
    BY <1>14 DEF Stop, CleanState
  <2>4. ControlState'
    BY <1>14 DEF Stop, ControlState
  <2>5. LegacyKept' /\ SavesKept'
    BY <1>14 DEF Stop, LegacyKept, SavesKept, InVault
  <2>6. OnlySelectedGeneration'
    BY <1>14 DEF Stop, OnlySelectedGeneration
  <2> QED BY <2>1, <2>2, <2>3, <2>4, <2>5, <2>6
<1>15. ASSUME NEW s \in Sources, CopySource(s) PROVE IInv'
  <2>1. TypeOK'
    <3>1. mem' \in Tree
      BY <1>15 DEF CopySource, Tree, Inventory
    <3>2. journal' \in Inventory
      BY <1>15 DEF CopySource, CopyState, Inventory
    <3> QED BY <1>15, <3>1, <3>2 DEF CopySource
  <2>2. CopyState'
    <3>1. journal' \in Inventory
      BY <1>15 DEF CopySource, CopyState, Inventory
    <3> QED BY <1>15, <3>1 DEF CopySource, CopyState
  <2>3. CleanState'
    BY <1>15 DEF CopySource, CleanState
  <2>4. ControlState'
    BY <1>15 DEF CopySource, ControlState
  <2>5. LegacyKept' /\ SavesKept'
    BY <1>15 DEF CopySource, LegacyKept, SavesKept, InVault
  <2>6. OnlySelectedGeneration'
    BY <1>15 DEF CopySource, OnlySelectedGeneration
  <2> QED BY <2>1, <2>2, <2>3, <2>4, <2>5, <2>6
<1>16. ASSUME NEW s \in Sources, CheckSource(s) \/ SourceRemoved(s) PROVE IInv'
  <2>1. TypeOK'
    BY <1>16 DEF CheckSource, SourceRemoved
  <2>2. CopyState'
    BY <1>16 DEF CheckSource, SourceRemoved, CopyState
  <2>3. CleanState'
    BY <1>16 DEF CheckSource, SourceRemoved, CleanState
  <2>4. ControlState'
    BY <1>16 DEF CheckSource, SourceRemoved, ControlState
  <2>5. LegacyKept' /\ SavesKept'
    <3>1. UNCHANGED <<control, gens, legacy, due, mine>>
      BY <1>16 DEF CheckSource, SourceRemoved
    <3> QED BY <3>1 DEF LegacyKept, SavesKept, InVault
  <2>6. OnlySelectedGeneration'
    BY <1>16 DEF CheckSource, SourceRemoved, OnlySelectedGeneration
  <2> QED BY <2>1, <2>2, <2>3, <2>4, <2>5, <2>6
<1>17. ASSUME NEW p \in Paths, Persist(p) PROVE IInv'
  <2>0. gens' \in [Gens -> Generation \cup {Missing}] /\ gens'[control.generation] # Missing
    <3>1. TypeOK /\ control.generation \in Gens
          /\ gens[control.generation] # Missing /\ mem[p] \in Entry
      BY <1>17 DEF Persist, CopyState, Tree
    <3>2. CASE gens' = [gens EXCEPT ![control.generation].files[p] = mem[p]]
      <4> HIDE DEF IInv, TypeOK, Committed, Selected, CopySteps, durable, local, history
      <4> QED BY <3>1, <3>2, FilePut
    <3> QED BY <1>17, <3>1, <3>2 DEF Persist
  <2>1. TypeOK'
    BY <1>17, <2>0 DEF Persist
  <2>2. CopyState'
    BY <1>17, <2>0 DEF Persist, CopyState
  <2>3. CleanState'
    BY <1>17 DEF Persist, CleanState
  <2>4. ControlState'
    BY <1>17 DEF Persist, ControlState
  <2>5. LegacyKept' /\ SavesKept'
    BY <1>17 DEF Persist, LegacyKept, SavesKept, CopyState, InVault
  <2>6. OnlySelectedGeneration'
    BY <1>17 DEF Persist, OnlySelectedGeneration, CopyState
  <2> QED BY <2>1, <2>2, <2>3, <2>4, <2>5, <2>6
<1>18. ASSUME NEW s \in Sources, NEW p \in Paths, RemoveEntry(s, p) PROVE IInv'
  <2>1. TypeOK'
    BY <1>18 DEF RemoveEntry, Tree, Inventory
  <2>2. CopyState'
    BY <1>18 DEF RemoveEntry, CopyState
  <2>3. CleanState'
    BY <1>18 DEF RemoveEntry, CleanState
  <2>4. ControlState'
    BY <1>18 DEF RemoveEntry, ControlState
  <2>5. LegacyKept' /\ SavesKept'
    BY <1>18 DEF RemoveEntry, LegacyKept, SavesKept, CleanState, InVault, Imported
  <2>6. OnlySelectedGeneration'
    BY <1>18 DEF RemoveEntry, OnlySelectedGeneration
  <2> QED BY <2>1, <2>2, <2>3, <2>4, <2>5, <2>6
<1>19. ASSUME NEW p \in Paths, NEW c \in Content, Save(p, c) PROVE IInv'
  <2> DEFINE g == control.generation
  <2>0. g \in Gens /\ gens[g] # Missing /\ c \in Entry /\ control' = control
        /\ control # NoControl /\ control.phase = "ready"
    BY <1>19 DEF Save, CleanState, ControlState, Entry
  <2>7. /\ gens' \in [Gens -> Generation \cup {Missing}] /\ gens'[g] # Missing
        /\ \A h \in Gens : h # g => gens'[h] = gens[h]
        /\ gens'[g].files[p] = c
        /\ \A q \in Paths : q # p => gens'[g].files[q] = gens[g].files[q]
    <3>1. TypeOK /\ gens' = [gens EXCEPT ![g].files[p] = c]
      BY <1>19 DEF Save
    <3>2. gens[g] \in Generation /\ gens[g].files \in [Paths -> Entry]
      BY <2>0 DEF Generation, Tree
    <3>3. gens'[g] = [gens[g] EXCEPT !.files = [gens[g].files EXCEPT ![p] = c]]
      BY <2>0, <3>1
    <3>4. gens'[g].files = [gens[g].files EXCEPT ![p] = c]
      BY <3>2, <3>3 DEF Generation
    <3>5. /\ gens'[g].files[p] = c
          /\ \A q \in Paths : q # p => gens'[g].files[q] = gens[g].files[q]
      BY <3>2, <3>4
    <3> HIDE DEF IInv, TypeOK, Committed, Selected, CopySteps, durable, local, history
    <3>6. /\ gens' \in [Gens -> Generation \cup {Missing}] /\ gens'[g] # Missing
          /\ \A h \in Gens : h # g => gens'[h] = gens[h]
      BY <2>0, <3>1, FilePut
    <3> QED BY <3>5, <3>6
  <2>1. TypeOK'
    <3>1. mem' \in Tree /\ mine' \in Tree
      BY <1>19, <2>0 DEF Save, Tree
    <3> QED BY <1>19, <2>7, <3>1 DEF Save
  <2>2. CopyState'
    BY <1>19 DEF Save, CopyState
  <2>3. CleanState'
    BY <1>19, <2>0, <2>7 DEF Save, CleanState
  <2>4. ControlState'
    BY <1>19 DEF Save, ControlState, CleanState
  <2>5. LegacyKept' /\ SavesKept'
    <3>1. \A q \in Paths : mine'[q] = IF q = p THEN c ELSE mine[q]
      BY <1>19 DEF Save, Tree
    <3>2. \A q \in Paths : mine'[q] # Absent => gens'[g].files[q] = mine'[q]
      BY <2>0, <2>7, <3>1 DEF SavesKept, InVault
    <3>3. SavesKept'
      BY <2>0, <2>7, <3>2 DEF SavesKept, InVault
    <3>4. ASSUME NEW t \in Sources, NEW q \in Paths, due[t][q] # Absent, q # p
          PROVE  \/ legacy[t][q] = due[t][q]
                 \/ gens'[g].files[q] = due[t][q]
                 \/ mine'[q] # Absent /\ gens'[g].files[q] = mine'[q]
      BY <2>0, <2>7, <3>1, <3>2, <3>4 DEF LegacyKept, InVault
    <3>5. mine'[p] # Absent /\ gens'[g].files[p] = mine'[p]
      BY <2>0, <2>7, <3>1
    <3>6. legacy' = legacy /\ due' = due
      BY <1>19 DEF Save
    <3>7. LegacyKept'
      BY <2>0, <2>7, <3>4, <3>5, <3>6 DEF LegacyKept, InVault
    <3> QED BY <3>3, <3>7
  <2>6. OnlySelectedGeneration'
    BY <1>19 DEF Save, OnlySelectedGeneration, CleanState
  <2> QED BY <2>1, <2>2, <2>3, <2>4, <2>5, <2>6
<1>20. ASSUME NEW s \in Sources, NEW p \in Paths, NEW c \in Content, LegacyWrite(s, p, c)
       PROVE IInv'
  <2>1. TypeOK'
    BY <1>20 DEF LegacyWrite, Tree, Entry, Inventory
  <2>2. CopyState'
    BY <1>20 DEF LegacyWrite, CopyState
  <2>3. CleanState'
    BY <1>20 DEF LegacyWrite, CleanState
  <2>4. ControlState'
    BY <1>20 DEF LegacyWrite, ControlState
  <2>5. LegacyKept' /\ SavesKept'
    BY <1>20 DEF LegacyWrite, LegacyKept, SavesKept, InVault, Tree, Inventory
  <2>6. OnlySelectedGeneration'
    BY <1>20 DEF LegacyWrite, OnlySelectedGeneration
  <2> QED BY <2>1, <2>2, <2>3, <2>4, <2>5, <2>6
<1>21. CASE UNCHANGED vars
  <2>1. TypeOK'
    BY <1>21 DEF vars
  <2>2. CopyState'
    BY <1>21 DEF vars, CopyState
  <2>3. CleanState'
    BY <1>21 DEF vars, CleanState
  <2>4. ControlState'
    BY <1>21 DEF vars, ControlState
  <2>5. LegacyKept' /\ SavesKept'
    BY <1>21 DEF vars, LegacyKept, SavesKept, InVault
  <2>6. OnlySelectedGeneration'
    BY <1>21 DEF vars, OnlySelectedGeneration
  <2> QED BY <2>1, <2>2, <2>3, <2>4, <2>5, <2>6
<1> QED
  BY <1>1, <1>2, <1>3, <1>4, <1>5, <1>6, <1>7, <1>8, <1>9, <1>10, <1>11, <1>12, <1>13, <1>14,
     <1>15, <1>16, <1>17, <1>18, <1>19, <1>20, <1>21 DEF Next

LEMMA AlwaysIInv == ASSUME ~LegacyIgnoresLock PROVE Spec => []IInv
<1>1. IInv /\ [Next]_vars => IInv'
  BY NextIInv
<1> QED BY <1>1, InitIInv, PTL DEF Spec

-----------------------------------------------------------------------------
\* Every value of the state is one the code can hold.
THEOREM TypeCorrect == ASSUME ~LegacyIgnoresLock PROVE Spec => []TypeOK
<1>1. IInv => TypeOK
  BY DEF IInv
<1> QED BY <1>1, AlwaysIInv, PTL

\* Whatever crashes or fails, migration, cleanup and later opens never lose a
\* legacy entry that nobody asked to delete: the source or the committed
\* generation has it.
THEOREM LegacySurvives == ASSUME ~LegacyIgnoresLock PROVE Spec => []LegacyKept
<1>1. IInv => LegacyKept
  BY DEF IInv
<1> QED BY <1>1, AlwaysIInv, PTL

\* No open replaces a vault that holds saved data.
THEOREM SavesSurvive == ASSUME ~LegacyIgnoresLock PROVE Spec => []SavesKept
<1>1. IInv => SavesKept
  BY DEF IInv
<1> QED BY <1>1, AlwaysIInv, PTL

\* At most the selected generation exists, so a definitively absent bootstrap
\* means that there is nothing to lose: Open may initialize.
THEOREM BootstrapIsLast ==
  ASSUME ~LegacyIgnoresLock
  PROVE  Spec => [](OnlySelectedGeneration /\ BootstrapOutlivesBackings)
<1>1. IInv => OnlySelectedGeneration /\ BootstrapOutlivesBackings
  BY DEF IInv, OnlySelectedGeneration, BootstrapOutlivesBackings
<1> QED BY <1>1, AlwaysIInv, PTL

\* Cleanup deletes an entry only as the journal recorded it; the theorem needs
\* the assumption that legacy writers honour the lock.
THEOREM NothingDiscarded == ASSUME ~LegacyIgnoresLock PROVE Spec => ChangesNeverDiscarded
<1>1. IInv /\ [Next]_vars =>
        [pc = "cleanSource" => \A s \in Sources, p \in Paths :
           legacy[s][p] # Absent /\ legacy'[s][p] = Absent => legacy[s][p] = journal[s][p]]_vars
  <2> SUFFICES ASSUME IInv, Next, pc = "cleanSource", NEW s \in Sources, NEW p \in Paths,
                      legacy[s][p] # Absent, legacy'[s][p] = Absent
               PROVE  legacy[s][p] = journal[s][p]
    OBVIOUS
  <2>1. legacy # legacy'
    OBVIOUS
  <2>2. PICK t \in Sources, q \in Paths : RemoveEntry(t, q)
    BY <2>1 DEF Next, Open, RemoveStale, Select, Create, JournalWrite, Verify, Commit,
      Mount, BeginCleanup, Ready, Reset, EraseBacking, EraseControl, Stop, CopySource,
      CheckSource, SourceRemoved, Persist, Save, LegacyWrite, durable
  <2>3. t \in cleaning /\ s = t
    BY <2>2 DEF RemoveEntry
  <2> QED BY <2>3 DEF IInv, CleanState
<1> QED BY <1>1, AlwaysIInv, PTL DEF Spec, ChangesNeverDiscarded

-----------------------------------------------------------------------------
(* The configured root (src/src/storage/context.ts) *)

RootsPlaces == SessionRoots \cup {None, Raw}

\* The values of the state.
Held ==
  /\ stage \in [SessionRoots -> {"new", "registered", "reserved", "open", "failed", "closed"}]
  /\ configuredRoot \in RootsPlaces /\ previous \in RootsPlaces /\ mounted \in RootsPlaces
  /\ rootConfiguration \in SessionRoots \cup {None} /\ rawOperation \in {"none", "full", "beside"}
  /\ rootGeneration \in 0..MaxSwitches /\ captured \in [Views -> 0..MaxSwitches]

\* What a root has been through when it is configured, mounted or remembered.
Past(x, stages) == x \in SessionRoots => stage[x] \in stages

\* A reservation belongs to the one session that configures, and what it replaced
\* is nobody's; a raw operation excludes it and a protected root, so that a session
\* that opens finds nobody at work and stays mounted.
RootsInv ==
  /\ Held
  /\ \A r \in SessionRoots : stage[r] = "reserved" <=> rootConfiguration = r
  /\ rootConfiguration # None => configuredRoot = rootConfiguration
        /\ Past(previous, {"failed", "closed"})
  /\ Past(configuredRoot, {"reserved", "open", "failed", "closed"})
  /\ Past(mounted, {"open", "failed", "closed"})
  /\ rawOperation # "none" => rootConfiguration = None
  /\ rawOperation = "full" => ~Roots!Exposed(configuredRoot)
  /\ \A r \in Protected : stage[r] = "open" => mounted = r /\ configuredRoot = r

\* The invariant implies the property.
LEMMA RootsShown == ASSUME Roots!StorageRootsAssumption, RootsInv
  PROVE Roots!TypeOK /\ Roots!RawStaysOutside
<1>1. Roots!TypeOK
  BY DEF RootsInv, Roots!TypeOK, Held, RootsPlaces, Roots!StorageRootsAssumption
<1>2. Roots!Exposed(mounted) => Roots!Exposed(configuredRoot)
  BY DEF RootsInv, Roots!Exposed, Roots!Owned, Past
<1>3. Roots!RawStaysOutside
  BY <1>2 DEF RootsInv, Roots!RawStaysOutside, Roots!Passes, Roots!RawAllowed
<1> QED BY <1>1, <1>3

\* At first no root is configured.
LEMMA RootsStart == Roots!StorageRootsAssumption /\ Roots!Init => RootsInv
BY DEF Roots!StorageRootsAssumption, Roots!Init, RootsInv, Held, RootsPlaces, Past,
   Roots!Exposed, Roots!Owned

\* A root is reserved, opened or given back, one at a time.
LEMMA ReserveStep == ASSUME Roots!StorageRootsAssumption, RootsInv, NEW r \in SessionRoots,
    Roots!Reserve(r) PROVE RootsInv'
<1>1. /\ stage[r] = "registered" /\ rawOperation = "none" /\ rootConfiguration = None
      /\ stage' = [stage EXCEPT ![r] = "reserved"] /\ rootConfiguration' = r /\ configuredRoot' = r
      /\ previous' = configuredRoot /\ UNCHANGED <<rawOperation, captured, mounted>>
      /\ ~Roots!Owned(configuredRoot) /\ configuredRoot # r
  BY DEF Roots!Reserve, Roots!Reserved, Roots!Free, RootsInv, Past
<1>2. \A q \in SessionRoots : stage'[q] = IF q = r THEN "reserved" ELSE stage[q]
  BY <1>1 DEF RootsInv, Held
<1>3. rootGeneration' \in 0..MaxSwitches
  BY DEF Roots!StorageRootsAssumption, Roots!Reserve, Roots!Reserved, Roots!MaySwitch,
     Roots!SwitchTo, RootsInv, Held
<1>4. Held'
  BY <1>1, <1>3 DEF RootsInv, Held, RootsPlaces
<1>5. Past(previous, {"failed", "closed"})'
  BY <1>1, <1>2 DEF RootsInv, Past, Roots!Owned, Held
<1>6. Past(mounted, {"open", "failed", "closed"})' /\ mounted # r
  BY <1>1, <1>2 DEF RootsInv, Past
<1>7. \A q \in Protected : stage'[q] # "open"
  BY <1>1, <1>2 DEF RootsInv, Roots!Owned, Roots!StorageRootsAssumption
<1> QED BY <1>1, <1>2, <1>4, <1>5, <1>6, <1>7 DEF RootsInv, Past, Roots!StorageRootsAssumption

LEMMA ConfiguredStep == ASSUME Roots!StorageRootsAssumption, RootsInv, NEW r \in SessionRoots,
    Roots!Configured(r) PROVE RootsInv'
<1>1. /\ stage[r] = "reserved" /\ rootConfiguration = r /\ configuredRoot = r /\ rawOperation = "none"
      /\ stage' = [stage EXCEPT ![r] = "open"] /\ rootConfiguration' = None
            /\ configuredRoot' = r /\ mounted' = r
      /\ UNCHANGED <<previous, rawOperation, captured>> /\ r # None
  BY DEF Roots!Configured, RootsInv, Roots!StorageRootsAssumption
<1>2. \A q \in SessionRoots : stage'[q] = IF q = r THEN "open" ELSE stage[q]
  BY <1>1 DEF RootsInv, Held
<1>3. rootGeneration' \in 0..MaxSwitches
  BY <1>1 DEF Roots!Configured, Roots!SwitchTo, RootsInv, Held
<1>4. Held'
  BY <1>1, <1>3 DEF RootsInv, Held, RootsPlaces
<1>5. \A q \in Protected : stage'[q] = "open" => q = r
  BY <1>1, <1>2 DEF RootsInv, Roots!StorageRootsAssumption
<1> QED BY <1>1, <1>2, <1>4, <1>5 DEF RootsInv, Past, Roots!StorageRootsAssumption

LEMMA RootsFailsStep == ASSUME Roots!StorageRootsAssumption, RootsInv, NEW r \in SessionRoots,
    Roots!ConfigureFails(r) PROVE RootsInv'
<1>1. /\ stage[r] = "reserved" /\ rootConfiguration = r /\ configuredRoot = r /\ rawOperation = "none"
      /\ stage' = [stage EXCEPT ![r] = "failed"] /\ rootConfiguration' = None
            /\ configuredRoot' = previous
      /\ UNCHANGED <<previous, rawOperation, rootGeneration, captured, mounted>> /\ r # None
  BY DEF Roots!ConfigureFails, RootsInv, Roots!StorageRootsAssumption
<1>2. \A q \in SessionRoots : stage'[q] = IF q = r THEN "failed" ELSE stage[q]
  BY <1>1 DEF RootsInv, Held
<1>3. Held'
  BY <1>1 DEF RootsInv, Held
<1>4. \A q \in Protected : stage'[q] # "open"
  BY <1>1, <1>2 DEF RootsInv, Roots!StorageRootsAssumption
<1> QED BY <1>1, <1>2, <1>3, <1>4 DEF RootsInv, Past, Roots!StorageRootsAssumption

\* What does not switch the root leaves it as it is.
LEMMA RootsMoves ==
  ASSUME Roots!StorageRootsAssumption, RootsInv, NEW r \in SessionRoots, Roots!Register(r)
         \/ Roots!Refused(r) \/ Roots!Close(r) PROVE RootsInv'
<1>1. PICK to \in {"registered", "closed"} :
         /\ stage' = [stage EXCEPT ![r] = to]
         /\ stage[r] \in {"new", "registered", "open"} /\ (to = "registered" => stage[r] = "new")
         /\ UNCHANGED <<configuredRoot, rootConfiguration, previous, rawOperation, rootGeneration, captured, mounted>>
  BY DEF Roots!Register, Roots!Refused, Roots!Close
<1>2. \A q \in SessionRoots : stage'[q] = IF q = r THEN to ELSE stage[q]
  BY <1>1 DEF RootsInv, Held
<1>3. Held'
  BY <1>1 DEF RootsInv, Held
<1>4. Past(previous, {"failed", "closed"}) => Past(previous, {"failed", "closed"})'
  BY <1>1, <1>2 DEF Past
<1>5. Past(configuredRoot, {"reserved", "open", "failed", "closed"})'
  BY <1>1, <1>2 DEF Past, RootsInv
<1>6. Past(mounted, {"open", "failed", "closed"})'
  BY <1>1, <1>2 DEF Past, RootsInv
<1>7. Roots!Exposed(configuredRoot)' => Roots!Exposed(configuredRoot)
  BY <1>1, <1>2 DEF Past, RootsInv, Roots!Exposed, Roots!Owned
<1> QED BY <1>1, <1>2, <1>3, <1>4, <1>5, <1>6, <1>7 DEF RootsInv, Roots!StorageRootsAssumption

LEMMA OthersStep ==
  ASSUME Roots!StorageRootsAssumption, RootsInv,
         \/ \E kind \in {"full", "beside"} : Roots!Begin(kind)
         \/ Roots!Release \/ \E v \in Views : Roots!Capture(v)
  PROVE  RootsInv'
<1>1. UNCHANGED <<stage, configuredRoot, rootConfiguration, previous, rootGeneration, mounted>>
  BY DEF Roots!Begin, Roots!Release, Roots!Capture
<1>2. Roots!Exposed(configuredRoot)' = Roots!Exposed(configuredRoot)
  BY <1>1 DEF Roots!Exposed, Roots!Owned
<1>3. rawOperation' \in {"none", "full", "beside"}
      /\ (rawOperation' # "none" => rootConfiguration = None)
            /\ (rawOperation' = "full" => ~Roots!Exposed(configuredRoot))
  BY DEF Roots!Begin, Roots!Release, Roots!Capture, Roots!RawAllowed, RootsInv, Held
<1>4. Held'
  BY <1>1, <1>3 DEF Roots!Begin, Roots!Release, Roots!Capture, RootsInv, Held
<1> QED BY <1>1, <1>2, <1>3, <1>4 DEF RootsInv, Past

\* A raw operation mounts its own root where no protected one is.
LEMMA MountStep == ASSUME Roots!StorageRootsAssumption, RootsInv, Roots!MountRaw PROVE RootsInv'
<1>1. /\ rawOperation = "full" /\ rootConfiguration = None /\ mounted' = Raw /\ configuredRoot' = Raw
      /\ rootConfiguration' = None /\ UNCHANGED <<stage, previous, rawOperation, captured>>
            /\ Raw \notin SessionRoots
      /\ ~Roots!Exposed(configuredRoot)
  BY DEF Roots!MountRaw, RootsInv, Roots!StorageRootsAssumption
<1>2. rootGeneration' \in 0..MaxSwitches
  BY DEF Roots!MountRaw, Roots!MaySwitch, Roots!SwitchTo, RootsInv, Held,
     Roots!StorageRootsAssumption
<1>3. Held'
  BY <1>1, <1>2 DEF RootsInv, Held, RootsPlaces
<1>4. \A q \in Protected : stage[q] # "open"
  BY <1>1 DEF RootsInv, Roots!Exposed, Roots!Owned, Roots!StorageRootsAssumption
<1> QED BY <1>1, <1>3, <1>4 DEF RootsInv, Past, Roots!Exposed, Roots!Owned

LEMMA RootsStays == ASSUME Roots!StorageRootsAssumption, RootsInv, [Roots!Next]_(Roots!vars)
  PROVE RootsInv'
<1>1. CASE UNCHANGED Roots!vars
  BY <1>1 DEF Roots!vars, RootsInv, Held, Past, Roots!Exposed, Roots!Owned
<1>2. CASE Roots!Next
  BY <1>2, ReserveStep, ConfiguredStep, RootsFailsStep, RootsMoves, OthersStep, MountStep
     DEF Roots!Next
<1> QED BY <1>1, <1>2

\* A raw operation stays outside the root of a protected session.
THEOREM RootsHold == ASSUME Roots!StorageRootsAssumption
  PROVE Roots!Spec => [](Roots!TypeOK /\ Roots!RawStaysOutside)
<1>1. Roots!Init => RootsInv
  BY RootsStart
<1>2. RootsInv /\ [Roots!Next]_(Roots!vars) => RootsInv'
  BY RootsStays
<1>3. RootsInv => Roots!TypeOK /\ Roots!RawStaysOutside
  BY RootsShown
<1> QED BY <1>1, <1>2, <1>3, PTL DEF Roots!Spec

-----------------------------------------------------------------------------
(* The move of an old workspace (src/src/storage/workspace.ts) *)

Storage == [tree : SUBSET (Files \cup {"."}), blocks : SUBSET (Files \cup {".", "0"}),
            dest : SUBSET (Files \cup Edits \cup {"."}), ready : {"none", "empty", "one"}]

Unusable(s) == (s.tree # {} /\ s.blocks # {}) \/ (s.blocks # {} /\ "0" \notin s.blocks)

\* What holds of the storage as it is and as a crash could leave it.
Kept(s) ==
  IF s.ready = "one" THEN Upper!Old(first) \cup saved \subseteq s.dest
  ELSE s.tree = first.tree /\ s.blocks = first.blocks /\ saved = {}

\* How far an opening is: it reads the one old copy until all of it is copied.
Opening ==
  /\ step = "copy" => /\ now.ready = "none"
                      /\ Upper!Old(first) = IF source = "none" THEN {} ELSE now[source] \cap Files
  /\ step = "mark" => now.ready # "one" /\ Upper!Old(first) \subseteq now.dest
  /\ step \in {"marked", "retire", "open"} => now.ready = "one"

\* The storage, now and after a crash, with the opening that works on it.
UpperInv ==
  /\ Upper!TypeOK
  /\ \A s \in maybe \cup {now} : Kept(s)
  /\ Opening
  /\ first.ready = "none" /\ (Unusable(first) => now = first /\ maybe = {} /\ step = "idle")

\* The invariant implies the property.
LEMMA UpperShown == UpperInv => Upper!UppersKept
<1> SUFFICES ASSUME UpperInv PROVE Upper!UppersKept
  OBVIOUS
<1>1. \A s \in maybe \cup {now} : Kept(s)
  BY DEF UpperInv
<1>2. \A s \in maybe \cup {now} : IF s.ready = "one" THEN Upper!Old(first) \cup saved \subseteq s.dest
                                  ELSE s.tree = first.tree /\ s.blocks = first.blocks
  BY <1>1 DEF Kept
<1>3. step = "open" => Upper!Old(first) \cup saved \subseteq now.dest
  BY <1>1 DEF UpperInv, Opening, Kept
<1>4. Unusable(first) => now = first
  BY DEF UpperInv
<1> QED BY <1>2, <1>3, <1>4 DEF Upper!UppersKept, Unusable

LEMMA UpperStart == Upper!Init => UpperInv
<1> SUFFICES ASSUME Upper!Init PROVE UpperInv
  OBVIOUS
<1>1. now \in [tree : Upper!Copies, blocks : Upper!Blocks, dest : {{}}, ready : {"none"}]
      /\ first = now /\ maybe = {}
      /\ step = "idle" /\ source = "none" /\ saved = {}
  BY DEF Upper!Init
<1>2. now \in Storage /\ now.ready = "none"
  BY <1>1 DEF Storage, Upper!Copies, Upper!Blocks
<1>3. Upper!TypeOK
  BY <1>1, <1>2 DEF Upper!TypeOK, Storage
<1> QED BY <1>1, <1>2, <1>3 DEF UpperInv, Kept, Opening, Upper!Old

\* A write of a state that may be left behind by a crash.
LEMMA Writes ==
  ASSUME UpperInv, NEW s \in Storage, Upper!Write(s), UNCHANGED <<first, saved>>, Kept(s),
         ~Unusable(first),
         step' \in {"idle", "copy", "mark", "marked", "retire", "open"},
             source' \in {"none", "tree", "blocks"},
         Opening'
  PROVE  UpperInv'
<1>1. now' = s /\ maybe' = maybe \cup {now} /\ first' = first /\ saved' = saved
  BY DEF Upper!Write
<1>2. {now, first} \cup maybe \subseteq Storage /\ saved \subseteq Edits
  BY DEF UpperInv, Upper!TypeOK, Storage
<1>3. Upper!TypeOK'
  BY <1>1, <1>2 DEF Upper!TypeOK, Storage
<1>4. \A t \in maybe \cup {now} \cup {s} : Kept(t) /\ Kept(t)' = Kept(t)
  BY <1>1 DEF UpperInv, Kept, Upper!Old
<1>5. (\A t \in maybe \cup {now} : Kept(t))'
  BY <1>1, <1>4 DEF Kept, Upper!Old
<1> QED BY <1>1, <1>3, <1>5 DEF UpperInv, Unusable

\* A step that writes nothing.
LEMMA Persists ==
  ASSUME UpperInv, now' \in maybe \cup {now}, maybe' \in {maybe, {}}, UNCHANGED first,
         saved' = saved
             \/ (maybe' = {} /\ now' = now /\ now.ready = "one" /\ saved' = now.dest \cap Edits),
         Unusable(first) => step' = "idle",
         step' \in {"idle", "copy", "mark", "marked", "retire", "open"}, UNCHANGED source,
         Opening'
  PROVE  UpperInv'
<1>2. {now, first} \cup maybe \subseteq Storage /\ saved \subseteq Edits
  BY DEF UpperInv, Upper!TypeOK, Storage
<1>3. Upper!TypeOK'
  BY <1>2 DEF Upper!TypeOK, Storage, UpperInv
<1>4. \A t \in maybe \cup {now} : Kept(t)
  BY DEF UpperInv
<1>5. (\A t \in maybe \cup {now} : Kept(t))'
  <2>1. CASE saved' = saved
    BY <1>4, <2>1 DEF Kept, Upper!Old
  <2>2. CASE maybe' = {} /\ now' = now /\ now.ready = "one" /\ saved' = now.dest \cap Edits
    BY <1>4, <2>2 DEF Kept, Upper!Old
  <2> QED BY <2>1, <2>2
<1> QED BY <1>3, <1>5 DEF UpperInv, Unusable

LEMMA StageStep == ASSUME UpperInv, Upper!Stage PROVE UpperInv'
<1> DEFINE s == [now EXCEPT !.dest = {"."}]
<1>1. now \in Storage /\ Kept(now) /\ now.ready = "none" /\ Upper!Write(s) /\ Upper!Readable
      /\ Upper!Sound
      /\ step' = "copy" /\ UNCHANGED <<first, saved>>
      /\ source' = (IF now.tree # {} THEN "tree" ELSE IF now.blocks # {} THEN "blocks" ELSE "none")
  BY DEF Upper!Stage, UpperInv, Upper!TypeOK, Storage, Upper!Committed
<1>2. s \in Storage /\ s.tree = now.tree /\ s.blocks = now.blocks /\ s.ready = "none" /\ now' = s
  BY <1>1 DEF Storage, Upper!Write
<1>3. now.tree = first.tree /\ now.blocks = first.blocks /\ saved = {}
  BY <1>1 DEF Kept
<1>4. Kept(s) /\ ~Unusable(first)
  BY <1>1, <1>2, <1>3 DEF Kept, Unusable, Upper!Readable, Upper!Sound
<1>5. Opening'
  <2>1. CASE now.tree # {}
    BY <1>1, <1>2, <1>3, <2>1 DEF Opening, Upper!Old, Upper!Readable
  <2>2. CASE now.tree = {}
    BY <1>1, <1>2, <1>3, <2>2 DEF Opening, Upper!Old, Upper!Readable
  <2> QED BY <2>1, <2>2
<1> QED BY <1>1, <1>2, <1>4, <1>5, Writes

LEMMA UpperCopyStep == ASSUME UpperInv, NEW f \in Files, Upper!Copy(f) PROVE UpperInv'
<1> DEFINE s == [now EXCEPT !.dest = @ \cup {f}]
<1>1. now \in Storage /\ Kept(now) /\ Upper!Write(s) /\ step = "copy"
      /\ UNCHANGED <<step, source, first, saved>>
      /\ source \in {"none", "tree", "blocks"} /\ Opening /\ ~Unusable(first)
  BY DEF Upper!Copy, UpperInv, Upper!TypeOK, Storage
<1>2. s \in Storage /\ s.tree = now.tree /\ s.blocks = now.blocks /\ s.ready = now.ready /\ now' = s
  BY <1>1 DEF Storage, Upper!Write
<1>3. Kept(s)
  BY <1>1, <1>2 DEF Kept, Opening
<1>4. Opening'
  <2>1. source # "none" => now'[source] = now[source]
    BY <1>1, <1>2
  <2> QED BY <1>1, <1>2, <2>1 DEF Opening, Upper!Old
<1> QED BY <1>1, <1>2, <1>3, <1>4, Writes

LEMMA MarkStep == ASSUME UpperInv, Upper!Mark PROVE UpperInv'
<1>1. now \in Storage /\ Kept(now) /\ step = "mark" /\ UNCHANGED <<source, first, saved>>
      /\ Opening /\ ~Unusable(first)
      /\ source \in {"none", "tree", "blocks"}
  BY DEF Upper!Mark, UpperInv, Upper!TypeOK, Storage
<1>2. CASE now.ready = "none"
  <2> DEFINE s == [now EXCEPT !.ready = "empty"]
  <2>1. Upper!Write(s) /\ step' = step
    BY <1>2 DEF Upper!Mark
  <2>2. s \in Storage /\ s.tree = now.tree /\ s.blocks = now.blocks /\ s.dest = now.dest
        /\ s.ready = "empty" /\ now' = s
    BY <1>1, <2>1 DEF Storage, Upper!Write
  <2>3. Kept(s) /\ Opening'
    BY <1>1, <1>2, <2>1, <2>2 DEF Kept, Opening, Upper!Old
  <2> QED BY <1>1, <2>1, <2>2, <2>3, Writes
<1>3. CASE now.ready # "none"
  <2> DEFINE s == [now EXCEPT !.ready = "one"]
  <2>1. Upper!Write(s) /\ step' = "marked"
    BY <1>3 DEF Upper!Mark
  <2>2. s \in Storage /\ s.dest = now.dest /\ s.ready = "one" /\ now' = s
    BY <1>1, <2>1 DEF Storage, Upper!Write
  <2>3. Kept(s) /\ Opening'
    BY <1>1, <1>3, <2>1, <2>2 DEF Kept, Opening, Upper!Old
  <2> QED BY <1>1, <2>1, <2>2, <2>3, Writes
<1> QED BY <1>2, <1>3

LEMMA RetireStep ==
  ASSUME Upper!UppersAssumption, UpperInv, NEW old \in {"tree", "blocks"},
         NEW e \in Files \cup {".", "0"}, Upper!Retire(old, e) PROVE UpperInv'
<1> DEFINE s == [now EXCEPT ![old] = @ \ {e}]
<1>1. now \in Storage /\ Kept(now) /\ step = "retire"
      /\ UNCHANGED <<step, source, first, saved>> /\ Opening
      /\ source \in {"none", "tree", "blocks"} /\ ~Unusable(first) /\ Upper!Write(s)
  BY DEF Upper!Retire, UpperInv, Upper!TypeOK, Storage
<1>2. s \in Storage /\ s.dest = now.dest /\ s.ready = now.ready /\ now' = s
  <2>1. CASE old = "tree"
    BY <1>1, <2>1 DEF Storage, Upper!Write
  <2>2. CASE old = "blocks"
    BY <1>1, <2>2 DEF Storage, Upper!Write
  <2> QED BY <2>1, <2>2
<1>3. Kept(s) /\ Opening'
  BY <1>1, <1>2 DEF Kept, Opening
<1> QED BY <1>1, <1>2, <1>3, Writes

LEMMA UpperEditStep == ASSUME UpperInv, NEW e \in Edits, Upper!Edit(e) PROVE UpperInv'
<1> DEFINE s == [now EXCEPT !.dest = @ \cup {e}]
<1>1. now \in Storage /\ Kept(now) /\ step = "open" /\ UNCHANGED <<step, source, first, saved>>
      /\ Opening
      /\ source \in {"none", "tree", "blocks"} /\ ~Unusable(first) /\ Upper!Write(s)
  BY DEF Upper!Edit, UpperInv, Upper!TypeOK, Storage
<1>2. s \in Storage /\ s.dest = now.dest \cup {e} /\ s.ready = now.ready /\ now' = s
  BY <1>1 DEF Storage, Upper!Write
<1>3. Kept(s) /\ Opening'
  BY <1>1, <1>2 DEF Kept, Opening
<1> QED BY <1>1, <1>2, <1>3, Writes

LEMMA Quiet ==
  ASSUME UpperInv, Upper!Resume \/ Upper!Copied \/ Upper!Marked \/ Upper!Opened \/ Upper!Flush
         \/ Upper!Stop \/ Upper!Crash PROVE UpperInv'
<1>0. Opening /\ step \in {"idle", "copy", "mark", "marked", "retire", "open"}
      /\ (Unusable(first) => step = "idle" /\ now = first)
      /\ first.ready = "none" /\ source \in {"none", "tree", "blocks"} /\ now \in Storage
  BY DEF UpperInv, Upper!TypeOK, Storage
<1>1. CASE Upper!Resume
  BY <1>0, <1>1, Persists DEF Upper!Resume, Upper!Committed, Upper!Store, Opening
<1>2. CASE Upper!Copied
  BY <1>0, <1>2, Persists DEF Upper!Copied, Upper!Persist, Opening, Upper!Rest, Upper!Old
<1>3. CASE Upper!Marked
  BY <1>0, <1>3, Persists DEF Upper!Marked, Upper!Persist, Opening
<1>4. CASE Upper!Opened
  BY <1>0, <1>4, Persists DEF Upper!Opened, Upper!Persist, Opening
<1>5. CASE Upper!Flush
  BY <1>0, <1>5, Persists DEF Upper!Flush, Upper!Persist, Opening
<1>6. CASE Upper!Stop
  BY <1>0, <1>6, Persists DEF Upper!Stop, Upper!Store, Opening
<1>7. CASE Upper!Crash
  BY <1>0, <1>7, Persists DEF Upper!Crash, Opening
<1> QED BY <1>1, <1>2, <1>3, <1>4, <1>5, <1>6, <1>7

LEMMA UpperStays == ASSUME Upper!UppersAssumption, UpperInv, [Upper!Next]_(Upper!vars)
  PROVE UpperInv'
<1>1. CASE UNCHANGED Upper!vars
  BY <1>1 DEF Upper!vars, UpperInv, Upper!TypeOK, Kept, Opening, Upper!Old, Unusable
<1>2. CASE Upper!Next
  BY <1>2, Quiet, StageStep, MarkStep, UpperCopyStep, RetireStep, UpperEditStep DEF Upper!Next
<1> QED BY <1>1, <1>2

\* Whatever a crash cuts off, the old workspace is kept until the new is committed.
THEOREM UppersHold == ASSUME Upper!UppersAssumption
  PROVE Upper!Spec => [](Upper!TypeOK /\ Upper!UppersKept)
<1>1. Upper!Init => UpperInv
  BY UpperStart
<1>2. UpperInv /\ [Upper!Next]_(Upper!vars) => UpperInv'
  BY UpperStays
<1>3. UpperInv => Upper!TypeOK /\ Upper!UppersKept
  BY UpperShown DEF UpperInv
<1> QED BY <1>1, <1>2, <1>3, PTL DEF Upper!Spec

-----------------------------------------------------------------------------
(* Records on the disk of node (src/src/storage/node.ts) *)

Process == [owned : BOOLEAN, pc : {"idle", "locking", "written", "synced", "renamed"},
            name : Names \cup {None}, value : Values \cup {None}]

NativeTypes ==
  /\ lock \in [by : Procs \cup {None}, full : BOOLEAN]
  /\ proc \in [Procs -> Process]
  /\ visible \in [Names -> Values \cup {None, Torn}]
        /\ onDisk \in [Names -> SUBSET (Values \cup {None, Torn})]
  /\ acked \in [Names -> Values \cup {None}] /\ tried \in [Names -> SUBSET (Values \cup {None})]

\* A process that works on a record owns the lock, which is in its name; what it
\* writes has been begun, and what it has renamed is what a reader finds.
Owner(p, k) ==
  /\ k.owned => lock.by = p
  /\ k.pc # "idle" => k.owned
  /\ k.pc \in {"written", "synced"} => k.name \in Names /\ k.value \in tried[k.name]
  /\ k.pc = "renamed" => k.name \in Names /\ k.value = visible[k.name]

NativeFound == \A n \in Names : {visible[n]} \cup onDisk[n] \subseteq {acked[n]} \cup tried[n]

\* Who works on a record owns the lock, and nothing is found but what was written.
NativeInv == NativeTypes /\ (\A p \in Procs : Owner(p, proc[p])) /\ NativeFound

LEMMA IdleTyped == Native!Idle \in Process /\ Native!Idle.pc = "idle" /\ ~Native!Idle.owned
BY DEF Native!Idle, Process

LEMMA LockTyped ==
  /\ Native!NoLock \in [by : Procs \cup {None}, full : BOOLEAN]
  /\ \A l \in [by : Procs \cup {None}, full : BOOLEAN] : [l EXCEPT !.full = FALSE] \in [by : Procs \cup {None}, full : BOOLEAN]
BY DEF Native!NoLock

\* At first no record is there.
LEMMA NativeStart == Native!Init => NativeInv
<1> SUFFICES ASSUME Native!Init PROVE NativeInv
  OBVIOUS
<1>1. NativeTypes
  BY IdleTyped DEF Native!Init, NativeTypes, Native!NoLock
<1>2. \A p \in Procs : Owner(p, proc[p])
  BY IdleTyped DEF Native!Init, Owner
<1>3. NativeFound
  BY DEF Native!Init, NativeFound
<1> QED BY <1>1, <1>2, <1>3 DEF NativeInv

\* Who owns the lock owns it alone.
LEMMA Alone ==
  ASSUME Native!NativeStoreAssumption, NativeInv, NEW p \in Procs, proc[p].owned
         \/ lock = Native!NoLock
  PROVE  \A q \in Procs \ {p} : ~proc[q].owned /\ proc[q].pc = "idle"
<1>1. \A q \in Procs : proc[q] \in Process /\ (proc[q].owned => lock.by = q)
      /\ (proc[q].pc # "idle" => proc[q].owned)
  BY DEF NativeInv, NativeTypes, Owner
<1>2. CASE proc[p].owned
  BY <1>1, <1>2
<1>3. CASE lock = Native!NoLock
  <2>1. lock.by = None /\ None \notin Procs
    BY <1>3 DEF Native!NoLock, Native!NativeStoreAssumption
  <2> QED BY <1>1, <2>1
<1> QED BY <1>2, <1>3

\* A step of a process that is alone, or that leaves what others rely on.
LEMMA Turn ==
  ASSUME NativeInv, NativeTypes', NativeFound', NEW p \in Procs, NEW k \in Process,
         proc' = [proc EXCEPT ![p] = k], Owner(p, k)',
         \/ UNCHANGED <<lock, visible, tried>>
         \/ \A q \in Procs \ {p} : ~proc[q].owned /\ proc[q].pc = "idle"
  PROVE  NativeInv'
<1>1. proc'[p] = k /\ \A q \in Procs \ {p} : proc'[q] = proc[q]
  BY DEF NativeInv, NativeTypes
<1>2. ASSUME NEW q \in Procs PROVE Owner(q, proc[q])'
  <2>1. CASE q = p
    BY <1>1, <2>1 DEF Owner
  <2>2. CASE q # p
    <3>1. Owner(q, proc[q])
      BY DEF NativeInv
    <3> QED BY <1>1, <2>2, <3>1 DEF Owner
  <2> QED BY <2>1, <2>2
<1> QED BY <1>2 DEF NativeInv

\* What a process does to the lock.
LEMMA LockSteps ==
  ASSUME Native!NativeStoreAssumption, NativeInv, NEW p \in Procs, Native!Acquire(p)
         \/ Native!Locked(p) \/ Native!LockFails(p) \/ Native!Release(p)
  PROVE  NativeInv'
<1>1. UNCHANGED <<visible, onDisk, acked, tried>> /\ proc \in [Procs -> Process]
      /\ proc[p] \in Process
      /\ lock \in [by : Procs \cup {None}, full : BOOLEAN] /\ Owner(p, proc[p])
  BY DEF Native!Acquire, Native!Locked, Native!LockFails, Native!Release, Native!Records,
     NativeInv, NativeTypes
<1>2. NativeFound'
  BY <1>1 DEF NativeInv, NativeFound
<1>3. PICK k \in Process : /\ proc' = [proc EXCEPT ![p] = k] /\ Owner(p, k)'
                           /\ lock' \in [by : Procs \cup {None}, full : BOOLEAN]
  <2>1. CASE Native!Acquire(p)
    <3> DEFINE k == [Native!Idle EXCEPT !.owned = TRUE, !.pc = "locking"]
    <3>1. k \in Process /\ k.owned /\ k.pc = "locking"
      BY DEF Native!Idle, Process
    <3>2. lock' = [by |-> p, full |-> FALSE] /\ proc' = [proc EXCEPT ![p] = k]
      BY <2>1 DEF Native!Acquire
    <3> HIDE DEF k
    <3> QED BY <3>1, <3>2 DEF Owner
  <2>2. CASE Native!Locked(p)
    <3> DEFINE k == [proc[p] EXCEPT !.pc = "idle"]
    <3>1. k \in Process /\ k.owned = proc[p].owned /\ k.pc = "idle"
      BY <1>1 DEF Process
    <3>2. lock' = [lock EXCEPT !.full = TRUE] /\ proc' = [proc EXCEPT ![p] = k]
      BY <1>1, <2>2 DEF Native!Locked, Native!Goes
    <3>3. lock'.by = lock.by /\ lock' \in [by : Procs \cup {None}, full : BOOLEAN]
      BY <1>1, <3>2
    <3> PICK l : l = k
      OBVIOUS
    <3> HIDE DEF k
    <3>4. Owner(p, l)'
      BY <1>1, <3>1, <3>3 DEF Owner
    <3> QED BY <3>1, <3>2, <3>3, <3>4
  <2>3. CASE Native!LockFails(p) \/ Native!Release(p)
    <3>1. lock' \in {Native!NoLock, lock} /\ proc' = [proc EXCEPT ![p] = Native!Idle]
      BY <2>3 DEF Native!LockFails, Native!Release
    <3>2. Owner(p, Native!Idle)'
      BY IdleTyped DEF Owner
    <3>3. lock' \in [by : Procs \cup {None}, full : BOOLEAN]
      BY <1>1, <3>1, LockTyped
    <3> QED BY <3>1, <3>2, <3>3, IdleTyped
  <2> QED BY <2>1, <2>2, <2>3
<1>4. NativeTypes'
  BY <1>1, <1>3 DEF NativeInv, NativeTypes
<1>5. proc[p].owned \/ lock = Native!NoLock
  BY <1>1 DEF Native!Acquire, Native!Locked, Native!LockFails, Native!Release, Native!At,
     Native!Asserts, Owner
<1>6. \A q \in Procs \ {p} : ~proc[q].owned /\ proc[q].pc = "idle"
  BY <1>5, Alone
<1> QED BY <1>2, <1>3, <1>4, <1>6, Turn

\* What a process does to records while it owns the lock.
LEMMA RecordSteps ==
  ASSUME Native!NativeStoreAssumption, NativeInv, NEW p \in Procs,
         \/ Native!Sync(p) \/ Native!Rename(p) \/ Native!Answered(p) \/ Native!Fails(p)
               \/ Native!Kill(p)
         \/ \E n \in Names : Native!Delete(p, n) \/ \E v \in Values : Native!Begin(p, n, v)
  PROVE  NativeInv'
<1>1. lock' = lock /\ proc \in [Procs -> Process] /\ proc[p] \in Process /\ Owner(p, proc[p])
      /\ NativeFound
      /\ visible \in [Names -> Values \cup {None, Torn}]
            /\ onDisk \in [Names -> SUBSET (Values \cup {None, Torn})]
      /\ acked \in [Names -> Values \cup {None}] /\ tried \in [Names -> SUBSET (Values \cup {None})]
  BY DEF Native!Sync, Native!Rename, Native!Answered, Native!Fails, Native!Kill, Native!Delete,
     Native!Begin, NativeInv, NativeTypes
<1>2. CASE Native!Fails(p) \/ Native!Kill(p)
  <2>1. UNCHANGED <<visible, onDisk, acked, tried>>
        /\ proc' \in {[proc EXCEPT ![p] = Native!Idle], [proc EXCEPT ![p] = [Native!Idle EXCEPT !.owned = TRUE]]}
        /\ (proc' = [proc EXCEPT ![p] = Native!Idle] \/ proc[p].owned)
    BY <1>1, <1>2 DEF Native!Fails, Native!Kill, Native!Records, Owner
  <2>2. PICK k \in Process : proc' = [proc EXCEPT ![p] = k] /\ k.pc = "idle"
        /\ (k.owned => proc[p].owned)
    <3>1. [Native!Idle EXCEPT !.owned = TRUE] \in Process
          /\ [Native!Idle EXCEPT !.owned = TRUE].pc = "idle"
      BY DEF Native!Idle, Process
    <3> QED BY <2>1, <3>1, IdleTyped
  <2>3. Owner(p, k)'
    BY <1>1, <2>2 DEF Owner
  <2>4. NativeTypes' /\ NativeFound'
    BY <1>1, <2>1, <2>2 DEF NativeInv, NativeTypes, NativeFound
  <2> QED BY <1>1, <2>1, <2>2, <2>3, <2>4, Turn
<1>3. CASE Native!Sync(p)
  <2> DEFINE f == [proc[p] EXCEPT !.pc = "synced"]
  <2>1. /\ UNCHANGED <<visible, onDisk, acked, tried>> /\ proc' = [proc EXCEPT ![p] = f] /\ proc[p].pc = "written"
        /\ f \in Process /\ f.pc = "synced" /\ f.owned = proc[p].owned /\ f.name = proc[p].name
              /\ f.value = proc[p].value
    BY <1>1, <1>3 DEF Native!Sync, Native!Goes, Native!At, Native!Records, Process
  <2> PICK k : k = f
    OBVIOUS
  <2> HIDE DEF f
  <2>3. Owner(p, k)'
    BY <1>1, <2>1 DEF Owner
  <2>4. NativeTypes' /\ NativeFound'
    BY <1>1, <2>1 DEF NativeInv, NativeTypes, NativeFound
  <2> QED BY <1>1, <2>1, <2>3, <2>4, Turn
<1>4. ASSUME NEW n \in Names, NEW v \in Values, Native!Begin(p, n, v) PROVE NativeInv'
  <2> DEFINE f == [proc[p] EXCEPT !.pc = "written", !.name = n, !.value = v]
  <2>1. /\ UNCHANGED <<visible, onDisk, acked>> /\ proc' = [proc EXCEPT ![p] = f] /\ proc[p].owned
        /\ tried' = [tried EXCEPT ![n] = @ \cup {v}]
        /\ f \in Process /\ f.pc = "written" /\ f.owned = proc[p].owned /\ f.name = n /\ f.value = v
    BY <1>1, <1>4 DEF Native!Begin, Native!Asserts, Process
  <2> PICK k : k = f
    OBVIOUS
  <2> HIDE DEF f
  <2>2. /\ tried' \in [Names -> SUBSET (Values \cup {None})] /\ v \in tried'[n]
        /\ \A m \in Names : tried[m] \subseteq tried'[m]
    BY <1>1, <2>1
  <2>3. Owner(p, k)'
    BY <1>1, <2>1, <2>2 DEF Owner
  <2>4. NativeTypes' /\ NativeFound'
    BY <1>1, <2>1, <2>2 DEF NativeInv, NativeTypes, NativeFound
  <2>5. \A q \in Procs \ {p} : ~proc[q].owned /\ proc[q].pc = "idle"
    BY <2>1, Alone
  <2> QED BY <1>1, <2>1, <2>3, <2>4, <2>5, Turn
<1>5. CASE Native!Rename(p)
  <2> DEFINE f == [proc[p] EXCEPT !.pc = "renamed"]
             n == proc[p].name
             v == proc[p].value
  <2>1. /\ UNCHANGED <<acked, tried>> /\ proc' = [proc EXCEPT ![p] = f] /\ proc[p].pc = "synced" /\ proc[p].owned
        /\ visible' = [visible EXCEPT ![n] = v] /\ onDisk' = [onDisk EXCEPT ![n] = @ \cup {v}]
        /\ f \in Process /\ f.pc = "renamed" /\ f.owned = proc[p].owned /\ f.name = n /\ f.value = v
    BY <1>1, <1>5 DEF Native!Rename, Native!MayRename, Native!Asserts, Native!Goes, Native!At,
       Process
  <2> PICK k : k = f
    OBVIOUS
  <2> HIDE DEF f
  <2>2. n \in Names /\ v \in tried[n] /\ v \in Values \cup {None}
    BY <1>1, <2>1 DEF Owner, Process
  <2> PICK name, value : name = n /\ value = v
    OBVIOUS
  <2> HIDE DEF n, v
  <2>3. Owner(p, k)'
    <3>1. k.name = name /\ k.value = value /\ k.pc = "renamed" /\ k.owned
      BY <2>1
    <3>2. visible'[name] = value
      BY <1>1, <2>1, <2>2
    <3> QED BY <1>1, <2>1, <2>2, <3>1, <3>2 DEF Owner
  <2>4. NativeTypes' /\ NativeFound'
    <3>1. visible' \in [Names -> Values \cup {None, Torn}]
          /\ onDisk' \in [Names -> SUBSET (Values \cup {None, Torn})]
      BY <1>1, <2>1, <2>2
    <3>2. \A m \in Names : {visible'[m]} \cup onDisk'[m] \subseteq {visible[m]} \cup onDisk[m] \cup tried[m]
      BY <1>1, <2>1, <2>2
    <3> QED BY <1>1, <2>1, <3>1, <3>2 DEF NativeInv, NativeTypes, NativeFound
  <2>5. \A q \in Procs \ {p} : ~proc[q].owned /\ proc[q].pc = "idle"
    BY <2>1, Alone
  <2> QED BY <1>1, <2>1, <2>3, <2>4, <2>5, Turn
<1>6. ASSUME NEW n \in Names, Native!Delete(p, n) PROVE NativeInv'
  <2> DEFINE f == [proc[p] EXCEPT !.pc = "renamed", !.name = n, !.value = None]
  <2>1. /\ acked' = acked /\ proc' = [proc EXCEPT ![p] = f] /\ proc[p].owned
        /\ visible' = [visible EXCEPT ![n] = None] /\ onDisk' = [onDisk EXCEPT ![n] = @ \cup {None}]
        /\ tried' = [tried EXCEPT ![n] = @ \cup {None}]
        /\ f \in Process /\ f.pc = "renamed" /\ f.owned = proc[p].owned /\ f.name = n
              /\ f.value = None
    BY <1>1, <1>6 DEF Native!Delete, Native!Asserts, Process
  <2> PICK k : k = f
    OBVIOUS
  <2> HIDE DEF f
  <2>2. visible'[n] = None /\ tried' \in [Names -> SUBSET (Values \cup {None})]
        /\ visible' \in [Names -> Values \cup {None, Torn}]
              /\ onDisk' \in [Names -> SUBSET (Values \cup {None, Torn})]
    BY <1>1, <2>1
  <2>3. Owner(p, k)'
    BY <1>1, <2>1, <2>2 DEF Owner
  <2>4. NativeTypes' /\ NativeFound'
    <3>1. \A m \in Names : {visible'[m]} \cup onDisk'[m] \subseteq {acked[m]} \cup tried'[m]
      BY <1>1, <2>1 DEF NativeFound
    <3> QED BY <1>1, <2>1, <2>2, <3>1 DEF NativeInv, NativeTypes, NativeFound
  <2>5. \A q \in Procs \ {p} : ~proc[q].owned /\ proc[q].pc = "idle"
    BY <2>1, Alone
  <2> QED BY <1>1, <2>1, <2>3, <2>4, <2>5, Turn
<1>7. CASE Native!Answered(p)
  <2> DEFINE n == proc[p].name
             k == [Native!Idle EXCEPT !.owned = TRUE]
  <2>1. /\ visible' = visible /\ proc' = [proc EXCEPT ![p] = k] /\ proc[p].pc = "renamed"
        /\ acked' = [acked EXCEPT ![n] = proc[p].value] /\ tried' = [tried EXCEPT ![n] = {}]
        /\ onDisk' = [m \in Names |-> {visible[m]}]
        /\ k \in Process /\ k.pc = "idle" /\ k.owned
    BY <1>1, <1>7 DEF Native!Answered, Native!At, Process, Native!Idle
  <2>2. n \in Names /\ proc[p].value = visible[n] /\ proc[p].value \in Values \cup {None}
        /\ proc[p].owned
    BY <1>1, <2>1 DEF Owner, Process
  <2> HIDE DEF k, n
  <2>3. Owner(p, k)'
    <3> PICK l : l = k
      OBVIOUS
    <3>1. Owner(p, l)'
      BY <1>1, <2>1, <2>2 DEF Owner
    <3> QED BY <3>1 DEF k
  <2>4. NativeTypes' /\ NativeFound'
    <3>1. /\ acked' \in [Names -> Values \cup {None}] /\ tried' \in [Names -> SUBSET (Values \cup {None})]
          /\ onDisk' \in [Names -> SUBSET (Values \cup {None, Torn})]
      BY <1>1, <2>1, <2>2
    <3>2. \A m \in Names : visible[m] \in {acked'[m]} \cup tried'[m]
      BY <1>1, <2>1, <2>2 DEF NativeFound
    <3>3. \A m \in Names : onDisk'[m] = {visible[m]}
      BY <2>1
    <3> QED BY <1>1, <2>1, <3>1, <3>2, <3>3 DEF NativeInv, NativeTypes, NativeFound
  <2>5. \A q \in Procs \ {p} : ~proc[q].owned /\ proc[q].pc = "idle"
    BY <2>2, Alone
  <2> QED BY <1>1, <2>1, <2>3, <2>4, <2>5, Turn
<1> QED BY <1>2, <1>3, <1>4, <1>5, <1>6, <1>7

\* A loss of power, and the removal of a lock whose owner is dead.
LEMMA OtherSteps == ASSUME Native!NativeStoreAssumption, NativeInv, Native!PowerLoss
    \/ Native!RemoveLock PROVE NativeInv'
<1>1. CASE Native!PowerLoss
  <2>1. /\ proc' = [p \in Procs |-> Native!Idle] /\ UNCHANGED <<acked, tried>>
        /\ \A n \in Names : visible'[n] \in onDisk[n] /\ onDisk'[n] = {visible'[n]}
        /\ visible' \in [Names -> UNION {onDisk[n] : n \in Names}]
              /\ onDisk' = [n \in Names |-> {visible'[n]}]
        /\ lock' \in {Native!NoLock, lock, [lock EXCEPT !.full = FALSE]}
    BY <1>1 DEF Native!PowerLoss
  <2>2. /\ visible' \in [Names -> Values \cup {None, Torn}] /\ onDisk' \in [Names -> SUBSET (Values \cup {None, Torn})]
    <3>1. onDisk \in [Names -> SUBSET (Values \cup {None, Torn})]
      BY DEF NativeInv, NativeTypes
    <3>2. \A n \in Names : visible'[n] \in Values \cup {None, Torn}
      BY <2>1, <3>1
    <3> QED BY <2>1, <3>2
  <2>6. lock' \in [by : Procs \cup {None}, full : BOOLEAN]
    BY <2>1, LockTyped DEF NativeInv, NativeTypes
  <2>3. NativeTypes'
    BY <2>1, <2>2, <2>6, IdleTyped DEF NativeInv, NativeTypes
  <2>4. \A p \in Procs : Owner(p, proc[p])'
    BY <2>1, IdleTyped DEF Owner
  <2>5. NativeFound'
    BY <2>1 DEF NativeInv, NativeFound
  <2> QED BY <2>3, <2>4, <2>5 DEF NativeInv
<1>2. CASE Native!RemoveLock
  <2>1. lock' = Native!NoLock /\ UNCHANGED <<proc, visible, onDisk, acked, tried>>
        /\ \A p \in Procs : ~proc[p].owned
    BY <1>2 DEF Native!RemoveLock, Native!Records
  <2>2. \A p \in Procs : Owner(p, proc[p])'
    BY <2>1 DEF NativeInv, Owner
  <2> QED BY <2>1, <2>2 DEF NativeInv, NativeTypes, Native!NoLock, NativeFound
<1> QED BY <1>1, <1>2

LEMMA NativeStays == ASSUME Native!NativeStoreAssumption, NativeInv, [Native!Next]_(Native!vars)
  PROVE NativeInv'
<1>1. CASE UNCHANGED Native!vars
  BY <1>1 DEF Native!vars, NativeInv, NativeTypes, Owner, NativeFound
<1>2. CASE Native!Next
  BY <1>2, LockSteps, RecordSteps, OtherSteps DEF Native!Next
<1> QED BY <1>1, <1>2

\* A record is what was acknowledged, or begun since, whoever dies at what moment.
LEMMA NativeHolds ==
  ASSUME Native!NativeStoreAssumption
  PROVE  Native!Spec => [](Native!TypeOK /\ Native!RecordsKept)
<1>1. Native!Init => NativeInv
  BY NativeStart
<1>2. NativeInv /\ [Native!Next]_(Native!vars) => NativeInv'
  BY NativeStays
<1>3. NativeInv => Native!TypeOK /\ Native!RecordsKept
  <2> SUFFICES ASSUME NativeInv PROVE Native!TypeOK /\ Native!RecordsKept
    OBVIOUS
  <2>1. \A p, q \in Procs : proc[p].owned /\ proc[q].owned => p = q
    BY DEF NativeInv, Owner
  <2>2. \A n \in Names : Torn \notin tried[n] /\ tried[n] \ {Torn} = tried[n]
    BY DEF NativeInv, NativeTypes, Native!NativeStoreAssumption
  <2> QED BY <2>1, <2>2 DEF NativeInv, NativeTypes, NativeFound, Native!TypeOK,
      Native!RecordsKept, Process
<1> QED BY <1>1, <1>2, <1>3, PTL DEF Native!Spec

-----------------------------------------------------------------------------
(* The workspaces of the page (pod-session-lifecycle.ts of the example) *)

SpaceTypes ==
    /\ MaxOpens \in Nat
    /\ openings \in 0..MaxOpens /\ current \in 0..openings
    /\ openingStage \in [Space!Openings -> Space!Stages]
    /\ cancelled \subseteq 1..openings
    /\ after \in [Space!Openings -> [of : 0..MaxOpens, closing : BOOLEAN]]
    /\ tail \in [of : 0..MaxOpens, closing : BOOLEAN]

\* The tail belongs to the last opening: to its closing once it was told to close.
TailIsLast == tail.of = openings /\ (tail.closing <=> openings \in cancelled)

\* Only the last opening may not have been told to close.
CurrentIsLast ==
    /\ \A i \in 1..openings : i < openings => i \in cancelled
    /\ current = IF openings \in cancelled \/ openings = 0 THEN 0 ELSE openings

\* An opening waits for the closing of the one before it.
WaitsForPrevious ==
    /\ \A i \in Space!Openings : i > openings <=> openingStage[i] = "none"
    /\ \A i \in 1..openings : after[i].of = i - 1 /\ (i > 1 => after[i].closing)

\* Before an opening whose turn has come all have ended, and what holds up one of
\* them holds it up as well.
EarlierEnded ==
    \A i, j \in Space!Openings : i < j /\ openingStage[j] \notin {"none", "waiting"} =>
        /\ openingStage[i] \in Space!Ended
        /\ openingStage[i] \in Space!Blocking => openingStage[j] = "blocked"

SpaceInv == SpaceTypes /\ TailIsLast /\ CurrentIsLast /\ WaitsForPrevious /\ EarlierEnded

-------------------------------------------------------------------------------
\* At first there is no opening (the module variables of SessionLifecycle).
LEMMA WorkspacesInit == Space!WorkspacesAssumption /\ Space!Init => SpaceInv
  BY SMT DEF Space!WorkspacesAssumption, Space!Init, SpaceInv, SpaceTypes, TailIsLast,
     CurrentIsLast, WaitsForPrevious,
             EarlierEnded, Space!Openings, Space!Promise, Space!Stages, Space!Live, Space!Ended,
                 Space!Blocking

\* A stage that moves on without ending before its time, and that was neither
\* "none" nor ended, disturbs no other opening: the boot and the close of a
\* session do this.
LEMMA MovesOn ==
    ASSUME SpaceInv, NEW k \in Space!Openings, openingStage[k] \in Space!Live,
           NEW s \in Space!Stages \ {"none", "waiting"},
               openingStage' = [openingStage EXCEPT ![k] = s],
           UNCHANGED <<openings, cancelled, current, tail, after>>
    PROVE  SpaceInv'
<1>1. SpaceTypes' /\ TailIsLast' /\ CurrentIsLast'
  BY DEF SpaceInv, SpaceTypes, TailIsLast, CurrentIsLast, Space!Openings
<1>2. WaitsForPrevious'
  BY DEF SpaceInv, SpaceTypes, WaitsForPrevious, Space!Openings, Space!Stages, Space!Live,
     Space!Ended, Space!Blocking
<1>3. EarlierEnded'
  <2> SUFFICES ASSUME NEW i \in Space!Openings, NEW j \in Space!Openings, i < j,
                      openingStage'[j] \notin {"none", "waiting"}
               PROVE  openingStage'[i] \in Space!Ended
                   /\ (openingStage'[i] \in Space!Blocking => openingStage'[j] = "blocked")
    BY DEF EarlierEnded
  <2>1. openingStage[j] \notin {"none", "waiting"}
    BY DEF SpaceInv, SpaceTypes, Space!Live
  <2>2. openingStage[i] \in Space!Ended
        /\ (openingStage[i] \in Space!Blocking => openingStage[j] = "blocked")
    BY <2>1 DEF SpaceInv, EarlierEnded
  <2>3. i # k /\ openingStage'[i] = openingStage[i]
    BY <2>2 DEF SpaceInv, SpaceTypes, Space!Live, Space!Ended, Space!Blocking
  <2>4. openingStage[i] \in Space!Blocking => j # k
    BY <2>2 DEF Space!Live
  <2> QED
    BY <2>2, <2>3, <2>4 DEF SpaceInv, SpaceTypes
<1> QED
  BY <1>1, <1>2, <1>3 DEF SpaceInv

\* An opening whose turn has come: what it waited for is the closing of the
\* opening before it, which has ended.
LEMMA TurnPreserves ==
    ASSUME SpaceInv, NEW k \in Space!Openings, Space!Turn(k)
    PROVE  SpaceInv'
<1> DEFINE s == IF Space!Blocks(after[k]) THEN "blocked" ELSE IF k \in cancelled THEN "refused" ELSE "booting"
<1>0. s \in {"blocked", "refused", "booting"} /\ openingStage' = [openingStage EXCEPT ![k] = s]
      /\ openingStage[k] = "waiting"
  BY DEF Space!Turn
<1>1. SpaceTypes' /\ TailIsLast' /\ CurrentIsLast'
  <2>1. s \in Space!Stages
    BY <1>0 DEF Space!Stages, Space!Live, Space!Ended, Space!Blocking
  <2> HIDE DEF s
  <2> QED
    BY <1>0, <2>1 DEF Space!Turn, SpaceInv, SpaceTypes, TailIsLast, CurrentIsLast, Space!Openings
<1>2. WaitsForPrevious'
  <2> HIDE DEF s
  <2> QED
    BY <1>0 DEF Space!Turn, SpaceInv, SpaceTypes, WaitsForPrevious, Space!Openings
<1>3. k \in 1..openings
  BY <1>0 DEF SpaceInv, SpaceTypes, WaitsForPrevious, Space!Openings
<1>4. ASSUME NEW i \in Space!Openings, i < k
      PROVE  openingStage[i] \in Space!Ended
          /\ (openingStage[i] \in Space!Blocking => s = "blocked")
  <2>1. after[k].of = k - 1 /\ after[k].closing /\ k - 1 \in Space!Openings
    BY <1>3, <1>4 DEF SpaceInv, SpaceTypes, WaitsForPrevious, Space!Openings
  <2>2. openingStage[k - 1] \in Space!Ended
    BY <2>1 DEF Space!Turn, Space!Settled, Space!Openings
  <2>3. openingStage[k - 1] \in Space!Blocking => s = "blocked"
    BY <2>1 DEF Space!Blocks, Space!Openings
  <2>4. CASE i = k - 1
    BY <2>2, <2>3, <2>4
  <2>5. CASE i < k - 1
    <3>1. openingStage[k - 1] \notin {"none", "waiting"}
      BY <2>2 DEF Space!Ended, Space!Blocking
    <3>2. openingStage[i] \in Space!Ended
          /\ (openingStage[i] \in Space!Blocking => openingStage[k - 1] = "blocked")
      BY <2>1, <2>5, <3>1 DEF SpaceInv, EarlierEnded
    <3> QED
      BY <3>2, <2>3 DEF Space!Blocking
  <2> QED
    BY <1>4, <2>4, <2>5 DEF Space!Openings
<1>5. EarlierEnded'
  <2> SUFFICES ASSUME NEW i \in Space!Openings, NEW j \in Space!Openings, i < j,
                      openingStage'[j] \notin {"none", "waiting"}
               PROVE  openingStage'[i] \in Space!Ended
                   /\ (openingStage'[i] \in Space!Blocking => openingStage'[j] = "blocked")
    BY DEF EarlierEnded
  <2> HIDE DEF s
  <2>1. CASE j = k
    <3>1. i # k /\ openingStage'[i] = openingStage[i] /\ openingStage'[k] = s
      BY <1>0, <2>1 DEF SpaceInv, SpaceTypes, Space!Openings
    <3> QED
      BY <1>4, <2>1, <3>1
  <2>2. CASE j # k
    <3>1. openingStage'[j] = openingStage[j]
      BY <1>0, <2>2 DEF SpaceInv, SpaceTypes
    <3>2. openingStage[i] \in Space!Ended
          /\ (openingStage[i] \in Space!Blocking => openingStage[j] = "blocked")
      BY <3>1 DEF SpaceInv, EarlierEnded
    <3>3. i # k
      BY <1>0, <3>2 DEF Space!Ended, Space!Blocking
    <3>4. openingStage'[i] = openingStage[i]
      BY <1>0, <3>3 DEF SpaceInv, SpaceTypes
    <3> QED
      BY <3>1, <3>2, <3>4
  <2> QED
    BY <2>1, <2>2
<1> QED
  BY <1>1, <1>2, <1>5 DEF SpaceInv

\* open() numbers a new opening, which waits for the closing of the last one.
LEMMA OpenPreserves ==
    ASSUME SpaceInv, Space!Open
    PROVE  SpaceInv'
<1> DEFINE n == openings + 1
<1>1. n \in Space!Openings /\ openings' = n /\ current' = n
      /\ openingStage' = [openingStage EXCEPT ![n] = "waiting"]
      /\ openingStage[n] = "none"
  BY DEF Space!Open, SpaceInv, SpaceTypes, WaitsForPrevious, Space!Openings
<1>2. after' = [after EXCEPT ![n] = IF current = 0 THEN tail ELSE Space!Promise(current, TRUE)]
  BY DEF Space!Open
<1>3. Space!Promise(current, TRUE) \in [of : 0..MaxOpens, closing : BOOLEAN]
      /\ Space!Promise(n, FALSE) \in [of : 0..MaxOpens, closing : BOOLEAN]
  BY <1>1 DEF SpaceInv, SpaceTypes, Space!Promise, Space!Openings
<1>4. cancelled' = cancelled \cup ({current} \ {0}) /\ tail' = Space!Promise(n, FALSE)
  BY DEF Space!Open
<1>5. cancelled' = 1..openings
  <2>1. ASSUME NEW i \in 1..openings PROVE i \in cancelled'
    BY <1>4 DEF SpaceInv, SpaceTypes, CurrentIsLast
  <2>2. current \in (1..openings) \cup {0}
    BY DEF SpaceInv, SpaceTypes
  <2> QED
    BY <1>4, <2>1, <2>2 DEF SpaceInv, SpaceTypes
<1>6. SpaceTypes'
  <2>1. openingStage' \in [Space!Openings -> Space!Stages]
    BY <1>1 DEF SpaceInv, SpaceTypes, Space!Stages
  <2>2. after' \in [Space!Openings -> [of : 0..MaxOpens, closing : BOOLEAN]]
    BY <1>2, <1>3 DEF SpaceInv, SpaceTypes
  <2>3. openings' \in 0..MaxOpens /\ current' \in 0..openings' /\ cancelled' \subseteq 1..openings'
    BY <1>1, <1>5 DEF SpaceInv, SpaceTypes, Space!Openings
  <2> QED
    BY <1>3, <1>4, <2>1, <2>2, <2>3 DEF SpaceInv, SpaceTypes
<1>7. TailIsLast'
  BY <1>1, <1>4, <1>5 DEF TailIsLast, Space!Promise, SpaceInv, SpaceTypes
<1>8. CurrentIsLast'
  BY <1>1, <1>5 DEF CurrentIsLast, SpaceInv, SpaceTypes
<1>9. WaitsForPrevious'
  <2>1. ASSUME NEW i \in Space!Openings PROVE i > openings' <=> openingStage'[i] = "none"
    BY <1>1, <2>1 DEF SpaceInv, SpaceTypes, WaitsForPrevious, Space!Openings
  <2>2. ASSUME NEW i \in 1..openings' PROVE after'[i].of = i - 1 /\ (i > 1 => after'[i].closing)
    <3>1. CASE i = n
      <4>1. after'[i] = IF current = 0 THEN tail ELSE Space!Promise(current, TRUE)
        BY <1>1, <1>2, <3>1 DEF SpaceInv, SpaceTypes
      <4>2. CASE current = 0
        <5>1. tail.of = openings /\ (openings > 0 => tail.closing)
          BY <4>2 DEF SpaceInv, SpaceTypes, TailIsLast, CurrentIsLast
        <5> QED
          BY <4>1, <4>2, <3>1, <5>1 DEF SpaceInv, SpaceTypes
      <4>3. CASE current # 0
        BY <4>1, <4>3, <3>1 DEF SpaceInv, SpaceTypes, CurrentIsLast, Space!Promise
      <4> QED
        BY <4>2, <4>3
    <3>2. CASE i # n
      <4>1. i \in 1..openings /\ i \in Space!Openings
        BY <1>1, <2>2, <3>2 DEF SpaceInv, SpaceTypes, Space!Openings
      <4>2. after'[i] = after[i]
        BY <1>2, <3>2, <4>1 DEF SpaceInv, SpaceTypes
      <4> QED
        BY <4>1, <4>2 DEF SpaceInv, WaitsForPrevious
    <3> QED
      BY <3>1, <3>2
  <2> QED
    BY <2>1, <2>2 DEF WaitsForPrevious
<1>10. EarlierEnded'
  <2> SUFFICES ASSUME NEW i \in Space!Openings, NEW j \in Space!Openings, i < j,
                      openingStage'[j] \notin {"none", "waiting"}
               PROVE  openingStage'[i] \in Space!Ended
                   /\ (openingStage'[i] \in Space!Blocking => openingStage'[j] = "blocked")
    BY DEF EarlierEnded
  <2>1. j # n /\ openingStage'[j] = openingStage[j]
    BY <1>1 DEF SpaceInv, SpaceTypes
  <2>2. openingStage[i] \in Space!Ended
        /\ (openingStage[i] \in Space!Blocking => openingStage[j] = "blocked")
    BY <2>1 DEF SpaceInv, EarlierEnded
  <2>3. i # n
    BY <1>1, <2>2 DEF Space!Ended, Space!Blocking
  <2>4. openingStage'[i] = openingStage[i]
    BY <1>1, <2>3 DEF SpaceInv, SpaceTypes
  <2> QED
    BY <2>1, <2>2, <2>4
<1> QED
  BY <1>6, <1>7, <1>8, <1>9, <1>10 DEF SpaceInv

\* close() concerns the last opening, whose closing becomes the tail.
LEMMA ClosePreserves ==
    ASSUME SpaceInv, NEW k \in Space!Openings, Space!Close(k)
    PROVE  SpaceInv'
<1>1. k = openings /\ openings # 0 /\ cancelled' = cancelled \cup {k} /\ current' = 0
  BY DEF Space!Close, SpaceInv, SpaceTypes, CurrentIsLast
<1>2. tail' = Space!Promise(k, TRUE)
      /\ Space!Promise(k, TRUE) \in [of : 0..MaxOpens, closing : BOOLEAN]
  BY DEF Space!Close, Space!Promise, Space!Openings
<1>3. SpaceTypes'
  <2>1. k \in 1..openings /\ cancelled \subseteq 1..openings /\ openings' = openings
    BY <1>1 DEF Space!Close, SpaceInv, SpaceTypes
  <2>2. cancelled' \subseteq 1..openings'
    BY <1>1, <2>1
  <2>3. current' \in 0..openings'
    BY <1>1, <2>1
  <2> QED
    BY <1>2, <2>1, <2>2, <2>3 DEF Space!Close, SpaceInv, SpaceTypes
<1>4. TailIsLast' /\ CurrentIsLast'
  BY <1>1, <1>2 DEF Space!Close, SpaceInv, SpaceTypes, TailIsLast, CurrentIsLast, Space!Promise
<1>5. WaitsForPrevious' /\ EarlierEnded'
  BY DEF Space!Close, SpaceInv, WaitsForPrevious, EarlierEnded
<1> QED
  BY <1>3, <1>4, <1>5 DEF SpaceInv

\* IInv holds in every state of the lifecycle of the page's workspaces.
LEMMA WorkspacesInvariant == ASSUME Space!WorkspacesAssumption PROVE Space!Spec => []SpaceInv
<1>1. Space!Init => SpaceInv
  BY WorkspacesInit
<1>2. SpaceInv /\ [Space!Next]_(Space!vars) => SpaceInv'
  <2> SUFFICES ASSUME SpaceInv, [Space!Next]_(Space!vars) PROVE SpaceInv'
    OBVIOUS
  <2>1. CASE Space!Open
    BY <2>1, OpenPreserves
  <2>2. ASSUME NEW i \in Space!Openings, Space!Close(i) PROVE SpaceInv'
    BY <2>2, ClosePreserves
  <2>3. ASSUME NEW i \in Space!Openings, Space!Turn(i) PROVE SpaceInv'
    BY <2>3, TurnPreserves
  <2>4. ASSUME NEW i \in Space!Openings, Space!Booted(i) \/ Space!Dispose(i)
        \/ Space!Disposed(i) PROVE SpaceInv'
    <3>1. PICK s \in {"running", "failed", "blocked", "closing", "closed", "flushfailed", "stuck"} :
             openingStage' = [openingStage EXCEPT ![i] = s]
      BY <2>4 DEF Space!Booted, Space!Dispose, Space!Disposed
    <3>2. s \in Space!Stages \ {"none", "waiting"} /\ openingStage[i] \in Space!Live
          /\ UNCHANGED <<openings, cancelled, current, tail, after>>
      BY <2>4, <3>1 DEF Space!Booted, Space!Dispose, Space!Disposed, Space!Stages, Space!Live,
         Space!Ended, Space!Blocking
    <3> QED
      BY <3>1, <3>2, MovesOn
  <2>5. CASE UNCHANGED Space!vars
    BY <2>5 DEF Space!vars, SpaceInv, SpaceTypes, TailIsLast, CurrentIsLast, WaitsForPrevious,
       EarlierEnded, Space!Openings, Space!Settled, Space!Blocks
  <2> QED
    BY <2>1, <2>2, <2>3, <2>4, <2>5 DEF Space!Next
<1> QED
  BY <1>1, <1>2, PTL DEF Space!Spec

\* However openings and closings of workspaces overtake one another, a workspace
\* boots only when every one before it has ended and none of them is stuck
\* (SessionLifecycle.open and close).
THEOREM SpacesHold == ASSUME Space!WorkspacesAssumption
  PROVE Space!Spec => [](Space!TypeOK /\ Space!OneWorkspace)
<1>1. SpaceInv => Space!TypeOK /\ Space!OneWorkspace
  BY DEF SpaceInv, SpaceTypes, Space!TypeOK, EarlierEnded, Space!OneWorkspace, Space!Live,
     Space!Blocking, Space!Ended
<1>2. Space!Spec => []SpaceInv
  BY WorkspacesInvariant
<1> QED
  BY <1>1, <1>2, PTL

-----------------------------------------------------------------------------
(* Pushes of the overlay (pod-session.ts of the example) *)

CallRecord == [by : {"nobody", "timer", "task", "close", "followUp"},
               pc : {"free", "settings", "pushing", "waiting", "queued"},
               on : 0..MaxCalls, asked : Nat, saw : Nat]

PushesPageRecord == [session : {"open", "closing", "closed"}, task : {"scheduled", "running", "idle"},
               terminated : BOOLEAN, forced : BOOLEAN, needsPush : BOOLEAN, unsynced : BOOLEAN,
               phase : {"clean", "dirty", "pushing", "synced", "failed"}, dirty : BOOLEAN]

Results == {"pushed", "same", "none"}

PushesTypes ==
  /\ edits \in 0..MaxEdits /\ pushed \in 0..edits /\ promised \in 0..edits
  /\ timer \in BOOLEAN /\ offline \in BOOLEAN /\ refused \in BOOLEAN
  /\ push \in 0..MaxCalls /\ followUp \in 0..MaxCalls
  /\ calls \in [Pushes!Calls -> CallRecord]
  /\ page \in PushesPageRecord

\* A call that waits does so for a follow-up that has not walked the overlay, or
\* walked it later; one push runs and one is queued.
Linked(c) ==
  LET k == calls[c]
  IN  /\ k.asked <= edits /\ k.saw <= edits
      /\ k.pc = "pushing" <=> push = c
      /\ k.pc = "queued" <=> followUp = c
      /\ k.pc = "queued" => k.by = "followUp"
      /\ k.pc = "pushing" => k.asked <= k.saw
      /\ k.pc = "waiting" =>
            /\ k.by # "followUp" /\ k.on \in Pushes!Calls /\ calls[k.on].by = "followUp"
            /\ calls[k.on].pc \in {"settings", "queued", "pushing"}
            /\ calls[k.on].pc = "pushing" => k.asked <= calls[k.on].saw
      /\ k.by = "close" => page.session = "closing" /\ k.asked = promised /\ k.pc # "free"

Ahead == timer \/ \E c \in Pushes!Calls : calls[c].pc \in {"settings", "queued"}

\* The task is there until it is killed, a close waits for its push, and nothing is
\* left of a closed workspace.
PageState ==
  /\ page.terminated \/ page.task # "idle"
  /\ page.session # "open" => page.terminated
  /\ page.session = "open" => promised = 0
  /\ page.session = "closing" => \E c \in Pushes!Calls : calls[c].by = "close"
  /\ page.session = "closed" => ~timer /\ \A c \in Pushes!Calls : calls[c].pc = "free"
  /\ page.session = "closed" /\ promised > pushed => page.unsynced

\* An edit that the running push has not seen is still ahead, and one that the
\* manager does not have is not forgotten.
Edited ==
  page.session = "open" /\ ~refused =>
     /\ push # 0 /\ calls[push].saw < edits => Ahead
     /\ edits > pushed => \/ Ahead
                          \/ push # 0 /\ calls[push].saw = edits
                          \/ page.needsPush /\ page.unsynced

\* The calls, the page and the edits fit each other.
PushesInv == PushesTypes /\ (\A c \in Pushes!Calls : Linked(c)) /\ PageState /\ Edited

\* The invariant implies the property.
LEMMA PushesShown == ASSUME Pushes!AutoPushAssumption, PushesInv
  PROVE Pushes!TypeOK /\ Pushes!EditsGetPushed
<1>1. /\ calls \in [Pushes!Calls -> CallRecord] /\ edits \in Nat /\ \A c \in Pushes!Calls : calls[c] \in CallRecord /\ Linked(c)
      /\ Pushes!Calls = 1..MaxCalls /\ MaxCalls \in Nat
  BY DEF PushesInv, PushesTypes, Pushes!AutoPushAssumption, Pushes!Calls
<1>2. Pushes!TypeOK
  <2>1. push # 0 <=> \E c \in Pushes!Calls : calls[c].pc = "pushing"
    BY <1>1 DEF Linked, PushesInv, PushesTypes
  <2> QED BY <2>1 DEF PushesInv, PushesTypes, Pushes!TypeOK
<1>3. Pushes!AnsweredByALaterWalk
  BY <1>1 DEF Pushes!AnsweredByALaterWalk, Linked, Pushes!Waiting
<1>4. Pushes!NothingForgotten
  BY DEF PushesInv, Pushes!NothingForgotten, Edited, Ahead, PageState
<1> QED BY <1>2, <1>3, <1>4 DEF PushesInv, PageState, Pushes!EditsGetPushed

LEMMA FreeTyped ==
  Pushes!AutoPushAssumption => Pushes!Free \in CallRecord /\ Pushes!Free.pc = "free"
      /\ Pushes!Free.by = "nobody" /\ Pushes!Free.asked = 0 /\ Pushes!Free.saw = 0
BY DEF Pushes!Free, CallRecord, Pushes!AutoPushAssumption

LEMMA PushesStart == Pushes!AutoPushAssumption /\ Pushes!Init => PushesInv
<1> SUFFICES ASSUME Pushes!AutoPushAssumption, Pushes!Init PROVE PushesInv
  OBVIOUS
<1>1. page \in PushesPageRecord /\ page.session = "open" /\ page.task = "scheduled"
      /\ ~page.terminated
      /\ (edits = 1 => page.needsPush /\ page.unsynced)
  BY DEF Pushes!Init, PushesPageRecord
<1>3. \A c \in Pushes!Calls : calls[c] = Pushes!Free
  BY DEF Pushes!Init
<1>7. calls \in [Pushes!Calls -> CallRecord]
  BY FreeTyped DEF Pushes!Init
<1>2. PushesTypes
  <2>1. edits \in 0..1 /\ pushed = 0 /\ promised = 0 /\ timer = FALSE /\ refused = FALSE
        /\ offline \in BOOLEAN
        /\ push = 0 /\ followUp = 0
    BY DEF Pushes!Init
  <2>2. edits \in 0..MaxEdits /\ pushed \in 0..edits /\ promised \in 0..edits
        /\ push \in 0..MaxCalls /\ followUp \in 0..MaxCalls
    BY <2>1 DEF Pushes!AutoPushAssumption
  <2> QED BY <1>1, <1>7, <2>1, <2>2 DEF PushesTypes
<1>4. \A c \in Pushes!Calls : Linked(c)
  BY <1>2, <1>3, FreeTyped DEF Linked, Pushes!Init, PushesTypes, Pushes!Calls,
     Pushes!AutoPushAssumption
<1>5. PageState /\ Edited
  BY <1>1, <1>3, FreeTyped DEF Pushes!Init, PageState, Edited, Ahead
<1> QED BY <1>2, <1>4, <1>5 DEF PushesInv

-----------------------------------------------------------------------------
(* The slots and the page. *)

LEMMA LowestIn == ASSUME NEW S \in SUBSET Nat, S # {} PROVE Pushes!Lowest(S) \in S
<1>1. \E x \in S : \A y \in S : ~(<<y, x>> \in OpToRel(<, Nat))
  BY NatLessThanWellFounded, WFMin
<1>2. \E x \in S : \A y \in S : ~(y < x)
  BY <1>1 DEF OpToRel
<1>3. \E x \in S : \A y \in S : x <= y
  BY <1>2
<1> QED BY <1>3 DEF Pushes!Lowest

\* Call takes the lowest free slot.
LEMMA UnusedSlot ==
  ASSUME Pushes!AutoPushAssumption, Pushes!Unused # {}
  PROVE  Pushes!Lowest(Pushes!Unused) \in Pushes!Calls
      /\ calls[Pushes!Lowest(Pushes!Unused)].pc = "free"
<1>1. Pushes!Unused \in SUBSET Nat
  BY DEF Pushes!Unused, Pushes!Calls, Pushes!AutoPushAssumption
<1> QED BY <1>1, LowestIn DEF Pushes!Unused

\* What the chip's reducer leaves alone.
LEMMA ReduceKeeps ==
  ASSUME NEW p \in PushesPageRecord, NEW e \in {"edit", "push-start", "push-ok", "push-fail"}
  PROVE  LET q == Pushes!Reduce(p, e) IN
         /\ q \in PushesPageRecord /\ q.session = p.session /\ q.task = p.task
               /\ q.terminated = p.terminated
         /\ q.forced = p.forced /\ q.needsPush = p.needsPush /\ q.unsynced = p.unsynced
BY DEF Pushes!Reduce, PushesPageRecord

\* What the page hears of a push.
LEMMA HeardKeeps ==
  ASSUME NEW p \in PushesPageRecord, NEW ok \in BOOLEAN
  PROVE  LET q == Pushes!Heard(p, ok) IN
         /\ q \in PushesPageRecord /\ q.session = p.session /\ q.task = p.task
               /\ q.terminated = p.terminated
         /\ q.needsPush = ~ok /\ q.unsynced = ~ok
<1>1. PICK r : r = Pushes!Reduce(p, IF ok THEN "push-ok" ELSE "push-fail")
  OBVIOUS
<1>2. r \in PushesPageRecord /\ r.session = p.session /\ r.task = p.task
      /\ r.terminated = p.terminated
  BY <1>1, ReduceKeeps
<1>3. Pushes!Heard(p, ok) = [r EXCEPT !.needsPush = ~ok, !.unsynced = ~ok]
  BY <1>1 DEF Pushes!Heard
<1> QED BY <1>2, <1>3 DEF PushesPageRecord

\* What a caller is told never takes a failure back, unless the manager has it all.
LEMMA ToldKeeps ==
  ASSUME NEW p \in PushesPageRecord, NEW S, NEW result \in Results, p.terminated \/ p.task # "idle"
  PROVE  LET t == Pushes!Told(p, S, result)
             closes == \E c \in S : calls[c].by = "close"
         IN  /\ t \in PushesPageRecord /\ t.terminated = p.terminated /\ (t.terminated \/ t.task # "idle")
             /\ t.session = IF closes THEN "closed" ELSE p.session
             /\ result # "same" => t.needsPush = p.needsPush
             /\ result # "same" /\ ~closes => t.unsynced = p.unsynced
             /\ result = "none" => t.unsynced = p.unsynced
<1>1. PICK q : q = IF "task" \in {calls[c].by : c \in S} THEN Pushes!TaskEnds(p, result) ELSE p
  OBVIOUS
<1>2. /\ q \in PushesPageRecord /\ q.terminated = p.terminated /\ (q.terminated \/ q.task # "idle") /\ q.session = p.session
      /\ result # "same" => q.needsPush = p.needsPush /\ q.unsynced = p.unsynced
  <2>1. PICK r : r = Pushes!Reduce(p, "push-ok")
    OBVIOUS
  <2>2. r \in PushesPageRecord /\ r.session = p.session /\ r.task = p.task
        /\ r.terminated = p.terminated
    BY <2>1, ReduceKeeps
  <2>3. PICK u : u = IF result = "same" THEN [r EXCEPT !.needsPush = FALSE, !.unsynced = FALSE] ELSE p
    OBVIOUS
  <2>4. u \in PushesPageRecord /\ u.session = p.session /\ u.terminated = p.terminated
        /\ (result # "same" => u = p)
    BY <2>2, <2>3 DEF PushesPageRecord
  <2>5. Pushes!TaskEnds(p, result) = [u EXCEPT !.task = IF p.terminated THEN "idle" ELSE "scheduled"]
    BY <2>1, <2>3 DEF Pushes!TaskEnds
  <2> QED BY <1>1, <2>4, <2>5 DEF PushesPageRecord
<1>3. Pushes!Told(p, S, result) = IF "close" \in {calls[c].by : c \in S} THEN Pushes!Closed(q, result) ELSE q
  BY <1>1 DEF Pushes!Told
<1>4. "close" \in {calls[c].by : c \in S} <=> \E c \in S : calls[c].by = "close"
  OBVIOUS
<1> HIDE <1>1
<1>5. CASE \E c \in S : calls[c].by = "close"
  <2>1. PICK t : t = [q EXCEPT !.session = "closed", !.unsynced = q.unsynced /\ result = "none"]
    OBVIOUS
  <2>2. Pushes!Told(p, S, result) = t
    BY <1>3, <1>4, <1>5, <2>1 DEF Pushes!Closed
  <2>3. t \in PushesPageRecord /\ t.terminated = q.terminated /\ t.task = q.task
        /\ t.session = "closed" /\ t.needsPush = q.needsPush
        /\ (result = "none" => t.unsynced = q.unsynced)
    BY <1>2, <2>1 DEF PushesPageRecord
  <2> QED BY <1>2, <1>5, <2>2, <2>3
<1>6. CASE ~\E c \in S : calls[c].by = "close"
  BY <1>2, <1>3, <1>4, <1>6
<1> QED BY <1>5, <1>6

-----------------------------------------------------------------------------
(* The steps of a call. *)

\* What every step may take from the invariant.
LEMMA PushesGiven ==
  ASSUME Pushes!AutoPushAssumption, PushesInv
  PROVE  /\ PushesTypes /\ Pushes!Calls = 1..MaxCalls /\ MaxCalls \in Nat /\ edits \in Nat /\ pushed \in Nat /\ promised \in Nat
         /\ \A c \in Pushes!Calls : Linked(c) /\ calls[c] \in CallRecord
               /\ calls[c].asked \in Nat /\ calls[c].saw \in Nat /\ c # 0
         /\ PageState /\ Edited /\ page \in PushesPageRecord
BY DEF PushesInv, PushesTypes, Pushes!AutoPushAssumption, Pushes!Calls, CallRecord

\* A call is made in a free slot.
LEMMA CallStep ==
  ASSUME Pushes!AutoPushAssumption, PushesInv, NEW who \in {"timer", "task", "close"},
         Pushes!Call(who),
         UNCHANGED <<edits, pushed, push, followUp, offline, refused>>,
         timer' \in BOOLEAN, page' \in PushesPageRecord,
         page'.terminated \/ page'.task # "idle",
         page'.session # "open" => page'.terminated,
         IF who = "close"
         THEN page.session = "open" /\ page'.session = "closing" /\ promised' = edits
         ELSE page'.session = page.session /\ page.session # "closed" /\ promised' = promised
  PROVE  PushesInv'
<1>1. PICK s \in Pushes!Calls : calls[s].pc = "free"
         /\ calls' = [calls EXCEPT ![s] = [by |-> who, pc |-> "settings", on |-> 0, asked |-> edits, saw |-> 0]]
  BY UnusedSlot DEF Pushes!Call
<1>2. PICK k : k = [by |-> who, pc |-> "settings", on |-> 0, asked |-> edits, saw |-> 0]
  OBVIOUS
<1>3. k \in CallRecord /\ k.by = who /\ k.pc = "settings" /\ k.asked = edits /\ k.saw = 0
  BY <1>2, PushesGiven DEF CallRecord
<1>4. /\ calls' = [calls EXCEPT ![s] = k] /\ calls'[s] = k /\ \A c \in Pushes!Calls \ {s} : calls'[c] = calls[c]
  BY <1>1, <1>2, PushesGiven DEF PushesTypes
<1>5. PushesTypes'
  BY <1>3, <1>4, PushesGiven DEF PushesTypes
<1>6. \A c \in Pushes!Calls : calls[c].by = "close" => page.session = "closing"
  BY PushesGiven DEF Linked
<1>7. ASSUME NEW c \in Pushes!Calls PROVE Linked(c)'
  <2>0. Linked(c) /\ Linked(s)
    BY PushesGiven
  <2>1. CASE c = s
    BY <1>1, <1>3, <1>4, <2>0, <2>1, PushesGiven DEF Linked
  <2>2. CASE c # s
    <3>1. calls'[c] = calls[c]
      BY <1>4, <2>2
    <3>2. calls[c].pc = "waiting" => calls[c].on # s
      BY <1>1, <2>0 DEF Linked
    <3>3. calls[c].pc = "waiting" => calls[c].on \in Pushes!Calls
          /\ calls'[calls[c].on] = calls[calls[c].on]
      BY <1>4, <2>0, <3>2 DEF Linked
    <3>4. calls[c].by = "close" => page'.session = "closing" /\ promised' = promised
      BY <1>6
    <3> QED BY <2>0, <3>1, <3>3, <3>4 DEF Linked
  <2> QED BY <2>1, <2>2
<1>8. Ahead'
  BY <1>3, <1>4 DEF Ahead
<1>9. PageState'
  <2>1. who = "close" => calls'[s].by = "close"
    BY <1>3, <1>4
  <2>2. who # "close" /\ page.session = "closing" => \E c \in Pushes!Calls : calls'[c].by = "close"
    <3> SUFFICES ASSUME page.session = "closing"
        PROVE \E c \in Pushes!Calls : calls'[c].by = "close" \/ who = "close"
      OBVIOUS
    <3>1. PICK c \in Pushes!Calls : calls[c].by = "close"
      BY PushesGiven DEF PageState
    <3>2. c # s
      BY <1>1, <3>1, PushesGiven DEF Linked
    <3> QED BY <1>4, <3>1, <3>2
  <2> QED BY <2>1, <2>2, PushesGiven DEF PageState
<1>10. Edited'
  BY <1>8, PushesGiven DEF Edited
<1> QED BY <1>5, <1>7, <1>9, <1>10 DEF PushesInv

-----------------------------------------------------------------------------
(* A call settles: with it go those who wait for it.                         *)

\* The calls that stay keep their places.
LEMMA SettleCalls ==
  ASSUME Pushes!AutoPushAssumption, PushesInv, NEW c \in Pushes!Calls,
         NEW p \in PushesPageRecord, NEW result \in Results, NEW others,
         p.terminated \/ p.task # "idle", p.terminated = page.terminated, p.session = page.session,
         result = "none" => p.unsynced,
         Pushes!Settle(c, p, result, others),
         \/ /\ others = calls /\ calls[c].pc = "settings" /\ result = "none" /\ pushed' = pushed
            /\ push' = (IF page'.session = "closed" THEN 0 ELSE push)
            /\ followUp' = (IF page'.session = "closed" THEN 0 ELSE followUp)
         \/ /\ push = c /\ push' = 0 /\ followUp' = 0 /\ pushed' \in 0..edits
            /\ result # "none" => pushed' = calls[c].saw
            /\ others = IF followUp = 0 THEN calls ELSE [calls EXCEPT ![followUp].pc = "settings"],
         UNCHANGED <<edits, offline, promised>>, refused' \in BOOLEAN
  PROVE  /\ PushesTypes' /\ (\A d \in Pushes!Calls : Linked(d)') /\ PageState'
         /\ page'.session = "open" =>
              /\ timer' = timer /\ page.session = "open"
              /\ result # "same" => page'.needsPush = p.needsPush /\ page'.unsynced = p.unsynced
              /\ \A d \in Pushes!Calls : d # c /\ calls[d].pc = "settings"
                    => calls'[d].pc = "settings"
              /\ \A d \in Pushes!Calls : calls[d].pc = "queued"
                    => calls'[d].pc \in {"settings", "queued"}
              /\ push # c => \A d \in Pushes!Calls : calls[d].pc = "pushing" => calls'[d] = calls[d]
<1>1. PICK done : done = {c} \cup Pushes!Waiting(c)
  OBVIOUS
<1>2. PICK t : t = Pushes!Told(p, done, result)
  OBVIOUS
<1>3. PICK closes \in BOOLEAN : closes = \E d \in done : calls[d].by = "close"
  OBVIOUS
<1>4. /\ t \in PushesPageRecord /\ t.terminated = p.terminated /\ (t.terminated \/ t.task # "idle")
      /\ t.session = IF closes THEN "closed" ELSE p.session
      /\ result # "same" => t.needsPush = p.needsPush
      /\ result # "same" /\ ~closes => t.unsynced = p.unsynced
      /\ result = "none" => t.unsynced = p.unsynced
  BY <1>2, <1>3, ToldKeeps
<1>5. page' = t /\ timer' = (timer /\ t.session # "closed")
      /\ calls' = [d \in Pushes!Calls |-> IF d \in done \/ t.session = "closed" THEN Pushes!Free ELSE others[d]]
  BY <1>1, <1>2 DEF Pushes!Settle
<1>6. \A d \in done : d \in Pushes!Calls /\ (d = c \/ (calls[d].pc = "waiting" /\ calls[d].on = c))
  <2>1. \A d \in Pushes!Waiting(c) : d \in Pushes!Calls /\ calls[d].pc = "waiting"
        /\ calls[d].on = c
    BY Zenon DEF Pushes!Waiting
  <2> QED BY <1>1, <2>1
<1>7. \A d \in Pushes!Calls \ done : d # c /\ (calls[d].pc = "waiting" => calls[d].on # c)
  BY <1>1 DEF Pushes!Waiting
<1>8. \A d \in Pushes!Calls : Linked(d) /\ d # 0
  BY PushesGiven
<1>9. calls[c].pc \in {"settings", "pushing"} /\ page.session # "closed"
  <2>1. calls[c].pc \in {"settings", "pushing"}
    BY <1>8 DEF Linked
  <2> QED BY <2>1, PushesGiven DEF PageState
<1>10. /\ Pushes!Free \in CallRecord /\ Pushes!Free.pc = "free" /\ Pushes!Free.by = "nobody" /\ Pushes!Free.asked = 0 /\ Pushes!Free.saw = 0
  BY FreeTyped
<1> HIDE <1>1, <1>2, <1>3
<1>11. PushesTypes
  BY PushesGiven
<1>12. pushed' \in 0..edits' /\ promised' \in 0..edits' /\ edits' \in 0..MaxEdits
       /\ offline' \in BOOLEAN
       /\ push' \in 0..MaxCalls /\ followUp' \in 0..MaxCalls /\ timer' \in BOOLEAN /\ edits' \in Nat
  BY <1>5, <1>11, PushesGiven DEF PushesTypes
<1>13. CASE closes
  <2>1. page'.session = "closed" /\ ~timer' /\ \A d \in Pushes!Calls : calls'[d] = Pushes!Free
    BY <1>4, <1>5, <1>13
  <2>2. PICK d \in done : calls[d].by = "close"
    BY <1>3, <1>13
  <2>3. page.session = "closing" /\ calls[d].asked = promised /\ page.terminated
    BY <1>6, <1>8, <2>2, PushesGiven DEF Linked, PageState
  <2>4. push' = 0 /\ followUp' = 0
    BY <2>1
  <2>5. promised' > pushed' => page'.unsynced
    <3>1. CASE result = "none"
      BY <1>4, <1>5, <3>1
    <3>2. CASE result # "none"
      <4>1. push = c /\ pushed' = calls[c].saw
        BY <3>2
      <4>2. calls[d].asked <= calls[c].saw
        BY <1>6, <1>8, <4>1 DEF Linked
      <4> QED BY <2>3, <4>1, <4>2, PushesGiven
    <3> QED BY <3>1, <3>2
  <2>6. calls' \in [Pushes!Calls -> CallRecord]
    BY <1>5, <1>4, <1>10, <1>13
  <2>7. PushesTypes'
    BY <1>4, <1>5, <1>12, <2>6 DEF PushesTypes
  <2>8. \A e \in Pushes!Calls : Linked(e)'
    BY <1>8, <1>10, <1>12, <2>1, <2>4 DEF Linked
  <2>9. PageState'
    BY <1>4, <1>5, <1>10, <2>1, <2>3, <2>5 DEF PageState
  <2> QED BY <2>1, <2>7, <2>8, <2>9
<1>14. CASE ~closes
  <2>1. t.session = page.session /\ timer' = timer
        /\ \A d \in Pushes!Calls : calls'[d] = IF d \in done THEN Pushes!Free ELSE others[d]
    BY <1>4, <1>5, <1>9, <1>11, <1>14 DEF PushesTypes
  <2>21. calls \in [Pushes!Calls -> CallRecord] /\ \A d \in Pushes!Calls : calls[d] \in CallRecord
    BY <1>11 DEF PushesTypes
  <2>22. push # c => others = calls
    OBVIOUS
  <2>23. push = c => calls[c].pc # "settings"
    BY <1>8 DEF Linked
  <2>24. push = c => others = IF followUp = 0 THEN calls ELSE [calls EXCEPT ![followUp].pc = "settings"]
    BY <2>23
  <2>25. ASSUME push = c, NEW d \in Pushes!Calls
         PROVE  /\ others[d] \in CallRecord /\ others[d].by = calls[d].by /\ others[d].asked = calls[d].asked
                /\ others[d].saw = calls[d].saw /\ others[d].on = calls[d].on
                /\ others[d].pc = IF d = followUp THEN "settings" ELSE calls[d].pc
    <3>1. CASE followUp = 0
      BY <1>8, <2>21, <2>24, <2>25, <3>1
    <3>2. CASE followUp # 0
      <4>1. others = [calls EXCEPT ![followUp].pc = "settings"]
        BY <2>24, <2>25, <3>2
      <4>2. CASE d = followUp
        <5>1. others[d] = [calls[d] EXCEPT !.pc = "settings"] /\ calls[d] \in CallRecord
          BY <2>21, <4>1, <4>2
        <5> QED BY <4>2, <5>1 DEF CallRecord
      <4>3. CASE d # followUp
        <5>1. others[d] = calls[d] /\ calls[d] \in CallRecord
          BY <2>21, <4>1, <4>3
        <5> QED BY <4>3, <5>1
      <4> QED BY <4>2, <4>3
    <3> QED BY <3>1, <3>2
  <2>2. \A d \in Pushes!Calls :
          /\ others[d] \in CallRecord /\ others[d].by = calls[d].by
                /\ others[d].asked = calls[d].asked
          /\ others[d].saw = calls[d].saw /\ others[d].on = calls[d].on
          /\ push = c => others[d].pc = IF d = followUp THEN "settings" ELSE calls[d].pc
          /\ push # c => others[d].pc = calls[d].pc /\ others[d] = calls[d]
    BY <2>21, <2>22, <2>25
  <2>3. calls' \in [Pushes!Calls -> CallRecord]
    BY <1>5, <1>10, <2>1, <2>2
  <2>4. PushesTypes'
    BY <1>4, <1>5, <1>12, <2>3 DEF PushesTypes
  <2>5. push # c => push' = push /\ followUp' = followUp
    BY <1>5, <1>9, <2>1
  <2>6. push = c => push' = 0 /\ followUp' = 0
    BY <1>8 DEF Linked
  <2>7. ASSUME NEW d \in Pushes!Calls PROVE Linked(d)'
    <3>1. Linked(d) /\ Linked(c)
      BY <1>8
    <3>2. CASE d \in done
      <4>1. calls'[d] = Pushes!Free /\ calls[d].pc # "queued"
            /\ (push # c => calls[d].pc # "pushing")
        BY <1>6, <1>9, <2>1, <3>1, <3>2 DEF Linked
      <4> QED BY <1>8, <1>10, <1>12, <2>5, <2>6, <3>1, <4>1 DEF Linked
    <3>3. CASE d \notin done
      <4>1. calls'[d] = others[d] /\ d # c
        BY <1>7, <2>1, <3>3
      <4>2. calls[d].pc = "waiting" => calls[d].on \in Pushes!Calls \ done
        BY <1>6, <1>7, <3>1, <3>3 DEF Linked
      <4>3. calls[d].pc = "waiting" => /\ calls'[calls[d].on] = others[calls[d].on] /\ calls[d].on # c
                                      /\ Linked(calls[d].on)
        BY <1>7, <1>8, <2>1, <4>2
      <4>4. /\ calls'[d].asked <= edits' /\ calls'[d].saw <= edits'
            /\ calls'[d].pc = "pushing" <=> push' = d
            /\ calls'[d].pc = "queued" <=> followUp' = d
            /\ calls'[d].pc = "queued" => calls'[d].by = "followUp"
            /\ calls'[d].pc = "pushing" => calls'[d].asked <= calls'[d].saw
        <5>1. CASE push = c
          BY <1>8, <2>2, <2>6, <3>1, <4>1, <5>1 DEF Linked
        <5>2. CASE push # c
          BY <1>8, <2>2, <2>5, <3>1, <4>1, <5>2 DEF Linked
        <5> QED BY <5>1, <5>2
      <4>5. calls'[d].pc = "waiting" =>
              /\ calls'[d].by # "followUp" /\ calls'[d].on \in Pushes!Calls
                    /\ calls'[calls'[d].on].by = "followUp"
              /\ calls'[calls'[d].on].pc \in {"settings", "queued", "pushing"}
              /\ calls'[calls'[d].on].pc = "pushing" => calls'[d].asked <= calls'[calls'[d].on].saw
        <5>1. CASE push = c
          <6> SUFFICES ASSUME calls'[d].pc = "waiting"
                       PROVE  /\ calls'[d].by # "followUp" /\ calls'[d].on \in Pushes!Calls /\ calls'[calls'[d].on].by = "followUp"
                              /\ calls'[calls'[d].on].pc \in {"settings", "queued", "pushing"}
                                    /\ calls'[calls'[d].on].pc # "pushing"
            OBVIOUS
          <6>1. calls[d].pc = "waiting" /\ calls'[d].on = calls[d].on /\ calls'[d].by = calls[d].by
            BY <2>2, <4>1, <5>1
          <6>2. PICK e \in Pushes!Calls : e = calls[d].on /\ e # c /\ calls'[e] = others[e]
                /\ Linked(e)
            BY <4>2, <4>3, <6>1
          <6>3. calls[e].by = "followUp" /\ calls[e].pc \in {"settings", "queued"}
                /\ calls[d].by # "followUp"
            BY <3>1, <5>1, <6>1, <6>2 DEF Linked
          <6>4. calls'[e].by = "followUp" /\ calls'[e].pc \in {"settings", "queued"}
            BY <2>2, <5>1, <6>2, <6>3
          <6> QED BY <6>1, <6>2, <6>3, <6>4
        <5>2. CASE push # c
          BY <2>2, <3>1, <4>1, <4>2, <4>3, <5>2 DEF Linked
        <5> QED BY <5>1, <5>2
      <4>6. calls'[d].by = "close" => page'.session = "closing" /\ calls'[d].asked = promised'
            /\ calls'[d].pc # "free"
        <5>1. calls'[d].by = calls[d].by /\ calls'[d].asked = calls[d].asked
              /\ (calls'[d].pc = "free" => calls[d].pc = "free")
          BY <2>2, <4>1
        <5> QED BY <1>5, <2>1, <3>1, <5>1 DEF Linked
      <4> QED BY <4>4, <4>5, <4>6 DEF Linked
    <3> QED BY <3>2, <3>3
  <2>8. PageState'
    <3>1. page'.session = "closing" => \E d \in Pushes!Calls : calls'[d].by = "close"
      <4> SUFFICES ASSUME page'.session = "closing"
          PROVE \E d \in Pushes!Calls : calls'[d].by = "close"
        OBVIOUS
      <4>1. PICK d \in Pushes!Calls : calls[d].by = "close"
        BY <1>5, <2>1, PushesGiven DEF PageState
      <4>2. d \notin done
        BY <1>3, <1>14, <4>1
      <4> QED BY <2>1, <2>2, <4>1, <4>2
    <3> QED BY <1>4, <1>5, <1>9, <2>1, <3>1, PushesGiven DEF PageState
  <2>9. \A d \in Pushes!Calls : d # c /\ calls[d].pc = "settings" => calls'[d].pc = "settings"
    <3>1. ASSUME NEW d \in Pushes!Calls, d # c, calls[d].pc = "settings"
          PROVE calls'[d].pc = "settings"
      <4>1. calls'[d] = others[d]
        BY <1>6, <2>1, <3>1
      <4> QED BY <2>2, <3>1, <4>1
    <3> QED BY <3>1
  <2>10. \A d \in Pushes!Calls : calls[d].pc = "queued" => calls'[d].pc \in {"settings", "queued"}
    <3>1. ASSUME NEW d \in Pushes!Calls, calls[d].pc = "queued"
          PROVE calls'[d].pc \in {"settings", "queued"}
      <4>1. calls'[d] = others[d]
        BY <1>6, <1>9, <2>1, <3>1
      <4> QED BY <2>2, <3>1, <4>1
    <3> QED BY <3>1
  <2>11. push # c => \A d \in Pushes!Calls : calls[d].pc = "pushing" => calls'[d] = calls[d]
    BY <1>6, <1>8, <1>9, <2>1, <2>2 DEF Linked
  <2>12. result # "same" => page'.needsPush = p.needsPush /\ page'.unsynced = p.unsynced
    BY <1>4, <1>5, <1>14
  <2> QED BY <1>5, <2>1, <2>4, <2>7, <2>8, <2>9, <2>10, <2>11, <2>12
<1> QED BY <1>13, <1>14

LEMMA OfflineStep == ASSUME Pushes!AutoPushAssumption, PushesInv, NEW c \in Pushes!Calls,
    Pushes!Offline(c) PROVE PushesInv'
<1>1. PICK p : p = Pushes!Heard(page, FALSE)
  OBVIOUS
<1>2. p \in PushesPageRecord /\ p.session = page.session /\ p.task = page.task
      /\ p.terminated = page.terminated
      /\ p.needsPush /\ p.unsynced
  BY <1>1, HeardKeeps, PushesGiven
<1>3. calls[c].pc = "settings" /\ Pushes!Settle(c, p, "none", calls)
      /\ (refused' = (refused \/ push # 0))
      /\ push' = (IF page'.session = "closed" THEN 0 ELSE push)
      /\ followUp' = (IF page'.session = "closed" THEN 0 ELSE followUp)
      /\ UNCHANGED <<edits, pushed, offline, promised>>
  BY <1>1 DEF Pushes!Offline
<1>4. refused' \in BOOLEAN /\ "none" \in Results /\ (p.terminated \/ p.task # "idle") /\ Linked(c)
  BY <1>2, <1>3, PushesGiven DEF PushesTypes, Results, PageState
<1>5. /\ PushesTypes' /\ (\A d \in Pushes!Calls : Linked(d)') /\ PageState'
      /\ page'.session = "open" => page'.needsPush = p.needsPush /\ page'.unsynced = p.unsynced
  BY <1>2, <1>3, <1>4, SettleCalls
<1>6. Edited'
  BY <1>2, <1>3, <1>5 DEF Edited
<1> QED BY <1>5, <1>6 DEF PushesInv

\* What was written after the push had walked the overlay is ahead, now as before.
LEMMA FinishStep ==
  ASSUME Pushes!AutoPushAssumption, PushesInv, NEW c \in Pushes!Calls, NEW result \in Results,
         Pushes!Finish(c, result) PROVE PushesInv'
<1>1. PICK p : p = IF result = "same" THEN page ELSE Pushes!Heard(page, result = "pushed")
  OBVIOUS
<1>2. p \in PushesPageRecord /\ p.session = page.session /\ p.task = page.task
      /\ p.terminated = page.terminated
      /\ (result = "none" => p.needsPush /\ p.unsynced)
  <2>1. CASE result = "same"
    BY <1>1, <2>1, PushesGiven
  <2>2. CASE result # "same"
    <3>1. PICK ok \in BOOLEAN : ok = (result = "pushed")
      OBVIOUS
    <3>2. p = Pushes!Heard(page, ok)
      BY <1>1, <2>2, <3>1
    <3> QED BY <3>1, <3>2, HeardKeeps, PushesGiven
  <2> QED BY <2>1, <2>2
<1>3. PICK others : others = IF followUp = 0 THEN calls ELSE [calls EXCEPT ![followUp].pc = "settings"]
  OBVIOUS
<1>4. /\ push = c /\ push' = 0 /\ followUp' = 0 /\ UNCHANGED <<edits, offline, promised, refused>>
      /\ Pushes!Settle(c, p, result, others)
      /\ pushed' = (IF result = "pushed" THEN calls[c].saw ELSE pushed)
      /\ result = "pushed" => calls[c].saw > pushed
      /\ result = "same" => calls[c].saw = pushed
  BY <1>1, <1>3 DEF Pushes!Finish
<1>5. Linked(c) /\ calls[c].saw \in Nat /\ (p.terminated \/ p.task # "idle") /\ PushesTypes
      /\ edits \in Nat /\ pushed \in Nat
      /\ c # 0
  BY <1>2, PushesGiven DEF PageState
<1>6. pushed' \in 0..edits /\ (result # "none" => pushed' = calls[c].saw) /\ refused' \in BOOLEAN
  BY <1>4, <1>5 DEF Linked, Results, PushesTypes
<1>7. /\ PushesTypes' /\ (\A d \in Pushes!Calls : Linked(d)') /\ PageState'
      /\ page'.session = "open" =>
           /\ timer' = timer /\ page.session = "open"
           /\ result # "same" => page'.needsPush = p.needsPush /\ page'.unsynced = p.unsynced
           /\ \A d \in Pushes!Calls : d # c /\ calls[d].pc = "settings" => calls'[d].pc = "settings"
           /\ \A d \in Pushes!Calls : calls[d].pc = "queued"
                 => calls'[d].pc \in {"settings", "queued"}
  BY <1>2, <1>3, <1>4, <1>5, <1>6, SettleCalls
<1>8. page'.session = "open" /\ Ahead => Ahead'
  <2> SUFFICES ASSUME page'.session = "open", Ahead PROVE Ahead'
    OBVIOUS
  <2>1. CASE timer
    BY <1>7, <2>1 DEF Ahead
  <2>2. CASE ~timer
    <3>1. PICK d \in Pushes!Calls : calls[d].pc \in {"settings", "queued"}
      BY <2>2 DEF Ahead
    <3>2. calls[c].pc = "pushing"
      BY <1>4, <1>5 DEF Linked
    <3> QED BY <1>7, <3>1, <3>2 DEF Ahead
  <2> QED BY <2>1, <2>2
<1>9. Edited'
  <2> SUFFICES ASSUME page'.session = "open", ~refused', edits' > pushed'
               PROVE  Ahead' \/ (page'.needsPush /\ page'.unsynced)
    BY <1>4 DEF Edited
  <2>1. CASE result = "none"
    BY <1>2, <1>7, <2>1
  <2>2. CASE result # "none"
    <3>1. calls[push].saw < edits
      BY <1>4, <1>5, <1>6, <2>2
    <3>2. Ahead
      BY <1>4, <1>5, <1>7, <3>1, PushesGiven DEF Edited
    <3> QED BY <1>8, <3>2
  <2> QED BY <2>1, <2>2
<1> QED BY <1>7, <1>9 DEF PushesInv

\* A call that changes its place; who waits for it goes on waiting, for a walk that
\* is still to come.
LEMMA PushesMoves ==
  ASSUME Pushes!AutoPushAssumption, PushesInv, NEW c \in Pushes!Calls, NEW k \in CallRecord,
         calls' = [calls EXCEPT ![c] = k],
         k.by = calls[c].by, k.asked = calls[c].asked, k.saw <= edits, calls[c].pc # "free",
             k.pc # "free",
         UNCHANGED <<edits, pushed, timer, offline, page, promised, refused>>,
         push' \in 0..MaxCalls, followUp' \in 0..MaxCalls,
         \A d \in Pushes!Calls \ {c} : (push' = d <=> push = d) /\ (followUp' = d <=> followUp = d),
         k.pc = "pushing" <=> push' = c, k.pc = "queued" <=> followUp' = c, k.pc = "queued"
             => k.by = "followUp",
         k.pc = "pushing" => \A d \in Pushes!Calls : calls[d].asked <= k.saw,
         k.pc = "waiting" => /\ k.by # "followUp" /\ k.on \in Pushes!Calls \ {c} /\ calls[k.on].by = "followUp"
                             /\ calls[k.on].pc = "queued",
         k.pc \in {"settings", "queued", "pushing"} \/ k.by # "followUp"
  PROVE  PushesTypes' /\ (\A d \in Pushes!Calls : Linked(d)') /\ PageState'
<1>1. calls'[c] = k /\ \A d \in Pushes!Calls \ {c} : calls'[d] = calls[d]
  BY PushesGiven DEF PushesTypes
<1>2. PushesTypes'
  BY PushesGiven DEF PushesTypes
<1>3. ASSUME NEW d \in Pushes!Calls PROVE Linked(d)'
  <2>1. Linked(d) /\ Linked(c) /\ calls[d].asked \in Nat /\ edits \in Nat
    BY PushesGiven
  <2>2. CASE d = c
    <3>1. k.pc = "waiting" => calls'[k.on] = calls[k.on]
      BY <1>1
    <3> QED BY <1>1, <2>1, <2>2, <3>1 DEF Linked
  <2>3. CASE d # c
    <3>1. calls'[d] = calls[d]
      BY <1>1, <2>3
    <3>2. calls[d].pc = "waiting" /\ calls[d].on = c =>
            k.by = "followUp" /\ k.pc \in {"settings", "queued", "pushing"}
                /\ (k.pc = "pushing" => calls[d].asked <= k.saw)
      BY <2>1 DEF Linked
    <3>3. calls[d].pc = "waiting" /\ calls[d].on # c => calls'[calls[d].on] = calls[calls[d].on]
      BY <1>1, <2>1 DEF Linked
    <3>4. (push' = d <=> push = d) /\ (followUp' = d <=> followUp = d)
      BY <2>3
    <3> QED BY <1>1, <2>1, <3>1, <3>2, <3>3, <3>4 DEF Linked
  <2> QED BY <2>2, <2>3
<1>4. PageState'
  <2>1. \A d \in Pushes!Calls : calls'[d].by = calls[d].by
    BY <1>1
  <2>2. page.session # "closed"
    BY PushesGiven DEF PageState
  <2> QED BY <2>1, <2>2, PushesGiven DEF PageState
<1> QED BY <1>2, <1>3, <1>4

LEMMA BeginStep == ASSUME Pushes!AutoPushAssumption, PushesInv, NEW c \in Pushes!Calls,
    Pushes!Begin(c) PROVE PushesInv'
<1>1. PICK k : k = [calls[c] EXCEPT !.pc = "pushing", !.saw = edits]
  OBVIOUS
<1>2. k \in CallRecord /\ k.by = calls[c].by /\ k.asked = calls[c].asked /\ k.saw = edits
      /\ k.pc = "pushing"
  <2>1. calls[c] \in CallRecord /\ edits \in Nat
    BY PushesGiven
  <2> QED BY <1>1, <2>1 DEF CallRecord
<1>3. calls' = [calls EXCEPT ![c] = k]
  <2>1. calls' = [calls EXCEPT ![c].pc = "pushing", ![c].saw = edits]
        /\ calls \in [Pushes!Calls -> CallRecord]
    BY PushesGiven DEF Pushes!Begin, PushesTypes
  <2> QED BY <1>1, <2>1
<1>4. /\ calls[c].pc = "settings" /\ push = 0 /\ push' = c
      /\ UNCHANGED <<edits, pushed, timer, offline, followUp, page, promised, refused>>
  BY DEF Pushes!Begin, Pushes!Online
<1>5. c \in 0..MaxCalls /\ followUp \in 0..MaxCalls /\ edits \in Nat
      /\ \A d \in Pushes!Calls : Linked(d) /\ d # 0
  BY PushesGiven DEF PushesTypes
<1>6. PushesTypes' /\ (\A d \in Pushes!Calls : Linked(d)') /\ PageState'
  <2>1. \A d \in Pushes!Calls : calls[d].asked <= edits
    BY <1>5 DEF Linked
  <2>2. followUp # c
    BY <1>4, <1>5 DEF Linked
  <2>3. \A d \in Pushes!Calls \ {c} : (push' = d <=> push = d) /\ (followUp' = d <=> followUp = d)
    BY <1>4, <1>5
  <2>4. (k.pc = "pushing" <=> push' = c) /\ (k.pc = "queued" <=> followUp' = c)
        /\ push' \in 0..MaxCalls /\ followUp' \in 0..MaxCalls
    BY <1>2, <1>4, <1>5, <2>2
  <2>5. k.saw <= edits /\ calls[c].pc # "free" /\ k.pc # "free"
        /\ (k.pc = "pushing" => \A d \in Pushes!Calls : calls[d].asked <= k.saw)
        /\ k.pc # "waiting" /\ k.pc \in {"settings", "queued", "pushing"}
    BY <1>2, <1>4, <1>5, <2>1
  <2> QED BY <1>2, <1>3, <1>4, <2>3, <2>4, <2>5, PushesMoves
<1>7. calls'[push'].saw = edits'
  BY <1>2, <1>3, <1>4, PushesGiven DEF PushesTypes
<1>8. Edited'
  BY <1>4, <1>5, <1>7 DEF Edited
<1> QED BY <1>6, <1>8 DEF PushesInv

LEMMA FollowStep == ASSUME Pushes!AutoPushAssumption, PushesInv, NEW c \in Pushes!Calls,
    Pushes!Follow(c) PROVE PushesInv'
<1>1. /\ calls[c].pc = "settings" /\ push # 0
      /\ UNCHANGED <<edits, pushed, timer, offline, push, page, promised, refused>>
  BY DEF Pushes!Follow, Pushes!Online
<1>2. /\ \A d \in Pushes!Calls : Linked(d) /\ d # 0 /\ calls[d] \in CallRecord /\ calls[d].saw \in Nat /\ calls[d].asked \in Nat
      /\ calls \in [Pushes!Calls -> CallRecord]
      /\ push \in 0..MaxCalls /\ followUp \in 0..MaxCalls /\ Pushes!Calls = 1..MaxCalls
            /\ MaxCalls \in Nat /\ edits \in Nat
  BY PushesGiven DEF PushesTypes
<1>3. push # c /\ followUp # c /\ push \in Pushes!Calls /\ calls[push].pc = "pushing"
  BY <1>1, <1>2 DEF Linked
<1>4. ASSUME PushesTypes', \A d \in Pushes!Calls : Linked(d)', PageState',
             followUp' \in Pushes!Calls /\ calls'[followUp'].pc = "queued"
      PROVE  PushesInv'
  <2>1. Ahead'
    BY <1>4 DEF Ahead
  <2> QED BY <1>4, <2>1 DEF PushesInv, Edited
<1>5. CASE followUp = 0 /\ calls[c].by = "followUp"
  <2>1. PICK k : k = [calls[c] EXCEPT !.pc = "queued"]
    OBVIOUS
  <2>2. k \in CallRecord /\ k.by = calls[c].by /\ k.asked = calls[c].asked
        /\ k.saw = calls[c].saw /\ k.pc = "queued"
    BY <1>2, <2>1 DEF CallRecord
  <2>3. calls' = [calls EXCEPT ![c] = k] /\ followUp' = c
    BY <1>2, <1>5, <2>1 DEF Pushes!Follow
  <2>4. k.saw <= edits
    BY <1>2, <2>2 DEF Linked
  <2>5. PushesTypes' /\ (\A d \in Pushes!Calls : Linked(d)') /\ PageState'
    <3>1. \A d \in Pushes!Calls \ {c} : (push' = d <=> push = d) /\ (followUp' = d <=> followUp = d)
      BY <1>1, <1>2, <1>5, <2>3
    <3>2. (k.pc = "pushing" <=> push' = c) /\ (k.pc = "queued" <=> followUp' = c)
          /\ push' \in 0..MaxCalls /\ followUp' \in 0..MaxCalls
      BY <1>1, <1>2, <1>3, <2>2, <2>3
    <3>3. calls[c].pc # "free" /\ k.pc # "free" /\ k.pc # "pushing" /\ k.pc # "waiting"
          /\ k.pc \in {"settings", "queued", "pushing"} /\ k.by = "followUp"
      BY <1>1, <1>5, <2>2
    <3> QED BY <1>1, <2>2, <2>3, <2>4, <3>1, <3>2, <3>3, PushesMoves
  <2> QED BY <1>2, <1>4, <2>2, <2>3, <2>5
<1>6. CASE followUp = 0 /\ calls[c].by # "followUp"
  <2>1. PICK s : s = Pushes!Lowest(Pushes!Unused)
    OBVIOUS
  <2>2. PICK k : k = [calls[c] EXCEPT !.pc = "waiting", !.on = s]
    OBVIOUS
  <2>3. PICK f : f = [Pushes!Free EXCEPT !.by = "followUp", !.pc = "queued", !.asked = edits]
    OBVIOUS
  <2>4. s \in Pushes!Calls /\ calls[s].pc = "free" /\ s # c /\ followUp' = s
    BY <1>1, <1>6, <2>1, UnusedSlot DEF Pushes!Follow
  <2>5. calls' = [calls EXCEPT ![c].pc = "waiting", ![c].on = s, ![s] = f]
    BY <1>6, <2>1, <2>3, <2>4 DEF Pushes!Follow
  <2>6. k \in CallRecord /\ k.by = calls[c].by /\ k.asked = calls[c].asked
        /\ k.saw = calls[c].saw /\ k.pc = "waiting" /\ k.on = s
    <3>1. s \in 0..MaxCalls /\ calls[c] \in CallRecord
      BY <1>2, <2>4
    <3> QED BY <2>2, <3>1 DEF CallRecord
  <2>7. f \in CallRecord /\ f.by = "followUp" /\ f.asked = edits /\ f.saw = 0 /\ f.pc = "queued"
    BY <1>2, <2>3, FreeTyped DEF CallRecord
  <2>8. calls'[c] = k /\ calls'[s] = f /\ \A d \in Pushes!Calls \ {c, s} : calls'[d] = calls[d]
    BY <1>2, <2>2, <2>4, <2>5
  <2>9. calls' \in [Pushes!Calls -> CallRecord]
    BY <1>2, <2>5, <2>6, <2>7, <2>8
  <2>10. PushesTypes'
    BY <1>1, <1>2, <2>4, <2>9, PushesGiven DEF PushesTypes
  <2>11. \A d \in Pushes!Calls : calls[d].by = "close" => d # s /\ calls'[d].by = "close"
    BY <1>2, <2>4, <2>6, <2>8 DEF Linked
  <2>12. ASSUME NEW d \in Pushes!Calls PROVE Linked(d)'
    <3>1. Linked(d) /\ Linked(c) /\ Linked(s)
      BY <1>2, <2>4
    <3>2. CASE d = c
      BY <1>1, <1>2, <1>3, <1>6, <2>4, <2>6, <2>7, <2>8, <3>1, <3>2 DEF Linked
    <3>3. CASE d = s
      BY <1>1, <1>2, <2>4, <2>7, <2>8, <3>1, <3>3 DEF Linked
    <3>4. CASE d # c /\ d # s
      <4>1. calls'[d] = calls[d] /\ (calls[d].pc = "queued" <=> followUp' = d)
        BY <1>2, <1>6, <2>4, <2>8, <3>1, <3>4 DEF Linked
      <4>2. calls[d].pc = "waiting" => calls[d].on \in Pushes!Calls \ {c, s}
        BY <1>6, <2>4, <3>1 DEF Linked
      <4>3. calls[d].pc = "waiting" => calls'[calls[d].on] = calls[calls[d].on]
        BY <2>8, <4>2
      <4> QED BY <1>1, <1>6, <3>1, <4>1, <4>2, <4>3 DEF Linked
    <3> QED BY <3>2, <3>3, <3>4
  <2>13. PageState'
    <3>1. page.session # "closed"
      BY <1>1, PushesGiven DEF PageState
    <3> QED BY <1>1, <2>11, <3>1, PushesGiven DEF PageState
  <2> QED BY <1>4, <2>4, <2>7, <2>8, <2>10, <2>12, <2>13
<1>7. CASE followUp # 0
  <2>1. PICK moved \in SUBSET Pushes!Calls : moved = {d \in Pushes!Calls : d = c \/ d \in Pushes!Waiting(c)} \ (IF calls[c].by = "followUp" THEN {c} ELSE {})
    OBVIOUS
  <2>2. PICK g : g = [d \in Pushes!Calls |-> [calls[d] EXCEPT !.pc = "waiting", !.on = followUp]]
    OBVIOUS
  <2>3. calls' = [d \in Pushes!Calls |-> IF d = c /\ calls[c].by = "followUp" THEN Pushes!Free ELSE IF d \in moved THEN g[d] ELSE calls[d]]
        /\ followUp' = followUp
    BY <1>7, <2>1, <2>2 DEF Pushes!Follow
  <2>4. \A d \in Pushes!Calls : /\ g[d] \in CallRecord /\ g[d].by = calls[d].by /\ g[d].asked = calls[d].asked /\ g[d].saw = calls[d].saw
                         /\ g[d].pc = "waiting" /\ g[d].on = followUp
    BY <1>2, <2>2 DEF CallRecord
  <2>5. \A d \in moved : (d = c \/ (calls[d].pc = "waiting" /\ calls[d].on = c))
        /\ calls[d].by # "followUp" /\ d # followUp /\ d # push
    <3> SUFFICES ASSUME NEW d \in moved
                 PROVE  (d = c \/ (calls[d].pc = "waiting" /\ calls[d].on = c))
                     /\ calls[d].by # "followUp" /\ d # followUp /\ d # push
      OBVIOUS
    <3>1. d = c \/ (calls[d].pc = "waiting" /\ calls[d].on = c)
      BY <2>1 DEF Pushes!Waiting
    <3>2. d = c => calls[c].by # "followUp"
      BY <2>1
    <3>3. d # push /\ d # followUp
      BY <1>1, <1>2, <3>1 DEF Linked
    <3> QED BY <1>2, <3>1, <3>2, <3>3 DEF Linked
  <2>6. \A d \in Pushes!Calls \ (moved \cup {c}) : ~(calls[d].pc = "waiting" /\ calls[d].on = c)
    BY <2>1 DEF Pushes!Waiting
  <2>7. c \in moved \/ calls[c].by = "followUp"
    BY <2>1
  <2> HIDE <2>1, <2>2
  <2>8. followUp \in Pushes!Calls /\ calls[followUp].pc = "queued"
        /\ calls[followUp].by = "followUp" /\ followUp \notin moved
    BY <1>2, <1>7, <2>5 DEF Linked
  <2>9. /\ calls[c].by = "followUp" => calls'[c] = Pushes!Free
        /\ \A d \in moved : calls'[d] = g[d]
        /\ \A d \in Pushes!Calls \ (moved \cup {c}) : calls'[d] = calls[d]
    BY <2>3, <2>5, <2>7
  <2>10. calls'[followUp] = calls[followUp]
    BY <1>3, <2>8, <2>9
  <2>11. calls' \in [Pushes!Calls -> CallRecord]
    BY <1>2, <2>3, <2>4, FreeTyped
  <2>12. PushesTypes'
    BY <1>1, <2>3, <2>11, PushesGiven DEF PushesTypes
  <2>13. \A d \in Pushes!Calls : calls[d].by = "close" => calls'[d].by = "close"
    <3> SUFFICES ASSUME NEW d \in Pushes!Calls, calls[d].by = "close" PROVE calls'[d].by = "close"
      OBVIOUS
    <3>1. CASE d \in moved
      BY <2>4, <2>9, <3>1
    <3>2. CASE d \notin moved
      <4>1. d # c
        BY <2>7, <3>2
      <4> QED BY <2>9, <3>2, <4>1
    <3> QED BY <3>1, <3>2
  <2>14. ASSUME NEW d \in Pushes!Calls PROVE Linked(d)'
    <3>1. Linked(d) /\ Linked(c)
      BY <1>2
    <3>2. CASE d \in moved
      <4>1. calls'[d] = g[d] /\ g[d].by # "followUp" /\ d # followUp /\ d # push
        BY <2>4, <2>5, <2>9, <3>2
      <4>2. calls[d].pc # "free" /\ calls[d].asked <= edits /\ calls[d].saw <= edits
            /\ (calls[d].by = "close" => page.session = "closing" /\ calls[d].asked = promised)
        BY <1>1, <2>5, <3>1, <3>2 DEF Linked
      <4> QED BY <1>1, <1>2, <2>3, <2>4, <2>8, <2>10, <4>1, <4>2 DEF Linked
    <3>3. CASE d = c /\ d \notin moved
      <4>1. calls'[d] = Pushes!Free
        BY <2>7, <2>9, <3>3
      <4> QED BY <1>1, <1>2, <1>3, <2>3, <3>3, <4>1, FreeTyped DEF Linked
    <3>4. CASE d # c /\ d \notin moved
      <4>1. calls'[d] = calls[d]
        BY <2>9, <3>4
      <4>2. calls[d].pc = "waiting" => calls[d].on \in Pushes!Calls \ (moved \cup {c})
        <5> SUFFICES ASSUME calls[d].pc = "waiting"
            PROVE calls[d].on \in Pushes!Calls \ (moved \cup {c})
          OBVIOUS
        <5>1. calls[d].on \in Pushes!Calls /\ calls[calls[d].on].by = "followUp"
          BY <3>1 DEF Linked
        <5>2. calls[d].on # c
          BY <2>6, <3>4
        <5> QED BY <2>5, <5>1, <5>2
      <4>3. calls[d].pc = "waiting" => calls'[calls[d].on] = calls[calls[d].on]
        BY <2>9, <4>2
      <4> QED BY <1>1, <2>3, <3>1, <4>1, <4>2, <4>3 DEF Linked
    <3> QED BY <3>2, <3>3, <3>4
  <2>15. PageState'
    <3>1. page.session # "closed"
      BY <1>1, PushesGiven DEF PageState
    <3> QED BY <1>1, <2>13, <3>1, PushesGiven DEF PageState
  <2> QED BY <1>4, <2>3, <2>8, <2>10, <2>12, <2>14, <2>15
<1> QED BY <1>5, <1>6, <1>7

-----------------------------------------------------------------------------
(* The page. *)

\* Steps that leave every call where it is.
LEMMA PageSteps ==
  ASSUME Pushes!AutoPushAssumption, PushesInv,
         UNCHANGED <<pushed, calls, push, followUp, promised, refused>>,
         edits' = edits
             \/ (edits' = edits + 1 /\ edits < MaxEdits /\ timer' = TRUE /\ page.session # "closed"),
         timer' = timer \/ (timer' = TRUE /\ page.session # "closed"),
         offline' \in BOOLEAN, page' \in PushesPageRecord,
         page'.session = page.session, page'.needsPush = page.needsPush,
             page'.unsynced = page.unsynced,
         page'.terminated \/ page'.task # "idle", page.terminated => page'.terminated
  PROVE  PushesInv'
<1>1. edits' \in 0..MaxEdits /\ edits <= edits' /\ edits' \in Nat /\ timer' \in BOOLEAN
  <2>1. edits \in 0..MaxEdits /\ timer \in BOOLEAN /\ MaxEdits \in Nat
    BY PushesGiven DEF PushesTypes, Pushes!AutoPushAssumption
  <2>2. timer' \in BOOLEAN
    BY <2>1
  <2>3. CASE edits' = edits
    BY <2>1, <2>2, <2>3
  <2>4. CASE edits' = edits + 1 /\ edits < MaxEdits
    BY <2>1, <2>2, <2>4
  <2> QED BY <2>3, <2>4
<1>2. PushesTypes'
  BY <1>1, PushesGiven DEF PushesTypes
<1>3. \A c \in Pushes!Calls : Linked(c)'
  BY <1>1, PushesGiven DEF Linked
<1>4. PageState'
  BY PushesGiven DEF PageState
<1>5. Edited'
  <2>1. CASE edits' = edits /\ timer' = timer
    BY <2>1, PushesGiven DEF Edited, Ahead
  <2>2. CASE timer' = TRUE
    BY <2>2 DEF Edited, Ahead
  <2> QED BY <2>1, <2>2
<1> QED BY <1>2, <1>3, <1>4, <1>5 DEF PushesInv

LEMMA UserSteps == ASSUME Pushes!AutoPushAssumption, PushesInv, Pushes!Edit \/ Pushes!Toggle
    \/ Pushes!Kill PROVE PushesInv'
<1>1. CASE Pushes!Edit
  <2>1. page' = Pushes!Reduce(page, "edit") /\ edits' = edits + 1 /\ edits < MaxEdits
        /\ timer' = TRUE /\ page.session # "closed"
        /\ UNCHANGED <<pushed, offline, calls, push, followUp, promised, refused>>
    BY <1>1 DEF Pushes!Edit
  <2>2. page' \in PushesPageRecord /\ page'.session = page.session /\ page'.task = page.task
        /\ page'.terminated = page.terminated
        /\ page'.needsPush = page.needsPush /\ page'.unsynced = page.unsynced
    BY <2>1, ReduceKeeps, PushesGiven
  <2>3. offline' \in BOOLEAN /\ (page'.terminated \/ page'.task # "idle")
    BY <2>1, <2>2, PushesGiven DEF PushesTypes, PageState
  <2> QED BY <2>1, <2>2, <2>3, PageSteps
<1>2. CASE Pushes!Toggle
  BY <1>2, PageSteps, PushesGiven DEF Pushes!Toggle, PushesTypes, PageState
<1>3. CASE Pushes!Kill
  <2>1. page' = [page EXCEPT !.terminated = TRUE, !.task = "idle"] /\ page \in PushesPageRecord
        /\ UNCHANGED <<edits, pushed, timer, offline, calls, push, followUp, promised, refused>>
    BY <1>3, PushesGiven DEF Pushes!Kill
  <2>2. page' \in PushesPageRecord /\ page'.session = page.session /\ page'.terminated
        /\ page'.needsPush = page.needsPush /\ page'.unsynced = page.unsynced
    BY <2>1 DEF PushesPageRecord
  <2> QED BY <2>1, <2>2, PageSteps, PushesGiven DEF PushesTypes
<1> QED BY <1>1, <1>2, <1>3

\* The task pushes, at its time or as soon as the page is online again.
LEMMA RunStep ==
  ASSUME Pushes!AutoPushAssumption, PushesInv, NEW p \in PushesPageRecord, Pushes!Ready(p),
         Pushes!Run(p), p.session = page.session,
         p.terminated = page.terminated,
         UNCHANGED <<edits, pushed, timer, offline, push, followUp, promised, refused>>
  PROVE  PushesInv'
<1>1. PICK q : q = Pushes!Reduce(p, "push-start")
  OBVIOUS
<1>2. q \in PushesPageRecord /\ q.session = p.session /\ q.terminated = p.terminated
  BY <1>1, ReduceKeeps
<1>3. page' = [q EXCEPT !.task = "running"] /\ Pushes!Call("task") /\ ~p.terminated
  BY <1>1 DEF Pushes!Run, Pushes!Ready
<1>4. page' \in PushesPageRecord /\ page'.session = p.session /\ page'.task = "running"
      /\ page'.terminated = p.terminated
  BY <1>2, <1>3 DEF PushesPageRecord
<1>5. page.session = "open" /\ timer' \in BOOLEAN /\ page'.session = page.session
      /\ page'.task # "idle"
  BY <1>3, <1>4, PushesGiven DEF PageState, PushesTypes
<1>6. promised' = promised /\ "task" \in {"timer", "task", "close"} /\ "task" # "close"
  OBVIOUS
<1> QED BY <1>3, <1>4, <1>5, <1>6, CallStep

LEMMA TaskSteps == ASSUME Pushes!AutoPushAssumption, PushesInv, Pushes!TaskRuns \/ Pushes!Probe
  PROVE PushesInv'
<1>1. CASE Pushes!TaskRuns
  BY <1>1, RunStep, PushesGiven DEF Pushes!TaskRuns
<1>2. CASE Pushes!Probe
  <2>1. PICK p : p = [page EXCEPT !.forced = offline]
    OBVIOUS
  <2>2. p \in PushesPageRecord /\ p.session = page.session /\ p.terminated = page.terminated
        /\ p.task = page.task
        /\ p.needsPush = page.needsPush /\ p.unsynced = page.unsynced
    BY <2>1, PushesGiven DEF PushesPageRecord, PushesTypes
  <2>3. (Pushes!Ready(p) /\ Pushes!Run(p)) \/ (page' = p /\ UNCHANGED calls)
    BY <1>2, <2>1 DEF Pushes!Probe
  <2>4. UNCHANGED <<edits, pushed, timer, offline, push, followUp, promised, refused>>
    BY <1>2 DEF Pushes!Probe
  <2>5. CASE Pushes!Ready(p) /\ Pushes!Run(p)
    BY <2>2, <2>4, <2>5, RunStep
  <2>6. CASE page' = p /\ UNCHANGED calls
    BY <2>2, <2>4, <2>6, PageSteps, PushesGiven DEF PushesTypes, PageState
  <2> QED BY <2>3, <2>5, <2>6
<1> QED BY <1>1, <1>2

LEMMA DebouncedStep == ASSUME Pushes!AutoPushAssumption, PushesInv, Pushes!Debounced
  PROVE PushesInv'
<1>1. timer /\ timer' = FALSE /\ Pushes!Call("timer")
      /\ UNCHANGED <<edits, pushed, offline, push, followUp, page, promised, refused>>
  BY DEF Pushes!Debounced
<1>2. page.session # "closed" /\ (page.terminated \/ page.task # "idle")
      /\ (page.session # "open" => page.terminated)
  BY <1>1, PushesGiven DEF PageState
<1>3. timer' \in BOOLEAN /\ page' \in PushesPageRecord /\ "timer" \in {"timer", "task", "close"}
      /\ "timer" # "close"
  BY <1>1, PushesGiven
<1> QED BY <1>1, <1>2, <1>3, CallStep

LEMMA CloseStep == ASSUME Pushes!AutoPushAssumption, PushesInv, Pushes!Close PROVE PushesInv'
<1>1. PICK p : p = [page EXCEPT !.terminated = TRUE, !.task = "idle"]
  OBVIOUS
<1>2. p \in PushesPageRecord /\ p.terminated /\ page.session = "open" /\ promised = 0
      /\ UNCHANGED <<edits, pushed, offline, refused>>
  BY <1>1, PushesGiven DEF PushesPageRecord, Pushes!Close, PageState
<1>3. CASE page.forced
  <2>1. page' = [p EXCEPT !.session = "closed"] /\ timer' = FALSE
        /\ calls' = [c \in Pushes!Calls |-> Pushes!Free] /\ push' = 0 /\ followUp' = 0
        /\ UNCHANGED promised
    BY <1>1, <1>3 DEF Pushes!Close
  <2>2. page' \in PushesPageRecord /\ page'.session = "closed" /\ page'.terminated
    BY <1>2, <2>1 DEF PushesPageRecord
  <2>3. calls' \in [Pushes!Calls -> CallRecord] /\ \A c \in Pushes!Calls : calls'[c] = Pushes!Free
    BY <2>1, FreeTyped
  <2>4. PushesTypes'
    <3>1. push' = 0 /\ followUp' = 0 /\ timer' = FALSE
      BY <2>1
    <3>2. timer' \in BOOLEAN
      BY <3>1
    <3>4. MaxCalls \in Nat
      BY DEF Pushes!AutoPushAssumption
    <3>5. push' \in 0..MaxCalls
      BY <3>1, <3>4
    <3>6. followUp' \in 0..MaxCalls
      BY <3>1, <3>4
    <3>3. edits' = edits /\ pushed' = pushed /\ offline' = offline /\ refused' = refused
          /\ promised' = promised
      BY <1>2, <2>1
    <3> QED BY <2>2, <2>3, <3>2, <3>3, <3>5, <3>6, PushesGiven DEF PushesTypes
  <2>5. \A c \in Pushes!Calls : Linked(c)'
    BY <1>2, <2>1, <2>3, FreeTyped, PushesGiven DEF Linked
  <2>6. PageState'
    BY <1>2, <2>1, <2>2, <2>3, FreeTyped, PushesGiven DEF PageState
  <2> QED BY <2>2, <2>4, <2>5, <2>6 DEF PushesInv, Edited
<1>4. CASE ~page.forced
  <2>1. page' = [p EXCEPT !.session = "closing"] /\ Pushes!Call("close") /\ promised' = edits
        /\ UNCHANGED <<timer, push, followUp>>
    BY <1>1, <1>4 DEF Pushes!Close
  <2>2. page' \in PushesPageRecord /\ page'.session = "closing" /\ page'.terminated
    BY <1>2, <2>1 DEF PushesPageRecord
  <2>3. timer' \in BOOLEAN /\ "close" \in {"timer", "task", "close"}
    BY <2>1, PushesGiven DEF PushesTypes
  <2> QED BY <1>2, <2>1, <2>2, <2>3, CallStep
<1> QED BY <1>3, <1>4

LEMMA PushesStays == ASSUME Pushes!AutoPushAssumption, PushesInv, [Pushes!Next]_(Pushes!vars)
  PROVE PushesInv'
<1>1. CASE UNCHANGED Pushes!vars
  BY <1>1 DEF Pushes!vars, PushesInv, PushesTypes, Linked, PageState, Edited, Ahead
<1>2. CASE Pushes!Next
  BY <1>2, OfflineStep, BeginStep, FollowStep, FinishStep, UserSteps, TaskSteps, DebouncedStep,
     CloseStep DEF Pushes!Next, Results
<1> QED BY <1>1, <1>2

\* What the manager does not have is ahead, or the page has said so.
THEOREM PushesHold == ASSUME Pushes!AutoPushAssumption
  PROVE Pushes!Spec => [](Pushes!TypeOK /\ Pushes!EditsGetPushed)
<1>1. Pushes!Init => PushesInv
  BY PushesStart
<1>2. PushesInv /\ [Pushes!Next]_(Pushes!vars) => PushesInv'
  BY PushesStays
<1>3. PushesInv => Pushes!TypeOK /\ Pushes!EditsGetPushed
  BY PushesShown
<1> QED BY <1>1, <1>2, <1>3, PTL DEF Pushes!Spec

-----------------------------------------------------------------------------
(* Names in /proc (src/src/proc/) *)

\* Each name is nobody's or of a namespace that lives and has its off() on record;
\* the process table is that of the namespace that unregisters it.
Named(s) == /\ modules[s] = 0 \/ modules[s] \in live
            /\ s = "processes" => modules[s] = shownTable
            /\ s # "processes" /\ modules[s] # 0 => <<modules[s], s>> \in handlers

\* The latest namespace has the names that it registered.
ShowsInv ==
  /\ spaces \in 0..MaxSpaces /\ live \subseteq 1..spaces /\ inventory \subseteq 1..spaces
  /\ modules \in [Shows!Slots -> 0..spaces] /\ shownTable = by /\ shownTable \in 0..spaces
  /\ table = [n \in Shows!Spaces |-> n]
  /\ \A s \in Shows!Slots : Named(s)
  /\ ~broken
  /\ spaces \in live => /\ modules["identity"] = spaces /\ modules["processes"] = spaces
                        /\ spaces \in inventory => modules["inventory"] = spaces

\* The invariant implies the property.
LEMMA ShowsShown == ASSUME Shows!NamespacesAssumption, ShowsInv
  PROVE Shows!TypeOK /\ Shows!LatestShown
<1>1. Shows!TypeOK
  BY DEF ShowsInv, Shows!TypeOK
<1>2. Shows!LatestShown
  BY DEF ShowsInv, Shows!LatestShown, Named
<1> QED BY <1>1, <1>2

LEMMA ShowsStart == Shows!NamespacesAssumption /\ Shows!Init => ShowsInv
BY DEF Shows!NamespacesAssumption, Shows!Init, ShowsInv, Named, Shows!Slots

\* The names of a namespace that opens are all free or can be taken out.
LEMMA OpenStep ==
  ASSUME Shows!NamespacesAssumption, ShowsInv, NEW own \in {{}, {spaces + 1}},
         NEW t \in Shows!Spaces, Shows!Open(own, t)
  PROVE  ShowsInv'
<1> DEFINE names == {"identity", "processes"} \cup (IF own # {} THEN {"inventory"} ELSE {})
<1>1. \A s \in Shows!Slots : Shows!Cleared(s)
  BY DEF ShowsInv, Named, Shows!Cleared
<1>2. names \subseteq Shows!Slots /\ {"identity", "processes"} \subseteq names
      /\ ("inventory" \in names <=> own # {})
  BY DEF Shows!Slots
<1>3. Shows!Registered(names) = names
  BY <1>1, <1>2 DEF Shows!Registered
<1> HIDE DEF names
<1>4. /\ spaces' = spaces + 1 /\ t = spaces' /\ inventory' = inventory \cup own
      /\ table' = [table EXCEPT ![spaces'] = t]
      /\ modules' = [s \in Shows!Slots |-> IF s \in names THEN spaces' ELSE modules[s]]
      /\ handlers' = handlers \cup ({spaces'} \X (names \ {"processes"}))
      /\ shownTable' = t /\ by' = spaces' /\ live' = live \cup {spaces'} /\ ~broken'
  <2>1. ~broken /\ "processes" \in names
    BY <1>2 DEF ShowsInv
  <2>2. spaces' = spaces + 1 /\ t = spaces' /\ inventory' = inventory \cup own
        /\ table' = [table EXCEPT ![spaces'] = t]
    BY DEF Shows!Open
  <2>3. LET done == Shows!Registered(names) IN
           /\ modules' = [s \in Shows!Slots |-> IF s \in done THEN spaces' ELSE modules[s]]
           /\ handlers' = handlers \cup ({spaces'} \X (done \ {"processes"}))
           /\ IF "processes" \in done THEN shownTable' = t
                 /\ by' = spaces' ELSE UNCHANGED <<shownTable, by>>
           /\ live' = IF done = names THEN live \cup {spaces'} ELSE live
           /\ broken' = (broken \/ done # names)
    BY Zenon DEF Shows!Open, names
  <2> QED BY <1>3, <2>1, <2>2, <2>3
<1>5. /\ spaces \in Nat /\ spaces' \in 1..MaxSpaces /\ live \subseteq 1..spaces /\ inventory \subseteq 1..spaces
      /\ modules \in [Shows!Slots -> 0..spaces] /\ table = [n \in Shows!Spaces |-> n]
            /\ spaces < spaces'
      /\ own \subseteq {spaces'}
  BY <1>4 DEF ShowsInv, Shows!Open, Shows!NamespacesAssumption
<1>6. table' = [n \in Shows!Spaces |-> n]
  BY <1>4, <1>5 DEF Shows!Spaces
<1>7. modules' \in [Shows!Slots -> 0..spaces']
  BY <1>4, <1>5
<1>8. live' \subseteq 1..spaces' /\ inventory' \subseteq 1..spaces'
  BY <1>4, <1>5
<1>9. ASSUME NEW s \in Shows!Slots PROVE Named(s)'
  <2>1. Named(s) /\ modules'[s] = IF s \in names THEN spaces' ELSE modules[s]
    BY <1>4 DEF ShowsInv
  <2>2. s \in names /\ s # "processes" => <<spaces', s>> \in handlers'
    BY <1>4
  <2>3. spaces' \in live' /\ spaces' # 0
    BY <1>4, <1>5
  <2> QED BY <1>2, <1>4, <2>1, <2>2, <2>3 DEF Named
<1>10. modules'["identity"] = spaces' /\ modules'["processes"] = spaces'
       /\ (spaces' \in inventory' => modules'["inventory"] = spaces')
  <2>1. spaces' \in inventory' => own # {}
    BY <1>4, <1>5
  <2> QED BY <1>2, <1>4, <2>1 DEF Shows!Slots
<1> QED BY <1>4, <1>5, <1>6, <1>7, <1>8, <1>9, <1>10 DEF ShowsInv

\* A namespace that is disposed leaves the names of a later one alone.
LEMMA DisposeStep == ASSUME Shows!NamespacesAssumption, ShowsInv, NEW n \in Shows!Spaces,
    Shows!Dispose(n) PROVE ShowsInv'
<1>1. /\ n \in live /\ live' = live \ {n} /\ UNCHANGED <<spaces, inventory, table, broken>> /\ table[n] = n /\ n # 0
      /\ live \subseteq 1..spaces /\ spaces \in 0..MaxSpaces
      /\ modules \in [Shows!Slots -> 0..spaces] /\ handlers' = {h \in handlers : h[1] # n}
      /\ shownTable = by /\ shownTable \in 0..spaces
  BY DEF Shows!Dispose, ShowsInv, Shows!Spaces
<1>2. \A s \in Shows!Slots : Named(s)
  BY DEF ShowsInv
<1>3. shownTable' = (IF shownTable = n THEN 0 ELSE shownTable) /\ by' = shownTable'
  BY <1>1 DEF Shows!Dispose
<1>4. modules' = [s \in Shows!Slots |-> IF modules[s] = n THEN 0 ELSE modules[s]]
  BY <1>1, <1>2 DEF Shows!Dispose, Shows!Left, Named
<1>5. modules' \in [Shows!Slots -> 0..spaces]
  BY <1>1, <1>4
<1>6. ASSUME NEW s \in Shows!Slots PROVE Named(s)'
  <2>1. Named(s) /\ modules'[s] = IF modules[s] = n THEN 0 ELSE modules[s]
    BY <1>2, <1>4
  <2>2. modules[s] # n => (<<modules[s], s>> \in handlers <=> <<modules[s], s>> \in handlers')
    BY <1>1
  <2> QED BY <1>1, <1>3, <2>1, <2>2 DEF Named
<1>7. spaces' \in live' =>
        /\ modules'["identity"] = spaces' /\ modules'["processes"] = spaces'
        /\ spaces' \in inventory' => modules'["inventory"] = spaces'
  BY <1>1, <1>4 DEF ShowsInv, Shows!Slots
<1> QED BY <1>1, <1>3, <1>5, <1>6, <1>7 DEF ShowsInv

LEMMA ShowsStays == ASSUME Shows!NamespacesAssumption, ShowsInv, [Shows!Next]_(Shows!vars)
  PROVE ShowsInv'
<1>1. CASE UNCHANGED Shows!vars
  BY <1>1 DEF Shows!vars, ShowsInv, Named
<1>2. CASE Shows!Next
  BY <1>2, OpenStep, DisposeStep DEF Shows!Next
<1> QED BY <1>1, <1>2

\* The names are those of the namespace that was opened last.
THEOREM NamespacesHold == ASSUME Shows!NamespacesAssumption
  PROVE Shows!Spec => [](Shows!TypeOK /\ Shows!LatestShown)
<1>1. Shows!Init => ShowsInv
  BY ShowsStart
<1>2. ShowsInv /\ [Shows!Next]_(Shows!vars) => ShowsInv'
  BY ShowsStays
<1>3. ShowsInv => Shows!TypeOK /\ Shows!LatestShown
  BY ShowsShown
<1> QED BY <1>1, <1>2, <1>3, PTL DEF Shows!Spec

-----------------------------------------------------------------------------
(* What is mounted at / (src/src/realize/zenfs.ts) *)

Versions == 0..(3 + MaxWrites)

BacksPageRecord == [step : {"closed", "move", "adopt", "copy", "adopted", "open", "aside", "migrate"},
               backing : Backs!Backings \cup {"none"}, source : Backs!Stores \cup {"none"},
                   target : Backs!Backings \cup {"none"},
               list : SUBSET Files, todo : SUBSET Files]

BacksTypes ==
  /\ store \in [Backs!Stores -> [Files -> Versions]] /\ shown \in [Files -> Versions]
  /\ marked \subseteq Backs!Backings /\ pref \in {"none"} \cup Backs!Backings
  /\ boot \in BacksPageRecord /\ writes \in 0..MaxWrites /\ whole \in BOOLEAN /\ raced \in BOOLEAN

Empty(s) == \A f \in Files : store[s][f] = 0
Same(s) == \A f \in Files : store[s][f] = shown[f]

\* The store that the next boot shows, and the one that an adoption copies.
NextShown(b) == IF ~Backs!Untouched(b) THEN b ELSE IF b = "opfs"
    /\ ~Backs!Untouched("indexeddb") THEN "indexeddb" ELSE "legacy"
Origin == IF boot.source = "indexeddb"
    /\ Backs!Untouched("indexeddb") THEN "legacy" ELSE boot.source

\* How far a boot or a migration is.
BacksPlaces ==
  /\ boot.step # "closed" => boot.backing = Backs!Chosen
  /\ boot.step \in {"move", "aside"} =>
        \A f \in Files : f \in boot.todo <=> store["root"][f] # 0
            /\ (boot.step = "move" <=> Backs!Chosen = "opfs")
  /\ boot.step \notin {"closed", "move"} /\ Backs!Chosen = "opfs" => Empty("root")
  /\ boot.step \in {"adopt", "copy"} =>
        /\ boot.source \in {"indexeddb", "legacy"}
        /\ boot.source = "indexeddb" => boot.backing = "opfs"
        /\ boot.source = "legacy" /\ boot.backing = "opfs" => Backs!Untouched("indexeddb")
  /\ boot.step = "adopt" => Empty(boot.backing)
  /\ boot.step = "copy" =>
        /\ boot.target = boot.backing
        /\ \A f \in Files : store[boot.backing][f] = IF f \in boot.todo THEN 0 ELSE store[boot.source][f]
  /\ boot.step \in {"open", "aside", "migrate"} => boot.backing \in marked
  /\ boot.step \in {"aside", "migrate"} => boot.source = boot.backing
        /\ boot.target = Backs!Other(boot.backing)
  /\ boot.step = "migrate" =>
        /\ Empty("root")
        /\ ~raced => \A f \in Files :
              /\ f \in boot.list <=> store[boot.source][f] # 0
              /\ f \in boot.list \ boot.todo => store[boot.target][f] = store[boot.source][f]

\* The old root of OPFS is only there to be moved as it is.
OldRoot == Backs!Chosen = "opfs" => \A f \in Files : store["root"][f] \in {0, shown[f]}

\* What the user saw last is in the chosen backing, or where no step overwrites it.
BacksFound ==
  \A f \in Files : shown[f] # 0 =>
     \/ store[Backs!Chosen][f] = shown[f]
     \/ store["legacy"][f] = shown[f]
     \/ Backs!Chosen = "opfs" /\ store["root"][f] = shown[f]
     \/ Backs!Chosen = "opfs" /\ store["opfs"][f] = 0 /\ store["indexeddb"][f] = shown[f]

\* What the page shows or will show.
BacksShows ==
  /\ boot.step \in {"closed", "move"} =>
        IF Backs!Chosen = "opfs" /\ ~Empty("root")
        THEN \A f \in Files : /\ store["opfs"][f] \in {0, shown[f]}
                              /\ shown[f] \in {0, store["opfs"][f], store["root"][f]}
        ELSE Same(NextShown(Backs!Chosen))
  /\ boot.step \in {"adopt", "copy"} => Same(Origin)
  /\ boot.step = "adopted" => Same(boot.backing) /\ Same(NextShown(boot.backing))
  /\ boot.step \in {"open", "aside", "migrate"} => Same(boot.backing)

\* An edit during a migration may be lost, a cut off adoption be shown half.
BacksInv == BacksTypes /\ BacksPlaces /\ OldRoot /\ (~raced => BacksFound)
    /\ (~raced /\ whole => BacksShows)

\* The invariant implies the property.
LEMMA BacksShown == ASSUME Backs!BackendsAssumption, BacksInv PROVE Backs!TypeOK /\ Backs!FilesKept
<1>1. Backs!TypeOK
  BY DEF BacksInv, BacksTypes, Backs!TypeOK, Versions, BacksPageRecord
<1>2. ~raced => \A f \in Files : shown[f] # 0 => \E s \in Backs!Stores : store[s][f] = shown[f]
  BY DEF BacksInv, BacksFound, Backs!Stores, Backs!Backings, Backs!Chosen, BacksTypes
<1>3. ~raced /\ whole /\ boot.step = "open" => store[boot.backing] = shown
  <2> SUFFICES ASSUME ~raced, whole, boot.step = "open" PROVE store[boot.backing] = shown
    OBVIOUS
  <2>1. Same(boot.backing) /\ boot.backing \in Backs!Stores
    BY DEF BacksInv, BacksShows, BacksPlaces, BacksTypes, Backs!Chosen, Backs!Stores, Backs!Backings
  <2>2. store[boot.backing] \in [Files -> Versions] /\ shown \in [Files -> Versions]
    BY <2>1 DEF BacksInv, BacksTypes
  <2> QED BY <2>1, <2>2 DEF Same
<1> QED BY <1>1, <1>2, <1>3 DEF Backs!FilesKept

LEMMA UntouchedIs == \A b : Backs!Untouched(b) <=> Empty(b) /\ b \notin marked
BY DEF Backs!Untouched, Backs!Held, Empty

LEMMA ClosedIs ==
  /\ Backs!Closed \in BacksPageRecord /\ Backs!Closed.step = "closed"
        /\ Backs!Closed.backing = "none" /\ Backs!Closed.source = "none"
  /\ Backs!Closed.target = "none" /\ Backs!Closed.list = {} /\ Backs!Closed.todo = {}
BY DEF Backs!Closed, BacksPageRecord

LEMMA BacksGiven ==
  ASSUME Backs!BackendsAssumption, BacksInv
  PROVE  /\ BacksTypes /\ BacksPlaces /\ OldRoot /\ (~raced => BacksFound) /\ (~raced /\ whole => BacksShows)
         /\ Backs!Chosen \in Backs!Backings /\ Backs!Backings = {"opfs", "indexeddb"}
               /\ Backs!Stores = {"opfs", "indexeddb", "root", "legacy"}
         /\ boot \in BacksPageRecord /\ (boot.step # "closed" => boot.backing = Backs!Chosen)
         /\ boot.step \in {"closed", "move", "adopt", "copy", "adopted", "open", "aside", "migrate"}
BY DEF BacksInv, BacksTypes, Backs!Chosen, Backs!Backings, Backs!Stores, BacksPlaces,
   BacksPageRecord

LEMMA BacksStart == Backs!BackendsAssumption /\ Backs!Init => BacksInv
<1> SUFFICES ASSUME Backs!BackendsAssumption, Backs!Init PROVE BacksInv
  OBVIOUS
<1>1. PICK held \in [Backs!Stores -> SUBSET Files] :
         /\ \A b \in Backs!Backings : held[b] # {} => b \in marked
         /\ held["root"] # {} => "opfs" \notin marked
         /\ store = [s \in Backs!Stores |-> [f \in Files |-> IF f \in held[s] THEN Backs!Version[s] ELSE 0]]
  BY DEF Backs!Init
<1>2. Backs!Stores = {"opfs", "indexeddb", "root", "legacy"}
      /\ Backs!Backings = {"opfs", "indexeddb"}
  BY DEF Backs!Stores, Backs!Backings
<1>3. \A s \in Backs!Stores : Backs!Version[s] \in 1..3
  BY <1>2 DEF Backs!Version
<1>4. store \in [Backs!Stores -> [Files -> Versions]]
      /\ \A s \in Backs!Stores : \A f \in Files : store[s][f] # 0 <=> f \in held[s]
  BY <1>1, <1>3 DEF Versions, Backs!BackendsAssumption
<1>5. boot = Backs!Closed /\ boot.step = "closed" /\ Backs!Chosen \in Backs!Backings
      /\ pref \in {"none"} \cup Backs!Backings /\ marked \subseteq Backs!Backings
      /\ writes = 0 /\ whole /\ ~raced /\ whole \in BOOLEAN /\ raced \in BOOLEAN
  BY <1>2, ClosedIs DEF Backs!Init, Backs!Chosen
<1>6. \A s \in Backs!Stores : Backs!Held(s) = held[s]
  BY <1>1, <1>4 DEF Backs!Held
<1>7. PICK e \in Backs!Stores : e = IF Backs!Chosen = "opfs"
      /\ Backs!Held("root") # {} THEN "root" ELSE NextShown(Backs!Chosen)
  BY <1>2, <1>5 DEF NextShown
<1>8. shown = store[e]
  BY <1>2, <1>5, <1>7 DEF Backs!Init, Backs!Expected, NextShown
<1>9. BacksTypes
  BY <1>4, <1>5, <1>8, ClosedIs DEF BacksTypes, Backs!BackendsAssumption
<1>10. BacksPlaces
  BY <1>5 DEF BacksPlaces
<1>11. Backs!Chosen = "opfs" /\ Backs!Held("root") # {} => Empty("opfs") /\ e = "root"
  BY <1>1, <1>2, <1>4, <1>6, <1>7 DEF Empty
<1>12. Empty("root") <=> Backs!Held("root") = {}
  BY <1>2, <1>4, <1>6 DEF Empty
<1>13. OldRoot
  BY <1>8, <1>11, <1>12 DEF OldRoot, Empty
<1>14. BacksFound
  <2>1. CASE Backs!Chosen = "opfs" /\ Backs!Held("root") # {}
    BY <1>8, <1>11, <2>1 DEF BacksFound
  <2>2. CASE ~(Backs!Chosen = "opfs" /\ Backs!Held("root") # {})
    <3>1. e = NextShown(Backs!Chosen)
      BY <1>7, <2>2
    <3>2. e = "indexeddb" /\ Backs!Chosen = "opfs" => Empty("opfs")
      BY <3>1, UntouchedIs DEF NextShown
    <3>3. e \in {Backs!Chosen, "legacy"} \/ (e = "indexeddb" /\ Backs!Chosen = "opfs")
      BY <3>1 DEF NextShown
    <3> QED BY <1>8, <3>2, <3>3 DEF BacksFound, Empty
  <2> QED BY <2>1, <2>2
<1>15. BacksShows
  <2>1. CASE Backs!Chosen = "opfs" /\ Backs!Held("root") # {}
    BY <1>5, <1>8, <1>11, <1>12, <2>1 DEF BacksShows, Empty
  <2>2. CASE ~(Backs!Chosen = "opfs" /\ Backs!Held("root") # {})
    BY <1>5, <1>7, <1>8, <1>12, <2>2 DEF BacksShows, Same
  <2> QED BY <2>1, <2>2
<1> QED BY <1>9, <1>10, <1>13, <1>14, <1>15 DEF BacksInv

-----------------------------------------------------------------------------
(* Boot *)

LEMMA BootStep == ASSUME Backs!BackendsAssumption, BacksInv, Backs!Boot PROVE BacksInv'
<1>1. PICK b : b = Backs!Chosen
  OBVIOUS
<1>2. PICK t \in SUBSET Files : t = IF b = "opfs" THEN Backs!Held("root") ELSE {}
  BY DEF Backs!Held
<1>3. boot.step = "closed"
      /\ boot' = [Backs!Closed EXCEPT !.step = "move", !.backing = b, !.todo = t]
      /\ UNCHANGED <<store, marked, pref, writes, migrations, shown, whole, raced>>
            /\ b \in Backs!Backings
  BY <1>1, <1>2, BacksGiven DEF Backs!Boot, Backs!Data, Backs!Bounds, Backs!History
<1>4. boot' \in BacksPageRecord /\ boot'.step = "move" /\ boot'.backing = b /\ boot'.todo = t
  BY <1>3, ClosedIs DEF BacksPageRecord
<1>5. BacksTypes'
  BY <1>3, <1>4, BacksGiven DEF BacksTypes
<1>6. b = Backs!Chosen' /\ b = Backs!Chosen
  BY <1>1, <1>3 DEF Backs!Chosen
<1>7. BacksPlaces'
  BY <1>2, <1>3, <1>4, <1>6 DEF BacksPlaces, Backs!Held
<1>8. OldRoot' /\ (~raced' => BacksFound')
  BY <1>3, <1>6, BacksGiven DEF OldRoot, BacksFound
<1>9. \A x : Backs!Untouched(x)' <=> Backs!Untouched(x)
  BY <1>3 DEF Backs!Untouched, Backs!Held
<1>10. ~raced' /\ whole' => BacksShows'
  BY <1>3, <1>4, <1>6, <1>9, BacksGiven DEF BacksShows, Same, Empty, NextShown
<1> QED BY <1>5, <1>7, <1>8, <1>10 DEF BacksInv

\* A file is written in one store.
LEMMA PutFile ==
  ASSUME BacksTypes, NEW t \in Backs!Stores, NEW f \in Files, NEW v \in Versions,
         store' = [store EXCEPT ![t][f] = v]
  PROVE  /\ store' \in [Backs!Stores -> [Files -> Versions]]
         /\ \A s \in Backs!Stores : \A g \in Files : store'[s][g] = IF s = t
               /\ g = f THEN v ELSE store[s][g]
BY DEF BacksTypes

\* A file of the old root of OPFS is moved to its place.
LEMMA MoveStep == ASSUME Backs!BackendsAssumption, BacksInv, NEW f \in Files, Backs!Move(f)
  PROVE BacksInv'
<1>1. boot.step \in {"move", "aside"} /\ f \in boot.todo /\ store["opfs"][f] # store["root"][f]
      /\ store' = [store EXCEPT !["opfs"][f] = store["root"][f]]
      /\ UNCHANGED <<marked, pref, boot, writes, migrations, shown, whole, raced>>
  BY DEF Backs!Move, Backs!Moving, Backs!Copies, Backs!Bounds, Backs!History
<1>2. store["root"][f] \in Versions /\ "opfs" \in Backs!Stores /\ "root" \in Backs!Stores
  BY BacksGiven DEF BacksTypes
<1>3. store' \in [Backs!Stores -> [Files -> Versions]]
      /\ \A s \in Backs!Stores : \A g \in Files : store'[s][g] = IF s = "opfs"
            /\ g = f THEN store["root"][f] ELSE store[s][g]
  BY <1>1, <1>2, PutFile, BacksGiven
<1>4. Backs!Chosen' = Backs!Chosen
  BY <1>1 DEF Backs!Chosen
<1>5. BacksTypes'
  BY <1>1, <1>3, BacksGiven DEF BacksTypes
<1>6. BacksPlaces'
  BY <1>1, <1>3, <1>4, BacksGiven DEF BacksPlaces, Empty
<1>7. OldRoot'
  BY <1>1, <1>3, <1>4, BacksGiven DEF OldRoot
<1>8. store["root"][f] # 0
      /\ (Backs!Chosen = "opfs" => boot.step = "move" /\ store["root"][f] = shown[f])
  BY <1>1, BacksGiven DEF BacksPlaces, OldRoot
<1>9. ~raced' => BacksFound'
  BY <1>1, <1>2, <1>3, <1>4, <1>8, BacksGiven DEF BacksFound
<1>10. ASSUME ~raced', whole' PROVE BacksShows'
  <2>1. BacksShows
    BY <1>1, <1>10, BacksGiven
  <2>2. CASE Backs!Chosen = "opfs"
    <3>1. ~Empty("root") /\ ~Empty("root")' /\ boot'.step = "move"
      BY <1>1, <1>2, <1>3, <1>8, <2>2 DEF Empty
    <3> QED BY <1>1, <1>2, <1>3, <1>4, <1>8, <2>1, <2>2, <3>1, BacksGiven DEF BacksShows
  <2>3. CASE Backs!Chosen = "indexeddb"
    <3>1. \A g \in Files : \A s \in Backs!Stores \ {"opfs"} : store'[s][g] = store[s][g]
      BY <1>3
    <3>2. Backs!Untouched("indexeddb")' <=> Backs!Untouched("indexeddb")
      BY <1>1, <3>1, BacksGiven DEF Backs!Untouched, Backs!Held
    <3>3. NextShown("indexeddb")' = NextShown("indexeddb")
          /\ NextShown("indexeddb") \in {"indexeddb", "legacy"}
      BY <3>2 DEF NextShown
    <3>4. boot'.step \in {"move", "aside"} /\ boot'.backing = "indexeddb"
      BY <1>1, <2>3, BacksGiven
    <3> QED BY <1>1, <1>4, <2>1, <2>3, <3>1, <3>3, <3>4, BacksGiven DEF BacksShows, Same
  <2> QED BY <2>2, <2>3, BacksGiven
<1> QED BY <1>5, <1>6, <1>7, <1>9, <1>10 DEF BacksInv

LEMMA RemoveStep == ASSUME Backs!BackendsAssumption, BacksInv, NEW f \in Files, Backs!Remove(f)
  PROVE BacksInv'
<1>1. boot.step \in {"move", "aside"} /\ f \in boot.todo /\ store["opfs"][f] = store["root"][f]
      /\ store' = [store EXCEPT !["root"][f] = 0] /\ boot' = [boot EXCEPT !.todo = @ \ {f}]
      /\ UNCHANGED <<marked, pref, writes, migrations, shown, whole, raced>>
  BY DEF Backs!Remove, Backs!Moving, Backs!MayRemove, Backs!Bounds, Backs!History
<1>2. 0 \in Versions /\ "opfs" \in Backs!Stores /\ "root" \in Backs!Stores
  BY BacksGiven DEF Versions, Backs!BackendsAssumption
<1>3. store' \in [Backs!Stores -> [Files -> Versions]]
      /\ \A s \in Backs!Stores : \A g \in Files : store'[s][g] = IF s = "root"
            /\ g = f THEN 0 ELSE store[s][g]
  BY <1>1, <1>2, PutFile, BacksGiven
<1>4. Backs!Chosen' = Backs!Chosen
  BY <1>1 DEF Backs!Chosen
<1>5. boot' \in BacksPageRecord /\ boot'.step = boot.step /\ boot'.backing = boot.backing
      /\ boot'.source = boot.source
      /\ boot'.target = boot.target /\ boot'.todo = boot.todo \ {f}
  BY <1>1, BacksGiven DEF BacksPageRecord
<1>6. BacksTypes'
  BY <1>1, <1>3, <1>5, BacksGiven DEF BacksTypes
<1>7. BacksPlaces'
  BY <1>1, <1>3, <1>4, <1>5, BacksGiven DEF BacksPlaces, Empty
<1>8. OldRoot'
  BY <1>1, <1>2, <1>3, <1>4, BacksGiven DEF OldRoot
<1>9. store["root"][f] # 0
      /\ (Backs!Chosen = "opfs" => boot.step = "move" /\ store["root"][f] = shown[f])
  BY <1>1, BacksGiven DEF BacksPlaces, OldRoot
<1>10. ~raced' => BacksFound'
  BY <1>1, <1>2, <1>3, <1>4, <1>9, BacksGiven DEF BacksFound
<1>11. \A g \in Files : \A s \in Backs!Stores \ {"root"} : store'[s][g] = store[s][g]
  BY <1>3
<1>12. \A b \in Backs!Backings : Backs!Untouched(b)' <=> Backs!Untouched(b)
  BY <1>1, <1>11, BacksGiven DEF Backs!Untouched, Backs!Held
<1>13. ASSUME ~raced', whole' PROVE BacksShows'
  <2>1. BacksShows
    BY <1>1, <1>13, BacksGiven
  <2>2. CASE Backs!Chosen = "opfs"
    <3>1. ~Empty("root") /\ boot'.step = "move" /\ boot.step = "move"
      BY <1>1, <1>5, <1>9, <2>2 DEF Empty
    <3>2. \A g \in Files : store["opfs"][g] \in {0, shown[g]}
          /\ shown[g] \in {0, store["opfs"][g], store["root"][g]}
      BY <2>1, <2>2, <3>1 DEF BacksShows
    <3>3. \A g \in Files : store'["opfs"][g] \in {0, shown[g]}
          /\ shown[g] \in {0, store'["opfs"][g], store'["root"][g]}
      BY <1>1, <1>2, <1>3, <3>2
    <3>4. CASE ~Empty("root")'
      BY <1>1, <1>4, <2>2, <3>1, <3>3, <3>4 DEF BacksShows
    <3>5. CASE Empty("root")'
      <4>1. \A g \in Files : store'["opfs"][g] = shown[g]
        BY <1>2, <3>3, <3>5 DEF Empty
      <4>2. ~Backs!Untouched("opfs")'
        BY <1>1, <1>2, <1>3, <1>9, UntouchedIs DEF Backs!Untouched, Backs!Held
      <4>3. NextShown("opfs")' = "opfs"
        BY <4>2 DEF NextShown
      <4> QED BY <1>1, <1>4, <2>2, <3>1, <3>5, <4>1, <4>3 DEF BacksShows, Same
    <3> QED BY <3>4, <3>5
  <2>3. CASE Backs!Chosen = "indexeddb"
    <3>1. NextShown("indexeddb")' = NextShown("indexeddb")
          /\ NextShown("indexeddb") \in {"indexeddb", "legacy"}
      BY <1>12, BacksGiven DEF NextShown
    <3>2. boot'.step \in {"move", "aside"} /\ boot'.backing = "indexeddb"
      BY <1>1, <1>5, <2>3, BacksGiven
    <3> QED BY <1>1, <1>4, <1>5, <1>11, <2>1, <2>3, <3>1, <3>2, BacksGiven DEF BacksShows, Same
  <2> QED BY <2>2, <2>3, BacksGiven
<1> QED BY <1>6, <1>7, <1>8, <1>10, <1>13 DEF BacksInv

\* The backing is mounted, and what a boot has to adopt is known.
LEMMA MountedStep == ASSUME Backs!BackendsAssumption, BacksInv, Backs!Mounted PROVE BacksInv'
<1>1. boot.step = "move" /\ boot.todo = {}
      /\ UNCHANGED <<store, marked, pref, writes, migrations, shown, whole, raced>>
      /\ boot' = IF Backs!Adopts(boot.backing)
               THEN [boot EXCEPT !.step = "adopt", !.source = IF boot.backing = "opfs" THEN "indexeddb" ELSE "legacy"]
               ELSE [boot EXCEPT !.step = "adopted"]
  BY DEF Backs!Mounted, Backs!Data, Backs!Bounds, Backs!History
<1>2. Backs!Chosen' = Backs!Chosen /\ boot.backing = Backs!Chosen
  BY <1>1, BacksGiven DEF Backs!Chosen
<1>3. boot' \in BacksPageRecord /\ boot'.backing = boot.backing
      /\ IF Backs!Untouched(boot.backing) THEN boot'.step = "adopt"
            /\ boot'.source = (IF boot.backing = "opfs" THEN "indexeddb" ELSE "legacy")
         ELSE boot'.step = "adopted"
  BY <1>1, BacksGiven DEF BacksPageRecord, Backs!Adopts
<1>4. BacksTypes'
  BY <1>1, <1>3, BacksGiven DEF BacksTypes
<1>5. \A x : Backs!Untouched(x)' <=> Backs!Untouched(x)
  BY <1>1 DEF Backs!Untouched, Backs!Held
<1>6. Backs!Chosen = "opfs" => Empty("root")
  BY <1>1, BacksGiven DEF BacksPlaces, Empty
<1>7. BacksPlaces'
  BY <1>1, <1>2, <1>3, <1>5, <1>6, UntouchedIs, BacksGiven DEF BacksPlaces, Empty
<1>8. OldRoot' /\ (~raced' => BacksFound')
  BY <1>1, <1>2, BacksGiven DEF OldRoot, BacksFound
<1>9. ASSUME ~raced', whole' PROVE BacksShows'
  <2>1. Same(NextShown(Backs!Chosen))
    BY <1>1, <1>6, <1>9, BacksGiven DEF BacksShows
  <2>2. CASE Backs!Untouched(Backs!Chosen)
    <3>1. Origin' = NextShown(Backs!Chosen) /\ boot'.step = "adopt"
      BY <1>2, <1>3, <1>5, <2>2, BacksGiven DEF Origin, NextShown
    <3> QED BY <1>1, <2>1, <3>1 DEF BacksShows, Same
  <2>3. CASE ~Backs!Untouched(Backs!Chosen)
    <3>1. NextShown(Backs!Chosen) = Backs!Chosen /\ NextShown(boot.backing)' = Backs!Chosen
          /\ boot'.step = "adopted" /\ boot'.backing = Backs!Chosen
      BY <1>2, <1>3, <1>5, <2>3 DEF NextShown
    <3>2. Same(Backs!Chosen)
      BY <2>1, <3>1
    <3> QED BY <1>1, <3>1, <3>2 DEF BacksShows, Same
  <2> QED BY <2>2, <2>3
<1> QED BY <1>4, <1>7, <1>8, <1>9 DEF BacksInv

LEMMA AdoptStep == ASSUME Backs!BackendsAssumption, BacksInv, Backs!Adopt PROVE BacksInv'
<1>1. PICK t \in SUBSET Files : t = Backs!Held(boot.source)
  BY DEF Backs!Held
<1>2. boot.step = "adopt" /\ marked' = marked \cup {boot.backing}
      /\ boot' = [boot EXCEPT !.step = "copy", !.target = boot.backing, !.todo = t]
      /\ UNCHANGED <<store, pref, writes, migrations, shown, whole, raced>>
  BY <1>1 DEF Backs!Adopt, Backs!Bounds, Backs!History
<1>3. Backs!Chosen' = Backs!Chosen /\ boot.backing = Backs!Chosen /\ boot.backing \in Backs!Backings
  BY <1>2, BacksGiven DEF Backs!Chosen
<1>4. boot' \in BacksPageRecord /\ boot'.backing = boot.backing /\ boot'.step = "copy"
      /\ boot'.source = boot.source
      /\ boot'.target = boot.backing /\ boot'.todo = t
  BY <1>2, <1>3, BacksGiven DEF BacksPageRecord
<1>5. BacksTypes'
  BY <1>2, <1>3, <1>4, BacksGiven DEF BacksTypes
<1>6. boot.backing = "opfs" => (Backs!Untouched("indexeddb")' <=> Backs!Untouched("indexeddb"))
  BY <1>2 DEF Backs!Untouched, Backs!Held
<1>7. Empty(boot.backing) /\ boot.source \in {"indexeddb", "legacy"}
      /\ (boot.source = "indexeddb" => boot.backing = "opfs")
      /\ (boot.source = "legacy" /\ boot.backing = "opfs" => Backs!Untouched("indexeddb"))
            /\ (Backs!Chosen = "opfs" => Empty("root"))
  BY <1>2, BacksGiven DEF BacksPlaces
<1>8. BacksPlaces'
  <2>1. \A f \in Files : store[boot.backing][f] = IF f \in t THEN 0 ELSE store[boot.source][f]
    BY <1>1, <1>7 DEF Backs!Held, Empty
  <2> QED BY <1>2, <1>3, <1>4, <1>6, <1>7, <2>1 DEF BacksPlaces, Empty
<1>9. OldRoot' /\ (~raced' => BacksFound')
  BY <1>2, <1>3, BacksGiven DEF OldRoot, BacksFound
<1>10. Origin' = Origin
  BY <1>4, <1>6, <1>7 DEF Origin
<1>11. ~raced' /\ whole' => BacksShows'
  BY <1>2, <1>4, <1>10, BacksGiven DEF BacksShows, Same
<1> QED BY <1>5, <1>8, <1>9, <1>11 DEF BacksInv

\* A file is copied, for an adoption or for a migration.
LEMMA BacksCopyStep == ASSUME Backs!BackendsAssumption, BacksInv, NEW f \in Files, Backs!Copy(f)
  PROVE BacksInv'
<1>1. boot.step \in {"copy", "migrate"} /\ f \in boot.todo /\ store[boot.source][f] # 0
      /\ store' = [store EXCEPT ![boot.target][f] = store[boot.source][f]]
            /\ boot' = [boot EXCEPT !.todo = @ \ {f}]
      /\ UNCHANGED <<marked, pref, writes, migrations, shown, whole, raced>>
  BY DEF Backs!Copy, Backs!Copies, Backs!Bounds, Backs!History
<1>2. boot' \in BacksPageRecord /\ boot'.step = boot.step /\ boot'.backing = boot.backing
      /\ boot'.source = boot.source
      /\ boot'.target = boot.target /\ boot'.todo = boot.todo \ {f} /\ boot'.list = boot.list
  BY <1>1, BacksGiven DEF BacksPageRecord
<1>3. boot.target \in Backs!Backings /\ boot.source \in Backs!Stores
      /\ boot.backing = Backs!Chosen /\ boot.source # boot.target
      /\ (boot.step = "copy" => boot.target = boot.backing)
            /\ (boot.step = "migrate" => boot.target = Backs!Other(boot.backing) /\ boot.source = boot.backing)
  BY <1>1, BacksGiven DEF BacksPlaces, Backs!Other
<1>4. PICK v \in Versions : v = store[boot.source][f] /\ v # 0
  BY <1>1, <1>3, BacksGiven DEF BacksTypes
<1>5. store' \in [Backs!Stores -> [Files -> Versions]]
      /\ \A s \in Backs!Stores : \A g \in Files : store'[s][g] = IF s = boot.target
            /\ g = f THEN v ELSE store[s][g]
  <2>1. boot.target \in Backs!Stores
    BY <1>3, BacksGiven
  <2> QED BY <1>1, <1>4, <2>1, PutFile, BacksGiven
<1>6. Backs!Chosen' = Backs!Chosen
  BY <1>1 DEF Backs!Chosen
<1>7. BacksTypes'
  BY <1>1, <1>2, <1>5, BacksGiven DEF BacksTypes
<1>8. \A s \in Backs!Stores \ {boot.target} : \A g \in Files : store'[s][g] = store[s][g]
  BY <1>5
<1>9. \A b \in Backs!Backings \ {boot.target} : Backs!Untouched(b)' <=> Backs!Untouched(b)
  BY <1>1, <1>8, BacksGiven DEF Backs!Untouched, Backs!Held
<1>10. \A g \in Files : store'["root"][g] = store["root"][g]
       /\ store'["legacy"][g] = store["legacy"][g]
  BY <1>3, <1>8, BacksGiven
<1>11. OldRoot'
  BY <1>1, <1>6, <1>10, BacksGiven DEF OldRoot
<1>12. CASE boot.step = "copy"
  <2>1. /\ boot.source \in {"indexeddb", "legacy"}
        /\ boot.source = "indexeddb" => boot.backing = "opfs"
        /\ boot.source = "legacy" /\ boot.backing = "opfs" => Backs!Untouched("indexeddb")
        /\ boot.target = boot.backing
        /\ \A g \in Files : store[boot.backing][g] = IF g \in boot.todo THEN 0 ELSE store[boot.source][g]
        /\ Backs!Chosen = "opfs" => Empty("root")
    BY <1>12, BacksGiven DEF BacksPlaces
  <2>2. \A g \in Files : store'[boot.source][g] = store[boot.source][g]
    BY <1>3, <1>8
  <2>3. \A g \in Files : store'[boot.backing][g] = IF g \in boot.todo \ {f} THEN 0 ELSE store'[boot.source][g]
    <3> SUFFICES ASSUME NEW g \in Files
        PROVE store'[boot.backing][g] = IF g \in boot.todo \ {f} THEN 0 ELSE store'[boot.source][g]
      OBVIOUS
    <3>1. boot.backing \in Backs!Stores
          /\ store'[boot.backing][g] = IF g = f THEN v ELSE store[boot.backing][g]
      BY <1>3, <1>5, <2>1, BacksGiven
    <3>2. store'[boot.source][g] = store[boot.source][g]
      BY <2>2
    <3> QED BY <1>4, <2>1, <3>1, <3>2
  <2>4. boot.backing = "opfs" => (Backs!Untouched("indexeddb")' <=> Backs!Untouched("indexeddb"))
    <3>1. boot.backing = "opfs" => "indexeddb" \in Backs!Backings \ {boot.target}
      BY <2>1, BacksGiven
    <3> QED BY <1>9, <3>1
  <2>5. BacksPlaces'
    BY <1>1, <1>2, <1>3, <1>6, <1>10, <1>12, <2>1, <2>3, <2>4 DEF BacksPlaces, Empty
  <2>6. Origin' = Origin /\ Origin \in Backs!Stores \ {boot.target}
    BY <1>2, <1>3, <2>1, <2>4, BacksGiven DEF Origin
  <2>7. ~raced' /\ whole' => BacksShows'
    BY <1>1, <1>2, <1>8, <1>12, <2>6, BacksGiven DEF BacksShows, Same
  <2>8. ASSUME ~raced' PROVE BacksFound'
    <3>1. BacksFound
      BY <1>1, <2>8, BacksGiven
    <3>2. ASSUME NEW g \in Files, shown[g] # 0
          PROVE  \/ store'[Backs!Chosen][g] = shown[g]
                 \/ store'["legacy"][g] = shown[g]
                 \/ Backs!Chosen = "opfs" /\ store'["root"][g] = shown[g]
                 \/ Backs!Chosen = "opfs" /\ store'["opfs"][g] = 0
                       /\ store'["indexeddb"][g] = shown[g]
      <4>1. CASE g # f
        BY <1>5, <3>1, <3>2, <4>1, BacksGiven DEF BacksFound
      <4>2. CASE g = f
        <5>1. store[Backs!Chosen][f] = 0 /\ store'[Backs!Chosen][f] = v
          BY <1>1, <1>3, <1>5, <2>1, BacksGiven
        <5>2. Backs!Chosen = "opfs" /\ boot.source = "legacy" => store["indexeddb"][f] = 0
          BY <1>3, <2>1, UntouchedIs DEF Empty
        <5>3. Backs!Chosen = "indexeddb" => boot.source = "legacy"
          BY <1>3, <2>1
        <5> QED BY <1>4, <1>10, <2>1, <3>1, <3>2, <4>2, <5>1, <5>2, <5>3, BacksGiven DEF BacksFound
      <4> QED BY <4>1, <4>2
    <3> QED BY <1>1, <1>6, <3>2 DEF BacksFound
  <2> QED BY <1>7, <1>11, <2>5, <2>7, <2>8 DEF BacksInv
<1>13. CASE boot.step = "migrate"
  <2>1. boot.source = Backs!Chosen /\ boot.target = Backs!Other(Backs!Chosen) /\ Empty("root")
        /\ boot.backing \in marked
        /\ (~raced => \A g \in Files :
              /\ g \in boot.list <=> store[boot.source][g] # 0
              /\ g \in boot.list \ boot.todo => store[boot.target][g] = store[boot.source][g])
    BY <1>3, <1>13, BacksGiven DEF BacksPlaces
  <2>2. \A g \in Files : store'[Backs!Chosen][g] = store[Backs!Chosen][g]
    BY <1>3, <1>8, <2>1
  <2>3. ~raced => \A g \in Files : g \in boot.list \ (boot.todo \ {f})
        => store'[boot.target][g] = store'[boot.source][g]
    BY <1>3, <1>4, <1>5, <2>1, BacksGiven
  <2>4. BacksPlaces'
    BY <1>1, <1>2, <1>3, <1>6, <1>10, <1>13, <2>1, <2>2, <2>3 DEF BacksPlaces, Empty
  <2>5. ~raced' => BacksFound'
    <3>1. \A g \in Files : Backs!Chosen = "opfs" /\ store["opfs"][g] = 0
          => store'["indexeddb"][g] = store["indexeddb"][g]
      BY <1>4, <1>5, <2>1, BacksGiven
    <3> QED BY <1>1, <1>6, <1>10, <2>2, <3>1, BacksGiven DEF BacksFound
  <2>6. ~raced' /\ whole' => BacksShows'
    BY <1>1, <1>2, <1>3, <1>13, <2>2, BacksGiven DEF BacksShows, Same
  <2> QED BY <1>7, <1>11, <2>4, <2>5, <2>6 DEF BacksInv
<1> QED BY <1>1, <1>12, <1>13

LEMMA CopiedStep == ASSUME Backs!BackendsAssumption, BacksInv, Backs!Copied PROVE BacksInv'
<1>1. boot.step = "copy" /\ boot.todo = {} /\ marked' \in {marked, marked \ {boot.backing}}
      /\ boot' = (IF boot.source = "indexeddb" /\ Backs!Untouched("indexeddb")
                 THEN [boot EXCEPT !.step = "adopt", !.source = "legacy"] ELSE [boot EXCEPT !.step = "adopted"])
      /\ UNCHANGED <<store, pref, writes, migrations, shown, whole, raced>>
  BY DEF Backs!Copied, Backs!Bounds, Backs!History
<1>2. /\ boot.source \in {"indexeddb", "legacy"} /\ boot.backing = Backs!Chosen /\ Backs!Chosen \in Backs!Backings
      /\ boot.source = "indexeddb" => boot.backing = "opfs"
      /\ boot.source = "legacy" /\ boot.backing = "opfs" => Backs!Untouched("indexeddb")
      /\ \A f \in Files : store[boot.backing][f] = store[boot.source][f]
      /\ Backs!Chosen = "opfs" => Empty("root")
  BY <1>1, BacksGiven DEF BacksPlaces
<1>3. boot' \in BacksPageRecord /\ boot'.backing = boot.backing
      /\ IF boot.source = "indexeddb" /\ Backs!Untouched("indexeddb") THEN boot'.step = "adopt"
            /\ boot'.source = "legacy"
         ELSE boot'.step = "adopted" /\ boot'.source = boot.source
  BY <1>1, BacksGiven DEF BacksPageRecord, Backs!Stores
<1>4. Backs!Chosen' = Backs!Chosen
  BY <1>1 DEF Backs!Chosen
<1>5. BacksTypes'
  BY <1>1, <1>3, BacksGiven DEF BacksTypes
<1>6. boot.backing = "opfs" => (Backs!Untouched("indexeddb")' <=> Backs!Untouched("indexeddb"))
  BY <1>1 DEF Backs!Untouched, Backs!Held
<1>7. BacksPlaces'
  BY <1>1, <1>2, <1>3, <1>4, <1>6, UntouchedIs DEF BacksPlaces, Empty
<1>8. OldRoot' /\ (~raced' => BacksFound')
  BY <1>1, <1>4, BacksGiven DEF OldRoot, BacksFound
<1>9. ASSUME ~raced', whole' PROVE BacksShows'
  <2>1. Same(Origin)
    BY <1>1, <1>9, BacksGiven DEF BacksShows
  <2>2. CASE boot.source = "indexeddb" /\ Backs!Untouched("indexeddb")
    <3>1. Origin = "legacy" /\ Origin' = "legacy" /\ boot'.step = "adopt"
      BY <1>3, <2>2 DEF Origin
    <3> QED BY <1>1, <2>1, <3>1 DEF BacksShows, Same
  <2>3. CASE ~(boot.source = "indexeddb" /\ Backs!Untouched("indexeddb"))
    <3>1. Origin = boot.source /\ boot'.step = "adopted"
      BY <1>3, <2>3 DEF Origin
    <3>2. Same(boot.backing)
      BY <1>2, <2>1, <3>1 DEF Same
    <3>3. NextShown(boot.backing)' \in {boot.backing, boot.source}
      BY <1>2, <1>3, <1>6, <2>3, BacksGiven DEF NextShown
    <3> QED BY <1>1, <1>3, <2>1, <3>1, <3>2, <3>3 DEF BacksShows, Same
  <2> QED BY <2>2, <2>3
<1> QED BY <1>5, <1>7, <1>8, <1>9 DEF BacksInv

LEMMA BootedStep == ASSUME Backs!BackendsAssumption, BacksInv, Backs!Booted PROVE BacksInv'
<1>1. PICK b : b = boot.backing
  OBVIOUS
<1>2. boot.step = "adopted" /\ marked' = marked \cup {b}
      /\ boot' = [Backs!Closed EXCEPT !.step = "open", !.backing = b]
      /\ UNCHANGED <<store, pref, writes, migrations, shown, whole, raced>>
  BY <1>1 DEF Backs!Booted, Backs!Bounds, Backs!History
<1>3. Backs!Chosen' = Backs!Chosen /\ b = Backs!Chosen /\ b \in Backs!Backings
  BY <1>1, <1>2, BacksGiven DEF Backs!Chosen
<1>4. boot' \in BacksPageRecord /\ boot'.step = "open" /\ boot'.backing = b
  BY <1>2, <1>3, ClosedIs DEF BacksPageRecord
<1>5. BacksTypes'
  BY <1>2, <1>3, <1>4, BacksGiven DEF BacksTypes
<1>6. BacksPlaces'
  BY <1>2, <1>3, <1>4, BacksGiven DEF BacksPlaces, Empty
<1>7. OldRoot' /\ (~raced' => BacksFound')
  BY <1>2, <1>3, BacksGiven DEF OldRoot, BacksFound
<1>8. ~raced' /\ whole' => BacksShows'
  BY <1>1, <1>2, <1>4, BacksGiven DEF BacksShows, Same
<1> QED BY <1>5, <1>6, <1>7, <1>8 DEF BacksInv

LEMMA StopStep == ASSUME Backs!BackendsAssumption, BacksInv, Backs!Stop PROVE BacksInv'
<1>1. boot.step # "closed" /\ boot' = Backs!Closed /\ marked' \subseteq marked
      /\ (boot.step # "copy" => marked' = marked)
      /\ (whole' = (whole /\ boot.step # "copy" /\ (boot.step = "adopt" => boot.backing \notin marked)))
      /\ UNCHANGED <<store, pref, writes, migrations, shown, raced>>
  BY DEF Backs!Stop, Backs!Bounds
<1>2. Backs!Chosen' = Backs!Chosen /\ boot.backing = Backs!Chosen /\ Backs!Chosen \in Backs!Backings
  BY <1>1, BacksGiven DEF Backs!Chosen
<1>3. boot' \in BacksPageRecord /\ boot'.step = "closed"
  BY <1>1, ClosedIs
<1>4. whole' \in BOOLEAN
  BY <1>1, BacksGiven DEF BacksTypes
<1>5. BacksTypes'
  BY <1>1, <1>3, <1>4, BacksGiven DEF BacksTypes
<1>6. BacksPlaces'
  BY <1>3 DEF BacksPlaces
<1>7. OldRoot' /\ (~raced' => BacksFound')
  BY <1>1, <1>2, BacksGiven DEF OldRoot, BacksFound
<1>8. ASSUME ~raced', whole' PROVE BacksShows'
  <2>1. BacksShows /\ boot.step # "copy" /\ marked' = marked
        /\ (boot.step = "adopt" => boot.backing \notin marked)
    BY <1>1, <1>8, BacksGiven
  <2>2. (\A x : Backs!Untouched(x)' <=> Backs!Untouched(x)) /\ (Empty("root")' <=> Empty("root"))
    BY <1>1, <2>1 DEF Backs!Untouched, Backs!Held, Empty
  <2>3. NextShown(Backs!Chosen)' = NextShown(Backs!Chosen)
    BY <1>2, <2>2 DEF NextShown
  <2>4. CASE boot.step = "move"
    BY <1>1, <1>2, <1>3, <2>1, <2>2, <2>3, <2>4 DEF BacksShows, Same
  <2>5. CASE boot.step # "move"
    <3>1. Backs!Chosen = "opfs" => Empty("root")
      BY <1>1, <2>5, BacksGiven DEF BacksPlaces
    <3>2. Same(NextShown(Backs!Chosen))
      <4>1. CASE boot.step = "adopt"
        <5>1. Backs!Untouched(Backs!Chosen)
          BY <1>2, <2>1, <4>1, UntouchedIs, BacksGiven DEF BacksPlaces
        <5>2. NextShown(Backs!Chosen) = Origin
          BY <1>2, <4>1, <5>1, BacksGiven DEF BacksPlaces, NextShown, Origin
        <5> QED BY <2>1, <4>1, <5>2 DEF BacksShows
      <4>2. CASE boot.step = "adopted"
        BY <1>2, <2>1, <4>2 DEF BacksShows
      <4>3. CASE boot.step \in {"open", "aside", "migrate"}
        <5>1. NextShown(Backs!Chosen) = Backs!Chosen
          BY <1>2, <4>3, UntouchedIs, BacksGiven DEF BacksPlaces, NextShown
        <5> QED BY <1>2, <2>1, <4>3, <5>1 DEF BacksShows
      <4> QED BY <1>1, <2>1, <2>5, <4>1, <4>2, <4>3, BacksGiven
    <3> QED BY <1>1, <1>2, <1>3, <2>2, <2>3, <3>1, <3>2 DEF BacksShows, Same
  <2> QED BY <2>4, <2>5
<1> QED BY <1>5, <1>6, <1>7, <1>8 DEF BacksInv

-----------------------------------------------------------------------------
(* Use *)

LEMMA BacksEditStep == ASSUME Backs!BackendsAssumption, BacksInv, NEW f \in Files,
    NEW new \in {0, 4 + writes}, Backs!Edit(f, new) PROVE BacksInv'
<1>1. boot.step \in {"open", "aside", "migrate"} /\ writes < MaxWrites /\ writes' = writes + 1
      /\ store' = [store EXCEPT ![boot.backing][f] = new] /\ shown' = [shown EXCEPT ![f] = new]
      /\ (raced' = (raced \/ boot.step \in {"aside", "migrate"}))
            /\ UNCHANGED <<marked, pref, boot, migrations, whole>>
  BY DEF Backs!Edit, Backs!InMigration
<1>2. boot.backing = Backs!Chosen /\ Backs!Chosen \in Backs!Backings
      /\ Backs!Chosen \in Backs!Stores /\ Backs!Chosen' = Backs!Chosen
  BY <1>1, BacksGiven DEF Backs!Chosen
<1>3. new \in Versions /\ writes' \in 0..MaxWrites
  BY <1>1, BacksGiven DEF BacksTypes, Versions, Backs!BackendsAssumption
<1>4. store' \in [Backs!Stores -> [Files -> Versions]]
      /\ \A s \in Backs!Stores : \A g \in Files : store'[s][g] = IF s = boot.backing
            /\ g = f THEN new ELSE store[s][g]
  BY <1>1, <1>2, <1>3, PutFile, BacksGiven
<1>5. shown' \in [Files -> Versions] /\ \A g \in Files : shown'[g] = IF g = f THEN new ELSE shown[g]
  BY <1>1, <1>3, BacksGiven DEF BacksTypes
<1>6. raced' \in BOOLEAN
  BY <1>1, BacksGiven DEF BacksTypes
<1>7. BacksTypes'
  BY <1>1, <1>3, <1>4, <1>5, <1>6, BacksGiven DEF BacksTypes
<1>8. \A g \in Files : store'["root"][g] = store["root"][g]
  BY <1>2, <1>4, BacksGiven
<1>9. BacksPlaces'
  BY <1>1, <1>2, <1>8, BacksGiven DEF BacksPlaces, Empty
<1>10. OldRoot'
  <2>1. Backs!Chosen = "opfs" => Empty("root")
    BY <1>1, BacksGiven DEF BacksPlaces
  <2> QED BY <1>2, <1>8, <2>1 DEF OldRoot, Empty
<1>11. ASSUME ~raced' PROVE BacksFound'
  <2>1. BacksFound
    BY <1>1, <1>11, BacksGiven
  <2>2. ASSUME NEW g \in Files, shown'[g] # 0
        PROVE  \/ store'[Backs!Chosen][g] = shown'[g]
               \/ store'["legacy"][g] = shown'[g]
               \/ Backs!Chosen = "opfs" /\ store'["root"][g] = shown'[g]
               \/ Backs!Chosen = "opfs" /\ store'["opfs"][g] = 0
                     /\ store'["indexeddb"][g] = shown'[g]
    <3>1. CASE g = f
      BY <1>2, <1>4, <1>5, <3>1
    <3>2. CASE g # f
      BY <1>2, <1>4, <1>5, <2>1, <2>2, <3>2, BacksGiven DEF BacksFound
    <3> QED BY <3>1, <3>2
  <2> QED BY <1>2, <2>2 DEF BacksFound
<1>12. ~raced' /\ whole' => BacksShows'
  BY <1>1, <1>2, <1>4, <1>5, BacksGiven DEF BacksShows, Same
<1> QED BY <1>7, <1>9, <1>10, <1>11, <1>12 DEF BacksInv

\* A migration begins; one to OPFS puts the files of the old root aside.
LEMMA MigrateStep == ASSUME Backs!BackendsAssumption, BacksInv, Backs!Migrate PROVE BacksInv'
<1>1. PICK to : to = Backs!Other(boot.backing)
  OBVIOUS
<1>2. PICK t \in SUBSET Files : t = IF to = "opfs" THEN Backs!Held("root") ELSE {}
  BY DEF Backs!Held
<1>3. boot.step = "open"
      /\ boot' = [boot EXCEPT !.step = "aside", !.source = boot.backing, !.target = to, !.todo = t]
      /\ UNCHANGED <<store, marked, pref, writes, shown, whole, raced>>
  BY <1>1, <1>2 DEF Backs!Migrate, Backs!Data, Backs!History
<1>4. Backs!Chosen' = Backs!Chosen /\ boot.backing = Backs!Chosen
      /\ Backs!Chosen \in Backs!Backings /\ to \in Backs!Backings
      /\ (to = "opfs" <=> Backs!Chosen = "indexeddb")
  BY <1>1, <1>3, BacksGiven DEF Backs!Chosen, Backs!Other
<1>5. boot' \in BacksPageRecord /\ boot'.step = "aside" /\ boot'.backing = boot.backing
      /\ boot'.source = boot.backing
      /\ boot'.target = to /\ boot'.todo = t
  BY <1>3, <1>4, BacksGiven DEF BacksPageRecord
<1>6. BacksTypes'
  BY <1>3, <1>5, BacksGiven DEF BacksTypes
<1>7. \A f \in Files : f \in t <=> store["root"][f] # 0 /\ Backs!Chosen # "opfs"
  BY <1>2, <1>4, BacksGiven DEF Backs!Held
<1>8. BacksPlaces'
  BY <1>1, <1>3, <1>4, <1>5, <1>7, BacksGiven DEF BacksPlaces, Empty
<1>9. OldRoot' /\ (~raced' => BacksFound')
  BY <1>3, <1>4, BacksGiven DEF OldRoot, BacksFound
<1>10. ~raced' /\ whole' => BacksShows'
  BY <1>3, <1>5, BacksGiven DEF BacksShows, Same
<1> QED BY <1>6, <1>8, <1>9, <1>10 DEF BacksInv

LEMMA WalkStep == ASSUME Backs!BackendsAssumption, BacksInv, Backs!Walk PROVE BacksInv'
<1>1. PICK l \in SUBSET Files : l = Backs!Held(boot.source)
  BY DEF Backs!Held
<1>2. boot.step = "aside" /\ boot.todo = {}
      /\ boot' = [boot EXCEPT !.step = "migrate", !.list = l, !.todo = l]
      /\ UNCHANGED <<store, marked, pref, writes, migrations, shown, whole, raced>>
  BY <1>1 DEF Backs!Walk, Backs!Data, Backs!Bounds, Backs!History
<1>3. boot' \in BacksPageRecord /\ boot'.step = "migrate" /\ boot'.backing = boot.backing
      /\ boot'.source = boot.source
      /\ boot'.target = boot.target /\ boot'.todo = l /\ boot'.list = l
  BY <1>2, BacksGiven DEF BacksPageRecord
<1>4. Backs!Chosen' = Backs!Chosen
  BY <1>2 DEF Backs!Chosen
<1>5. BacksTypes'
  BY <1>2, <1>3, BacksGiven DEF BacksTypes
<1>6. Empty("root")
  BY <1>2, BacksGiven DEF BacksPlaces, Empty
<1>7. \A f \in Files : f \in l <=> store[boot.source][f] # 0
  BY <1>1 DEF Backs!Held
<1>8. BacksPlaces'
  BY <1>2, <1>3, <1>4, <1>6, <1>7, BacksGiven DEF BacksPlaces, Empty
<1>9. OldRoot' /\ (~raced' => BacksFound')
  BY <1>2, <1>4, BacksGiven DEF OldRoot, BacksFound
<1>10. ~raced' /\ whole' => BacksShows'
  BY <1>2, <1>3, BacksGiven DEF BacksShows, Same
<1> QED BY <1>5, <1>8, <1>9, <1>10 DEF BacksInv

LEMMA BacksFailsStep == ASSUME Backs!BackendsAssumption, BacksInv, Backs!MigrateFails
  PROVE BacksInv'
<1>1. PICK b : b = boot.backing
  OBVIOUS
<1>2. boot.step \in {"aside", "migrate"}
      /\ boot' = [Backs!Closed EXCEPT !.step = "open", !.backing = b]
      /\ UNCHANGED <<store, marked, pref, writes, migrations, shown, whole, raced>>
  BY <1>1 DEF Backs!MigrateFails, Backs!InMigration, Backs!Data, Backs!Bounds, Backs!History
<1>3. Backs!Chosen' = Backs!Chosen /\ b = Backs!Chosen /\ b \in Backs!Backings
  BY <1>1, <1>2, BacksGiven DEF Backs!Chosen
<1>4. boot' \in BacksPageRecord /\ boot'.step = "open" /\ boot'.backing = b
  BY <1>2, <1>3, ClosedIs DEF BacksPageRecord
<1>5. BacksTypes'
  BY <1>2, <1>4, BacksGiven DEF BacksTypes
<1>6. BacksPlaces'
  BY <1>1, <1>2, <1>3, <1>4, BacksGiven DEF BacksPlaces, Empty
<1>7. OldRoot' /\ (~raced' => BacksFound')
  BY <1>2, <1>3, BacksGiven DEF OldRoot, BacksFound
<1>8. ~raced' /\ whole' => BacksShows'
  BY <1>1, <1>2, <1>4, BacksGiven DEF BacksShows, Same
<1> QED BY <1>5, <1>6, <1>7, <1>8 DEF BacksInv

\* The target becomes the backing: it holds every file of the list as it is.
LEMMA FlipStep == ASSUME Backs!BackendsAssumption, BacksInv, Backs!Flip PROVE BacksInv'
<1>1. boot.step = "migrate" /\ boot.todo = {} /\ pref' = boot.target
      /\ marked' = marked \cup {boot.target} /\ boot' = Backs!Closed
      /\ (whole' = (whole /\ Backs!Held(boot.target) \subseteq boot.list))
      /\ UNCHANGED <<store, writes, migrations, shown, raced>>
  BY DEF Backs!Flip, Backs!Bounds
<1>2. boot.source = Backs!Chosen /\ boot.target = Backs!Other(Backs!Chosen) /\ Empty("root")
      /\ boot.backing = Backs!Chosen /\ Backs!Chosen \in Backs!Backings
      /\ (~raced => \A f \in Files :
            /\ f \in boot.list <=> store[Backs!Chosen][f] # 0
            /\ f \in boot.list => store[boot.target][f] = store[Backs!Chosen][f])
  BY <1>1, BacksGiven DEF BacksPlaces
<1>3. boot.target \in Backs!Backings /\ boot.target # Backs!Chosen /\ Backs!Chosen' = boot.target
  BY <1>1, <1>2, BacksGiven DEF Backs!Other, Backs!Chosen
<1>4. boot' \in BacksPageRecord /\ boot'.step = "closed" /\ whole' \in BOOLEAN
  BY <1>1, ClosedIs, BacksGiven DEF BacksTypes
<1>5. BacksTypes'
  BY <1>1, <1>3, <1>4, BacksGiven DEF BacksTypes
<1>6. BacksPlaces'
  BY <1>4 DEF BacksPlaces
<1>7. OldRoot'
  BY <1>1, <1>2 DEF OldRoot, Empty
<1>8. ASSUME ~raced' PROVE BacksFound'
  <2>1. ~raced /\ BacksFound
    BY <1>1, <1>8, BacksGiven
  <2>2. ASSUME NEW f \in Files, shown[f] # 0
        PROVE store[boot.target][f] = shown[f] \/ store["legacy"][f] = shown[f]
    <3>1. CASE store[Backs!Chosen][f] = shown[f]
      BY <1>2, <2>1, <2>2, <3>1
    <3>2. CASE store[Backs!Chosen][f] # shown[f]
      <4>1. ~(Backs!Chosen = "opfs" /\ store["root"][f] = shown[f])
        BY <1>2, <2>2 DEF Empty
      <4>2. Backs!Chosen = "opfs" => boot.target = "indexeddb"
        BY <1>2 DEF Backs!Other
      <4> QED BY <2>1, <2>2, <3>2, <4>1, <4>2 DEF BacksFound
    <3> QED BY <3>1, <3>2
  <2> QED BY <1>1, <1>3, <2>2 DEF BacksFound
<1>9. ASSUME ~raced', whole' PROVE BacksShows'
  <2>1. ~raced /\ whole /\ Backs!Held(boot.target) \subseteq boot.list /\ Same(Backs!Chosen)
    BY <1>1, <1>2, <1>9, BacksGiven DEF BacksShows
  <2>2. \A f \in Files : store[boot.target][f] = shown[f]
    <3> SUFFICES ASSUME NEW f \in Files PROVE store[boot.target][f] = shown[f]
      OBVIOUS
    <3>1. f \notin boot.list => store[boot.target][f] = 0 /\ store[Backs!Chosen][f] = 0
      BY <1>2, <2>1 DEF Backs!Held
    <3> QED BY <1>2, <2>1, <3>1 DEF Same
  <2>3. PICK t : t = boot.target
    OBVIOUS
  <2>4. NextShown(t)' = t
    BY <1>1, <2>3 DEF NextShown, Backs!Untouched
  <2>5. Backs!Chosen' = t /\ boot'.step = "closed" /\ Empty("root")' /\ Same(t)'
    BY <1>1, <1>2, <1>3, <1>4, <2>2, <2>3 DEF Same, Empty
  <2> QED BY <2>4, <2>5 DEF BacksShows
<1> QED BY <1>5, <1>6, <1>7, <1>8, <1>9 DEF BacksInv

LEMMA BacksStays == ASSUME Backs!BackendsAssumption, BacksInv, [Backs!Next]_(Backs!vars)
  PROVE BacksInv'
<1>1. CASE UNCHANGED Backs!vars
  <2>1. Backs!Chosen' = Backs!Chosen /\ (\A x : Backs!Untouched(x)' <=> Backs!Untouched(x))
    BY <1>1 DEF Backs!vars, Backs!Chosen, Backs!Untouched, Backs!Held
  <2>2. Origin' = Origin /\ (\A x : NextShown(x)' = NextShown(x))
    BY <1>1, <2>1 DEF Backs!vars, Origin, NextShown
  <2>3. BacksTypes' /\ BacksPlaces' /\ OldRoot' /\ (~raced' => BacksFound')
    BY <1>1, <2>1, BacksGiven DEF Backs!vars, BacksTypes, BacksPlaces, OldRoot, BacksFound, Empty
  <2>4. ~raced' /\ whole' => BacksShows'
    BY <1>1, <2>1, <2>2, BacksGiven DEF Backs!vars, BacksShows, Same, Empty
  <2> QED BY <2>3, <2>4 DEF BacksInv
<1>2. CASE Backs!Next
  BY <1>2, BootStep, MoveStep, RemoveStep, MountedStep, AdoptStep, BacksCopyStep, CopiedStep,
     BootedStep, StopStep,
     BacksEditStep, MigrateStep, WalkStep, BacksFailsStep, FlipStep DEF Backs!Next
<1> QED BY <1>1, <1>2

\* What the user saw last is in the chosen backing or will be copied to it.
THEOREM BackingsHold == ASSUME Backs!BackendsAssumption
  PROVE Backs!Spec => [](Backs!TypeOK /\ Backs!FilesKept)
<1>1. Backs!Init => BacksInv
  BY BacksStart
<1>2. BacksInv /\ [Backs!Next]_(Backs!vars) => BacksInv'
  BY BacksStays
<1>3. BacksInv => Backs!TypeOK /\ Backs!FilesKept
  BY BacksShown
<1> QED BY <1>1, <1>2, <1>3, PTL DEF Backs!Spec

-----------------------------------------------------------------------------
(* The parts within the whole *)

LEMMA VaultRun == PageSpec => Spec
<1>1. PageInit => Init
  BY DEF PageInit
<1>2. [PageNext]_<<part, vars, root, upper, native, space, autopush, shows, backings>>
      => [Next]_vars
  BY DEF PageNext, vars
<1> QED BY <1>1, <1>2, PTL DEF PageSpec, Spec

LEMMA RootsRun == PageSpec => Roots!Spec
<1>1. PageInit => Roots!Init
  BY DEF PageInit
<1>2. [PageNext]_<<part, vars, root, upper, native, space, autopush, shows, backings>>
      => [Roots!Next]_(Roots!vars)
  BY DEF PageNext, root, Roots!vars
<1> QED BY <1>1, <1>2, PTL DEF PageSpec, Roots!Spec

LEMMA UpperRun == PageSpec => Upper!Spec
<1>1. PageInit => Upper!Init
  BY DEF PageInit
<1>2. [PageNext]_<<part, vars, root, upper, native, space, autopush, shows, backings>>
      => [Upper!Next]_(Upper!vars)
  BY DEF PageNext, upper, Upper!vars
<1> QED BY <1>1, <1>2, PTL DEF PageSpec, Upper!Spec

LEMMA NativeRun == PageSpec => Native!Spec
<1>1. PageInit => Native!Init
  BY DEF PageInit
<1>2. [PageNext]_<<part, vars, root, upper, native, space, autopush, shows, backings>>
      => [Native!Next]_(Native!vars)
  BY DEF PageNext, native, Native!vars
<1> QED BY <1>1, <1>2, PTL DEF PageSpec, Native!Spec

LEMMA SpaceRun == PageSpec => Space!Spec
<1>1. PageInit => Space!Init
  BY DEF PageInit
<1>2. [PageNext]_<<part, vars, root, upper, native, space, autopush, shows, backings>>
      => [Space!Next]_(Space!vars)
  BY DEF PageNext, space, Space!vars
<1> QED BY <1>1, <1>2, PTL DEF PageSpec, Space!Spec

LEMMA PushesRun == PageSpec => Pushes!Spec
<1>1. PageInit => Pushes!Init
  BY DEF PageInit
<1>2. [PageNext]_<<part, vars, root, upper, native, space, autopush, shows, backings>>
      => [Pushes!Next]_(Pushes!vars)
  BY DEF PageNext, autopush, Pushes!vars
<1> QED BY <1>1, <1>2, PTL DEF PageSpec, Pushes!Spec

LEMMA ShowsRun == PageSpec => Shows!Spec
<1>1. PageInit => Shows!Init
  BY DEF PageInit
<1>2. [PageNext]_<<part, vars, root, upper, native, space, autopush, shows, backings>>
      => [Shows!Next]_(Shows!vars)
  BY DEF PageNext, shows, Shows!vars
<1> QED BY <1>1, <1>2, PTL DEF PageSpec, Shows!Spec

LEMMA BacksRun == PageSpec => Backs!Spec
<1>1. PageInit => Backs!Init
  BY DEF PageInit
<1>2. [PageNext]_<<part, vars, root, upper, native, space, autopush, shows, backings>>
      => [Backs!Next]_(Backs!vars)
  BY DEF PageNext, backings, Backs!vars
<1> QED BY <1>1, <1>2, PTL DEF PageSpec, Backs!Spec

-----------------------------------------------------------------------------
(* The properties of the whole *)

\* No raw operation writes to or mounts over the root of a protected session, and
\* none that began before sees another root (src/src/storage/context.ts).
THEOREM RawIsOutside == PageSpec => []RawStaysOutside
<1>1. Roots!TypeOK /\ Roots!RawStaysOutside => RawStaysOutside
  BY DEF RawStaysOutside
<1>2. Roots!Spec => [](Roots!TypeOK /\ Roots!RawStaysOutside)
  BY RootsHold, PageAssumption
<1> QED BY <1>1, <1>2, RootsRun, PTL

\* An edit that the manager does not have is still to be pushed, or the page has
\* said that it was not (pod-session.ts of the example).
THEOREM EditsArePushed == PageSpec => []EditsGetPushed
<1>1. Pushes!TypeOK /\ Pushes!EditsGetPushed => EditsGetPushed
  BY DEF EditsGetPushed
<1>2. Pushes!Spec => [](Pushes!TypeOK /\ Pushes!EditsGetPushed)
  BY PushesHold, PageAssumption
<1> QED BY <1>1, <1>2, PushesRun, PTL

\* Whatever a crash or a loss of power cuts off, an old workspace, a record and the
\* files that the user saw last are kept (src/src/storage/workspace.ts and node.ts,
\* src/src/realize/zenfs.ts).
THEOREM DataSurvivesCrashes == PageSpec => []CrashesKeepData
<1>1. Upper!TypeOK /\ Upper!UppersKept /\ Native!TypeOK /\ Native!RecordsKept /\ Backs!TypeOK
      /\ Backs!FilesKept => CrashesKeepData
  BY DEF CrashesKeepData
<1>2. Upper!Spec => [](Upper!TypeOK /\ Upper!UppersKept)
  BY UppersHold, PageAssumption
<1>3. Native!Spec => [](Native!TypeOK /\ Native!RecordsKept)
  BY NativeHolds, PageAssumption
<1>4. Backs!Spec => [](Backs!TypeOK /\ Backs!FilesKept)
  BY BackingsHold, PageAssumption
<1> QED BY <1>1, <1>2, <1>3, <1>4, UpperRun, NativeRun, BacksRun, PTL

\* The mounts and the names of the page are those of its latest workspace (pod-
\* session-lifecycle.ts of the example, src/src/proc/).
THEOREM OneOwnerOfThePage == PageSpec => []OnePageOwner
<1>1. Space!TypeOK /\ Space!OneWorkspace /\ Shows!TypeOK /\ Shows!LatestShown => OnePageOwner
  BY DEF OnePageOwner
<1>2. Space!Spec => [](Space!TypeOK /\ Space!OneWorkspace)
  BY SpacesHold, PageAssumption
<1>3. Shows!Spec => [](Shows!TypeOK /\ Shows!LatestShown)
  BY NamespacesHold, PageAssumption
<1> QED BY <1>1, <1>2, <1>3, SpaceRun, ShowsRun, PTL
===============================================================================
