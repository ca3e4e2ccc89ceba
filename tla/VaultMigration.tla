--------------------------- MODULE VaultMigration ---------------------------
(***************************************************************************)
(* Opening, migrating, using and erasing the browser vault:                *)
(* openBrowserVault, resetBrowserVault and their helpers in                *)
(* src/storage/browser-vault.ts.                                           *)
(*                                                                         *)
(* `control' is the bootstrap record, replaced atomically and durably; it  *)
(* selects one encrypted generation.  Legacy plaintext sources are copied  *)
(* into a fresh generation, verified from its persisted blocks, committed  *)
(* by phase "cleanup" and only then removed.  One tab holds the writer     *)
(* locks at a time (acquireWriter), so one program counter is enough; any  *)
(* step may throw or be the last before the tab dies, which both forget    *)
(* everything but `control', `gens' and `legacy' and release the locks.    *)
(***************************************************************************)

CONSTANTS Sources,   \* legacy stores (OPFS trees, IndexedDB databases)
          Paths,     \* logical destinations of their entries
          Content,   \* type, mode, time and digest of an entry
          Absent,    \* no entry
          Gens,      \* opaque generation identifiers
          Missing,   \* the generation does not exist
          NoControl, \* the bootstrap record is definitively absent
          NoGen,     \* the pending bootstrap selects no generation yet
          NoJournal, \* the generation has no migration journal
          LegacyIgnoresLock  \* whether an old tab may write unlocked

VARIABLES control,  \* durable: the bootstrap record
          gens,     \* durable: the generations' persisted blocks
          legacy,   \* durable: what each legacy source holds
          pc,       \* where the tab holding the locks stands
          mem,      \* the mounted file system's cached entries
          queued,   \* entries of it not persisted yet
          journal,  \* the journal being built or read
          todo,     \* sources not copied, or not cleaned up, yet
          cleaning, \* the source being removed, as a set of at most one
          due,      \* history: legacy data nobody asked to delete or replace
          mine      \* history: data saved in the opened vault

durable == <<control, gens, legacy>>
local == <<pc, mem, queued, journal, todo, cleaning>>
history == <<due, mine>>
vars == <<durable, local, history>>

Entry == Content \cup {Absent}
Tree == [Paths -> Entry]
Inventory == [Sources -> Tree]
Phases == {"pending", "copying", "cleanup", "ready"}
Control == [generation : Gens \cup {NoGen}, phase : Phases]
Generation == [files : Tree, journal : Inventory \cup {NoJournal}]

ASSUME VaultAssumption ==
  /\ Absent \notin Content /\ NoGen \notin Gens /\ NoControl \notin Control
  /\ NoJournal \notin Inventory /\ Missing \notin Generation
  /\ LegacyIgnoresLock \in BOOLEAN

EmptyTree == [p \in Paths |-> Absent]
Present(s) == legacy[s] # EmptyTree      \* legacySources() lists it
Selected == gens[control.generation]
Committed == control # NoControl /\ control.phase \in {"cleanup", "ready"}

Init == /\ control = NoControl /\ gens = [g \in Gens |-> Missing]
        /\ legacy \in Inventory
        /\ pc = "idle" /\ mem = EmptyTree /\ queued = {}
        /\ journal = NoJournal /\ todo = {} /\ cleaning = {}
        /\ due = legacy /\ mine = EmptyTree

-----------------------------------------------------------------------------
(* openBrowserVault: bootstrap and copy                                     *)

\* acquireWriter, readControl and, on definitive absence, the durable policy
\* "BEFORE any filesystem initialization".
Open_ReadyMigrates == \* faulty: only an interrupted cleanup is mounted as it is
  /\ pc = "idle"
  /\ control' = IF control = NoControl
                THEN [generation |-> NoGen, phase |-> "pending"] ELSE control
  /\ pc' = IF Committed /\ control.phase = "cleanup" THEN "mount" ELSE "remove"
  /\ UNCHANGED <<gens, legacy, mem, queued, journal, todo, cleaning, history>>
Open ==
  /\ pc = "idle"
  /\ control' = IF control = NoControl
                THEN [generation |-> NoGen, phase |-> "pending"] ELSE control
  /\ pc' = IF Committed THEN "mount" ELSE "remove"
  /\ UNCHANGED <<gens, legacy, mem, queued, journal, todo, cleaning, history>>

\* removeGeneration of an interrupted copy.
RemoveStale ==
  /\ pc = "remove"
  /\ gens' = [g \in Gens |-> IF g = control.generation THEN Missing ELSE gens[g]]
  /\ pc' = "select"
  /\ UNCHANGED <<control, legacy, mem, queued, journal, todo, cleaning, history>>

\* A fresh identifier is recorded before its generation exists ...
Select ==
  /\ pc = "select"
  /\ \E g \in Gens : /\ gens[g] = Missing
                     /\ control' = [generation |-> g, phase |-> "copying"]
  /\ pc' = "create"
  /\ UNCHANGED <<gens, legacy, mem, queued, journal, todo, cleaning, history>>

\* ... and the empty encrypted root is created and mounted.
Create ==
  /\ pc = "create"
  /\ gens' = [gens EXCEPT ![control.generation] =
                [files |-> EmptyTree, journal |-> NoJournal]]
  /\ mem' = EmptyTree /\ queued' = {}
  /\ journal' = [s \in Sources |-> EmptyTree]
  /\ todo' = {s \in Sources : Present(s)}
  /\ pc' = "copy"
  /\ UNCHANGED <<control, legacy, cleaning, history>>

\* copySource: an entry another source already provided must be identical,
\* else the open throws.  The inventory taken again afterwards makes the
\* copy equal to the source at one instant.
Conflict(s, p) == legacy[s][p] # Absent /\ mem[p] # Absent /\ legacy[s][p] # mem[p]
CopySource(s) ==
  /\ pc = "copy" /\ s \in todo
  /\ \A p \in Paths : ~Conflict(s, p)
  /\ mem' = [p \in Paths |-> IF mem[p] = Absent THEN legacy[s][p] ELSE mem[p]]
  /\ queued' = queued \cup {p \in Paths : mem[p] = Absent /\ legacy[s][p] # Absent}
  /\ journal' = [journal EXCEPT ![s] = legacy[s]]
  /\ todo' = todo \ {s}
  /\ UNCHANGED <<durable, pc, cleaning, history>>

\* The backing store reports an entry written.  It may not have kept it: the
\* fault the verification from persisted blocks is there for.
Persist(p) ==
  /\ pc = "copy" /\ p \in queued
  /\ queued' = queued \ {p}
  /\ \/ gens' = [gens EXCEPT ![control.generation].files[p] = mem[p]]
     \/ UNCHANGED gens
  /\ UNCHANGED <<control, legacy, pc, mem, journal, todo, cleaning, history>>

\* journalWrite: the journal follows the entries and everything is flushed.
\* Like them, it may not be kept.
JournalWrite ==
  /\ pc = "copy" /\ todo = {} /\ queued = {}
  /\ \/ gens' = [gens EXCEPT ![control.generation].journal = journal]
     \/ UNCHANGED gens
  /\ pc' = "verify"
  /\ UNCHANGED <<control, legacy, mem, queued, journal, todo, cleaning, history>>

\* verifyImported(tree, j)
Imported(tree, j) ==
  \A s \in Sources, p \in Paths : j[s][p] # Absent => tree[p] = j[s][p]

\* The generation is mounted again, so that the cache is what was persisted.
Verify_Cached == \* faulty: the writer's cache is verified
  /\ pc = "verify"
  /\ Imported(mem, journal)
  /\ pc' = "commit"
  /\ UNCHANGED <<durable, mem, queued, journal, todo, cleaning, history>>
Verify ==
  /\ pc = "verify"
  /\ Imported(Selected.files, journal)
  /\ mem' = Selected.files
  /\ pc' = "commit"
  /\ UNCHANGED <<durable, queued, journal, todo, cleaning, history>>

Commit ==
  /\ pc = "commit"
  /\ control' = [control EXCEPT !.phase = "cleanup"]
  /\ pc' = "clean"
  /\ UNCHANGED <<gens, legacy, mem, queued, journal, todo, cleaning, history>>

-----------------------------------------------------------------------------
(* openBrowserVault: a committed generation, and cleanupLegacy              *)

\* requireExisting refuses a generation without its root.
Mount ==
  /\ pc = "mount" /\ Selected # Missing
  /\ mem' = Selected.files /\ queued' = {}
  /\ pc' = IF control.phase = "cleanup" THEN "clean" ELSE "open"
  /\ UNCHANGED <<durable, journal, todo, cleaning, history>>

\* The persisted journal is read, the import verified again, and a source
\* that the journal does not know stops the cleanup.
BeginCleanup ==
  /\ pc = "clean"
  /\ Selected.journal # NoJournal
  /\ Imported(mem, Selected.journal)
  /\ \A s \in Sources : Present(s) => Selected.journal[s] # EmptyTree
  /\ journal' = Selected.journal
  /\ todo' = {s \in Sources : Present(s)}
  /\ pc' = "cleanSource"
  /\ UNCHANGED <<durable, mem, queued, cleaning, history>>

\* "Missing old entries are safe; new or changed entries must never be
\* silently discarded."
CheckSource_Trusting(s) == \* faulty: the source is taken to be as it was copied
  /\ pc = "cleanSource" /\ cleaning = {} /\ s \in todo
  /\ cleaning' = {s}
  /\ UNCHANGED <<durable, pc, mem, queued, journal, todo, history>>
CheckSource(s) ==
  /\ pc = "cleanSource" /\ cleaning = {} /\ s \in todo
  /\ \A p \in Paths : legacy[s][p] # Absent => legacy[s][p] = journal[s][p]
  /\ cleaning' = {s}
  /\ UNCHANGED <<durable, pc, mem, queued, journal, todo, history>>

\* source.cleanup() deletes entries one by one; a crash may leave some.
RemoveEntry(s, p) ==
  /\ s \in cleaning /\ legacy[s][p] # Absent
  /\ legacy' = [legacy EXCEPT ![s][p] = Absent]
  /\ UNCHANGED <<control, gens, local, history>>

SourceRemoved(s) ==
  /\ s \in cleaning /\ ~Present(s)
  /\ todo' = todo \ {s} /\ cleaning' = {}
  /\ UNCHANGED <<durable, pc, mem, queued, journal, history>>

Ready ==
  /\ pc = "cleanSource" /\ todo = {} /\ cleaning = {}
  /\ control' = [control EXCEPT !.phase = "ready"]
  /\ pc' = "open"
  /\ UNCHANGED <<gens, legacy, mem, queued, journal, todo, cleaning, history>>

-----------------------------------------------------------------------------
(* The opened vault, reset, and the world outside                            *)

\* A caller saves through the vault (EncryptedStore and TextFile say how).
Save(p, c) ==
  /\ pc = "open"
  /\ mem' = [mem EXCEPT ![p] = c]
  /\ gens' = [gens EXCEPT ![control.generation].files[p] = c]
  /\ mine' = [mine EXCEPT ![p] = c]
  /\ UNCHANGED <<control, legacy, pc, queued, journal, todo, cleaning, due>>

\* reset() of an open vault, or resetBrowserVault(): the user has confirmed.
Reset ==
  /\ pc \in {"idle", "open"}
  /\ pc' = "erase"
  /\ due' = [s \in Sources |-> EmptyTree] /\ mine' = EmptyTree
  /\ UNCHANGED <<durable, mem, queued, journal, todo, cleaning>>

\* eraseBrowserStorage: backings one after another, the bootstrap last.
\* Whatever a legacy source holds then is what the user agreed to lose.
EraseBacking ==
  /\ pc = "erase"
  /\ \/ \E g \in Gens : /\ gens[g] # Missing
                        /\ gens' = [gens EXCEPT ![g] = Missing] /\ UNCHANGED legacy
     \/ \E s \in Sources : /\ Present(s)
                           /\ legacy' = [legacy EXCEPT ![s] = EmptyTree] /\ UNCHANGED gens
  /\ due' = [s \in Sources |-> [p \in Paths |->
               IF legacy'[s][p] = Absent THEN Absent ELSE due[s][p]]]
  /\ UNCHANGED <<control, local, mine>>

EraseControl_Early == \* faulty: the bootstrap goes with the others
  /\ pc = "erase"
  /\ control' = NoControl
  /\ UNCHANGED <<gens, legacy, local, history>>
EraseControl ==
  /\ pc = "erase"
  /\ \A g \in Gens : gens[g] = Missing
  /\ \A s \in Sources : ~Present(s)
  /\ control' = NoControl /\ pc' = "idle"
  /\ UNCHANGED <<gens, legacy, mem, queued, journal, todo, cleaning, history>>

\* The step throws, the tab dies, or the vault is closed: the locks are
\* released and memory is forgotten.
Stop ==
  /\ pc # "idle"
  /\ pc' = "idle" /\ mem' = EmptyTree /\ queued' = {}
  /\ journal' = NoJournal /\ todo' = {} /\ cleaning' = {}
  /\ UNCHANGED <<durable, history>>

\* An older tab changes a legacy source.  It holds the legacy writer lock,
\* which the vault takes too, unless it ignores that lock.
LegacyWrite(s, p, c) ==
  /\ pc = "idle" \/ LegacyIgnoresLock
  /\ legacy' = [legacy EXCEPT ![s][p] = c]
  /\ due' = [due EXCEPT ![s][p] = c]
  /\ UNCHANGED <<control, gens, local, mine>>

Next ==
  \/ Open \/ RemoveStale \/ Select \/ Create \/ JournalWrite \/ Verify \/ Commit
  \/ Mount \/ BeginCleanup \/ Ready \/ Reset \/ EraseBacking \/ EraseControl \/ Stop
  \/ \E s \in Sources : CopySource(s) \/ CheckSource(s) \/ SourceRemoved(s)
  \/ \E p \in Paths : Persist(p)
  \/ \E s \in Sources, p \in Paths : RemoveEntry(s, p)
  \/ \E p \in Paths, c \in Content : Save(p, c)
  \/ \E s \in Sources, p \in Paths, c \in Content : LegacyWrite(s, p, c)

Spec == Init /\ [][Next]_vars

-----------------------------------------------------------------------------
(* Properties                                                                *)

TypeOK ==
  /\ control \in Control \cup {NoControl}
  /\ gens \in [Gens -> Generation \cup {Missing}]
  /\ legacy \in Inventory /\ due \in Inventory
  /\ pc \in {"idle", "remove", "select", "create", "copy", "verify", "commit",
             "mount", "clean", "cleanSource", "open", "erase"}
  /\ mem \in Tree /\ mine \in Tree /\ queued \subseteq Paths
  /\ journal \in Inventory \cup {NoJournal}
  /\ todo \subseteq Sources /\ cleaning \subseteq Sources

\* What the selected generation would give a later open.
InVault(p, c) == Committed /\ Selected # Missing /\ Selected.files[p] = c

\* No legacy entry disappears unless the committed generation holds it, or
\* what was saved over it in the vault; whatever crashes, fails or appears
\* between two steps ("removed only after an encrypted generation has been
\* durably committed", browser-vault.ts:4-5).
LegacyKept ==
  \A s \in Sources, p \in Paths : due[s][p] # Absent =>
    \/ legacy[s][p] = due[s][p]
    \/ InVault(p, due[s][p])
    \/ mine[p] # Absent /\ InVault(p, mine[p])

\* What was saved in the vault stays in the generation every later open
\* selects: none replaces it by an empty or a newly migrated one.
SavesKept == \A p \in Paths : mine[p] # Absent => InVault(p, mine[p])

\* "Keep the encryption-required bootstrap until every backing has gone"
\* (browser-vault.ts:507-508): without it there is no generation either.
BootstrapOutlivesBackings == control = NoControl => \A g \in Gens : gens[g] = Missing

\* "new or changed entries must never be silently discarded"
\* (browser-vault.ts:196-197): cleanup deletes an entry only as the journal
\* recorded it.
ChangesNeverDiscarded ==
  [][pc = "cleanSource" => \A s \in Sources, p \in Paths :
       legacy[s][p] # Absent /\ legacy'[s][p] = Absent => legacy[s][p] = journal[s][p]]_vars

\* Migration is over only when no plaintext entry is left.
ReadyMeansClean ==
  [][Ready => \A s \in Sources : ~Present(s)]_vars

\* Two copies never race for the disk: an interrupted copy is removed before
\* the next one starts, so at most the selected generation exists.
OnlySelectedGeneration ==
  \A g \in Gens : gens[g] # Missing => control # NoControl /\ control.generation = g
=============================================================================
