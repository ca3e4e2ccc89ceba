------------------------------- MODULE Backends -------------------------------
(* The unencrypted file system of a page and its backing stores: boot, the     *)
(* adoption of what earlier builds left, and the move to another backend       *)
(* (src/src/sandbox/storage.ts).  Earlier builds wrote to the root of OPFS or  *)
(* to an IndexedDB store of another name.                                      *)
(*                                                                             *)
(* One tab at a time; between any two steps it may end.  Left out: the memory  *)
(* backend, which has nothing to lose, mounts elsewhere than at /, symbolic    *)
(* links, which copyTree skips, a boot without OPFS, and a caller that goes on *)
(* after a migration instead of reloading the page.                            *)
EXTENDS Naturals

CONSTANTS Files,
          MaxEdits,      \* bounds: edits and migrations
          MaxMigrations

BackendsAssumption == MaxEdits \in Nat /\ MaxMigrations \in Nat

Backings == {"opfs", "indexeddb"}              \* what is mounted at /
Stores == Backings \cup {"root", "legacy"}     \* and what earlier builds used

VARIABLES store,   \* per store and file its version, 0 for none
          marked,  \* backings with another entry: /repo, or a mount point that was left
          pref,    \* the preference; "none" means opfs
          page,    \* step; the backing; source, target, list and todo of a copy
          edits, migrations,
          shown,   \* history: what the user has seen and done
          whole,   \* history: no adoption was cut off, no migration found files there
          raced    \* history: an edit came during a migration

vars == <<store, marked, pref, page, edits, migrations, shown, whole, raced>>

Data == <<store, marked, pref>>
Bounds == <<edits, migrations>>
History == <<shown, whole, raced>>

Held(s) == {f \in Files : store[s][f] # 0}
Chosen == IF pref = "none" THEN "opfs" ELSE pref
Other(b) == IF b = "opfs" THEN "indexeddb" ELSE "opfs"
Closed == [step |-> "closed", backing |-> "none", source |-> "none", target |-> "none",
           list |-> {}, todo |-> {}]

\* readdir("/").length = 0
Untouched(b) == Held(b) = {} /\ b \notin marked

\* What the first boot is to show.
Expected ==
    store[IF Chosen = "opfs" /\ Held("root") # {} THEN "root"
          ELSE IF ~Untouched(Chosen) THEN Chosen
          ELSE IF ~Untouched("indexeddb") THEN "indexeddb" ELSE "legacy"]

Version == [legacy |-> 1, indexeddb |-> 2, opfs |-> 3, root |-> 3]

\* A backing that was booted before has files or /repo; the root of OPFS is used
\* by builds that know nothing of artipod-fs.
Init ==
    /\ marked \in SUBSET Backings
    /\ \E held \in [Stores -> SUBSET Files] :
         /\ \A b \in Backings : held[b] # {} => b \in marked
         /\ held["root"] # {} => "opfs" \notin marked
         /\ store = [s \in Stores |-> [f \in Files |-> IF f \in held[s] THEN Version[s] ELSE 0]]
    /\ pref \in {"none"} \cup Backings
    /\ page = Closed /\ edits = 0 /\ migrations = 0
    /\ shown = Expected /\ whole = TRUE /\ raced = FALSE

-------------------------------------------------------------------------------
(* Boot *)

\* initFileSystem; for OPFS, opfsSandboxDir lists the old root.
Boot ==
    /\ page.step = "closed"
    /\ page' = [Closed EXCEPT !.step = "move", !.backing = Chosen,
                              !.todo = IF Chosen = "opfs" THEN Held("root") ELSE {}]
    /\ UNCHANGED <<Data, Bounds, History>>

Copies(from, to, f) == store' = [store EXCEPT ![to][f] = store[from][f]]

Moving == page.step \in {"move", "aside"}

\* moveLegacyRootEntries: each entry is copied, then removed.
Move(f) ==
    /\ Moving /\ f \in page.todo /\ store["opfs"][f] # store["root"][f]
    /\ Copies("root", "opfs", f)
    /\ UNCHANGED <<marked, pref, page, Bounds, History>>

\* Removes an entry that is not copied yet.
MayRemove_Early(f) == f \in page.todo

MayRemove(f) == f \in page.todo /\ store["opfs"][f] = store["root"][f]

Remove(f) ==
    /\ Moving /\ MayRemove(f)
    /\ store' = [store EXCEPT !["root"][f] = 0]
    /\ page' = [page EXCEPT !.todo = @ \ {f}]
    /\ UNCHANGED <<marked, pref, Bounds, History>>

\* adoptExistingData that does not look whether the root is untouched.
Adopts_Always(b) == TRUE

Adopts(b) == Untouched(b)

Mounted ==
    /\ page.step = "move" /\ page.todo = {}
    /\ page' = IF Adopts(page.backing)
               THEN [page EXCEPT !.step = "adopt", !.source = IF page.backing = "opfs" THEN "indexeddb" ELSE "legacy"]
               ELSE [page EXCEPT !.step = "adopted"]
    /\ UNCHANGED <<Data, Bounds, History>>

\* adoptFromIdbStore: a directory is made in the root and the store mounted there.
Adopt ==
    /\ page.step = "adopt"
    /\ marked' = marked \cup {page.backing}
    /\ page' = [page EXCEPT !.step = "copy", !.target = page.backing, !.todo = Held(page.source)]
    /\ UNCHANGED <<store, pref, Bounds, History>>

\* copyTree, for an adoption and for a migration.
Copy(f) ==
    /\ page.step \in {"copy", "migrate"} /\ f \in page.todo
    /\ store[page.source][f] # 0
    /\ Copies(page.source, page.target, f)
    /\ page' = [page EXCEPT !.todo = @ \ {f}]
    /\ UNCHANGED <<marked, pref, Bounds, History>>

\* The copy is verified; an empty store leads to the next one.  rmdir may fail.
Copied ==
    /\ page.step = "copy" /\ page.todo = {}
    /\ marked' \in {marked, marked \ {page.backing}}
    /\ page' = IF page.source = "indexeddb" /\ Untouched("indexeddb")
               THEN [page EXCEPT !.step = "adopt", !.source = "legacy"]
               ELSE [page EXCEPT !.step = "adopted"]
    /\ UNCHANGED <<store, pref, Bounds, History>>

\* /repo is there.
Booted ==
    /\ page.step = "adopted"
    /\ marked' = marked \cup {page.backing}
    /\ page' = [Closed EXCEPT !.step = "open", !.backing = page.backing]
    /\ UNCHANGED <<store, pref, Bounds, History>>

\* The page ends, or a step fails and the boot with it, which removes the mount
\* point.  Only an untouched root is looked at again.
Stop ==
    /\ page.step # "closed" /\ page' = Closed
    /\ marked' \in {marked} \cup (IF page.step = "copy" THEN {marked \ {page.backing}} ELSE {})
    /\ whole' = (whole /\ page.step # "copy" /\ (page.step = "adopt" => page.backing \notin marked))
    /\ UNCHANGED <<store, pref, Bounds, shown, raced>>

-------------------------------------------------------------------------------
(* Use *)

InMigration == page.step \in {"aside", "migrate"}

\* The user writes or deletes a file, also while a migration runs.
Edit(f, new) ==
    /\ page.step = "open" \/ InMigration
    /\ edits < MaxEdits /\ edits' = edits + 1
    /\ store' = [store EXCEPT ![page.backing][f] = new]
    /\ shown' = [shown EXCEPT ![f] = new]
    /\ raced' = (raced \/ InMigration)
    /\ UNCHANGED <<marked, pref, page, migrations, whole>>

\* migrateStorage: to mount OPFS is to look at its old root again.
Migrate ==
    /\ page.step = "open" /\ migrations < MaxMigrations
    /\ migrations' = migrations + 1
    /\ LET to == Other(page.backing)
       IN  page' = [page EXCEPT !.step = "aside", !.source = page.backing, !.target = to,
                                !.todo = IF to = "opfs" THEN Held("root") ELSE {}]
    /\ UNCHANGED <<Data, edits, History>>

\* The live tree is walked.
Walk ==
    /\ page.step = "aside" /\ page.todo = {}
    /\ page' = [page EXCEPT !.step = "migrate", !.list = Held(page.source), !.todo = Held(page.source)]
    /\ UNCHANGED <<Data, Bounds, History>>

\* A file is gone or of another size, or a step fails; the page goes on.
MigrateFails ==
    /\ InMigration
    /\ page' = [Closed EXCEPT !.step = "open", !.backing = page.backing]
    /\ UNCHANGED <<Data, Bounds, History>>

\* Every file of the list is there with the same size, which an edit need not have
\* changed; the preference is saved, and the page is loaded again.
Flip ==
    /\ page.step = "migrate" /\ page.todo = {} /\ page.list \subseteq Held(page.source)
    /\ pref' = page.target /\ marked' = marked \cup {page.target}   \* /repo was copied
    /\ whole' = (whole /\ Held(page.target) \subseteq page.list)
    /\ page' = Closed
    /\ UNCHANGED <<store, Bounds, shown, raced>>

Next ==
    \/ Boot \/ Mounted \/ Adopt \/ Copied \/ Booted \/ Stop \/ Migrate \/ Walk \/ MigrateFails \/ Flip
    \/ \E f \in Files : Move(f) \/ Remove(f) \/ Copy(f) \/ \E new \in {0, 4 + edits} : Edit(f, new)

Spec == Init /\ [][Next]_vars

-------------------------------------------------------------------------------
(* Properties *)

TypeOK ==
    /\ store \in [Stores -> [Files -> 0..(3 + MaxEdits)]]
    /\ marked \subseteq Backings /\ pref \in {"none"} \cup Backings
    /\ page.todo \cup page.list \subseteq Files

\* Whatever is cut off, and however often: what the user saw or wrote last is still
\* in one of the stores, and an open page shows it, nothing more and nothing less,
\* unless an adoption was cut off, a migration found files in its target, or the
\* user wrote during one.
FilesKept ==
    ~raced =>
      /\ \A f \in Files : shown[f] # 0 => \E s \in Stores : store[s][f] = shown[f]
      /\ whole /\ page.step = "open" => store[page.backing] = shown

===============================================================================
