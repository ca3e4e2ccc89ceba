-------------------------------- MODULE Uppers --------------------------------
(* A workspace's saved edits move into the encrypted storage:                  *)
(* openWorkspaceUpper (src/src/storage/workspace.ts).  The old copy is a tree  *)
(* of files or a store of blocks, the new one a tree that is committed by the  *)
(* marker `ready'.  Storage persists writes in order and at the latest at a    *)
(* flush (EncryptedStore), so that a crash leaves some state since the last    *)
(* one.  A workspace is opened by one caller at a time (Workspaces).           *)
(*                                                                             *)
(* Left out: modes, times and links, and a session without encryption, which   *)
(* refuses blocks.                                                             *)
EXTENDS FiniteSets

CONSTANTS Files,   \* files of the old copy
          Edits    \* files that the user adds afterwards

UppersAssumption == Files \cap Edits = {} /\ {".", "0"} \cap (Files \cup Edits) = {}

VARIABLES now,    \* the storage: tree, blocks and dest as sets of entries, "." being
                  \*   the directory and "0" the root block; ready, the marker
          maybe,  \* what a crash could leave instead
          step,   \* where the opening stands
          source, \* the old copy that it reads
          first,  \* history: the storage at first
          saved   \* history: the edits that were flushed

vars == <<now, maybe, step, source, first, saved>>

Copies == {{}, {"."} \cup Files}
Blocks == Copies \cup {{".", "0"} \cup Files}

Init ==
    /\ now \in [tree : Copies, blocks : Blocks, dest : {{}}, ready : {"none"}]
    /\ maybe = {} /\ step = "idle" /\ source = "none" /\ first = now /\ saved = {}

Write(s) == now' = s /\ maybe' = maybe \cup {now}
Persist == maybe' = {} /\ UNCHANGED now
Store == <<now, maybe>>

\* A damaged source or two sources are refused: neither is opened.
Readable == now.tree = {} \/ now.blocks = {}
Sound == now.blocks # {} => "0" \in now.blocks

\* isCommitted that takes a directory for a complete one.
Committed_Exists == now.dest # {}

Committed == now.ready = "one"

\* The marker says that the new copy is complete, unless its directory is gone.
Resume ==
    /\ step = "idle" /\ Committed /\ "." \in now.dest
    /\ step' = "retire" /\ UNCHANGED <<Store, source, first, saved>>

\* Discard what an earlier attempt has left, and make a new directory.
Stage ==
    /\ step = "idle" /\ ~Committed /\ now.ready # "empty" /\ Readable /\ Sound
    /\ Write([now EXCEPT !.dest = {"."}])
    /\ source' = IF now.tree # {} THEN "tree" ELSE IF now.blocks # {} THEN "blocks" ELSE "none"
    /\ step' = "copy" /\ UNCHANGED <<first, saved>>

Rest == IF source = "none" THEN {} ELSE (now[source] \cap Files) \ now.dest

Copy(f) ==
    /\ step = "copy" /\ f \in Rest
    /\ Write([now EXCEPT !.dest = @ \cup {f}])
    /\ UNCHANGED <<step, source, first, saved>>

Copied ==
    /\ step = "copy" /\ Rest = {} /\ Persist
    /\ step' = "mark" /\ UNCHANGED <<source, first, saved>>

\* writeFile creates the marker and then fills it.
Mark ==
    /\ step = "mark"
    /\ IF now.ready = "none" THEN Write([now EXCEPT !.ready = "empty"]) /\ UNCHANGED step
       ELSE Write([now EXCEPT !.ready = "one"]) /\ step' = "marked"
    /\ UNCHANGED <<source, first, saved>>

Marked == step = "marked" /\ Persist /\ step' = "retire" /\ UNCHANGED <<source, first, saved>>

\* rm -r of the old copies, of a directory last.
Retire(old, e) ==
    /\ step = "retire" /\ e \in now[old] /\ (old = "blocks" => now.tree = {})
    /\ e = "." => now[old] = {"."}
    /\ Write([now EXCEPT ![old] = @ \ {e}])
    /\ UNCHANGED <<step, source, first, saved>>

Opened ==
    /\ step = "retire" /\ now.tree = {} /\ now.blocks = {} /\ Persist
    /\ step' = "open" /\ UNCHANGED <<source, first, saved>>

Edit(e) ==
    /\ step = "open" /\ e \notin now.dest
    /\ Write([now EXCEPT !.dest = @ \cup {e}])
    /\ UNCHANGED <<step, source, first, saved>>

Flush ==
    /\ step = "open" /\ maybe # {} /\ Persist
    /\ saved' = now.dest \cap Edits
    /\ UNCHANGED <<step, source, first>>

\* A step fails or the workspace closes; what was written may still be persisted.
Stop ==
    /\ step # "idle" /\ step' = "idle"
    /\ UNCHANGED <<Store, source, first, saved>>

Crash ==
    /\ now' \in maybe \cup {now} /\ maybe' = {}
    /\ step' = "idle" /\ UNCHANGED <<source, first, saved>>

Next ==
    \/ Resume \/ Stage \/ Copied \/ Mark \/ Marked \/ Opened \/ Flush \/ Stop \/ Crash
    \/ \E f \in Files : Copy(f)
    \/ \E old \in {"tree", "blocks"} : \E e \in Files \cup {".", "0"} : Retire(old, e)
    \/ \E e \in Edits : Edit(e)

Spec == Init /\ [][Next]_vars

-------------------------------------------------------------------------------
(* Properties *)

TypeOK ==
    /\ {now, first} \cup maybe \subseteq
         [tree : SUBSET (Files \cup {"."}), blocks : SUBSET (Files \cup {".", "0"}),
          dest : SUBSET (Files \cup Edits \cup {"."}), ready : {"none", "empty", "one"}]
    /\ step \in {"idle", "copy", "mark", "marked", "retire", "open"}
    /\ source \in {"none", "tree", "blocks"} /\ saved \subseteq Edits

Old(s) == (s.tree \cup s.blocks) \cap Files

\* In whatever a crash could leave, the old copy is untouched until the new one is
\* complete and committed, and saved edits stay; a workspace that opens shows
\* both; two old copies, or one that is damaged, are never touched.
UppersKept ==
    /\ \A s \in maybe \cup {now} :
         IF s.ready = "one" THEN Old(first) \cup saved \subseteq s.dest
         ELSE s.tree = first.tree /\ s.blocks = first.blocks
    /\ step = "open" => Old(first) \cup saved \subseteq now.dest
    /\ (first.tree # {} /\ first.blocks # {}) \/ (first.blocks # {} /\ "0" \notin first.blocks)
         => now = first
===============================================================================
