------------------------------ MODULE FileBuffer ------------------------------
(* One open file of the editor: FileBuffer (src/src/host/file-buffer.ts), the  *)
(* drafts that outlive its unmount (src/examples/artipod-spa/lib/services/     *)
(* editor-drafts.ts) and the component that binds them (src/examples/          *)
(* artipod-spa/components/Editor.tsx).  Reads and writes of the file system    *)
(* are awaited: the text is taken from the disk, or reaches it, at one moment  *)
(* and the buffer is changed at a later one, while the user types and others   *)
(* write the file.  Reads come back in the order they were issued; a second    *)
(* save waits for the first, as a user does.  A deleted file reads as "".      *)
EXTENDS Naturals, Sequences

CONSTANTS Texts,      \* texts of the file, the empty one included
          MaxReads,   \* bound: external changes whose reads are pending
          None

Draft == [content : Texts, base : Texts]

FileBufferAssumption ==
    Texts # {} /\ None \notin Texts /\ None \notin Draft /\ MaxReads \in Nat \ {0}

VARIABLES disk,      \* the text of the file
          phase,     \* "closed", "opening", "open": the mounted component
          content, saved, changed,   \* _content, _savedContent, _externallyChanged
          loaded,    \* what the read of open or reload returned, None before
          reloading, \* reload has been asked for
          reads,     \* handleExternalChange calls: the text read, or None
          save,      \* the pending save: what it writes, how far it is, its buffer
          draft,     \* MemoryEditorDrafts.drafts: content and savedContent, or None
          bound,     \* attach's savedContent, bufferSavedContent, changedWhileClosed
          typed,     \* history: the user's text that is neither saved nor discarded
          seen,      \* history: the file as the user last saw or saved it
          missed     \* history: the buffer's own calls overlapped a change, or a read failed

vars == <<disk, phase, content, saved, changed, loaded, reloading, reads, save, draft, bound,
          typed, seen, missed>>

NoSave == [pc |-> "none", text |-> None, live |-> FALSE]

Init ==
    /\ disk \in Texts
    /\ phase = "closed"
    /\ content = disk /\ saved = disk /\ changed = FALSE
    /\ loaded = None
    /\ reloading = FALSE
    /\ reads = <<>>
    /\ save = NoSave
    /\ draft = None
    /\ bound = [base |-> disk, saved |-> disk, stale |-> FALSE]
    /\ typed = None
    /\ seen = disk
    /\ missed = FALSE

buffer == <<content, saved, changed>>

Dirty == content # saved

\* A listener runs after every change of the buffer: attach's update.
Update(b) ==
    LET moved == saved' # b.saved
        base == IF moved THEN saved' ELSE b.base
        stale == IF moved THEN FALSE ELSE b.stale
    IN  IF content' # saved'
        THEN /\ draft' = [content |-> content', base |-> base]
             /\ bound' = [base |-> base, saved |-> saved', stale |-> stale]
        ELSE /\ draft' = None
             /\ bound' = [base |-> content', saved |-> saved', stale |-> FALSE]

-----------------------------------------------------------------------------
(* Open, close *)

Open ==
    /\ phase = "closed"
    /\ phase' = "opening"
    /\ loaded' = None
    /\ missed' = (save # NoSave)
    /\ UNCHANGED <<disk, buffer, reloading, reads, save, draft, bound, typed, seen>>

\* The read of open or of reload takes the text.
LoadRead ==
    /\ phase = "opening" \/ reloading
    /\ loaded = None
    /\ loaded' = disk
    /\ UNCHANGED <<disk, phase, buffer, reloading, reads, save, draft, bound, typed, seen, missed>>

\* A draft is compared with what the file holds when it comes back.
Base_Fresh == loaded

\* The draft's own base, not what the file holds now, is what it is compared with.
Base == IF draft = None THEN loaded ELSE draft.base

\* The buffer subscribes and the draft is put back into it.
Attach ==
    /\ phase = "opening"
    /\ loaded # None
    /\ phase' = "open"
    /\ content' = IF draft = None THEN loaded ELSE draft.content
    /\ saved' = loaded
    /\ changed' = FALSE
    /\ loaded' = None
    /\ Update([base |-> Base, saved |-> loaded, stale |-> Base # loaded])
    /\ typed' = IF content' = saved' THEN None ELSE typed
    /\ seen' = IF content' = saved' THEN loaded ELSE seen
    /\ UNCHANGED <<disk, reloading, reads, save, missed>>

\* The component is unmounted; a save goes on, its buffer has no listeners.
Close ==
    /\ phase # "closed"
    /\ phase' = "closed"
    /\ loaded' = None
    /\ reloading' = FALSE
    /\ reads' = <<>>
    /\ save' = [save EXCEPT !.live = FALSE]
    /\ UNCHANGED <<disk, buffer, draft, bound, typed, seen, missed>>

-----------------------------------------------------------------------------
(* The user *)

\* setContent.
Type(t) ==
    /\ phase = "open"
    /\ t # content
    /\ content' = t
    /\ UNCHANGED <<saved, changed>>
    /\ Update(bound)
    /\ typed' = IF t = saved THEN None ELSE t
    /\ seen' = IF t = saved THEN t ELSE seen
    /\ UNCHANGED <<disk, phase, loaded, reloading, reads, save, missed>>

\* save: the content of the moment is what is written.
SaveBegin ==
    /\ phase = "open"
    /\ save = NoSave
    /\ save' = [pc |-> "write", text |-> content, live |-> TRUE]
    /\ missed' = (missed \/ reads # <<>> \/ reloading)
    /\ UNCHANGED <<disk, phase, buffer, loaded, reloading, reads, draft, bound, typed, seen>>

\* The write reaches the disk, or fails and the draft stays.
SaveWrite ==
    /\ save.pc = "write"
    /\ \/ disk' = save.text /\ save' = [save EXCEPT !.pc = "written"]
       \/ disk' = disk /\ save' = NoSave
    /\ UNCHANGED <<phase, buffer, loaded, reloading, reads, draft, bound, typed, seen, missed>>

\* save goes on: newer keystrokes stay dirty.
SaveDone ==
    /\ save.pc = "written"
    /\ save' = NoSave
    /\ IF save.live
       THEN /\ saved' = save.text
            /\ changed' = FALSE
            /\ content' = content
            /\ Update(bound)
            /\ typed' = IF content = save.text THEN None ELSE typed
            /\ seen' = save.text
       ELSE UNCHANGED <<buffer, draft, bound, typed, seen>>
    /\ UNCHANGED <<disk, phase, loaded, reloading, reads, missed>>

ReloadBegin ==
    /\ phase = "open" /\ ~reloading
    /\ reloading' = TRUE
    /\ loaded' = None
    /\ missed' = (missed \/ reads # <<>> \/ save # NoSave)
    /\ UNCHANGED <<disk, phase, buffer, reads, save, draft, bound, typed, seen>>

\* The text of the file replaces the content, and what was typed meanwhile.
ReloadDone ==
    /\ phase = "open" /\ reloading /\ loaded # None
    /\ reloading' = FALSE
    /\ content' = loaded /\ saved' = loaded /\ changed' = FALSE
    /\ loaded' = None
    /\ Update(bound)
    /\ typed' = None
    /\ seen' = content'
    /\ UNCHANGED <<disk, phase, reads, save, missed>>

-----------------------------------------------------------------------------
(* Others write the file *)

\* fs:changed reaches an open buffer, which starts to read.
External(t) ==
    /\ t # disk
    /\ Len(reads) < MaxReads
    /\ disk' = t
    /\ reads' = IF phase = "open" THEN Append(reads, None) ELSE reads
    /\ missed' = (missed \/ reloading \/ save # NoSave \/ phase = "opening")
    /\ UNCHANGED <<phase, buffer, loaded, reloading, save, draft, bound, typed, seen>>

\* The oldest read that has no text yet takes it.
ReadText ==
    /\ \E i \in DOMAIN reads :
         /\ reads[i] = None
         /\ \A j \in 1..(i - 1) : reads[j] # None
         /\ reads' = [reads EXCEPT ![i] = disk]
    /\ UNCHANGED <<disk, phase, buffer, loaded, reloading, save, draft, bound, typed, seen, missed>>

\* A locked or broken file system: the buffer keeps what it has.
ReadFails ==
    /\ reads # <<>> /\ reads[1] = None
    /\ reads' = Tail(reads)
    /\ missed' = TRUE
    /\ UNCHANGED <<disk, phase, buffer, loaded, reloading, save, draft, bound, typed, seen>>

\* The buffer is loaded whether or not it is dirty.
Applied_Clobbers ==
    /\ content' = reads[1] /\ saved' = reads[1] /\ changed' = FALSE

\* handleExternalChange goes on: reload if clean, flag if dirty.
Applied ==
    IF Dirty
    THEN changed' = TRUE /\ UNCHANGED <<content, saved>>
    ELSE content' = reads[1] /\ saved' = reads[1] /\ changed' = FALSE

ApplyRead ==
    /\ reads # <<>> /\ reads[1] # None
    /\ reads' = Tail(reads)
    /\ IF reads[1] = saved
       THEN UNCHANGED <<buffer, draft, bound, seen>>
       ELSE Applied /\ Update(bound) /\ seen' = IF Dirty THEN seen ELSE reads[1]
    /\ UNCHANGED <<disk, phase, loaded, reloading, save, typed, missed>>

Next ==
    \/ Open \/ LoadRead \/ Attach \/ Close
    \/ \E t \in Texts : Type(t) \/ External(t)
    \/ SaveBegin \/ SaveWrite \/ SaveDone \/ ReloadBegin \/ ReloadDone
    \/ ReadText \/ ReadFails \/ ApplyRead

Spec == Init /\ [][Next]_vars

-----------------------------------------------------------------------------
(* Properties *)

TypeOK ==
    /\ {disk, content, saved, seen} \subseteq Texts
    /\ typed \in Texts \cup {None}
    /\ draft \in Draft \cup {None}

\* Text that the user typed and neither saved nor discarded is in the buffer or,
\* while the editor is unmounted, among the drafts: no external change, failed
\* save or remount replaces it.
TypedTextKept ==
    typed # None => IF phase = "open" THEN content = typed
                    ELSE draft # None /\ draft.content = typed

\* Once the reads are in, and unless a call of the buffer itself overlapped a
\* change, a clean buffer shows the file and the file is what the user last saw
\* under a dirty one, or the editor says that it changed (file-buffer.ts:74,
\* "warn, don't clobber"), also when it changed while unmounted.
Quiet == phase = "open" /\ reads = <<>> /\ save = NoSave /\ ~reloading
ChangesShow ==
    Quiet /\ ~missed => changed \/ bound.stale \/ disk = (IF Dirty THEN seen ELSE content)

=============================================================================
