--------------------------- MODULE TextFileProofs ---------------------------
(***************************************************************************)
(* TextFile for every set of texts: type correctness, SavedTextSurvives,   *)
(* NoDanglingName, and the refinement of DurableText.                      *)
(*                                                                         *)
(* SavedTextSurvives is not inductive: that moving a name loses nothing    *)
(* depends on what the other name holds at that step, and that a persisted *)
(* block changes nothing visible depends on how far the cache is ahead of  *)
(* the disk.  Shape, Ahead and Settled record exactly that.                *)
(***************************************************************************)
EXTENDS TextFile, TLAPS

\* What the two reserved names and the temporary hold when a step is about
\* to be taken (in the cache: the block write before may be in flight).
Shape ==
  /\ pc \in WriteSteps =>
       /\ request \in attempted
       /\ cache["retired"] \in {NoFile, Torn} \/ pc = "unlink"
  /\ pc \in {"look", "recover", "retire", "unlink", "keep", "publish"} =>
       cache["temporary"] = request
  /\ pc = "recover" => ~Present(cache["path"]) /\ Present(cache["previous"])
  /\ pc = "retire" => Present(cache["path"]) /\ Present(cache["previous"])
  /\ pc \in {"unlink", "keep"} => Present(cache["path"]) /\ ~Present(cache["previous"])
  /\ pc = "publish" => ~Present(cache["path"])
  /\ pc = "ack" => cache["path"] = request
  /\ pc = "readPrevious" => ~Present(cache["path"])

\* With no block write in flight and none failed, cache and disk agree.
Settled == ~dirty /\ ~failed => cache = disk

\* A block write in flight shows what the disk shows, or publishes.
Ahead == dirty => \/ Visible(cache) = Visible(disk)
                  \/ pc = "ack" /\ Visible(cache) = request

DirtyStep == /\ dirty => ~failed /\ pc \in WriteSteps
             /\ failed => pc \in {"idle", "create"} \cup ReadSteps

IInv == TypeOK /\ SavedTextSurvives /\ NoDanglingName
        /\ Shape /\ Settled /\ Ahead /\ DirtyStep

-----------------------------------------------------------------------------

LEMMA InitIInv == Init => IInv
<1> SUFFICES ASSUME Init PROVE IInv
  OBVIOUS
<1> USE ConstantsDiffer DEF Init
<1>1. cache \in [Names -> Content] /\ \A n \in Names : cache[n] = NoFile
  BY DEF Content
<1>2. TypeOK
  <2>1. queue \in Seq(Requests) /\ request \in Requests
    BY DEF Requests
  <2>2. seen \in Content /\ acked \in Text \cup {NoFile} /\ attempted \subseteq Text
    BY DEF Content
  <2>3. disk \in [Names -> Content] /\ dirty \in BOOLEAN /\ failed \in BOOLEAN /\ access \in BOOLEAN
    BY <1>1
  <2>4. pc \in {"idle"} \cup ReadSteps \cup WriteSteps
    OBVIOUS
  <2> QED BY <1>1, <2>1, <2>2, <2>3, <2>4 DEF TypeOK
<1>3. SavedTextSurvives /\ NoDanglingName
  BY <1>1 DEF SavedTextSurvives, NoDanglingName, Visible, Allowed, Names
<1> QED
  BY <1>2, <1>3 DEF IInv, Shape, Settled, Ahead, DirtyStep, ReadSteps, WriteSteps

\* What holds of a step that writes one block without changing what is
\* visible, or publishing: the part all file-system steps share.
LEMMA PutBlockStep ==
  ASSUME IInv, NEW dir \in [Names -> Content], PutBlock(dir),
         UNCHANGED <<access, queue, request, history>>,
         ~dirty, pc \in WriteSteps, pc' \in WriteSteps,
         dir["path"] # Torn, dir["previous"] # Torn,
         Visible(dir) = Visible(cache) \/ (pc' = "ack" /\ Visible(dir) = request)
  PROVE  TypeOK' /\ SavedTextSurvives' /\ NoDanglingName' /\ Settled' /\ Ahead' /\ DirtyStep'
<1> USE DEF IInv, PutBlock, history
<1>1. cache' = dir /\ disk' = disk /\ cache = disk /\ dirty' /\ ~failed'
  BY DEF Settled
<1>2. TypeOK'
  BY <1>1 DEF TypeOK
<1>3. Visible(cache') = Visible(dir) /\ Visible(disk') = Visible(disk) /\ Allowed' = Allowed
  BY <1>1 DEF Visible, Allowed
<1>4. SavedTextSurvives'
  BY <1>3 DEF SavedTextSurvives, Shape, Allowed, Visible
<1>5. NoDanglingName'
  BY <1>1 DEF NoDanglingName
<1>6. Ahead'
  BY <1>1, <1>3 DEF Ahead
<1> QED
  BY <1>1, <1>2, <1>4, <1>5, <1>6 DEF Settled, DirtyStep

LEMMA NextIInv == IInv /\ [Next]_vars => IInv'
<1> SUFFICES ASSUME IInv, [Next]_vars PROVE IInv'
  OBVIOUS
<1> USE ConstantsDiffer
<1>1. ASSUME NEW r \in Requests, Call(r) PROVE IInv'
  BY <1>1 DEF Call, IInv, TypeOK, SavedTextSurvives, NoDanglingName, Shape, Settled, Ahead,
    DirtyStep, Allowed, fsVars, history, Visible
<1>2. CASE Start
  <2>1. Head(queue) \in Requests /\ Tail(queue) \in Seq(Requests)
    BY <1>2 DEF Start, IInv, TypeOK
  <2>2. /\ \A n \in {"path", "previous"} : cache'[n] = cache[n] /\ disk'[n] = disk[n]
        /\ cache' \in [Names -> Content] /\ disk' \in [Names -> Content]
    BY <1>2 DEF Start, IInv, TypeOK, Names, Content
  <2>3. TypeOK'
    BY <1>2, <2>1, <2>2 DEF Start, IInv, TypeOK, Requests, ReadSteps, WriteSteps
  <2>4. SavedTextSurvives' /\ NoDanglingName'
    BY <1>2, <2>2 DEF Start, IInv, SavedTextSurvives, NoDanglingName, Allowed, Visible, Present
  <2>5. Shape' /\ DirtyStep'
    BY <1>2, <2>2 DEF Start, IInv, TypeOK, Shape, DirtyStep, ReadSteps, WriteSteps, Names
  <2>6. Settled' /\ Ahead'
    BY <1>2, <2>2 DEF Start, IInv, TypeOK, Settled, Ahead, DirtyStep, WriteSteps
  <2> QED BY <2>3, <2>4, <2>5, <2>6 DEF IInv
<1>3. CASE Abort
  BY <1>3 DEF Abort, IInv, TypeOK, SavedTextSurvives, NoDanglingName, Shape, Settled, Ahead,
    DirtyStep, Allowed, fsVars, history, Visible, ReadSteps, WriteSteps
<1>4. CASE Persist
  BY <1>4 DEF Persist, IInv, TypeOK, SavedTextSurvives, NoDanglingName, Shape, Settled, Ahead,
    DirtyStep, Allowed, history, Visible
<1>5. CASE PersistFails
  BY <1>5 DEF PersistFails, IInv, TypeOK, SavedTextSurvives, NoDanglingName, Shape, Settled,
    Ahead, DirtyStep, Allowed, history, Visible, ReadSteps, WriteSteps
<1>6. CASE WriteTemporary
  <2>1. CASE At("create") /\ CreateFile("temporary", "fill")
    <3> DEFINE dir == [cache EXCEPT !["temporary"] = Torn]
    <3>1. dir \in [Names -> Content] /\ Visible(dir) = Visible(cache)
          /\ dir["path"] = cache["path"] /\ dir["previous"] = cache["previous"]
          /\ dir["retired"] = cache["retired"]
      BY DEF IInv, TypeOK, Names, Content, Visible
    <3>2. TypeOK' /\ SavedTextSurvives' /\ NoDanglingName' /\ Settled' /\ Ahead' /\ DirtyStep'
      BY <1>6, <2>1, <3>1, PutBlockStep
      DEF WriteTemporary, At, CreateFile, IInv, NoDanglingName, WriteSteps
    <3>3. Shape'
      BY <1>6, <2>1, <3>1
      DEF WriteTemporary, At, CreateFile, PutBlock, IInv, Shape, WriteSteps, history
    <3> QED BY <3>2, <3>3 DEF IInv
  <2>2. CASE At("fill") /\ WriteFile("temporary", request, "look")
    <3> DEFINE dir == [cache EXCEPT !["temporary"] = request]
    <3>1. request \in Text
      BY <2>2 DEF IInv, TypeOK, Shape, At, WriteSteps
    <3>2. dir \in [Names -> Content] /\ Visible(dir) = Visible(cache)
          /\ dir["path"] = cache["path"] /\ dir["previous"] = cache["previous"]
          /\ dir["retired"] = cache["retired"] /\ dir["temporary"] = request
      BY <3>1 DEF IInv, TypeOK, Names, Content, Visible
    <3>3. TypeOK' /\ SavedTextSurvives' /\ NoDanglingName' /\ Settled' /\ Ahead' /\ DirtyStep'
      BY <1>6, <2>2, <3>2, PutBlockStep
      DEF WriteTemporary, At, WriteFile, IInv, NoDanglingName, WriteSteps
    <3>4. Shape'
      BY <1>6, <2>2, <3>2
      DEF WriteTemporary, At, WriteFile, PutBlock, IInv, Shape, WriteSteps, history
    <3> QED BY <3>3, <3>4 DEF IInv
  <2> QED BY <1>6, <2>1, <2>2 DEF WriteTemporary
<1>7. CASE Look
  <2>1. TypeOK' /\ SavedTextSurvives' /\ NoDanglingName' /\ Settled' /\ Ahead'
    BY <1>7 DEF Look, At, IInv, TypeOK, SavedTextSurvives, NoDanglingName, Settled, Ahead,
       Allowed, fsVars, history, Visible, ReadSteps, WriteSteps
  <2>2. Shape' /\ DirtyStep'
    BY <1>7 DEF Look, At, IInv, Shape, DirtyStep, fsVars, history, ReadSteps, WriteSteps, Present
  <2> QED BY <2>1, <2>2 DEF IInv
<1>8. CASE Recover
  <2> DEFINE dir == [cache EXCEPT !["path"] = cache["previous"], !["previous"] = NoFile]
  <2>1. cache["path"] \in {NoFile, Torn} /\ PutBlock(dir) /\ pc' = "keep" /\ ~dirty /\ pc \in WriteSteps
    BY <1>8 DEF Recover, At, Rename, IInv, Shape, Present, WriteSteps
  <2>2. dir \in [Names -> Content] /\ dir["path"] = cache["previous"] /\ dir["previous"] = NoFile
        /\ \A n \in Names \ {"previous", "path"} : dir[n] = cache[n]
    BY DEF IInv, TypeOK, Names, Content
  <2>3. dir["path"] # Torn /\ dir["previous"] # Torn
        /\ (Visible(dir) = Visible(cache) \/ (pc' = "ack" /\ Visible(dir) = request))
    BY <1>8, <2>1, <2>2 DEF Recover, At, IInv, TypeOK, Shape, NoDanglingName, Visible, Present, Names, WriteSteps
  <2>4. TypeOK' /\ SavedTextSurvives' /\ NoDanglingName' /\ Settled' /\ Ahead' /\ DirtyStep'
    BY <1>8, <2>1, <2>2, <2>3, PutBlockStep DEF Recover, WriteSteps
  <2>5. Shape'
    BY <1>8, <2>1, <2>2
    DEF Recover, At, PutBlock, IInv, TypeOK, Shape, Present, NoDanglingName, WriteSteps, Names, history
  <2> QED BY <2>4, <2>5 DEF IInv
<1>9. CASE Retire
  <2> DEFINE dir == [cache EXCEPT !["retired"] = cache["previous"], !["previous"] = NoFile]
  <2>1. cache["retired"] \in {NoFile, Torn} /\ PutBlock(dir) /\ pc' = "unlink" /\ ~dirty /\ pc \in WriteSteps
    BY <1>9 DEF Retire, At, Rename, IInv, Shape, Present, WriteSteps
  <2>2. dir \in [Names -> Content] /\ dir["retired"] = cache["previous"] /\ dir["previous"] = NoFile
        /\ \A n \in Names \ {"previous", "retired"} : dir[n] = cache[n]
    BY DEF IInv, TypeOK, Names, Content
  <2>3. dir["path"] # Torn /\ dir["previous"] # Torn
        /\ (Visible(dir) = Visible(cache) \/ (pc' = "ack" /\ Visible(dir) = request))
    BY <1>9, <2>1, <2>2 DEF Retire, At, IInv, TypeOK, Shape, NoDanglingName, Visible, Present, Names, WriteSteps
  <2>4. TypeOK' /\ SavedTextSurvives' /\ NoDanglingName' /\ Settled' /\ Ahead' /\ DirtyStep'
    BY <1>9, <2>1, <2>2, <2>3, PutBlockStep DEF Retire, WriteSteps
  <2>5. Shape'
    BY <1>9, <2>1, <2>2
    DEF Retire, At, PutBlock, IInv, TypeOK, Shape, Present, NoDanglingName, WriteSteps, Names, history
  <2> QED BY <2>4, <2>5 DEF IInv
<1>10. CASE UnlinkRetired
  <2> DEFINE dir == [cache EXCEPT !["retired"] = IF cache["retired"] = Torn THEN NoFile ELSE Torn]
  <2>1. PutBlock(dir) /\ ~dirty /\ pc = "unlink" /\ pc' \in {"unlink", "keep"}
        /\ (pc' = "keep" => cache["retired"] = Torn)
    BY <1>10 DEF UnlinkRetired, At, Unlink
  <2>2. dir \in [Names -> Content] /\ dir["retired"] \in {NoFile, Torn}
        /\ \A n \in Names \ {"retired"} : dir[n] = cache[n]
    BY DEF IInv, TypeOK, Names, Content
  <2>3. dir["path"] # Torn /\ dir["previous"] # Torn /\ Visible(dir) = Visible(cache)
    BY <2>2 DEF IInv, NoDanglingName, Visible, Names
  <2>4. TypeOK' /\ SavedTextSurvives' /\ NoDanglingName' /\ Settled' /\ Ahead' /\ DirtyStep'
    BY <1>10, <2>1, <2>2, <2>3, PutBlockStep DEF UnlinkRetired, WriteSteps
  <2>5. Shape'
    BY <1>10, <2>1, <2>2 DEF UnlinkRetired, PutBlock, IInv, Shape, Present, WriteSteps, Names, history
  <2> QED BY <2>4, <2>5 DEF IInv
<1>11. CASE Keep
  <2> DEFINE dir == [cache EXCEPT !["previous"] = cache["path"], !["path"] = NoFile]
  <2>1. cache["previous"] \in {NoFile, Torn} /\ PutBlock(dir) /\ pc' = "publish" /\ ~dirty /\ pc \in WriteSteps
    BY <1>11 DEF Keep, At, Rename, IInv, Shape, Present, WriteSteps
  <2>2. dir \in [Names -> Content] /\ dir["previous"] = cache["path"] /\ dir["path"] = NoFile
        /\ \A n \in Names \ {"path", "previous"} : dir[n] = cache[n]
    BY DEF IInv, TypeOK, Names, Content
  <2>3. dir["path"] # Torn /\ dir["previous"] # Torn
        /\ (Visible(dir) = Visible(cache) \/ (pc' = "ack" /\ Visible(dir) = request))
    BY <1>11, <2>1, <2>2 DEF Keep, At, IInv, TypeOK, Shape, NoDanglingName, Visible, Present, Names, WriteSteps
  <2>4. TypeOK' /\ SavedTextSurvives' /\ NoDanglingName' /\ Settled' /\ Ahead' /\ DirtyStep'
    BY <1>11, <2>1, <2>2, <2>3, PutBlockStep DEF Keep, WriteSteps
  <2>5. Shape'
    BY <1>11, <2>1, <2>2
    DEF Keep, At, PutBlock, IInv, TypeOK, Shape, Present, NoDanglingName, WriteSteps, Names, history
  <2> QED BY <2>4, <2>5 DEF IInv
<1>12. CASE Publish
  <2> DEFINE dir == [cache EXCEPT !["path"] = cache["temporary"], !["temporary"] = NoFile]
  <2>1. cache["path"] \in {NoFile, Torn} /\ PutBlock(dir) /\ pc' = "ack" /\ ~dirty /\ pc \in WriteSteps
    BY <1>12 DEF Publish, At, Rename, IInv, Shape, Present, WriteSteps
  <2>2. dir \in [Names -> Content] /\ dir["path"] = cache["temporary"] /\ dir["temporary"] = NoFile
        /\ \A n \in Names \ {"temporary", "path"} : dir[n] = cache[n]
    BY DEF IInv, TypeOK, Names, Content
  <2>3. dir["path"] # Torn /\ dir["previous"] # Torn
        /\ (Visible(dir) = Visible(cache) \/ (pc' = "ack" /\ Visible(dir) = request))
    BY <1>12, <2>1, <2>2 DEF Publish, At, IInv, TypeOK, Shape, NoDanglingName, Visible, Present, Names, WriteSteps
  <2>4. TypeOK' /\ SavedTextSurvives' /\ NoDanglingName' /\ Settled' /\ Ahead' /\ DirtyStep'
    BY <1>12, <2>1, <2>2, <2>3, PutBlockStep DEF Publish, WriteSteps
  <2>5. Shape'
    BY <1>12, <2>1, <2>2
    DEF Publish, At, PutBlock, IInv, TypeOK, Shape, Present, NoDanglingName, WriteSteps, Names, history
  <2> QED BY <2>4, <2>5 DEF IInv
<1>13. CASE Ack
  <2>1. cache = disk /\ request \in Text /\ Visible(cache) = request
    BY <1>13 DEF Ack, At, IInv, TypeOK, Shape, Settled, Visible, Present, WriteSteps
  <2> QED
    BY <1>13, <2>1 DEF Ack, At, IInv, TypeOK, SavedTextSurvives, NoDanglingName, Shape, Settled,
      Ahead, DirtyStep, Allowed, Visible, fsVars, ReadSteps, WriteSteps
<1>14. CASE ReadPath \/ ReadPrevious
  <2>1. TypeOK' /\ pc' \in {"idle", "readPrevious"}
    BY <1>14 DEF ReadPath, ReadPrevious, IInv, TypeOK, fsVars, Names, ReadSteps
  <2> QED
    BY <1>14, <2>1 DEF ReadPath, ReadPrevious, At, IInv, SavedTextSurvives, NoDanglingName,
      Shape, Settled, Ahead, DirtyStep, Allowed, Visible, fsVars, ReadSteps, WriteSteps
<1>15. CASE SetAccess
  BY <1>15 DEF SetAccess, IInv, TypeOK, SavedTextSurvives, NoDanglingName, Shape, Settled, Ahead,
    DirtyStep, Allowed, fsVars, history, Visible
<1>16. CASE Crash
  <2>1. TypeOK'
    <3>1. queue' \in Seq(Requests) /\ request' \in Requests
      BY <1>16 DEF Crash, Requests
    <3>2. pc' \in {"idle"} \cup ReadSteps \cup WriteSteps
      BY <1>16 DEF Crash
    <3> QED BY <1>16, <3>1, <3>2 DEF Crash, IInv, TypeOK, history
  <2>2. SavedTextSurvives' /\ NoDanglingName'
    BY <1>16 DEF Crash, IInv, SavedTextSurvives, NoDanglingName, Allowed, Visible, history
  <2>3. Shape' /\ Settled' /\ Ahead' /\ DirtyStep'
    BY <1>16 DEF Crash, Shape, Settled, Ahead, DirtyStep, ReadSteps, WriteSteps
  <2> QED BY <2>1, <2>2, <2>3 DEF IInv
<1>17. CASE UNCHANGED vars
  BY <1>17 DEF vars, IInv, TypeOK, SavedTextSurvives, NoDanglingName, Shape, Settled, Ahead,
    DirtyStep, Allowed, fsVars, history, Visible
<1> QED
  BY <1>1, <1>2, <1>3, <1>4, <1>5, <1>6, <1>7, <1>8, <1>9, <1>10, <1>11, <1>12, <1>13, <1>14,
     <1>15, <1>16, <1>17 DEF Next, Step

LEMMA AlwaysIInv == Spec => []IInv
BY InitIInv, NextIInv, PTL DEF Spec

\* Every variable keeps its type (text-file.ts), whatever is read, written,
\* locked, failed or crashed.
THEOREM TypeCorrect == Spec => []TypeOK
BY AlwaysIInv, PTL DEF IInv

\* Replacing a text never loses the saved one: for any texts and any number
\* of failures and crashes, readers find the last acknowledged text or a
\* later attempt's (writeStorageTextFile, text-file.ts:64-107).
THEOREM TextSurvives == Spec => []SavedTextSurvives
BY AlwaysIInv, PTL DEF IInv

\* No failure leaves a dangling primary or fallback name (text-file.ts:85).
THEOREM NamesNeverDangle == Spec => []NoDanglingName
BY AlwaysIInv, PTL DEF IInv

\* A read returns the last acknowledged text or a later attempt's
\* (readStorageTextFile, text-file.ts:52-55).
THEOREM ReadsSaved == Spec => ReadsSavedText
<1>1. ASSUME IInv, [Next]_vars, seen' # seen PROVE seen' \in Allowed
  <2>1. ReadPath \/ ReadPrevious
    BY <1>1 DEF Next, Step, Call, Start, Abort, Persist, PersistFails, WriteTemporary, Look,
      Recover, Retire, UnlinkRetired, Keep, Publish, Ack, SetAccess, Crash, vars, history
  <2> QED
    BY <1>1, <2>1 DEF ReadPath, ReadPrevious, At, IInv, Shape, SavedTextSurvives, Visible, Present
<1> QED
  BY <1>1, AlwaysIInv, PTL DEF Spec, ReadsSavedText

\* A text is acknowledged only when it is durable (text-file.ts:103-104).
THEOREM AcksDurable == Spec => AckIsDurable
<1>1. ASSUME IInv, [Next]_vars, acked' # acked PROVE Visible(disk') = acked'
  <2>1. Ack
    BY <1>1 DEF Next, Step, Call, Start, Abort, Persist, PersistFails, WriteTemporary, Look,
      Recover, Retire, UnlinkRetired, Keep, Publish, ReadPath, ReadPrevious, SetAccess, Crash,
      vars, history
  <2>2. acked' = request /\ cache["path"] = request /\ disk' = cache /\ request \in Text
    BY <1>1, <2>1 DEF Ack, At, IInv, TypeOK, Shape, Settled, fsVars, WriteSteps
  <2> QED BY <2>2, ConstantsDiffer DEF Visible, Present
<1> QED
  BY <1>1, AlwaysIInv, PTL DEF Spec, AckIsDurable

\* Every step of the pair of names is a step of the durable register, or
\* changes nothing that can be seen of it: Persist of the last rename is the
\* instant a write takes effect, and a crash is invisible.
LEMMA StepRefines == IInv /\ [Next]_vars => [Register!DNext]_(Register!dvars)
<1> SUFFICES ASSUME IInv, [Next]_vars PROVE [Register!DNext]_(Register!dvars)
  OBVIOUS
<1> USE ConstantsDiffer DEF Register!dvars
<1>1. CASE Start
  <2>1. Visible(disk') = Visible(disk) /\ acked' = acked
    BY <1>1 DEF Start, IInv, TypeOK, Visible, Present, Names
  <2>2. CASE Head(queue) = ReadCall
    BY <1>1, <2>1, <2>2 DEF Start
  <2>3. CASE Head(queue) # ReadCall
    <3>1. Head(queue) \in Text
      BY <1>1, <2>3 DEF Start, IInv, TypeOK, Requests
    <3> QED BY <1>1, <2>1, <2>3, <3>1 DEF Start, Register!DNext, Register!DBegin
  <2> QED BY <2>2, <2>3
<1>2. CASE Persist \/ PersistFails
  <2>1. acked' = acked /\ attempted' = attempted /\ Visible(disk') \in {Visible(disk), Visible(cache)}
    BY <1>2 DEF Persist, PersistFails, history
  <2>2. Visible(cache) = Visible(disk) \/ Visible(cache) \in attempted
    BY <1>2 DEF Persist, PersistFails, IInv, Ahead, Shape, WriteSteps
  <2> QED BY <2>1, <2>2 DEF Register!DNext, Register!DCommit
<1>3. CASE Ack
  <2>1. cache = disk /\ Visible(disk) = request /\ request \in attempted
    BY <1>3 DEF Ack, At, IInv, TypeOK, Shape, Settled, Visible, Present, WriteSteps
  <2>2. Visible(disk') = Visible(disk) /\ acked' = request /\ attempted' = {}
    BY <1>3 DEF Ack, fsVars, Visible
  <2> QED BY <2>1, <2>2 DEF Register!DNext, Register!DAck
<1>4. ASSUME NEW r \in Requests, Call(r) PROVE UNCHANGED Register!dvars
  BY <1>4 DEF Call, fsVars, history, Visible
<1>5. CASE \/ Abort \/ WriteTemporary \/ Look \/ Recover \/ Retire \/ UnlinkRetired
           \/ Keep \/ Publish \/ ReadPath \/ ReadPrevious \/ SetAccess \/ Crash
  <2>1. disk' = disk /\ acked' = acked /\ attempted' = attempted
    BY <1>5 DEF Abort, WriteTemporary, CreateFile, WriteFile, Look, Recover, Retire,
      UnlinkRetired, Keep, Publish, Rename, Unlink, PutBlock, ReadPath, ReadPrevious,
      SetAccess, Crash, fsVars, history
  <2> QED BY <2>1 DEF Visible
<1>6. CASE UNCHANGED vars
  BY <1>6 DEF vars, fsVars, history, Visible
<1> QED BY <1>1, <1>2, <1>3, <1>4, <1>5, <1>6 DEF Next, Step

\* writeStorageTextFile and readStorageTextFile implement one durable
\* register (DurableText), for every set of texts.
THEOREM RefinesDurableText == Spec => ImplementsDurableText
<1>1. Init => Register!DInit
  BY ConstantsDiffer DEF Init, Register!DInit, Visible, Present, Names
<1> QED
  BY <1>1, StepRefines, AlwaysIInv, PTL DEF Spec, ImplementsDurableText, Register!DSpec
=============================================================================
