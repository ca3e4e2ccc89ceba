------------------------------- MODULE AutoPush -------------------------------
(* The write-back of an open workspace: pushBasis with its debounce, its one   *)
(* push in flight and its one follow-up (src/src/realize/zenfs.ts), and what   *)
(* the page makes of the outcomes: the retry task, the reducer of the sync     *)
(* chip and the close (examples/artipod-spa/lib/services/pod-session.ts and    *)
(* sync-machine.ts).  The n-th edit makes version n of the overlay; a push     *)
(* carries the version that it found when it began to walk the overlay.        *)
(*                                                                             *)
(* What a settled promise runs before the next timer or answer is one step     *)
(* with its settling.  Left out: the merge on the manager (RefPush), publish   *)
(* under another name, and edits that reach the page's file system without an  *)
(* fs:changed event.                                                           *)
EXTENDS Naturals

CONSTANTS Slots,     \* bound: calls of pushBasis at a time, numbered from 1
          MaxEdits   \* bound of the clock of edits

AutoPushAssumption == Slots \in Nat \ {0} /\ MaxEdits \in Nat \ {0}

Calls == 1..Slots

VARIABLES edits,     \* the version of the overlay
          pushed,    \* the version that the manager holds
          timer,     \* the debounce timer is armed
          offline,   \* the pod's settings say so
          calls,     \* per slot: who called, where the call stands, on whom it
                     \*   waits, the version when it was made and the one it pushes
          push,      \* inflight: the slot of the push that runs, or 0
          followUp,  \* the slot of the push that comes next, or 0
          page,      \* the page's own state
          promised,  \* history: the version when the workspace was closed
          refused    \* history: a call was refused, being offline, during a push

vars == <<edits, pushed, timer, offline, calls, push, followUp, page, promised, refused>>

Free == [by |-> "nobody", pc |-> "free", on |-> 0, asked |-> 0, saw |-> 0]

Init ==
    /\ edits \in 0..1 /\ pushed = 0   \* an earlier session may have left an edit behind
    /\ timer = FALSE /\ offline \in BOOLEAN
    /\ calls = [c \in Calls |-> Free] /\ push = 0 /\ followUp = 0
    /\ page = [session |-> "open", task |-> "scheduled", terminated |-> FALSE, forced |-> offline,
               needsPush |-> edits = 1, unsynced |-> edits = 1,
               phase |-> IF edits = 1 THEN "failed" ELSE "clean", dirty |-> FALSE]
    /\ promised = 0 /\ refused = FALSE

-------------------------------------------------------------------------------
(* The page *)

\* reduceSync.  wantsPush is asked of the reduced state: after "push-ok" it never
\* wants another push, whatever was written meanwhile.
Reduce(p, event) ==
    CASE event = "edit" -> IF p.phase = "pushing" THEN [p EXCEPT !.dirty = TRUE] ELSE [p EXCEPT !.phase = "dirty"]
      [] event = "push-start" -> [p EXCEPT !.phase = "pushing", !.dirty = FALSE]
      [] event = "push-ok" -> [p EXCEPT !.phase = IF p.dirty THEN "dirty" ELSE "synced", !.dirty = FALSE]
      [] event = "push-fail" -> [p EXCEPT !.phase = "failed", !.dirty = FALSE]

\* The listener of sync:push, which pushBasis emits.
Heard(p, ok) == [Reduce(p, IF ok THEN "push-ok" ELSE "push-fail") EXCEPT !.needsPush = ~ok, !.unsynced = ~ok]

\* The task has its answer; rearm schedules it again unless it was killed.
TaskEnds(p, result) ==
    LET q == IF result = "same" THEN [Reduce(p, "push-ok") EXCEPT !.needsPush = FALSE, !.unsynced = FALSE] ELSE p
    IN  [q EXCEPT !.task = IF p.terminated THEN "idle" ELSE "scheduled"]

Closed(p, result) == [p EXCEPT !.session = "closed", !.unsynced = p.unsynced /\ result = "none"]

\* The callers of the calls S get the result.
Told(p, S, result) ==
    LET by == {calls[c].by : c \in S}
        q == IF "task" \in by THEN TaskEnds(p, result) ELSE p
    IN  IF "close" \in by THEN Closed(q, result) ELSE q

-------------------------------------------------------------------------------
(* pushBasis *)

Lowest(S) == CHOOSE c \in S : \A d \in S : c <= d
Unused == {c \in Calls : calls[c].pc = "free"}

\* Up to the reading of the pod's settings.
Call(by) ==
    /\ Unused # {}
    /\ calls' = [calls EXCEPT ![Lowest(Unused)] = [by |-> by, pc |-> "settings", on |-> 0, asked |-> edits, saw |-> 0]]

Waiting(c) == {d \in Calls : calls[d].pc = "waiting" /\ calls[d].on = c}

\* Call c settles with a result, and with it whoever waits for it.  Once the
\* workspace is closed nothing is left that listens.
Settle(c, p, result, others) ==
    LET done == {c} \cup Waiting(c)
        q == Told(p, done, result)
    IN  /\ page' = q
        /\ timer' = (timer /\ q.session # "closed")
        /\ calls' = [d \in Calls |-> IF d \in done \/ q.session = "closed" THEN Free ELSE others[d]]

Offline(c) ==
    /\ calls[c].pc = "settings" /\ offline
    /\ Settle(c, Heard(page, FALSE), "none", calls)
    /\ push' = IF page'.session = "closed" THEN 0 ELSE push
    /\ followUp' = IF page'.session = "closed" THEN 0 ELSE followUp
    /\ refused' = (refused \/ push # 0)
    /\ UNCHANGED <<edits, pushed, offline, promised>>

Online(c) == calls[c].pc = "settings" /\ ~offline

\* Nothing is in flight: walk the overlay and send it.
Begin(c) ==
    /\ Online(c) /\ push = 0
    /\ push' = c
    /\ calls' = [calls EXCEPT ![c].pc = "pushing", ![c].saw = edits]
    /\ UNCHANGED <<edits, pushed, timer, offline, followUp, page, promised, refused>>

\* A push in flight may have walked past the edits of this call: a faulty version
\* is content with it.
Follow_Joins(c) ==
    /\ Online(c) /\ push # 0
    /\ calls' = [calls EXCEPT ![c].pc = "waiting", ![c].on = push]
    /\ UNCHANGED <<edits, pushed, timer, offline, push, followUp, page, promised, refused>>

\* A push is in flight: wait for the one after it, which the first caller orders.
\* A follow-up that finds another push in flight becomes the next follow-up, or
\* waits for it with all who wait for itself.
Follow(c) ==
    /\ Online(c) /\ push # 0
    /\ \/ /\ followUp = 0 /\ calls[c].by = "followUp"
          /\ followUp' = c
          /\ calls' = [calls EXCEPT ![c].pc = "queued"]
       \/ /\ followUp = 0 /\ calls[c].by # "followUp" /\ Unused # {}
          /\ followUp' = Lowest(Unused)
          /\ calls' = [calls EXCEPT ![c].pc = "waiting", ![c].on = followUp',
                                    ![followUp'] = [Free EXCEPT !.by = "followUp", !.pc = "queued", !.asked = edits]]
       \/ /\ followUp # 0
          /\ calls' = [d \in Calls |->
               IF d = c /\ calls[c].by = "followUp" THEN Free
               ELSE IF d = c \/ d \in Waiting(c) THEN [calls[d] EXCEPT !.pc = "waiting", !.on = followUp]
               ELSE calls[d]]
          /\ UNCHANGED followUp
    /\ UNCHANGED <<edits, pushed, timer, offline, push, page, promised, refused>>

\* The push ends: it sent something, the manager had it all, or it failed.
Finish(c, result) ==
    /\ push = c /\ c # 0
    /\ pushed' = IF result = "pushed" THEN calls[c].saw ELSE pushed
    /\ result = "pushed" => calls[c].saw > pushed
    /\ result = "same" => calls[c].saw = pushed
    /\ Settle(c, IF result = "same" THEN page ELSE Heard(page, result = "pushed"), result,
              IF followUp = 0 THEN calls ELSE [calls EXCEPT ![followUp].pc = "settings"])
    /\ push' = 0 /\ followUp' = 0
    /\ UNCHANGED <<edits, offline, promised, refused>>

-------------------------------------------------------------------------------
(* What happens to the page *)

\* The shell or the editor writes and emits fs:changed.
Edit ==
    /\ page.session # "closed" /\ edits < MaxEdits
    /\ edits' = edits + 1 /\ timer' = TRUE /\ page' = Reduce(page, "edit")
    /\ UNCHANGED <<pushed, offline, calls, push, followUp, promised, refused>>

Debounced ==
    /\ timer /\ timer' = FALSE /\ Call("timer")
    /\ UNCHANGED <<edits, pushed, offline, push, followUp, page, promised, refused>>

\* `artipod offline on' and `off'; the page learns of it by its probe.
Toggle == /\ offline' = ~offline
          /\ UNCHANGED <<edits, pushed, timer, calls, push, followUp, page, promised, refused>>

Ready(p) == p.task = "scheduled" /\ ~p.terminated /\ p.needsPush /\ ~p.forced

Run(p) == page' = [Reduce(p, "push-start") EXCEPT !.task = "running"] /\ Call("task")

\* The timer of the task, or a snapshot of the broker.
TaskRuns ==
    /\ Ready(page) /\ Run(page)
    /\ UNCHANGED <<edits, pushed, timer, offline, push, followUp, promised, refused>>

Probe ==
    /\ page.session = "open" /\ page.forced # offline
    /\ LET p == [page EXCEPT !.forced = offline]
       IN  IF ~offline /\ p.phase \in {"failed", "dirty"} /\ Ready(p)
           THEN Run(p)
           ELSE page' = p /\ UNCHANGED calls
    /\ UNCHANGED <<edits, pushed, timer, offline, push, followUp, promised, refused>>

\* TERM to the process of the task.
Kill ==
    /\ page.session = "open" /\ ~page.terminated
    /\ page' = [page EXCEPT !.terminated = TRUE, !.task = "idle"]
    /\ UNCHANGED <<edits, pushed, timer, offline, calls, push, followUp, promised, refused>>

\* Stop the task, push once more unless offline, then dispose of everything.
Close ==
    /\ page.session = "open"
    /\ LET p == [page EXCEPT !.terminated = TRUE, !.task = "idle"]
       IN  IF page.forced
           THEN /\ page' = [p EXCEPT !.session = "closed"]
                /\ timer' = FALSE /\ calls' = [c \in Calls |-> Free] /\ push' = 0 /\ followUp' = 0
                /\ UNCHANGED promised
           ELSE /\ page' = [p EXCEPT !.session = "closing"]
                /\ Call("close") /\ promised' = edits
                /\ UNCHANGED <<timer, push, followUp>>
    /\ UNCHANGED <<edits, pushed, offline, refused>>

Next ==
    \/ \E c \in Calls :
         \/ Offline(c) \/ Begin(c) \/ Follow(c)
         \/ \E result \in {"pushed", "same", "none"} : Finish(c, result)
    \/ Edit \/ Debounced \/ Toggle \/ TaskRuns \/ Probe \/ Kill \/ Close

Spec == Init /\ [][Next]_vars

-------------------------------------------------------------------------------
(* Properties *)

TypeOK ==
    /\ edits \in 0..MaxEdits /\ pushed \in 0..edits
    /\ push \in 0..Slots /\ followUp \in 0..Slots
    /\ push # 0 <=> \E c \in Calls : calls[c].pc = "pushing"

\* A caller is never answered by a push that walked the overlay before the call.
AnsweredByALaterWalk ==
    \A c \in Calls : calls[c].pc = "pushing" =>
        \A d \in {c} \cup Waiting(c) : calls[d].asked <= calls[c].saw

\* What the manager does not have is on its way in an open workspace: a timer or a
\* call that has yet to look, a push that carries it, or a known failure and a
\* task that tries again until somebody kills it.  `refused' excuses what the
\* success of an older push makes the page forget.
NothingForgotten ==
    page.session = "open" /\ edits > pushed /\ ~refused =>
        \/ timer
        \/ \E c \in Calls : calls[c].pc \in {"settings", "queued"}
        \/ push # 0 /\ calls[push].saw = edits
        \/ page.needsPush /\ page.unsynced /\ (page.terminated \/ page.task # "idle")

\* Edits made before an online workspace is closed are on the manager, or the
\* catalog still lists it as unsynced and the next session retries.
EditsGetPushed ==
    /\ AnsweredByALaterWalk
    /\ NothingForgotten
    /\ page.session = "closed" /\ promised > pushed /\ ~refused => page.unsynced

===============================================================================
