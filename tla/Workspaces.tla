------------------------------ MODULE Workspaces ------------------------------
(* The page's workspaces, one after another: SessionLifecycle of               *)
(* examples/artipod-spa/lib/services/pod-session-lifecycle.ts, over the boot   *)
(* and the disposal of a session in pod-session.ts.  Overlay mounts and /proc  *)
(* providers belong to the whole page, so that a workspace may boot only when  *)
(* the one before it is gone.  Openings are numbered in the order of the calls.*)
EXTENDS Naturals

CONSTANT MaxOpens   \* bound: calls of open

WorkspacesAssumption == MaxOpens \in Nat

Openings == 1..MaxOpens

VARIABLES opened,    \* openings so far
          stage,     \* per opening, where it stands
          cancelled, \* openings that were told to close
          current,   \* the opening that the next open() closes, or 0
          tail,      \* the promise that the next opening waits for
          after      \* per opening, the promise that it waits for

vars == <<opened, stage, cancelled, current, tail, after>>

\* A session is "running" after it has booted and "closing" while its close()
\* runs.  The ends are: the boot threw and cleaned up, it was cancelled before it
\* booted, it was closed, it was closed but for its last flush; and, of which the
\* last two hold up the page for ever, it or what it waited for could not release
\* its resources.
Live == {"booting", "running", "closing"}
Blocking == {"blocked", "stuck"}
Ended == {"failed", "refused", "closed", "flushfailed"} \cup Blocking
Stages == {"none", "waiting"} \cup Live \cup Ended

\* The result of an opening, or of its closing; 0 is resolved from the start.
Promise(i, closing) == [of |-> i, closing |-> closing]

Settled(p) == p.of # 0 => stage[p.of] \in (IF p.closing THEN Ended ELSE Ended \cup {"running"})
Blocks(p) == p.of # 0 /\ stage[p.of] \in Blocking

Init ==
    /\ opened = 0 /\ current = 0 /\ cancelled = {}
    /\ stage = [i \in Openings |-> "none"]
    /\ tail = Promise(0, FALSE)
    /\ after = [i \in Openings |-> tail]

\* open() that does not first tell the current workspace to close.
Open_NoClose ==
    /\ opened < MaxOpens
    /\ opened' = opened + 1
    /\ current' = opened'
    /\ after' = [after EXCEPT ![opened'] = tail]
    /\ tail' = Promise(opened', FALSE)
    /\ stage' = [stage EXCEPT ![opened'] = "waiting"]
    /\ UNCHANGED cancelled

\* open(): the current workspace is told to close, and its closing is what this
\* opening waits for, before the next one waits for this.
Open ==
    /\ opened < MaxOpens
    /\ opened' = opened + 1
    /\ current' = opened'
    /\ cancelled' = cancelled \cup ({current} \ {0})
    /\ after' = [after EXCEPT ![opened'] = IF current = 0 THEN tail ELSE Promise(current, TRUE)]
    /\ tail' = Promise(opened', FALSE)
    /\ stage' = [stage EXCEPT ![opened'] = "waiting"]

\* The first close() of an opening; it is the current one, because open() closes
\* the one before.
Close(i) ==
    /\ i \in 1..opened /\ i \notin cancelled
    /\ cancelled' = cancelled \cup {i}
    /\ tail' = Promise(i, TRUE)
    /\ current' = IF current = i THEN 0 ELSE current
    /\ UNCHANGED <<opened, stage, after>>

\* The tail has settled.
Turn(i) ==
    /\ stage[i] = "waiting" /\ Settled(after[i])
    /\ stage' = [stage EXCEPT ![i] = IF Blocks(after[i]) THEN "blocked"
                                     ELSE IF i \in cancelled THEN "refused" ELSE "booting"]
    /\ UNCHANGED <<opened, cancelled, current, tail, after>>

\* bootPodSession returns, or throws after disposeResources, which may fail too.
Booted(i) ==
    /\ stage[i] = "booting"
    /\ \E s \in {"running", "failed", "blocked"} : stage' = [stage EXCEPT ![i] = s]
    /\ UNCHANGED <<opened, cancelled, current, tail, after>>

\* The session's own close: push, flush, disposeResources.
Dispose(i) ==
    /\ stage[i] = "running" /\ i \in cancelled
    /\ stage' = [stage EXCEPT ![i] = "closing"]
    /\ UNCHANGED <<opened, cancelled, current, tail, after>>

Disposed(i) ==
    /\ stage[i] = "closing"
    /\ \E s \in {"closed", "flushfailed", "stuck"} : stage' = [stage EXCEPT ![i] = s]
    /\ UNCHANGED <<opened, cancelled, current, tail, after>>

Next == Open \/ \E i \in Openings : Close(i) \/ Turn(i) \/ Booted(i) \/ Dispose(i) \/ Disposed(i)

Spec == Init /\ [][Next]_vars

-------------------------------------------------------------------------------
(* Properties *)

TypeOK ==
    /\ opened \in 0..MaxOpens /\ current \in 0..opened
    /\ stage \in [Openings -> Stages]
    /\ cancelled \subseteq 1..opened

\* However openings and closings overtake one another, a workspace boots only when
\* every one before it has ended, and none boots after one whose mounts and
\* providers could not be released.
OneWorkspace ==
    \A i, j \in Openings : i < j /\ stage[j] \in Live => stage[i] \in Ended \ Blocking
===============================================================================
