------------------------------- MODULE AppRuntime -------------------------------
(* Running an application of the pod in the page: createBrowserRuntime         *)
(* (src/src/apps/runtime.ts) and its service worker (src/src/apps/             *)
(* runtime-sw.js).  A launch captures the files, is admitted, hands a session  *)
(* to the worker and waits for it; stop, another launch, the expiry timer, a   *)
(* deadline and a restart of the worker may come at any await.  Launches names *)
(* the calls that may be pending at once.                                      *)
(*                                                                             *)
(* A version of the files stands for its digest and its requirements.  What a  *)
(* signed approval says is the time it is valid for; a guest asks for any file *)
(* of its session.  The path grammar, sizes and headers are left out.          *)
EXTENDS Naturals, Sequences, FiniteSets

CONSTANTS Launches, Versions,
          Window,       \* MAX_APPROVAL_MS, in ticks
          Sessions,     \* session ids: each stands for one that nobody refers to
          MaxTime,      \* bound of the clock
          MaxMessages,  \* bound: messages to the worker under way when one is granted
          None

AppRuntimeAssumption ==
    /\ Launches # {} /\ Versions # {}
    /\ Window \in Nat \ {0} /\ MaxTime \in Nat /\ MaxMessages \in Nat /\ None \notin Launches
    /\ 0 \notin Sessions /\ 0 \notin Versions

Free == [version |-> 0, until |-> 0]

VARIABLES files,       \* the version of the application's files
          clock,
          phase,       \* the snapshot's phase
          generation,  \* the pending launch that captured the latest generation, or None
          session,     \* the session the page believes in, 0 for ""
          timer,       \* when the expiry timer fires, 0 if it is not armed
          development, \* the development authorization: version and time, or Free
          rows,        \* sessions with a row in the process table
          launch,      \* the pending launch calls
          toWorker,    \* messages to the worker, in order
          granted,     \* the worker's sessions: the time each is valid for, or 0
          lease,       \* what the page's session was admitted with: version and time, or Free
          admitted     \* history: version and time of the authorizations and approvals that last

vars == <<files, clock, phase, generation, session, timer, development, rows, launch,
          toWorker, granted, lease, admitted>>

Idle == [pc |-> "idle", mode |-> "release", auth |-> FALSE, version |-> 0,
         until |-> 0, session |-> 0]

Init ==
    /\ files \in Versions
    /\ clock = 0
    /\ phase = "stopped"
    /\ generation = None
    /\ session = 0
    /\ timer = 0
    /\ development = Free
    /\ rows = {}
    /\ launch = [l \in Launches |-> Idle]
    /\ toWorker = <<>>
    /\ granted = [s \in Sessions |-> 0]
    /\ lease = Free
    /\ admitted = {}

Goto(l, f) == launch' = [launch EXCEPT ![l] = f]

\* What stop does but for the generation: the session, the port and the row.
Stopped ==
    /\ toWorker' = IF session # 0 THEN Append(toWorker, <<"revoke", session, 0>>) ELSE toWorker
    /\ session' = 0 /\ lease' = Free
    /\ timer' = 0
    /\ rows' = rows \ {session}

\* stop forgets to count the generation.
Stop_SameGeneration == Stopped /\ generation' = generation

\* stop: no later step of a launch that is going on finds its generation.
Stop == Stopped /\ generation' = None

page == <<generation, toWorker, session, lease, timer, rows>>

-----------------------------------------------------------------------------
(* launch *)

Launch(l, mode, auth) ==
    /\ launch[l].pc = "idle"
    /\ Stopped /\ generation' = l
    /\ phase' = "opening"
    /\ Goto(l, [Idle EXCEPT !.pc = "capture", !.mode = mode, !.auth = auth])
    /\ UNCHANGED <<files, clock, development, granted, admitted>>

Current(l) == generation = l

\* The catch of launch: the deadline of any wait, a denial, a broken file.
Failed(l) ==
    /\ Goto(l, Idle)
    /\ IF Current(l) THEN Stop /\ phase' = "error" ELSE UNCHANGED <<page, phase>>

Fail(l) ==
    /\ launch[l].pc # "idle"
    /\ Failed(l)
    /\ UNCHANGED <<files, clock, development, granted, admitted>>

\* The requirements are those that were authorized, and there is time left.
Live == development.version = files /\ clock < development.until

\* The files are captured.  In development mode a new authorization replaces
\* the old one; without it the old one must be live.
Captured(l) ==
    /\ launch[l].pc = "capture"
    /\ \/ /\ launch[l].mode = "release"
          /\ Goto(l, [launch[l] EXCEPT !.pc = "evidence", !.version = files])
          /\ UNCHANGED <<development, phase, page, admitted>>
       \/ /\ launch[l].mode = "development" /\ (launch[l].auth \/ Live)
          /\ development' = IF launch[l].auth THEN [version |-> files, until |-> clock + Window] ELSE development
          /\ admitted' = IF launch[l].auth THEN admitted \cup {development'} ELSE admitted
          /\ Goto(l, [launch[l] EXCEPT !.pc = "admitted", !.version = files, !.until = development'.until])
          /\ UNCHANGED <<phase, page>>
       \/ /\ launch[l].mode = "development" /\ ~launch[l].auth /\ ~Live
          /\ Failed(l)
          /\ UNCHANGED <<development, admitted>>
    /\ UNCHANGED <<files, clock, granted>>

\* verifyRelease accepts the evidence for the captured digest, until some time.
Approved(l) ==
    /\ launch[l].pc = "evidence"
    /\ \E t \in 1..Window :
         /\ Goto(l, [launch[l] EXCEPT !.pc = "admitted", !.until = clock + t])
         /\ admitted' = admitted \cup {[version |-> launch[l].version, until |-> clock + t]}
    /\ UNCHANGED <<files, clock, phase, page, development, granted>>

InUse ==
    {s \in Sessions : granted[s] # 0} \cup {toWorker[i][2] : i \in DOMAIN toWorker}
      \cup {launch[l].session : l \in Launches} \cup {session}

\* The worker is registered; both checks for a cancelled launch are made.  A
\* random id is never in use: a bound on the ids keeps one free.
Registered(l) ==
    /\ launch[l].pc = "admitted"
    /\ Current(l)
    /\ Len(toWorker) < MaxMessages /\ Sessions \ InUse # {}
    /\ LET s == CHOOSE s \in Sessions : s \notin InUse
       IN
         /\ session' = s
         /\ lease' = [version |-> launch[l].version, until |-> launch[l].until]
         /\ toWorker' = Append(toWorker, <<"grant", s, launch[l].until>>)
         /\ Goto(l, [launch[l] EXCEPT !.pc = "granting", !.session = s])
    /\ UNCHANGED <<files, clock, phase, generation, timer, development, rows, granted, admitted>>

\* The worker's answer reaches the launch, which is still the current one.
Running(l) ==
    /\ launch[l].pc = "ready"
    /\ IF Current(l)
       THEN /\ timer' = launch[l].until
            /\ rows' = rows \cup {launch[l].session}
            /\ phase' = "running"
            /\ Goto(l, Idle)
            /\ generation' = None
            /\ UNCHANGED <<session, lease, toWorker>>
       ELSE Failed(l)
    /\ UNCHANGED <<files, clock, development, granted, admitted>>

Revoke == Stop /\ development' = Free /\ phase' = "stopped"

\* The user stops, or a signal from the shell does.
UserStops ==
    /\ phase # "stopped"
    /\ Revoke
    /\ UNCHANGED <<files, clock, launch, granted, admitted>>

Expires ==
    /\ timer # 0 /\ clock >= timer
    /\ Revoke
    /\ UNCHANGED <<files, clock, launch, granted, admitted>>

-----------------------------------------------------------------------------
(* The worker *)

\* A grant that is valid is taken and answered "ready"; the page ignores the
\* answer when the session is not its own any more.
WorkerReceives ==
    /\ toWorker # <<>>
    /\ toWorker' = Tail(toWorker)
    /\ LET m == Head(toWorker)
           taken == m[1] = "grant" /\ m[3] > clock
           waiting == {l \in Launches : launch[l].pc = "granting" /\ launch[l].session = m[2]
                                          /\ Current(l) /\ session = m[2]}
       IN  /\ granted' = IF taken THEN [granted EXCEPT ![m[2]] = m[3]]
                         ELSE IF m[1] = "revoke" THEN [granted EXCEPT ![m[2]] = 0] ELSE granted
           /\ launch' = [l \in Launches |-> IF taken /\ l \in waiting
                                            THEN [launch[l] EXCEPT !.pc = "ready"] ELSE launch[l]]
    /\ UNCHANGED <<files, clock, phase, generation, session, lease, timer, rows, development, admitted>>

\* The browser stops or replaces the worker: its map is empty.
WorkerRestarts ==
    /\ \E s \in Sessions : granted[s] # 0
    /\ granted' = [s \in Sessions |-> 0]
    /\ UNCHANGED <<files, clock, phase, page, development, launch, admitted>>

\* project and the page's port: a guest's read is answered from the capture
\* while the worker knows the session, the page still has it and it is valid.
Serve(s) ==
    /\ granted[s] > clock
    /\ session = s
    /\ IF clock >= lease.until
       THEN Revoke
       ELSE UNCHANGED <<phase, page, development>>
    /\ UNCHANGED <<files, clock, launch, granted, admitted>>

Edit ==
    /\ \E v \in Versions \ {files} : files' = v
    /\ UNCHANGED <<clock, phase, page, development, launch, granted, admitted>>

Tick ==
    /\ clock < MaxTime
    /\ clock' = clock + 1
    /\ admitted' = {a \in admitted : a.until > clock'}
    /\ UNCHANGED <<files, phase, page, development, launch, granted>>

Work(l) == Captured(l) \/ Approved(l) \/ Registered(l) \/ Running(l) \/ Fail(l)

Next ==
    \/ \E l \in Launches :
         \/ \E mode \in {"release", "development"}, auth \in BOOLEAN : Launch(l, mode, auth)
         \/ Work(l)
    \/ UserStops \/ Expires
    \/ WorkerReceives \/ WorkerRestarts
    \/ \E s \in Sessions : Serve(s)
    \/ Edit \/ Tick

Spec == Init /\ [][Next]_vars

-----------------------------------------------------------------------------
(* Properties *)

TypeOK ==
    /\ phase \in {"stopped", "opening", "running", "error"}
    /\ session \in Sessions \cup {0}
    /\ rows \subseteq Sessions
    /\ \A i \in DOMAIN toWorker : toWorker[i][2] \in Sessions

\* Whatever launches, stops and deadlines overlap: a running application is the
\* page's session with its timer and its row, nothing else has a row, and every
\* other session of the worker is about to be revoked; while "opening" is shown
\* a launch is on its way that may still succeed, and none once it is stopped.
Revoking(s) == \E i \in DOMAIN toWorker : toWorker[i][1] = "revoke" /\ toWorker[i][2] = s
OneAdmittedSession ==
    /\ phase = "running" => session # 0 /\ timer = lease.until /\ rows = {session}
    /\ phase # "running" => rows = {} /\ timer = 0
    /\ \A s \in Sessions : granted[s] # 0 => s = session \/ Revoking(s)
    /\ phase = "opening" => \E l \in Launches : launch[l].pc # "idle" /\ Current(l)
    /\ phase \in {"stopped", "error"} => session = 0 /\ \A l \in Launches : launch[l].pc # "idle" => ~Current(l)

\* What the page serves was authorized or approved in this very version, and for
\* no longer than that allowed: "these exact requirements, until this time"
\* (runtime.ts:107), also when a launch reloads under an earlier authorization.
ServesAdmitted == session # 0 /\ clock < lease.until => lease \in admitted

=============================================================================
