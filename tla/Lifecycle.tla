------------------------------- MODULE Lifecycle -------------------------------
(* Suspending an application in its frame: controlRuntimeLifecycle             *)
(* (src/src/apps/lifecycle.ts), the signals and reports of createBrowserRuntime *)
(* (src/src/apps/runtime.ts) and an application that speaks the protocol, or   *)
(* does not.  Messages between the windows keep their order; the application   *)
(* may answer late, never or with a refusal, and load its document anew, which *)
(* loses the messages to it; a suspended one does not.  Telemetry is left out. *)
EXTENDS Naturals, Sequences

CONSTANTS MaxRequests,   \* bound: requests ever posted
          MaxMessages    \* bound: messages under way to either side

LifecycleAssumption == MaxRequests \in Nat /\ MaxMessages \in Nat \ {0}

VARIABLES state,    \* the controller's snapshot
          pending,  \* its request: id and command, id 0 for none
          probe,    \* the probe timer is armed
          ids,      \* request ids used
          app,      \* the application: "running", "suspended", "deaf"
          toApp,    \* postMessage queues: kind and id
          toHost

vars == <<state, pending, probe, ids, app, toApp, toHost>>

NoRequest == [id |-> 0, command |-> "none"]

Init ==
    /\ state = "unknown"
    /\ pending = NoRequest
    /\ probe = TRUE
    /\ ids = 0
    /\ app \in {"running", "deaf"}
    /\ toApp = <<[kind |-> "query", id |-> 0]>>
    /\ toHost = <<>>

Post(m) == toApp' = Append(toApp, m)

-----------------------------------------------------------------------------
(* The controller *)

Target(command) == IF command = "suspend" THEN "suspended" ELSE "running"

\* request: a button, or STOP and CONT of the process table; one at a time,
\* from the state that the command leaves.
Request(command) ==
    /\ pending = NoRequest
    /\ state = Target(IF command = "suspend" THEN "resume" ELSE "suspend")
    /\ ids < MaxRequests /\ Len(toApp) < MaxMessages
    /\ ids' = ids + 1
    /\ pending' = [id |-> ids', command |-> command]
    /\ state' = IF command = "suspend" THEN "suspending" ELSE "resuming"
    /\ Post([kind |-> command, id |-> ids'])
    /\ UNCHANGED <<probe, app, toHost>>

\* The frame is gone or refuses the message.
RequestFails(command) ==
    /\ pending = NoRequest
    /\ state = Target(IF command = "suspend" THEN "resume" ELSE "suspend")
    /\ state' = "error"
    /\ UNCHANGED <<pending, probe, ids, app, toApp, toHost>>

TimedOut ==
    /\ pending # NoRequest
    /\ pending' = NoRequest
    /\ state' = "error"
    /\ UNCHANGED <<probe, ids, app, toApp, toHost>>

\* query: again on the frame's load, while nothing is known.
Query ==
    /\ Len(toApp) < MaxMessages
    /\ state' = IF state = "unsupported" THEN "unknown" ELSE state
    /\ probe' = (probe \/ state \in {"unknown", "unsupported"})
    /\ Post([kind |-> "query", id |-> 0])
    /\ UNCHANGED <<pending, ids, app, toHost>>

Probed ==
    /\ probe
    /\ probe' = FALSE
    /\ state' = IF state = "unknown" THEN "unsupported" ELSE state
    /\ UNCHANGED <<pending, ids, app, toApp, toHost>>

\* An acknowledgement counts for the request that it names only.
Answers(m) == m.kind = "ack" /\ pending # NoRequest /\ m.id = pending.id

\* Any acknowledgement confirms the command.
Confirmed_Blindly(m) == Target(pending.command)

\* The application's word decides: another state than the command's is an error.
Confirmed(m) == IF m.state = Target(pending.command) THEN m.state ELSE "error"

\* receive.
Receive ==
    /\ toHost # <<>>
    /\ toHost' = Tail(toHost)
    /\ LET m == Head(toHost)
       IN  \/ /\ m.kind = "ready" /\ state \in {"unknown", "unsupported"}
              /\ state' = m.state
              /\ UNCHANGED pending
           \/ /\ Answers(m)
              /\ state' = Confirmed(m)
              /\ pending' = NoRequest
           \/ /\ ~(m.kind = "ready" /\ state \in {"unknown", "unsupported"}) /\ ~Answers(m)
              /\ UNCHANGED <<state, pending>>
    /\ UNCHANGED <<probe, ids, app, toApp>>

-----------------------------------------------------------------------------
(* The application *)

\* It obeys or refuses and answers with the state it is in then, or has no
\* listener.
AppHandles ==
    /\ toApp # <<>> /\ Len(toHost) < MaxMessages
    /\ toApp' = Tail(toApp)
    /\ LET m == Head(toApp)
       IN  IF app = "deaf" THEN UNCHANGED <<app, toHost>>
           ELSE /\ \E next \in {app} \cup (IF m.kind = "query" THEN {} ELSE {Target(m.kind)}) : app' = next
                /\ toHost' = Append(toHost, [kind |-> IF m.kind = "query" THEN "ready" ELSE "ack",
                                             id |-> m.id, state |-> app'])
    /\ UNCHANGED <<state, pending, probe, ids>>

\* A new document announces itself; the frame's load makes the host query.
AppReloads ==
    /\ app = "running"
    /\ Len(toHost) < MaxMessages
    /\ toApp' = <<>>
    /\ toHost' = Append(toHost, [kind |-> "ready", id |-> 0, state |-> "running"])
    /\ UNCHANGED <<state, pending, probe, ids, app>>

Timers == TimedOut \/ Probed

Next ==
    \/ \E command \in {"suspend", "resume"} : Request(command) \/ RequestFails(command)
    \/ Query \/ Receive \/ AppHandles \/ AppReloads \/ Timers

Spec == Init /\ [][Next]_vars

-----------------------------------------------------------------------------
(* Properties *)

TypeOK ==
    /\ state \in {"unknown", "unsupported", "running", "suspending", "suspended", "resuming", "error"}
    /\ pending.id \in 0..ids
    /\ app \in {"running", "suspended", "deaf"}

\* "The app must acknowledge before the host reports it suspended"
\* (lifecycle.ts:29): whatever answers come late, are refusals or are lost with
\* the document, a settled state is the state that the application is in.
SettledStateIsTrue == state \in {"suspended", "running"} => app = state

=============================================================================
