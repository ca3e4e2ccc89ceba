------------------------------ MODULE Hydration ------------------------------
(* Lazy layers of one ref: Hydrator and BandwidthScheduler                     *)
(* (src/src/manager/hydration.ts), the view that serves them (src/src/oci/     *)
(* view.ts) and the twins of src/src/oci/store.ts.  A pull stores the manifest *)
(* and a state file that marks each layer hydrated or placeholder; hydrate, a  *)
(* read through the view and dehydrate flip the marks.  Every await is a step, *)
(* so that the calls of Callers interleave.                                    *)
(*                                                                             *)
(* The remote head moves from one manifest of Manifests to the next.  Alone    *)
(* names the calls that run by themselves: nothing in the code enforces it.    *)
(* Layers are fetched whole; resumption, indexes and progress are left out.    *)
EXTENDS Naturals, Sequences, FiniteSets

CONSTANTS Callers,
          Manifests,   \* the heads of the ref, oldest first: sequences of layers
          Eager,       \* layers that a pull fetches with the manifest
          Alone,       \* subset of {"pull", "dehydrate"}
          None

Lanes == <<"interactive", "prefetch", "background">>
Ordinals == UNION {DOMAIN Manifests[v] : v \in DOMAIN Manifests}
Layers == UNION {{Manifests[v][i] : i \in DOMAIN Manifests[v]} : v \in DOMAIN Manifests}

HydrationAssumption ==
    /\ Manifests \in Seq(Seq(Layers)) /\ Manifests # <<>>
    /\ None \notin Layers \cup Callers /\ Eager \subseteq Layers

\* Each version of the ref only adds layers to the one before.
Grows == \A v, w \in DOMAIN Manifests : v <= w =>
           \A i \in DOMAIN Manifests[v] : i \in DOMAIN Manifests[w] /\ Manifests[w][i] = Manifests[v][i]

VARIABLES remote,   \* the version the remote's ref points to
          twins,    \* layers whose uncompressed bytes are in the store
          marks,    \* the state file: version and hydrated ordinals, or None
          view,     \* the mounted view: version and the bytes it holds, or None
          call,     \* what each caller is doing
          queues,   \* BandwidthScheduler.queues
          running,  \* the caller whose transfer runs, or None
          torn      \* history: a dehydrate was cut off since the last pull

vars == <<remote, twins, marks, view, call, queues, running, torn>>

Idle == [op |-> "none", pc |-> "idle", ver |-> 0, todo |-> {}, at |-> 0, got |-> {}, lane |-> Lanes[1],
         live |-> FALSE, any |-> FALSE, seen |-> None]

Init ==
    /\ remote = 1
    /\ twins = {}
    /\ marks = None
    /\ view = None
    /\ call = [c \in Callers |-> Idle]
    /\ queues = [l \in {Lanes[i] : i \in DOMAIN Lanes} |-> <<>>]
    /\ running = None
    /\ torn = FALSE

At(c, pc) == call[c].pc = pc

Set(c, f) == call' = [call EXCEPT ![c] = f]

Goto(c, pc) == call' = [call EXCEPT ![c].pc = pc]

\* A call may begin beside the others unless one of them runs alone.
MayBegin(c, op) ==
    /\ At(c, "idle")
    /\ \A d \in Callers \ {c} :
         ~At(d, "idle") => op \notin Alone /\ call[d].op \notin Alone

Throws(c) == Set(c, Idle)

-----------------------------------------------------------------------------
(* pullIndex *)

\* resolve: the manifest of the moment; its layers follow one by one.
PullBegin(c) ==
    /\ MayBegin(c, "pull")
    /\ Set(c, [Idle EXCEPT !.op = "pull", !.pc = "layer", !.ver = remote, !.at = 1])
    /\ UNCHANGED <<remote, twins, marks, view, queues, running, torn>>

\* An eager layer is fetched and stored; a lazy one is hydrated if its twin is
\* there already.
PullLayer(c) ==
    /\ At(c, "layer")
    /\ call[c].at \in DOMAIN Manifests[call[c].ver]
    /\ LET l == Manifests[call[c].ver][call[c].at]
           here == l \in Eager \/ l \in twins
       IN  /\ twins' = IF l \in Eager THEN twins \cup {l} ELSE twins
           /\ Set(c, [call[c] EXCEPT !.at = @ + 1, !.got = IF here THEN @ \cup {call[c].at} ELSE @])
    /\ UNCHANGED <<remote, marks, view, queues, running, torn>>

PullSave(c) ==
    /\ At(c, "layer")
    /\ call[c].at \notin DOMAIN Manifests[call[c].ver]
    /\ marks' = [ver |-> call[c].ver, done |-> call[c].got]
    /\ torn' = FALSE
    /\ Throws(c)
    /\ UNCHANGED <<remote, twins, view, queues, running>>

-----------------------------------------------------------------------------
(* loadView and mount *)

\* stateFor, then the indexes and bytes: a layer marked hydrated whose twin is
\* gone makes the call throw.
LayersOf(m, done) == {Manifests[m][i] : i \in done}

MountBegin(c) ==
    /\ MayBegin(c, "mount")
    /\ marks # None
    /\ Set(c, [Idle EXCEPT !.op = "mount", !.pc = "mount", !.ver = marks.ver, !.got = marks.done])
    /\ UNCHANGED <<remote, twins, marks, view, queues, running, torn>>

\* The new view replaces the old one, which pending reads still hold.
Mount(c) ==
    /\ At(c, "mount")
    /\ IF LayersOf(call[c].ver, call[c].got) \subseteq twins
       THEN /\ view' = [ver |-> call[c].ver,
                        held |-> [i \in DOMAIN Manifests[call[c].ver] |->
                                    IF i \in call[c].got THEN Manifests[call[c].ver][i] ELSE None]]
            /\ call' = [d \in Callers |-> IF d = c THEN Idle ELSE [call[d] EXCEPT !.live = FALSE]]
       ELSE UNCHANGED view /\ Throws(c)
    /\ UNCHANGED <<remote, twins, marks, queues, running, torn>>

-----------------------------------------------------------------------------
(* BandwidthScheduler *)

\* schedule: a task starts at once when nothing runs, else its lane keeps it.
Schedule(c, task) ==
    IF running = None
    THEN /\ running' = c
         /\ Set(c, [task EXCEPT !.pc = "fetching"])
         /\ UNCHANGED queues
    ELSE /\ Set(c, [task EXCEPT !.pc = "queued"])
         /\ queues' = [queues EXCEPT ![task.lane] = Append(@, c)]
         /\ UNCHANGED running

\* The lanes are not pumped when a transfer ends.
Ended_Stops(c, then) == running' = None /\ Set(c, then) /\ UNCHANGED queues

\* pump: one task at a time, the first of the first lane that has one.  The
\* next starts before the caller of the last one goes on, as "then" says.
Ended(c, then) ==
    IF \A l \in DOMAIN queues : queues[l] = <<>>
    THEN running' = None /\ Set(c, then) /\ UNCHANGED queues
    ELSE \E k \in DOMAIN Lanes :
           /\ queues[Lanes[k]] # <<>>
           /\ \A j \in 1..(k - 1) : queues[Lanes[j]] = <<>>
           /\ running' = Head(queues[Lanes[k]])
           /\ queues' = [queues EXCEPT ![Lanes[k]] = Tail(@)]
           /\ call' = [call EXCEPT ![c] = then, ![Head(queues[Lanes[k]])].pc = "fetching"]

-----------------------------------------------------------------------------
(* hydrate, dehydrate *)

\* backingLayers: the ordinals behind the pattern, as the state file has them.
Begin(c, op, lane, ordinals) ==
    /\ MayBegin(c, op)
    /\ marks # None
    /\ LET want == IF op = "hydrate" THEN DOMAIN Manifests[marks.ver] \ marks.done ELSE marks.done
       IN  Set(c, [Idle EXCEPT !.op = op, !.pc = "load", !.lane = lane, !.ver = marks.ver,
                               !.got = marks.done, !.todo = ordinals \cap want])
    /\ UNCHANGED <<remote, twins, marks, view, queues, running, torn>>

Load(c) ==
    /\ At(c, "load")
    /\ IF LayersOf(call[c].ver, call[c].got) \subseteq twins
       THEN Set(c, [call[c] EXCEPT !.pc = "next", !.got = {}, !.any = call[c].todo # {}])
       ELSE Throws(c)
    /\ UNCHANGED <<remote, twins, marks, view, queues, running, torn>>

\* The targets in order; when something was done, a live mount is refreshed.
Next_(c) ==
    /\ At(c, "next")
    /\ \/ \E i \in call[c].todo :
            /\ \A j \in call[c].todo : i <= j
            /\ IF call[c].op = "hydrate"
               THEN Schedule(c, [call[c] EXCEPT !.at = i, !.todo = @ \ {i}]) /\ UNCHANGED twins
               ELSE /\ twins' = twins \ {Manifests[call[c].ver][i]}
                    /\ Set(c, [call[c] EXCEPT !.todo = @ \ {i}, !.got = @ \cup {i}])
                    /\ UNCHANGED <<queues, running>>
       \/ /\ call[c].todo = {}
          /\ IF call[c].op = "dehydrate" /\ call[c].any THEN Goto(c, "unmark")
             ELSE IF call[c].any /\ view # None THEN Goto(c, "remount") ELSE Throws(c)
          /\ UNCHANGED <<twins, queues, running>>
    /\ UNCHANGED <<remote, marks, view, torn>>

Remount(c) ==
    /\ At(c, "remount")
    /\ IF marks = None THEN Throws(c)
       ELSE Set(c, [call[c] EXCEPT !.pc = "mount", !.ver = marks.ver, !.got = marks.done])
    /\ UNCHANGED <<remote, twins, marks, view, queues, running, torn>>

\* dehydrate reads the state file again, drops its marks and writes all of it.
Unmark(c) ==
    /\ At(c, "unmark")
    /\ Set(c, IF ~(call[c].got \subseteq DOMAIN Manifests[marks.ver]) THEN Idle ELSE
                 [call[c] EXCEPT !.pc = "unmarkWrite", !.seen = [marks EXCEPT !.done = @ \ call[c].got]])
    /\ UNCHANGED <<remote, twins, marks, view, queues, running, torn>>

UnmarkWrite(c) ==
    /\ At(c, "unmarkWrite")
    /\ marks' = call[c].seen
    /\ IF view # None THEN Goto(c, "remount") ELSE Throws(c)
    /\ UNCHANGED <<remote, twins, view, queues, running, torn>>

-----------------------------------------------------------------------------
(* fetchLayer *)

\* The blob arrives, verifies and is stored; the lanes go on at once.
Fetched(c) ==
    /\ At(c, "fetching")
    /\ twins' = twins \cup {Manifests[call[c].ver][call[c].at]}
    /\ Ended(c, [call[c] EXCEPT !.pc = "mark"])
    /\ UNCHANGED <<remote, marks, view, torn>>

\* The error is swallowed and the layer is marked all the same.
FetchFails_Swallowed(c) ==
    /\ At(c, "fetching")
    /\ Ended(c, [call[c] EXCEPT !.pc = "mark"])
    /\ UNCHANGED <<remote, twins, marks, view, torn>>

\* The transfer fails: the task rejects and the lanes go on.
FetchFails(c) ==
    /\ At(c, "fetching")
    /\ Ended(c, Idle)
    /\ UNCHANGED <<remote, twins, marks, view, torn>>

\* The state file is read, one mark is set by ordinal and all of it is written.
Mark(c) ==
    /\ At(c, "mark")
    /\ Set(c, [call[c] EXCEPT !.pc = "markWrite", !.seen = marks])
    /\ UNCHANGED <<remote, twins, marks, view, queues, running, torn>>

MarkWrite(c) ==
    /\ At(c, "markWrite")
    /\ IF call[c].at \in DOMAIN Manifests[call[c].seen.ver]
       THEN /\ marks' = [call[c].seen EXCEPT !.done = @ \cup {call[c].at}]
            /\ Set(c, [call[c] EXCEPT !.pc = IF call[c].op = "read" THEN "answer" ELSE "next", !.seen = None])
       ELSE UNCHANGED marks /\ Throws(c)
    /\ UNCHANGED <<remote, twins, view, queues, running, torn>>

-----------------------------------------------------------------------------
(* Reading through the view *)

\* onDehydrated gets the ordinal of the view and looks it up in the state file.
Read(c, i) ==
    /\ MayBegin(c, "read")
    /\ view # None
    /\ i \in DOMAIN view.held /\ view.held[i] = None
    /\ marks # None /\ i \in DOMAIN Manifests[marks.ver]
    /\ LET asked == [Idle EXCEPT !.op = "read", !.at = i, !.ver = marks.ver, !.live = TRUE]
       IN  IF i \in marks.done
           THEN Set(c, [asked EXCEPT !.pc = "answer"]) /\ UNCHANGED <<queues, running>>
           ELSE Schedule(c, asked)
    /\ UNCHANGED <<remote, twins, marks, view, torn>>

\* The bytes go into the view's slot of that ordinal and stay there.
Answer(c) ==
    /\ At(c, "answer")
    /\ LET l == Manifests[call[c].ver][call[c].at]
       IN  view' = IF call[c].live /\ l \in twins THEN [view EXCEPT !.held[call[c].at] = l] ELSE view
    /\ Throws(c)
    /\ UNCHANGED <<remote, twins, marks, queues, running, torn>>

-----------------------------------------------------------------------------
(* The surroundings *)

Publish ==
    /\ remote < Len(Manifests)
    /\ remote' = remote + 1
    /\ UNCHANGED <<twins, marks, view, call, queues, running, torn>>

Deleting(c) ==
    /\ call[c].op = "dehydrate"
    /\ \/ At(c, "next") \/ At(c, "unmark") \/ At(c, "unmarkWrite")

\* The page or process stops; the store and the state file stay.
Crash ==
    /\ \E c \in Callers : ~At(c, "idle")
    /\ torn' = (torn \/ \E c \in Callers : Deleting(c))
    /\ view' = None
    /\ call' = [c \in Callers |-> Idle]
    /\ queues' = [l \in DOMAIN queues |-> <<>>]
    /\ running' = None
    /\ UNCHANGED <<remote, twins, marks>>

Work(c) ==
    \/ PullLayer(c) \/ PullSave(c) \/ Load(c) \/ Next_(c) \/ Mount(c) \/ Remount(c)
    \/ Unmark(c) \/ UnmarkWrite(c) \/ Mark(c) \/ MarkWrite(c) \/ Answer(c)

Transfer(c) == Fetched(c) \/ FetchFails(c)

Start(c) ==
    \/ PullBegin(c) \/ MountBegin(c)
    \/ \E k \in DOMAIN Lanes, s \in SUBSET Ordinals : Begin(c, "hydrate", Lanes[k], s)
    \/ \E s \in SUBSET Ordinals : Begin(c, "dehydrate", Lanes[1], s)
    \/ \E i \in Ordinals : Read(c, i)

Next == Publish \/ Crash \/ \E c \in Callers : Start(c) \/ Work(c) \/ Transfer(c)

Spec == Init /\ [][Next]_vars

\* Awaited calls return and a transfer ends, with an answer or an error.
Fairness == \A c \in Callers : WF_vars(Work(c)) /\ WF_vars(Transfer(c))

FairSpec == Spec /\ Fairness

-----------------------------------------------------------------------------
(* Properties *)

TypeOK ==
    /\ remote \in DOMAIN Manifests
    /\ twins \subseteq Layers
    /\ marks = None \/ marks.done \subseteq DOMAIN Manifests[marks.ver]
    /\ running \in Callers \cup {None}

\* A layer marked hydrated has its bytes, so that the ref can be mounted,
\* whatever hydrates and reads overlap.  A dehydrate in between its deletions
\* and its marks, or cut off there, is the exception, until the next pull.
HydratedIsPresent ==
    marks # None /\ ~torn /\ (\A c \in Callers : ~Deleting(c))
      => LayersOf(marks.ver, marks.done) \subseteq twins

\* A slot of the view never holds the bytes of another layer, also when a ref
\* that Grows was pulled again since the view was mounted.
ViewHoldsOwnLayers ==
    view # None => \A i \in DOMAIN view.held : view.held[i] \in {None, Manifests[view.ver][i]}

\* A transfer that waits in a low lane runs, once no more transfers keep coming
\* in the lanes before it, also when the one before it fails.
Queued(c) == At(c, "queued")
Before(k, l) == \E i, j \in DOMAIN Lanes : i < j /\ Lanes[i] = k /\ Lanes[j] = l
Overtaken(c) == \E d \in Callers : Queued(d) /\ Before(call[d].lane, call[c].lane)
LowLanesRun == \A c \in Callers : <>[](~Overtaken(c)) => (Queued(c) ~> ~Queued(c))

=============================================================================
