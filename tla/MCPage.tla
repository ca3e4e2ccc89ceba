-------------------------------- MODULE MCPage --------------------------------
(* The storage of a page and the life of its workspaces, one module at a time: *)
(* `part' says which of them a behaviour is about, while the others rest.  The *)
(* vault has two sources that may agree, conflict or complement each other;    *)
(* its constant sets are only compared and may be permuted.                    *)
EXTENDS VaultMigration, TLC

CONSTANTS None, Torn, Raw,
          SessionRoots, Protected, Views, MaxSwitches, \* Roots
          Files, Edits,                                \* Upper; Files also of Backs
          Procs, Names, Values,                        \* Native
          MaxOpens, MaxSpaces,                         \* Space, Shows
          MaxCalls, MaxEdits,                          \* Pushes
          MaxWrites, MaxMigrations                     \* Backs

VARIABLES part,
          stage, configuredRoot, rootConfiguration, previous, rawOperation, rootGeneration,
          captured, mounted,
          now, maybe, step, source, first, saved,
          lock, proc, visible, onDisk, acked, tried,
          openings, openingStage, cancelled, current, tail, after,
          edits, pushed, timer, offline, calls, push, followUp, page, promised, refused,
          spaces, live, inventory, table, modules, handlers, shownTable, by, broken,
          store, marked, pref, boot, writes, migrations, shown, whole, raced

Roots == INSTANCE StorageRoots WITH Roots <- SessionRoots
Upper == INSTANCE Uppers
Native == INSTANCE NativeStore
Space == INSTANCE Workspaces WITH opened <- openings, stage <- openingStage
Pushes == INSTANCE AutoPush WITH Slots <- MaxCalls
Shows == INSTANCE Namespaces WITH opened <- spaces, current <- shownTable, Shared <- FALSE
Backs == INSTANCE Backends WITH page <- boot, edits <- writes, MaxEdits <- MaxWrites
-------------------------------------------------------------------------------

root == <<stage, configuredRoot, rootConfiguration, previous, rawOperation, rootGeneration, captured, mounted>>
upper == <<now, maybe, step, source, first, saved>>
native == <<lock, proc, visible, onDisk, acked, tried>>
space == <<openings, openingStage, cancelled, current, tail, after>>
autopush == <<edits, pushed, timer, offline, calls, push, followUp, page, promised, refused>>
shows == <<spaces, live, inventory, table, modules, handlers, shownTable, by, broken>>
backings == <<store, marked, pref, boot, writes, migrations, shown, whole, raced>>

ASSUME PageAssumption ==
    /\ Roots!StorageRootsAssumption /\ Upper!UppersAssumption /\ Native!NativeStoreAssumption
    /\ Space!WorkspacesAssumption /\ Pushes!AutoPushAssumption /\ Shows!NamespacesAssumption
    /\ Backs!BackendsAssumption

PageInit ==
    /\ part \in {"vault", "roots", "uppers", "native", "spaces", "pushes", "proc", "backings"}
    /\ Init /\ (part # "vault" => legacy = [s \in Sources |-> EmptyTree])   \* one state to rest in
    /\ Roots!Init /\ Native!Init /\ Space!Init /\ Shows!Init
    /\ Upper!Init /\ (part # "uppers" => now.tree = {} /\ now.blocks = {})
    /\ Pushes!Init /\ (part # "pushes" => edits = 0 /\ ~offline)
    /\ Backs!Init /\ (part # "backings" => marked = {} /\ pref = "none" /\ \A s \in Backs!Stores : Backs!Held(s) = {})

PageNext ==
    /\ UNCHANGED part
    /\ \/ part = "vault" /\ Next /\ UNCHANGED <<root, upper, native, space, autopush, shows, backings>>
       \/ part = "roots" /\ Roots!Next /\ UNCHANGED <<vars, upper, native, space, autopush, shows, backings>>
       \/ part = "uppers" /\ Upper!Next /\ UNCHANGED <<vars, root, native, space, autopush, shows, backings>>
       \/ part = "native" /\ Native!Next /\ UNCHANGED <<vars, root, upper, space, autopush, shows, backings>>
       \/ part = "spaces" /\ Space!Next /\ UNCHANGED <<vars, root, upper, native, autopush, shows, backings>>
       \/ part = "pushes" /\ Pushes!Next /\ UNCHANGED <<vars, root, upper, native, space, shows, backings>>
       \/ part = "proc" /\ Shows!Next /\ UNCHANGED <<vars, root, upper, native, space, autopush, backings>>
       \/ part = "backings" /\ Backs!Next /\ UNCHANGED <<vars, root, upper, native, space, autopush, shows>>

PageSpec == PageInit /\ [][PageNext]_<<part, vars, root, upper, native, space, autopush, shows, backings>>

Symmetry == Permutations(Sources) \cup Permutations(Paths)
            \cup Permutations(Content) \cup Permutations(Gens)

\* The properties of the other modules, each with the module's type invariant.
RawStaysOutside == part = "roots" => Roots!TypeOK /\ Roots!RawStaysOutside
EditsGetPushed == part = "pushes" => Pushes!TypeOK /\ Pushes!EditsGetPushed

\* Whatever a crash or a loss of power cuts off, an old workspace is kept until its
\* new copy is committed, a record is what was acknowledged or begun last, and
\* every file that the user saw last is in one of the backing stores.
CrashesKeepData ==
    /\ part = "uppers" => Upper!TypeOK /\ Upper!UppersKept
    /\ part = "native" => Native!TypeOK /\ Native!RecordsKept
    /\ part = "backings" => Backs!TypeOK /\ Backs!FilesKept

\* What a page has one of belongs to its latest workspace: the mounts and, in
\* /proc, the names.
OnePageOwner ==
    /\ part = "spaces" => Space!TypeOK /\ Space!OneWorkspace
    /\ part = "proc" => Shows!TypeOK /\ Shows!LatestShown
===============================================================================
