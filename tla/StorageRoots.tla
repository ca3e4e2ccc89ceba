----------------------------- MODULE StorageRoots -----------------------------
(* Who may touch the one file system of the process: the exclusion between a   *)
(* storage session that configures its root and the raw operations and raw     *)
(* views of older callers (src/src/storage/context.ts), with their callers in  *)
(* src/src/sandbox/storage.ts, src/src/realize/zenfs.ts and                    *)
(* src/src/storage/session.ts.  Between any two steps the code awaits.         *)
(*                                                                             *)
(* Left out: the explicit policies, which only refuse more, and mounts below   *)
(* the root.  A configure() that fails has mounted nothing (ZenFS).            *)
EXTENDS Naturals

CONSTANTS Roots,      \* roots of sessions, one each
          Protected,  \* those that are encrypted or volatile
          Views,      \* raw consumers: stores and text files
          None, Raw,  \* no root; the root that a raw operation mounts
          MaxSwitches \* bound of the root generation

StorageRootsAssumption ==
    /\ Protected \subseteq Roots /\ None \notin Roots /\ Raw \notin Roots /\ None # Raw
    /\ MaxSwitches \in Nat

VARIABLES stage,          \* per root, how far its session is
          configuredRoot,
          rootConfiguration, \* the root whose configuration is reserved, or None
          previous,       \* configuredRoot before the reservation
          rawOperation,   \* "none", one that may not, or one that may run
                          \*   beside a protected root
          rootGeneration,
          captured,       \* per view, the generation that it captured
          mounted         \* what the file system really reads and writes

vars == <<stage, configuredRoot, rootConfiguration, previous, rawOperation, rootGeneration, captured, mounted>>

Init ==
    /\ stage = [r \in Roots |-> "new"]
    /\ configuredRoot = None /\ rootConfiguration = None /\ previous = None
    /\ rawOperation = "none" /\ rootGeneration = 0 /\ mounted = None
    /\ captured = [v \in Views |-> 0]

Owned(r) == r \in Roots /\ stage[r] \in {"registered", "reserved", "open"}
Exposed(r) == Owned(r) /\ r \in Protected

\* assertRawStorageOperation
RawAllowed == rootConfiguration = None /\ ~Exposed(configuredRoot)

\* captureRawStorageAccess: the check before each operation of a view.
Passes(v) == captured[v] = rootGeneration /\ RawAllowed

SwitchTo(r) == rootGeneration' = rootGeneration + (IF configuredRoot = r THEN 0 ELSE 1)
MaySwitch == rootGeneration < MaxSwitches

-------------------------------------------------------------------------------
(* A session *)

\* Its vault is open; registerStorageRoot.
Register(r) ==
    /\ stage[r] = "new" /\ stage' = [stage EXCEPT ![r] = "registered"]
    /\ UNCHANGED <<configuredRoot, rootConfiguration, previous, rawOperation, rootGeneration, captured, mounted>>

Free(r) == rootConfiguration = None /\ (configuredRoot = r \/ ~Owned(configuredRoot))

Reserved(r) ==
    /\ MaySwitch /\ SwitchTo(r)
    /\ stage' = [stage EXCEPT ![r] = "reserved"]
    /\ rootConfiguration' = r /\ configuredRoot' = r /\ previous' = configuredRoot
    /\ UNCHANGED <<rawOperation, captured, mounted>>

\* reserveStorageRoot that does not look for a raw operation.
Reserve_BesideRaw(r) == stage[r] = "registered" /\ Free(r) /\ Reserved(r)

Reserve(r) == stage[r] = "registered" /\ rawOperation = "none" /\ Free(r) /\ Reserved(r)

\* It throws, and the session gives up.
Refused(r) ==
    /\ stage[r] = "registered" /\ ~(rawOperation = "none" /\ Free(r))
    /\ stage' = [stage EXCEPT ![r] = "closed"]
    /\ UNCHANGED <<configuredRoot, rootConfiguration, previous, rawOperation, rootGeneration, captured, mounted>>

\* configure() has answered; activateStorageRoot.
Configured(r) ==
    /\ stage[r] = "reserved" /\ SwitchTo(r)
    /\ stage' = [stage EXCEPT ![r] = "open"]
    /\ configuredRoot' = r /\ rootConfiguration' = None /\ mounted' = r
    /\ UNCHANGED <<previous, rawOperation, captured>>

\* It throws: the reservation is taken back, the session closes later.
ConfigureFails(r) ==
    /\ stage[r] = "reserved"
    /\ stage' = [stage EXCEPT ![r] = "failed"]
    /\ rootConfiguration' = IF rootConfiguration = r THEN None ELSE rootConfiguration
    /\ configuredRoot' = IF rootConfiguration = r /\ configuredRoot = r THEN previous ELSE configuredRoot
    /\ UNCHANGED <<previous, rawOperation, rootGeneration, captured, mounted>>

\* The session gives its root up; it stays mounted, and answers nobody.
Close(r) ==
    /\ stage[r] = "open" /\ stage' = [stage EXCEPT ![r] = "closed"]
    /\ UNCHANGED <<configuredRoot, rootConfiguration, previous, rawOperation, rootGeneration, captured, mounted>>

-------------------------------------------------------------------------------
(* Everybody else *)

\* beginRawStorageOperation
Begin(kind) ==
    /\ rawOperation = "none" /\ rootConfiguration = None
    /\ kind = "full" => RawAllowed
    /\ rawOperation' = kind
    /\ UNCHANGED <<stage, configuredRoot, rootConfiguration, previous, rootGeneration, captured, mounted>>

\* initFileSystem, mountBackend("/") or realizeRawZenFs: the root is mounted, and
\* activated in the same step.
MountRaw ==
    /\ rawOperation = "full" /\ MaySwitch
    /\ mounted' = Raw /\ SwitchTo(Raw) /\ configuredRoot' = Raw /\ rootConfiguration' = None
    /\ UNCHANGED <<stage, previous, rawOperation, captured>>

Release ==
    /\ rawOperation # "none" /\ rawOperation' = "none"
    /\ UNCHANGED <<stage, configuredRoot, rootConfiguration, previous, rootGeneration, captured, mounted>>

\* A text file or a store binds itself to the file system.
Capture(v) ==
    /\ captured[v] # rootGeneration
    /\ captured' = [captured EXCEPT ![v] = rootGeneration]
    /\ UNCHANGED <<stage, configuredRoot, rootConfiguration, previous, rawOperation, rootGeneration, mounted>>

Next ==
    \/ \E r \in Roots : Register(r) \/ Reserve(r) \/ Refused(r) \/ Configured(r) \/ ConfigureFails(r) \/ Close(r)
    \/ \E kind \in {"full", "beside"} : Begin(kind)
    \/ MountRaw \/ Release
    \/ \E v \in Views : Capture(v)

Spec == Init /\ [][Next]_vars

-------------------------------------------------------------------------------
(* Properties *)

TypeOK ==
    /\ stage \in [Roots -> {"new", "registered", "reserved", "open", "failed", "closed"}]
    /\ {configuredRoot, previous, mounted} \subseteq Roots \cup {None, Raw}
    /\ rootConfiguration \in Roots \cup {None}
    /\ rawOperation \in {"none", "full", "beside"}
    /\ rootGeneration \in 0..(MaxSwitches + 1) /\ captured \in [Views -> 0..(MaxSwitches + 1)]

\* No raw operation and no raw view ever works on the root of a protected session,
\* whatever they captured or began before, and the root of an open session is the
\* one that is mounted, until it closes.
RawStaysOutside ==
    /\ rawOperation = "full" => rootConfiguration = None /\ ~Exposed(mounted)
    /\ \A v \in Views : Passes(v) => ~Exposed(mounted)
    /\ \A r \in Protected : stage[r] = "open" => mounted = r /\ configuredRoot = r
===============================================================================
