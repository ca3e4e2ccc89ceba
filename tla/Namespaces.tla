------------------------------ MODULE Namespaces ------------------------------
(* What /proc shows of the namespaces of one page: openNamespace and           *)
(* registerLatest (src/src/proc/namespace.ts), registerProcessTable            *)
(* (src/src/proc/processes.ts) over the registry (src/src/proc/registry.ts).   *)
(* Provider names are unique; each namespace has providers of its own.         *)
EXTENDS Naturals

CONSTANTS MaxSpaces, \* bound: namespaces opened
          Shared     \* TRUE: namespaces may adopt one process table

NamespacesAssumption == MaxSpaces \in Nat /\ Shared \in BOOLEAN

Spaces == 1..MaxSpaces
Slots == {"identity", "processes", "inventory"}

VARIABLES opened,     \* namespaces so far
          live,       \* those not disposed
          inventory,  \* those that have an inventory
          table,      \* per namespace, its process table, named for its first owner
          modules,    \* the registry: per name, the namespace whose provider it is, or 0
          handlers,   \* unregisterBy: namespaces and names with an off() on record
          current,    \* the registered table, and who unregisters it; 0 is nobody
          by,
          broken      \* history: an opening threw, the name being registered

vars == <<opened, live, inventory, table, modules, handlers, current, by, broken>>

Init ==
    /\ opened = 0 /\ live = {} /\ inventory = {} /\ handlers = {} /\ broken = FALSE
    /\ table = [n \in Spaces |-> n]
    /\ modules = [s \in Slots |-> 0] /\ current = 0 /\ by = 0

\* registerProcessTable takes the last one's provider out, registerLatest the one
\* that holds the name, if it is known how.
Cleared(slot) ==
    IF slot = "processes" THEN modules[slot] = 0 \/ modules[slot] = by
    ELSE modules[slot] = 0 \/ <<modules[slot], slot>> \in handlers

\* The names are registered in this order; one that is taken ends the opening, and
\* what was registered before stays.
Rank == [identity |-> 1, processes |-> 2, inventory |-> 3]

Registered(names) == {s \in names : \A r \in names : Rank[r] <= Rank[s] => Cleared(r)}

Open(own, t) ==
    /\ opened < MaxSpaces /\ opened' = opened + 1
    /\ own \subseteq {opened'} /\ inventory' = inventory \cup own
    /\ t = opened' \/ (Shared /\ t \in 1..opened /\ table[t] = t)
    /\ table' = [table EXCEPT ![opened'] = t]
    /\ LET names == {"identity", "processes"} \cup (IF own # {} THEN {"inventory"} ELSE {})
           done == Registered(names)
       IN  /\ modules' = [s \in Slots |-> IF s \in done THEN opened' ELSE modules[s]]
           /\ handlers' = handlers \cup ({opened'} \X (done \ {"processes"}))
           /\ IF "processes" \in done THEN current' = t /\ by' = opened' ELSE UNCHANGED <<current, by>>
           /\ live' = IF done = names THEN live \cup {opened'} ELSE live
           /\ broken' = (broken \/ done # names)

\* What off() of a namespace leaves of the registry: only its own providers go.
Left(n) == [s \in Slots |-> IF modules[s] = n /\ (s = "processes" => current = table[n]) THEN 0 ELSE modules[s]]

\* off() that does not look whose provider it is.
Left_Any(n) == [s \in Slots |-> IF s = "inventory" => n \in inventory THEN 0 ELSE modules[s]]

Dispose(n) ==
    /\ n \in live /\ live' = live \ {n}
    /\ modules' = Left(n)
    /\ handlers' = {h \in handlers : h[1] # n}
    /\ IF current = table[n] THEN current' = 0 /\ by' = 0 ELSE UNCHANGED <<current, by>>
    /\ UNCHANGED <<opened, inventory, table, broken>>

Next ==
    \/ \E own \in {{}, {opened + 1}}, t \in Spaces : Open(own, t)
    \/ \E n \in Spaces : Dispose(n)

Spec == Init /\ [][Next]_vars

-------------------------------------------------------------------------------
(* Properties *)

TypeOK ==
    /\ opened \in 0..MaxSpaces /\ live \subseteq 1..opened /\ inventory \subseteq 1..opened
    /\ modules \in [Slots -> 0..opened] /\ by \in 0..opened /\ current \in 0..opened

\* While it lives, the namespace that was opened last is the one that /proc shows;
\* nothing is shown of a namespace that was disposed of, in whatever order, and no
\* opening finds a name taken.
LatestShown ==
    /\ ~broken
    /\ opened \in live => /\ modules["identity"] = opened /\ modules["processes"] = opened
                          /\ opened \in inventory => modules["inventory"] = opened
    /\ \A s \in Slots : modules[s] # 0 => modules[s] \in live
===============================================================================
