------------------------------- MODULE FolderSync -------------------------------
(* A published folder: publishDirectory and materializeRef                     *)
(* (src/src/server/folder.ts) as src/src/server/serve.ts runs them.  At boot   *)
(* the folder becomes a head of its ref; after every ref put the head is       *)
(* written back into the folder, file by file.  Users edit the folder at any   *)
(* time, jobs of several puts overlap, and the server stops and boots again.   *)
(*                                                                             *)
(* A tree gives per path a text and the second of its mtime, which tar keeps.  *)
(* Digests are positions in heads.  Pods push trees of any content; how puts   *)
(* of one ref meet is modelled in RefPush.  Modes, symlinks, groups, ignored   *)
(* and unsafe paths are left out.                                              *)
EXTENDS Naturals, Sequences, FiniteSets

CONSTANTS Paths, Texts,
          Order,       \* Paths in the order of their names, a sequence
          SameSize,    \* whether all texts have one size
          MaxTime,     \* bounds: the clock, heads, restarts, edits of the folder
          MaxHeads, MaxRestarts, MaxEdits,
          None

FolderAssumption ==
    /\ Order \in Seq(Paths)
    /\ \A p \in Paths : \E i \in DOMAIN Order : Order[i] = p
    /\ \A i, j \in DOMAIN Order : Order[i] = Order[j] => i = j
    /\ None \notin Nat \cup [text : Texts, mtime : Nat]

VARIABLES folder,    \* per path a file or None
          heads,     \* the manifests: tree and parents
          head,      \* what the ref names, 0 for nothing
          jobs,      \* the runs of materializeRef under way, by their number
          server,    \* "boot", "walked", "up"
          walked,    \* the mtimes that walkDir saw
          clock, restarts, edits,
          mirrored   \* history: each head since the boot had the folder for itself

vars == <<folder, heads, head, jobs, server, walked, clock, restarts, edits, mirrored>>

File(text, mtime) == [text |-> text, mtime |-> mtime]

Init ==
    /\ folder \in [Paths -> {None} \cup {File(x, 0) : x \in Texts}]
    /\ heads = <<>> /\ head = 0
    /\ jobs = {}
    /\ server = "boot"
    /\ walked = [p \in Paths |-> None]
    /\ clock = 0 /\ restarts = 0 /\ edits = 0
    /\ mirrored = FALSE

-----------------------------------------------------------------------------
(* publishDirectory *)

\* walkDir notes which files there are, and when they changed.
Walk ==
    /\ server = "boot"
    /\ server' = "walked"
    /\ walked' = [p \in Paths |-> IF folder[p] = None THEN None ELSE folder[p].mtime]
    /\ mirrored' = TRUE
    /\ UNCHANGED <<folder, heads, head, jobs, clock, restarts, edits>>

\* The texts are read afterwards; a file that has gone makes the boot fail.
Published == [p \in Paths |-> IF walked[p] = None THEN None ELSE File(folder[p].text, walked[p])]

\* A tree that the head has already is not published again.
Publish ==
    /\ server = "walked"
    /\ IF \E p \in Paths : walked[p] # None /\ folder[p] = None
       THEN /\ server' = "boot"
            /\ UNCHANGED <<heads, head>>
       ELSE /\ server' = "up"
            /\ IF head # 0 /\ heads[head].tree = Published
               THEN UNCHANGED <<heads, head>>
               ELSE /\ heads' = Append(heads, [tree |-> Published, parents |-> {head} \ {0}])
                    /\ head' = Len(heads) + 1
    /\ UNCHANGED <<folder, jobs, walked, clock, restarts, edits, mirrored>>

-----------------------------------------------------------------------------
(* A ref put and materializeRef *)

\* A pod pushes a head with one file changed, which becomes the ref's head: on
\* top of the head, or merged with a head that it had based its own on.
Put(p, f) ==
    /\ server = "up"
    /\ Len(heads) < MaxHeads
    /\ heads[head].tree[p] # f
    /\ \E other \in {0} \cup (1..Len(heads)) :
         heads' = Append(heads, [tree |-> [heads[head].tree EXCEPT ![p] = f], parents |-> {head, other} \ {0}])
    /\ head' = Len(heads) + 1
    /\ jobs' = jobs \cup {[of |-> Len(heads) + 1, head |-> 0, at |-> 0, stamp |-> FALSE]}
    /\ mirrored' = (mirrored /\ jobs = {})
    /\ UNCHANGED <<folder, server, walked, clock, restarts, edits>>

\* The job reads the head of its own moment.
Begin(j) ==
    /\ j.head = 0
    /\ jobs' = (jobs \ {j}) \cup {[j EXCEPT !.head = head, !.at = 1]}
    /\ UNCHANGED <<folder, heads, head, server, walked, clock, restarts, edits, mirrored>>

\* The times of files are not compared.
Skips_BySize(file, f) == file # None /\ (SameSize \/ file.text = f.text)

\* Identical size and second pass for identical content.
Skips(file, f) == file # None /\ file.mtime = f.mtime /\ (SameSize \/ file.text = f.text)

Advance(j) == jobs' = (jobs \ {j}) \cup {[j EXCEPT !.at = @ + 1, !.stamp = FALSE]}

\* The files of the head in order: write the bytes, then set the mtime.
WriteFile(j) ==
    /\ j.head # 0 /\ j.at <= Len(Order)
    /\ LET p == Order[j.at]
           f == heads[j.head].tree[p]
       IN  \/ /\ f = None
              /\ Advance(j)
              /\ UNCHANGED <<folder, mirrored>>
           \/ /\ f # None /\ ~j.stamp /\ Skips(folder[p], f)
              /\ Advance(j)
              /\ mirrored' = (mirrored /\ (folder[p].mtime = f.mtime => folder[p].text = f.text))
              /\ UNCHANGED folder
           \/ /\ f # None /\ ~j.stamp /\ ~Skips(folder[p], f)
              /\ folder' = [folder EXCEPT ![p] = File(f.text, clock)]
              /\ jobs' = (jobs \ {j}) \cup {[j EXCEPT !.stamp = TRUE]}
              /\ UNCHANGED mirrored
           \/ /\ f # None /\ j.stamp
              /\ folder' = [folder EXCEPT ![p] = IF @ = None THEN None ELSE File(@.text, f.mtime)]
              /\ Advance(j)
              /\ UNCHANGED mirrored
    /\ UNCHANGED <<heads, head, server, walked, clock, restarts, edits>>

\* Nothing that a parent has is removed.
Gone_Nothing(h) == {}

\* Then what a parent has and the head has not.
Gone(h) == {p \in Paths : heads[h].tree[p] = None /\ \E q \in heads[h].parents : heads[q].tree[p] # None}

RemoveFiles(j) ==
    /\ j.head # 0 /\ j.at > Len(Order)
    /\ \/ \E p \in Gone(j.head) :
            /\ folder[p] # None
            /\ folder' = [folder EXCEPT ![p] = None]
            /\ UNCHANGED jobs
       \/ /\ \A p \in Gone(j.head) : folder[p] = None
          /\ jobs' = jobs \ {j}
          /\ UNCHANGED folder
    /\ UNCHANGED <<heads, head, server, walked, clock, restarts, edits, mirrored>>

-----------------------------------------------------------------------------
(* The surroundings *)

\* Somebody edits or deletes a file of the folder.
Edit(p, x) ==
    /\ edits < MaxEdits
    /\ edits' = edits + 1
    /\ folder' = [folder EXCEPT ![p] = IF x = None THEN None ELSE File(x, clock)]
    /\ folder' # folder
    /\ mirrored' = FALSE
    /\ UNCHANGED <<heads, head, jobs, server, walked, clock, restarts>>

\* The server stops, whatever it is doing, and starts again.
Restart ==
    /\ restarts < MaxRestarts
    /\ restarts' = restarts + 1
    /\ server' = "boot"
    /\ jobs' = {}
    /\ mirrored' = FALSE
    /\ UNCHANGED <<folder, heads, head, walked, clock, edits>>

Tick ==
    /\ clock < MaxTime
    /\ clock' = clock + 1
    /\ UNCHANGED <<folder, heads, head, jobs, server, walked, restarts, edits, mirrored>>

Next ==
    \/ Walk \/ Publish \/ Restart \/ Tick
    \/ \E p \in Paths, x \in Texts \cup {None} :
         Edit(p, x) \/ Put(p, IF x = None THEN None ELSE File(x, clock))
    \/ \E j \in jobs : Begin(j) \/ WriteFile(j) \/ RemoveFiles(j)

Spec == Init /\ [][Next]_vars

-----------------------------------------------------------------------------
(* Properties *)

TypeOK ==
    /\ DOMAIN folder = Paths
    /\ head \in 0..Len(heads)
    /\ server \in {"boot", "walked", "up"}
    /\ \A h \in 1..Len(heads) : heads[h].parents \subseteq 1..(h - 1)

\* Between jobs the folder is the tree of the ref's head, mtimes included, so
\* that the next boot publishes nothing: as long as the jobs ran one by one,
\* nobody else touched the folder, and no two versions of a file look alike.
FolderMirrorsHead ==
    server = "up" /\ jobs = {} /\ mirrored => folder = heads[head].tree

=============================================================================
