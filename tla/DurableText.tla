---------------------------- MODULE DurableText ----------------------------
(***************************************************************************)
(* What a caller of writeStorageTextFile / readStorageTextFile may rely    *)
(* on (src/storage/text-file.ts): the pair of reserved names behaves like  *)
(* ONE durable register.  A write that has not been acknowledged may or    *)
(* may not have taken effect, an acknowledged one is durable, and nothing  *)
(* else is ever visible: not an absent file once a text has been saved,    *)
(* not a torn one, and not a text older than the last acknowledged one.    *)
(* A crash is a stuttering step here: it loses nothing that is visible.    *)
(***************************************************************************)
CONSTANTS Text,     \* the texts callers write
          NoFile    \* what a reader sees before the first write

VARIABLES val,        \* the text a restarted reader would see
          acked,      \* the text of the last acknowledged write
          attempted   \* texts of the writes begun since, not acknowledged

dvars == <<val, acked, attempted>>

DInit == val = NoFile /\ acked = NoFile /\ attempted = {}

\* A write begins.
DBegin == /\ \E t \in Text : attempted' = attempted \cup {t}
          /\ UNCHANGED <<val, acked>>

\* An unacknowledged write takes effect, at one instant.
DCommit == /\ val' \in attempted
           /\ UNCHANGED <<acked, attempted>>

\* A write is acknowledged: its text is the durable one, and the writes
\* that failed before it can no longer surface.
DAck == /\ val \in attempted
        /\ acked' = val
        /\ attempted' = {}
        /\ UNCHANGED val

DNext == DBegin \/ DCommit \/ DAck

DSpec == DInit /\ [][DNext]_dvars
============================================================================
