-------------------------------- MODULE Registry --------------------------------
(* The registry surface: createDistributionHandler                             *)
(* (src/src/server/distribution-handler.ts) with the seals of                  *)
(* src/src/server/serve.ts.  Clients upload blobs in chunks, put manifests      *)
(* under tags and delete tags; requests interleave at every await.             *)
(*                                                                             *)
(* A chunk is its offset, a digest is what it names: a sequence of chunks or a *)
(* manifest.  Time is abstracted: any session may have been idle for the       *)
(* upload TTL.  Reads, paging, authorization and malformed requests, none of   *)
(* which changes state, are left out.                                          *)
EXTENDS Naturals, Sequences

CONSTANTS Clients, Uploads, Tags,
          Manifests,   \* [m |-> [refs, subject]]: what a manifest names
          Sealed,      \* tags that the seal pattern matches
          MaxChunks,   \* bound: chunks in a file
          Overlap,     \* whether requests that move tags overlap
          None

RegistryAssumption ==
    /\ MaxChunks \in Nat
    /\ None \notin Uploads \cup Tags \cup DOMAIN Manifests \cup Nat \cup Seq(Nat)

Whole == [i \in 1..MaxChunks |-> i - 1]
Prefixes == {SubSeq(Whole, 1, n) : n \in 0..MaxChunks}

VARIABLES sessions,   \* ids of sessions: size per open session, None otherwise
          files,      \* temporary files, None where there is none
          blobs,      \* digests in the store
          tags,       \* manifest per tag, or None
          referrers,  \* pairs of a subject and a manifest
          call,       \* what each client's request is doing
          used,       \* history: ids handed out
          disturbed   \* history: sessions evicted, or with requests that overlapped

vars == <<sessions, files, blobs, tags, referrers, call, used, disturbed>>

Idle == [pc |-> "idle", op |-> None, up |-> None, at |-> 0, dig |-> None,
         tag |-> None]

Init ==
    /\ sessions = [u \in Uploads |-> None]
    /\ files = [u \in Uploads |-> None]
    /\ blobs = {}
    /\ tags = [t \in Tags |-> None]
    /\ referrers = {}
    /\ call = [c \in Clients |-> Idle]
    /\ used = {}
    /\ disturbed = {}

At(c, pc) == call[c].pc = pc
Set(c, f) == call' = [call EXCEPT ![c] = f]
Goto(c, pc) == Set(c, [call[c] EXCEPT !.pc = pc])
Answer(c) == Set(c, Idle)

-----------------------------------------------------------------------------
(* Upload sessions *)

\* evictExpired runs before every request for uploads and removes the session
\* and its file.
Without(gone, f) == [u \in Uploads |-> IF u \in gone THEN None ELSE f[u]]

Open == {u \in Uploads : sessions[u] # None}

\* POST opens a session with an empty file.
Post(c, gone) ==
    /\ At(c, "idle")
    /\ \E u \in Uploads \ used :
         /\ sessions' = [Without(gone, sessions) EXCEPT ![u] = 0]
         /\ files' = [Without(gone, files) EXCEPT ![u] = <<>>]
         /\ used' = used \cup {u}
    /\ disturbed' = disturbed \cup gone
    /\ UNCHANGED <<blobs, tags, referrers, call>>

\* POST with a digest: nobody else knows the session, so it is one step.
PostWhole(c, gone, content, digest) ==
    /\ At(c, "idle")
    /\ sessions' = Without(gone, sessions)
    /\ files' = Without(gone, files)
    /\ blobs' = IF content = digest THEN blobs \cup {digest} ELSE blobs
    /\ disturbed' = disturbed \cup gone
    /\ UNCHANGED <<tags, referrers, call, used>>

Busy(u) == \E d \in Clients : call[d].up = u

\* The range of a chunk is not compared.
Continues_Anything(u, offset) == sessions[u] >= 0

\* The range of a chunk continues the size that the session has at this time.
Continues(u, offset) == sessions[u] = offset

\* PATCH and PUT: refuse an offset that does not continue, or wait for the body.
Chunk(c, gone, u, offset, op, digest) ==
    /\ At(c, "idle")
    /\ sessions' = Without(gone, sessions)
    /\ files' = Without(gone, files)
    /\ u \in Open \ gone
    /\ IF Continues(u, offset)
       THEN Set(c, [Idle EXCEPT !.pc = "body", !.op = op, !.up = u, !.at = offset, !.dig = digest])
       ELSE UNCHANGED call
    /\ disturbed' = disturbed \cup gone \cup (IF Busy(u) THEN {u} ELSE {})
    /\ UNCHANGED <<blobs, tags, referrers, used>>

\* appendFile creates the file anew when the session was evicted meanwhile; a
\* PUT may come without a body.
AppendBody(c) ==
    /\ At(c, "body")
    /\ LET u == call[c].up
           content == IF files[u] = None THEN <<>> ELSE files[u]
       IN  \/ /\ Len(content) < MaxChunks
              /\ files' = [files EXCEPT ![u] = Append(content, call[c].at)]
              /\ Goto(c, "size")
           \/ /\ call[c].op = "put"
              /\ Goto(c, "complete")
              /\ UNCHANGED files
    /\ UNCHANGED <<sessions, blobs, tags, referrers, used, disturbed>>

\* The size follows the file; a session that is gone keeps its object only.
Resize(c) ==
    /\ At(c, "size")
    /\ LET u == call[c].up
       IN  sessions' = IF sessions[u] = None THEN sessions ELSE [sessions EXCEPT ![u] = @ + 1]
    /\ IF call[c].op = "put" THEN Goto(c, "complete") ELSE Answer(c)
    /\ UNCHANGED <<files, blobs, tags, referrers, used, disturbed>>

\* completeUpload stores what the file holds if it has the digest, removes the
\* file either way, and the session is dropped (one step: whoever comes in
\* between overlaps).  Without a file it throws, and the session stays.
Complete(c) ==
    /\ At(c, "complete")
    /\ LET u == call[c].up
       IN  IF files[u] = None
           THEN Answer(c) /\ UNCHANGED <<sessions, files, blobs>>
           ELSE /\ blobs' = IF files[u] = call[c].dig THEN blobs \cup {files[u]} ELSE blobs
                /\ files' = [files EXCEPT ![u] = None]
                /\ sessions' = [sessions EXCEPT ![u] = None]
                /\ Answer(c)
    /\ UNCHANGED <<tags, referrers, used, disturbed>>

-----------------------------------------------------------------------------
(* Manifests and tags *)

MovesTag(c) == call[c].tag # None

\* What has to be there before a manifest lands.
Named(m) == Manifests[m].refs

Listed(m) == IF Manifests[m].subject = None THEN {} ELSE {<<Manifests[m].subject, m>>}

\* PUT checks every blob that the manifest names and stores its bytes; blobs
\* are never removed, so that the checks count as one.
PutManifest(c, t, m) ==
    /\ At(c, "idle")
    /\ Overlap \/ \A d \in Clients : ~MovesTag(d)
    /\ IF Named(m) \subseteq blobs
       THEN /\ blobs' = blobs \cup {m}
            /\ Set(c, [Idle EXCEPT !.pc = "seal", !.op = "manifest", !.tag = t, !.dig = m])
       ELSE UNCHANGED <<blobs, call>>
    /\ UNCHANGED <<sessions, files, tags, referrers, used, disturbed>>

\* A manifest put under its digest moves no tag and is listed all the same.
PutByDigest(c, m) ==
    /\ At(c, "idle")
    /\ Named(m) \subseteq blobs
    /\ blobs' = blobs \cup {m}
    /\ referrers' = referrers \cup Listed(m)
    /\ UNCHANGED <<sessions, files, tags, call, used, disturbed>>

DeleteTag(c, t) ==
    /\ At(c, "idle")
    /\ Overlap \/ \A d \in Clients : ~MovesTag(d)
    /\ Set(c, [Idle EXCEPT !.pc = "seal", !.op = "delete", !.tag = t])
    /\ UNCHANGED <<sessions, files, blobs, tags, referrers, used, disturbed>>

\* isLocked of serve.ts: a sealed tag that exists is locked.
IsLocked(t) == t \in Sealed /\ tags[t] # None

Seal(c) ==
    /\ At(c, "seal")
    /\ IF IsLocked(call[c].tag) THEN Answer(c) ELSE Goto(c, "write")
    /\ UNCHANGED <<sessions, files, blobs, tags, referrers, used, disturbed>>

\* The last write wins; a manifest with a subject is listed as its referrer.
Write(c) ==
    /\ At(c, "write")
    /\ tags' = [tags EXCEPT ![call[c].tag] = call[c].dig]
    /\ referrers' = IF call[c].dig = None THEN referrers ELSE referrers \cup Listed(call[c].dig)
    /\ Answer(c)
    /\ UNCHANGED <<sessions, files, blobs, used, disturbed>>

\* The server stops: sessions and referrers are in memory.
Restart ==
    /\ call # [c \in Clients |-> Idle] \/ referrers # {} \/ \E u \in Uploads : sessions[u] # None
    /\ sessions' = [u \in Uploads |-> None]
    /\ files' = [u \in Uploads |-> None]
    /\ referrers' = {}
    /\ call' = [c \in Clients |-> Idle]
    /\ UNCHANGED <<blobs, tags, used, disturbed>>

Next ==
    \/ Restart
    \/ \E c \in Clients :
         \/ \E gone \in SUBSET Open :
              \/ Post(c, gone)
              \/ \E x, d \in Prefixes : PostWhole(c, gone, x, d)
              \/ \E u \in Uploads, k \in 0..MaxChunks :
                   \/ Chunk(c, gone, u, k, "patch", None)
                   \/ \E d \in Prefixes : Chunk(c, gone, u, k, "put", d)
         \/ AppendBody(c) \/ Resize(c) \/ Complete(c)
         \/ \E t \in Tags :
              \/ DeleteTag(c, t)
              \/ \E m \in DOMAIN Manifests : PutManifest(c, t, m)
         \/ \E m \in DOMAIN Manifests : PutByDigest(c, m)
         \/ Seal(c) \/ Write(c)

Spec == Init /\ [][Next]_vars

-----------------------------------------------------------------------------
(* Properties *)

TypeOK ==
    /\ DOMAIN sessions = Uploads /\ DOMAIN files = Uploads
    /\ \A t \in Tags : tags[t] \in DOMAIN Manifests \cup {None}
    /\ disturbed \subseteq used

\* A session that is used by one request at a time holds the chunks in order
\* and each once, also when a client sends a chunk again: the digest at the end
\* will match.
UploadsInOrder ==
    \A u \in Open \ disturbed : ~Busy(u) => files[u] = SubSeq(Whole, 1, sessions[u])

\* What a tag names, and what that manifest names, is in the store, whatever
\* requests overlap and whenever the server stops.
TagsComplete ==
    \A t \in Tags : tags[t] # None => {tags[t]} \cup Manifests[tags[t]].refs \subseteq blobs

\* A sealed tag is created once and then neither moves nor goes (serve.ts: tags
\* are "create-once"), as long as the requests that move tags do not overlap.
SealsHold == \A t \in Sealed : tags[t] # None => tags'[t] = tags[t]
SealedTagsStay == [][SealsHold]_vars

=============================================================================
